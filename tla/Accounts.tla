------------------------------ MODULE Accounts ------------------------------
(***************************************************************************)
(* Balances (enforced_balance.rs), user accounts (user_account.rs) and     *)
(* what each LedgerCommand does to them (GlobalLedger::apply_transaction). *)
(* An operation returns the accounts it leaves behind and how it ended:    *)
(* "ok", "err" (refused, possibly after part of it was done) or "panic".   *)
(* A missing account or asset is a balance of zero: no command of the      *)
(* model moves an amount of zero, so both are refused alike.               *)
(***************************************************************************)
EXTENDS Integers, Sequences, SequencesExt

CONSTANTS
    Users,
    MaxU64      \* the largest u64

ASSUME AccountsAssumption == MaxU64 \in Nat \ {0}

Asset == {"base", "quote"}
Balance == [avail : 0..MaxU64, frozen : 0..MaxU64]
NoBalance == [avail |-> 0, frozen |-> 0]
NoAccounts == [u \in Users |-> [a \in Asset |-> NoBalance]]

-----------------------------------------------------------------------------
(* LedgerCommand.  A Batch may hold another one; one level is modelled. *)

Units == 1..MaxU64

SimpleCommand ==
    [op : {"Deposit", "Withdraw", "Lock", "Unlock"}, user : Users, asset : Asset, amount : Units]

TradeCommand ==
    [op : {"TradeSettle"}, user : Users, spend_asset : Asset, spend_amount : Units,
     gain_asset : Asset, gain_amount : Units]

ExecCommand ==
    [op : {"MatchExec"}, buyer : Users, seller : Users, price : Units, qty : Units,
     buyer_refund : 0..MaxU64, seller_refund : 0..MaxU64]

OneCommand == SimpleCommand \cup TradeCommand \cup ExecCommand \cup [op : {"OrderUpdate"}]

\* the commands that hold a sequence of commands
Nested == {"MatchExecBatch", "Batch"}

Command ==
    OneCommand \cup [op : {"MatchExecBatch"}, cmds : Seq(ExecCommand)]
               \cup [op : {"Batch"}, cmds : Seq(OneCommand)]

-----------------------------------------------------------------------------
(* Balance: the steps of an operation that come before a failing one stay. *)

Ok(b)  == [res |-> "ok", bal |-> b]
Err(b) == [res |-> "err", bal |-> b]

\* Mutant: the sum is not checked.
depositUnchecked(b, n) == Ok([b EXCEPT !.avail = @ + n])

deposit(b, n) ==
    IF b.avail + n > MaxU64 THEN Err(b) ELSE Ok([b EXCEPT !.avail = @ + n])

withdraw(b, n) ==
    IF b.avail < n THEN Err(b) ELSE Ok([b EXCEPT !.avail = @ - n])

lock(b, n) ==
    LET taken == [b EXCEPT !.avail = @ - n]
    IN  IF b.avail < n THEN Err(b)
        ELSE IF b.frozen + n > MaxU64 THEN Err(taken)
        ELSE Ok([taken EXCEPT !.frozen = @ + n])

unlock(b, n) ==
    LET taken == [b EXCEPT !.frozen = @ - n]
    IN  IF b.frozen < n THEN Err(b)
        ELSE IF b.avail + n > MaxU64 THEN Err(taken)
        ELSE Ok([taken EXCEPT !.avail = @ + n])

spend_frozen(b, n) ==
    IF b.frozen < n THEN Err(b) ELSE Ok([b EXCEPT !.frozen = @ - n])

-----------------------------------------------------------------------------
(* Accounts: results carry the whole table. *)

Done(acc) == [res |-> "ok", acc |-> acc]

\* the accounts after an operation on the balance of get_balance_mut(a)
On(acc, u, a, r) == [res |-> r.res, acc |-> [acc EXCEPT ![u][a] = r.bal]]

\* go on only if the step before succeeded (the ? operator)
Try(r, f(_)) == IF r.res = "ok" THEN f(r.acc) ELSE r

\* check_buyer_balance and check_seller_balance; the sum wraps
Holds(acc, u, a, spend, refund) ==
    acc[u][a].frozen >= (spend + refund) % (MaxU64 + 1)

\* Mutant: the refund is spent, not unlocked.
SettleAsSpendingRefund(acc, u, spendAsset, spend, gainAsset, gain, refund) ==
    Try(On(acc, u, spendAsset, spend_frozen(acc[u][spendAsset], spend + refund)), LAMBDA t1 :
        On(t1, u, gainAsset, deposit(t1[u][gainAsset], gain)))

\* settle_as_buyer (spends quote, gains base) and settle_as_seller
SettleAs(acc, u, spendAsset, spend, gainAsset, gain, refund) ==
    Try(On(acc, u, spendAsset, spend_frozen(acc[u][spendAsset], spend)), LAMBDA t1 :
    Try(On(t1, u, gainAsset, deposit(t1[u][gainAsset], gain)), LAMBDA t2 :
        IF refund = 0 THEN Done(t2)
        ELSE On(t2, u, spendAsset, unlock(t2[u][spendAsset], refund))))

\* a step that fails after the checks passed panics (expect)
Expect(r) == IF r.res = "ok" THEN r ELSE [r EXCEPT !.res = "panic"]

\* apply_match_exec
apply_match_exec(acc, x) ==
    LET cost == x.price * x.qty
    IN  IF \/ cost > MaxU64
           \/ ~Holds(acc, x.buyer, "quote", cost, x.buyer_refund)
           \/ ~Holds(acc, x.seller, "base", x.qty, x.seller_refund)
          THEN [res |-> "err", acc |-> acc]
          ELSE Try(Expect(SettleAs(acc, x.buyer, "quote", cost, "base", x.qty, x.buyer_refund)),
                   LAMBDA t : Expect(SettleAs(t, x.seller, "base", x.qty, "quote", cost,
                                              x.seller_refund)))

\* TradeSettle: the gain is credited with its error ignored
TradeSettle(acc, c) ==
    LET spent == spend_frozen(acc[c.user][c.spend_asset], c.spend_amount)
    IN  Try(On(acc, c.user, c.spend_asset, spent), LAMBDA t :
            LET gained == deposit(t[c.user][c.gain_asset], c.gain_amount)
            IN  Done(On(t, c.user, c.gain_asset, gained).acc))

\* the commands that move one balance
ApplySimple(acc, c) ==
    LET b == acc[c.user][c.asset]
    IN  On(acc, c.user, c.asset, CASE c.op = "Deposit"  -> deposit(b, c.amount)
                                   [] c.op = "Withdraw" -> withdraw(b, c.amount)
                                   [] c.op = "Lock"     -> lock(b, c.amount)
                                   [] c.op = "Unlock"   -> unlock(b, c.amount))

\* the commands that hold no other command
ApplyOne(acc, c) ==
    CASE c.op = "TradeSettle" -> TradeSettle(acc, c)
      [] c.op = "MatchExec"   -> apply_match_exec(acc, c)
      [] c.op = "OrderUpdate" -> Done(acc)
      [] OTHER                -> ApplySimple(acc, c)

\* one after the other until one fails; what was done before it stays
ApplyEach(acc, cmds) ==
    FoldLeft(LAMBDA r, c : Try(r, LAMBDA t : ApplyOne(t, c)), Done(acc), cmds)

apply_transaction(acc, c) ==
    IF c.op \in Nested THEN ApplyEach(acc, c.cmds) ELSE ApplyOne(acc, c)

\* a sequence of commands, the ones that hold others included
ApplyAll(acc, cmds) ==
    FoldLeft(LAMBDA r, c : Try(r, LAMBDA t : apply_transaction(t, c)), Done(acc), cmds)
=============================================================================
