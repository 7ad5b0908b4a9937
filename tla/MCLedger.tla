------------------------------ MODULE MCLedger ------------------------------
\* Ledger with a buyer and a seller: deposits, locks, a trade below the
\* buyer's limit, and calls that are refused, fail half way or overflow.
EXTENDS Ledger

Simple(op, u, a, n) == [op |-> op, user |-> u, asset |-> a, amount |-> n]
Exec(price, refund) ==
    [op |-> "MatchExec", buyer |-> "alice", seller |-> "bob", price |-> price, qty |-> 1,
     buyer_refund |-> refund, seller_refund |-> 0]

\* both sides of a trade are funded and locked
Setup == [op |-> "Batch",
          cmds |-> <<Simple("Deposit", "alice", "quote", 2), Simple("Lock", "alice", "quote", 2),
                     Simple("Deposit", "bob", "base", 1), Simple("Lock", "bob", "base", 1)>>]
DepositQuote == Simple("Deposit", "bob", "quote", 2)
Unlock == Simple("Unlock", "alice", "quote", 1)
OneSided == [op |-> "TradeSettle", user |-> "alice", spend_asset |-> "quote", spend_amount |-> 1,
             gain_asset |-> "base", gain_amount |-> 1]
Update == [op |-> "OrderUpdate"]

\* with MaxU64 = 2 the trade overflows a seller who has a deposit; the second
\* trade of the batch is refused after the first was done
MCCommands ==
    {Setup, Exec(1, 1), DepositQuote,
     [op |-> "MatchExecBatch", cmds |-> <<Exec(1, 0), Exec(1, 0)>>]}

MCBatches == {<<Unlock, Simple("Withdraw", "alice", "quote", 1)>>, <<OneSided, Update>>}
=============================================================================
