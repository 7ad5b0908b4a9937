------------------------------ MODULE UbsCore ------------------------------
(***************************************************************************)
(* UBSCore, the authority on user balances, with its write-ahead log       *)
(* (UBSCore::with_wal): deposits, withdrawals and process_order_durable,   *)
(* which validates an order, locks its funds, appends it to the log,       *)
(* flushes, and hands it to the publisher of the matching engine's topic.  *)
(* UBSCore is single-threaded; what interrupts it is the process ending    *)
(* between two of these steps, and a flush the disk refuses.  One symbol   *)
(* is registered.  Balances, the deduplication cache and the log's buffer  *)
(* are lost with the process; only the log file outlives it.  The rest of  *)
(* its interface (apply_balance_delta, unlock_funds, settle_trade), which  *)
(* the matching side is to call, is called for orders that UBSCore         *)
(* accepted and that are still open.                                       *)
(***************************************************************************)
EXTENDS Integers, Sequences, FiniteSets, SequencesExt, FiniteSetsExt

CONSTANTS
    Users,
    Order,        \* the orders clients send: order_id -> order
    MaxU64,       \* u64::MAX; also bounds the supply of an asset
    CacheSize,    \* DeduplicationGuard's CACHE_SIZE
    MaxDrift,     \* MAX_TIME_DRIFT_MS, in ticks of the clock
    MaxAhead,     \* how far in the future an order's timestamp may be
    BufferSize,   \* entries the log's buffer holds
    QueueSize,    \* ORDER_QUEUE_SIZE
    MaxNow,       \* bound: the clock
    MaxSent,      \* bound: orders sent, the ones sent again included
    MaxFaults,    \* bound: process ends and refused flushes
    Deltas,       \* bound: the <<asset, delta>> of apply_balance_delta's calls
    MaxDebt,      \* bound: all debts in an asset
    MaxWraps      \* bound: sums of apply_balance_delta beyond an i64, by asset

OrderIds == DOMAIN Order
AssetIds == {"base", "quote"}
Sides == {"Buy", "Sell"}

ASSUME UbsAssumption ==
    /\ IsFiniteSet(Users) /\ IsFiniteSet(OrderIds)
    /\ {CacheSize, BufferSize, QueueSize} \subseteq Nat \ {0}
    /\ Deltas \subseteq AssetIds \X Int
    /\ {MaxU64, MaxDrift, MaxAhead, MaxNow, MaxSent, MaxFaults, MaxDebt} \subseteq Nat
    /\ MaxWraps \in Nat
    /\ \A o \in OrderIds : /\ Order[o].user \in Users
                           /\ Order[o].side \in Sides
                           /\ {Order[o].price, Order[o].qty, Order[o].ts} \subseteq Nat

NoOrder == "none"

VARIABLES
    accounts,    \* users with an account
    avail, frozen, \* accounts' balances, by user and asset
    debt,        \* debt_ledger, by user and asset
    cache,       \* dedup_guard.cache, in insertion order
    minTs,       \* dedup_guard.min_allowed_ts
    buffer,      \* the log's buffer
    file,        \* the log file
    order,       \* the order process_order_durable is working on
    pc,          \* its next step: "idle", "flush" or "queue"
    queue,       \* order_tx: orders the publisher has yet to take
    now,
    seen,        \* history: orders this process recorded in the cache
    accepted,    \* history: orders accepted, by life of the process
    net,         \* history: money in less money out, by asset
    wraps,       \* history: sums that did not fit in an i64, by asset
    closed,      \* history: how often each order was unlocked or settled
    sent, faults \* bounds

fundsVars == <<accounts, avail, frozen, debt, net, wraps, closed>>
coreVars == <<fundsVars, cache, minTs>>
walVars == <<buffer, file>>
vars == <<coreVars, walVars, order, pc, queue, now, seen, accepted, sent, faults>>

Nothing == [u \in Users |-> [a \in AssetIds |-> 0]]
NoMoney == [a \in AssetIds |-> 0]
NoneClosed == [o \in OrderIds |-> 0]

Init ==
    /\ accounts = {} /\ avail = Nothing /\ frozen = Nothing /\ debt = Nothing
    /\ net = NoMoney /\ wraps = NoMoney /\ closed = NoneClosed
    /\ cache = <<>> /\ minTs = 0
    /\ buffer = <<>>
    /\ file = <<>>
    /\ order = NoOrder /\ pc = "idle"
    /\ queue = <<>>
    /\ now = 0
    /\ seen = {} /\ accepted = <<<<>>>>
    /\ sent = 0 /\ faults = 0

-----------------------------------------------------------------------------
(***************************************************************************)
(* DeduplicationGuard.  The order_id carries its creation time.  A full    *)
(* cache gives up the entry inserted last (IndexSet::pop).                 *)
(***************************************************************************)

TooOld(o) == now - Order[o].ts > MaxDrift \/ Order[o].ts < minTs
FutureTimestamp(o) == Order[o].ts > now + MaxAhead
Duplicate(o) == o \in Range(cache)

Full == Len(cache) >= CacheSize

\* Mutant: nothing is evicted.
RecordAll(o) ==
    /\ cache' = Append(cache, o)
    /\ UNCHANGED minTs

\* Mutant: the evicted entry leaves no watermark.
RecordForgets(o) ==
    /\ cache' = IF Full THEN Append(Front(cache), o) ELSE Append(cache, o)
    /\ UNCHANGED minTs

\* steps 5 and 6 of check_and_record
Record(o) ==
    /\ cache' = IF Full THEN Append(Front(cache), o) ELSE Append(cache, o)
    /\ minTs' = IF Full THEN Max({minTs, Order[Last(cache)].ts}) ELSE minTs

-----------------------------------------------------------------------------
(***************************************************************************)
(* Balances.                                                               *)
(***************************************************************************)

\* Mutant: calculate_cost wraps instead of saturating.
CostWraps(o) ==
    IF Order[o].side = "Sell" THEN Order[o].qty
    ELSE (Order[o].price * Order[o].qty) % (MaxU64 + 1)

\* calculate_cost: a product that does not fit in 64 bits becomes u64::MAX
Cost(o) ==
    IF Order[o].side = "Sell" THEN Order[o].qty
    ELSE Min({Order[o].price * Order[o].qty, MaxU64})

LockAsset(o) == IF Order[o].side = "Buy" THEN "quote" ELSE "base"

\* what all users together have of an asset in a table of balances
Total(table, a) == SumFunctionOnSet([u \in Users |-> table[u][a]], Users)

Supply(a) == Total(avail, a) + Total(frozen, a)

Debts(a) == Total(debt, a)

Shift(table, u, a, n) == [table EXCEPT ![u][a] = @ + n]

\* pay_debt: what of n goes to the debt and what is left
pay_debt(u, a, n) ==
    LET paid == Min({n, debt[u][a]})
    IN  [paid |-> paid, remaining |-> n - paid]

\* on_deposit; the supply of an asset fits in 64 bits (Next sees to it), so no
\* addition overflows
Deposit(u, a, n) ==
    LET p == pay_debt(u, a, n)
    IN  /\ pc = "idle"
        /\ accounts' = IF p.remaining > 0 THEN accounts \cup {u} ELSE accounts
        /\ avail' = Shift(avail, u, a, p.remaining)
        /\ debt' = Shift(debt, u, a, -p.paid)
        /\ net' = [net EXCEPT ![a] = @ + n]
        /\ UNCHANGED <<frozen, wraps, closed, cache, minTs, walVars, order, pc, queue, now, seen,
                       accepted, sent, faults>>

\* on_withdraw, when it does not refuse; a debt is no reason to
Withdraw(u, a, n) ==
    /\ pc = "idle"
    /\ u \in accounts
    /\ avail[u][a] >= n
    /\ avail' = Shift(avail, u, a, -n)
    /\ net' = [net EXCEPT ![a] = @ - n]
    /\ UNCHANGED <<accounts, frozen, debt, wraps, closed, cache, minTs, walVars, order, pc,
                   queue, now, seen, accepted, sent, faults>>

\* a number up to u64::MAX as an i64; negative ones stay what they are
AsI64(n) == IF n > MaxU64 \div 2 THEN n - (MaxU64 + 1) ELSE n

\* apply_balance_delta: what the balance does not cover becomes a debt.  The
\* balance is cast to an i64 and the delta added to it, which wraps around (in a
\* release build): a sum beyond i64::MAX is negative, so that the whole balance
\* goes and a debt is recorded.
apply_balance_delta(u, a, d) ==
    LET expected == AsI64(avail[u][a] + d)
        wrap == IF expected = avail[u][a] + d THEN 0 ELSE 1
    IN  /\ pc = "idle"
        /\ Supply(a) + d <= MaxU64
        /\ Debts(a) - expected <= MaxDebt
        /\ wraps[a] + wrap <= MaxWraps
        /\ accounts' = accounts \cup {u}
        /\ avail' = [avail EXCEPT ![u][a] = Max({expected, 0})]
        /\ debt' = Shift(debt, u, a, Max({-expected, 0}))
        /\ net' = [net EXCEPT ![a] = @ + d]
        /\ wraps' = [wraps EXCEPT ![a] = @ + wrap]
        /\ UNCHANGED <<frozen, closed, cache, minTs, walVars, order, pc, queue, now, seen,
                       accepted, sent, faults>>

\* lock_funds: from available to frozen
Lock(o) ==
    LET u == Order[o].user  a == LockAsset(o)  n == Cost(o)
    IN  /\ avail[u][a] >= n
        /\ avail' = [avail EXCEPT ![u][a] = @ - n]
        /\ frozen' = [frozen EXCEPT ![u][a] = @ + n]

-----------------------------------------------------------------------------
(***************************************************************************)
(* GroupCommitWal.  open() writes behind the end of a file that is not     *)
(* empty.  The flush append does at max_batch_size is the one that         *)
(* process_order_durable does next anyway.                                 *)
(***************************************************************************)

\* write_all_at and sync_data
Flushes ==
    /\ file' = file \o buffer
    /\ buffer' = <<>>

\* Mutant: a reopened log is written from its start.
OpenOverwrites(f) == <<>>

Opened(f) == f

-----------------------------------------------------------------------------
(***************************************************************************)
(* process_order_durable.                                                  *)
(***************************************************************************)

Arrives(o) ==
    /\ pc = "idle"
    /\ sent < MaxSent
    /\ sent' = sent + 1

\* validate_order's deduplication check refuses o: nothing changes
RefusedByGuard(o) ==
    /\ Arrives(o)
    /\ TooOld(o) \/ FutureTimestamp(o) \/ Duplicate(o)
    /\ UNCHANGED <<coreVars, walVars, order, pc, queue, now, seen, accepted, faults>>

PassesGuard(o) ==
    /\ Arrives(o)
    /\ ~TooOld(o) /\ ~FutureTimestamp(o) /\ ~Duplicate(o)
    /\ Record(o)
    /\ seen' = seen \cup {o}

\* no account, a cost that does not fit, or not enough funds: o is refused but
\* its id stays recorded
RefusedByCore(o) ==
    /\ PassesGuard(o)
    /\ \/ Order[o].user \notin accounts
       \/ Cost(o) = MaxU64
       \/ avail[Order[o].user][LockAsset(o)] < Cost(o)
    /\ UNCHANGED <<fundsVars, walVars, order, pc, queue, now, accepted, faults>>

\* the funds are locked and the entry appended to the buffer, written first
\* if it is full
Validated(o) ==
    /\ PassesGuard(o)
    /\ Order[o].user \in accounts
    /\ Cost(o) # MaxU64
    /\ Lock(o)
    /\ \/ /\ Len(buffer) < BufferSize
          /\ buffer' = Append(buffer, o)
          /\ UNCHANGED file
       \/ /\ Len(buffer) = BufferSize
          /\ file' = file \o buffer
          /\ buffer' = <<o>>
    /\ order' = o /\ pc' = "flush"
    /\ UNCHANGED <<accounts, debt, net, wraps, closed, queue, now, accepted, faults>>

\* the buffer is full and the disk refuses it: o is refused with its funds
\* locked
RefusedByLog(o) ==
    /\ faults < MaxFaults
    /\ PassesGuard(o)
    /\ Order[o].user \in accounts
    /\ Cost(o) # MaxU64
    /\ Lock(o)
    /\ Len(buffer) = BufferSize
    /\ faults' = faults + 1
    /\ UNCHANGED <<accounts, debt, net, wraps, closed, walVars, order, pc, queue, now, accepted>>

Flush ==
    /\ pc = "flush"
    /\ Flushes
    /\ pc' = "queue"
    /\ UNCHANGED <<coreVars, order, queue, now, seen, accepted, sent, faults>>

\* InternalError; the entry stays in the buffer, the funds stay locked
FlushFails ==
    /\ pc = "flush"
    /\ faults < MaxFaults
    /\ faults' = faults + 1
    /\ order' = NoOrder /\ pc' = "idle"
    /\ UNCHANGED <<coreVars, walVars, queue, now, seen, accepted, sent>>

\* try_send, which drops the order when the queue is full, and Ok
Accept ==
    /\ pc = "queue"
    /\ queue' = IF Len(queue) < QueueSize THEN Append(queue, order) ELSE queue
    /\ accepted' = [accepted EXCEPT ![Len(accepted)] = Append(@, order)]
    /\ order' = NoOrder /\ pc' = "idle"
    /\ UNCHANGED <<coreVars, walVars, now, seen, sent, faults>>

\* how often o was accepted since the process started
TimesAccepted(o) ==
    LET last == accepted[Len(accepted)]
    IN  Cardinality({i \in DOMAIN last : last[i] = o})

\* how often of these it was neither unlocked nor settled
StillOpen(o) == TimesAccepted(o) - closed[o]

Open(o) == StillOpen(o) > 0

\* unlock_funds for all that o locked
Unlock(o) ==
    LET u == Order[o].user  a == LockAsset(o)
    IN  /\ pc = "idle"
        /\ Open(o)
        /\ frozen[u][a] >= Cost(o)
        /\ frozen' = Shift(frozen, u, a, -Cost(o))
        /\ avail' = Shift(avail, u, a, Cost(o))
        /\ closed' = [closed EXCEPT ![o] = @ + 1]
        /\ UNCHANGED <<accounts, debt, net, wraps, cache, minTs, walVars, order, pc, queue, now,
                       seen, accepted, sent, faults>>

\* settle_trade of two whole orders at the seller's price, the excess of the
\* buyer's lock refunded.  Its checks pass, as both orders are open; its fees
\* are not charged.
settle_trade(b, s) ==
    LET buyer == Order[b].user  seller == Order[s].user
        qty == Order[s].qty  amt == Order[s].price * qty  refund == Cost(b) - amt
    IN  /\ pc = "idle"
        /\ Order[b].side = "Buy" /\ Order[s].side = "Sell" /\ Order[b].qty = qty
        /\ Order[b].price >= Order[s].price
        /\ Open(b) /\ Open(s)
        /\ frozen[buyer]["quote"] >= Cost(b) /\ frozen[seller]["base"] >= qty
        /\ frozen' = Shift(Shift(frozen, buyer, "quote", -Cost(b)), seller, "base", -qty)
        /\ avail' = Shift(Shift(Shift(avail, buyer, "base", qty), buyer, "quote", refund),
                          seller, "quote", amt)
        /\ closed' = [closed EXCEPT ![b] = @ + 1, ![s] = @ + 1]
        /\ UNCHANGED <<accounts, debt, net, wraps, cache, minTs, walVars, order, pc, queue, now,
                       seen, accepted, sent, faults>>

\* the publisher task takes an order from the queue
PublisherTakes ==
    /\ queue # <<>>
    /\ queue' = Tail(queue)
    /\ UNCHANGED <<coreVars, walVars, order, pc, now, seen, accepted, sent, faults>>

\* the process ends and is started again; nothing reads the log back
Restart ==
    /\ faults < MaxFaults
    /\ faults' = faults + 1
    /\ accounts' = {} /\ avail' = Nothing /\ frozen' = Nothing /\ debt' = Nothing
    /\ net' = NoMoney /\ wraps' = NoMoney /\ closed' = NoneClosed
    /\ cache' = <<>> /\ minTs' = 0
    /\ buffer' = <<>>
    /\ file' = Opened(file)
    /\ order' = NoOrder /\ pc' = "idle" /\ queue' = <<>>
    /\ seen' = {}
    /\ accepted' = Append(accepted, <<>>)
    /\ UNCHANGED <<now, sent>>

Tick ==
    /\ now < MaxNow
    /\ now' = now + 1
    /\ UNCHANGED <<coreVars, walVars, order, pc, queue, seen, accepted, sent, faults>>

Next ==
    \/ \E u \in Users, a \in AssetIds :
          \/ \E n \in 1..(MaxU64 - Supply(a)) : Deposit(u, a, n)
          \/ \E n \in 1..MaxU64 : Withdraw(u, a, n)
    \/ \E o \in OrderIds :
          RefusedByGuard(o) \/ RefusedByCore(o) \/ Validated(o) \/ RefusedByLog(o)
    \/ \E u \in Users, d \in Deltas : apply_balance_delta(u, d[1], d[2])
    \/ \E o \in OrderIds : Unlock(o)
    \/ \E b, s \in OrderIds : settle_trade(b, s)
    \/ Flush \/ FlushFails \/ Accept
    \/ PublisherTakes \/ Restart \/ Tick

Spec == Init /\ [][Next]_vars

-----------------------------------------------------------------------------
(***************************************************************************)
(* Properties.                                                             *)
(***************************************************************************)

\* Every variable has its type: no balance leaves the range of a u64, and the
\* cache, the buffer and the queue stay within their capacities.
TypeOK ==
    /\ accounts \subseteq Users
    /\ {avail, frozen} \subseteq [Users -> [AssetIds -> 0..MaxU64]]
    /\ debt \in [Users -> [AssetIds -> 0..MaxDebt]]
    /\ cache \in Seq(OrderIds) /\ Len(cache) <= CacheSize
    /\ minTs \in Nat
    /\ buffer \in Seq(OrderIds) /\ Len(buffer) <= BufferSize
    /\ file \in Seq(OrderIds)
    /\ order \in OrderIds \cup {NoOrder}
    /\ pc \in {"idle", "flush", "queue"}
    /\ queue \in Seq(OrderIds) /\ Len(queue) <= QueueSize
    /\ now \in 0..MaxNow
    /\ seen \subseteq OrderIds
    /\ accepted \in Seq(Seq(OrderIds))
    /\ net \in [AssetIds -> Int] /\ wraps \in [AssetIds -> 0..MaxWraps]
    /\ closed \in [OrderIds -> 0..MaxSent]
    /\ sent \in 0..MaxSent /\ faults \in 0..MaxFaults

\* What the guard guarantees: an order it recorded and no longer remembers is
\* not younger than its watermark, so that it is accepted again only when its
\* timestamp is the watermark's.
ForgottenAreOld ==
    \A o \in seen \ Range(cache) : Order[o].ts <= minTs

\* An order that was accepted is in the log file, whatever happens after:
\* process ends, refused flushes, reopening ("persisted BEFORE returning Ok").
\* Nor does one reach the publisher before it is in the file.
AcceptedIsOnDisk ==
    /\ \A i \in DOMAIN accepted : Range(accepted[i]) \subseteq Range(file)
    /\ Range(queue) \subseteq Range(file)

\* The true value of what an order buys or sells for.
Value(o) == IF Order[o].side = "Sell" THEN Order[o].qty ELSE Order[o].price * Order[o].qty

\* the orders that lock an asset of a user
LockedBy(u, a) == {o \in OrderIds : Order[o].user = u /\ LockAsset(o) = a}

\* the true value of u's open orders in asset a
Owed(u, a) == SumFunctionOnSet([o \in OrderIds |-> StillOpen(o) * Value(o)], LockedBy(u, a))

\* what all balances less all debts come to: the money that came in less what
\* went out, less 2^64 for every balance a delta took beyond i64::MAX
Booked(a) == net[a] - wraps[a] * (MaxU64 + 1)

\* Whatever is deposited, withdrawn, charged into debt, unlocked and settled:
\* the orders accepted since the process started and still open are covered, in
\* full value and however often each was accepted, by funds that their user
\* cannot spend again; and all balances less all debts are the money that came
\* in less what went out, less 2^64 for every balance that a delta took beyond
\* i64::MAX, and for nothing else.
AcceptedIsCovered ==
    \A a \in AssetIds :
        /\ \A u \in Users : Owed(u, a) <= frozen[u][a]
        /\ Supply(a) - Debts(a) = Booked(a)

\* What debt.rs says of debts, "Can cause debt (ghost money) ... Cannot cause debt
\* (increases balance)": a delta that adds to a balance leaves no new debt.
CreditsCauseNoDebt ==
    [][\A u \in Users, a \in AssetIds : net'[a] > net[a] => debt'[u][a] <= debt[u][a]]_vars

\* What check_and_record promises, "Returns Ok if new, Err if duplicate or too
\* old": an order is accepted at most once in a life of the process.
NeverReadmitted == \A o \in OrderIds : TimesAccepted(o) <= 1
=============================================================================
