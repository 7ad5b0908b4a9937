------------------------------- MODULE Funds -------------------------------
(***************************************************************************)
(* Money between the funding account and UBSCore: the gateway's            *)
(* transfer_in and transfer_out (gateway.rs), the balance.operations       *)
(* topic, the consumer in the UBSCore service's loop                       *)
(* (bin/ubscore_aeron_service.rs), the balance.events topic, the           *)
(* settlement service's consumer and balance writer                        *)
(* (bin/settlement_service.rs), and the balance_ledger table               *)
(* (db/settlement_db.rs), which transfer_out and the engine's outputs      *)
(* write to as well.  Orders lock funds in UBSCore meanwhile (UbsService). *)
(* Both consumers commit their offsets automatically, at any time after a  *)
(* message was handed to them.  The gateway stays up: its funding account  *)
(* is in memory.                                                           *)
(***************************************************************************)
EXTENDS UbsService

CONSTANTS
    Transfer,        \* requests by request_id: [dir, user, amount]
    FundingStart,    \* what the funding account holds at first
    WriterCapacity,  \* DERIVED_WRITER_BUFFER, in events
    MaxAsked,        \* bound: orders and transfers that clients ask for
    MaxLost,         \* bound: publications and writes that fail
    MaxNow           \* bound: the clock, in milliseconds

TransferIds == DOMAIN Transfer

ASSUME FundsAssumption ==
    /\ \A t \in TransferIds : /\ Transfer[t].dir \in {"in", "out"}
                              /\ Transfer[t].user \in Users
                              /\ Transfer[t].amount \in Nat \ {0}
    /\ FundingStart \in 0..MaxU64
    /\ WriterCapacity \in Nat \ {0}
    /\ {MaxAsked, MaxLost, MaxNow} \subseteq Nat /\ MaxNow > Cardinality(TransferIds)
    /\ IsFiniteSet(Users) /\ IsFiniteSet(TransferIds) /\ IsFiniteSet(OrderIds)

VARIABLES
    funding,     \* SimulatedFundingAccount
    handler,     \* where the handler of each request is
    nextSeq,     \* the seq transfer_out withdraws with
    current,     \* the row SettlementDb::withdraw read
    ops,         \* balance.operations
    opsPos, opsCommitted,
    fate,        \* history: what UBSCore did with each request
    restarted,   \* history: UBSCore was restarted
    events,      \* balance.events
    evPos, evCommitted,
    writer,      \* the balance writer's channel: offsets of events
    rows,        \* balance_ledger by user and seq: [avail, from]
    latest,      \* history: the last offset written for each user
    lost, now

gatewayVars == <<funding, handler, nextSeq, current>>
consumerVars == <<ops, opsPos, opsCommitted, fate, restarted>>
settleVars == <<events, evPos, evCommitted, writer, latest>>
fundsVars == <<gatewayVars, consumerVars, settleVars, rows, lost, now>>
vars == <<serviceVars, fundsVars>>

Start == {"new"}
Ended == {"refused", "failed", "done"}
Stages == Start \cup Ended
          \cup {"locked", "published", "withdraw", "append", "credit"}
NoRow == [avail |-> 0, from |-> 0]
Other == 0      \* the "from" of a row that transfer_out or the engine made

\* The engine numbers its balance events from 1 (its ledger's versions are all
\* 0): numbers that transfer_out's successors of them never take to the clock.
EngineSeq == 0
Launch == Cardinality(TransferIds) + 1

FundsInit ==
    /\ funding = [avail |-> FundingStart, frozen |-> 0]
    /\ handler = [t \in TransferIds |-> "new"]
    /\ nextSeq = [t \in TransferIds |-> 0]
    /\ current = [t \in TransferIds |-> NoRow]
    /\ ops = <<>> /\ opsPos = 0 /\ opsCommitted = 0
    /\ fate = [t \in TransferIds |-> "none"]
    /\ restarted = FALSE
    /\ events = <<>> /\ evPos = 0 /\ evCommitted = 0
    /\ writer = <<>>
    /\ rows = [u \in Users |-> <<>>]
    /\ latest = [u \in Users |-> 0]
    /\ lost = 0 /\ now = Launch

Init == ServiceInit /\ FundsInit

Fails == lost < MaxLost /\ lost' = lost + 1
Works == UNCHANGED lost

-----------------------------------------------------------------------------
(***************************************************************************)
(* balance_ledger.                                                         *)
(***************************************************************************)

\* get_current_balance: the row with the highest seq
Newest(u) == Max(DOMAIN rows[u])

\* the rows of new in place of those of old
Over(new, old) ==
    [s \in (DOMAIN new) \cup (DOMAIN old) |-> IF s \in DOMAIN new THEN new[s] ELSE old[s]]

\* append_balance_event: IF NOT EXISTS, its result not looked at
AppendRow(u, seq, avail) ==
    LET row == [s \in {seq} |-> [avail |-> avail, from |-> Other]]
    IN  [rows EXCEPT ![u] = Over(@, row)]

\* append_balance_events_batch: plain inserts, over the rows that are there.
\* The inserts of a batch carry one timestamp, so among events of one
\* millisecond the greater value stays.
UpsertBatch(offsets) ==
    LET Of(u, s) == {i \in offsets : events[i].user = u /\ events[i].seq = s}
        Seqs(u) == {events[i].seq : i \in {j \in offsets : events[j].user = u}}
    IN  [u \in Users |->
            Over([s \in Seqs(u) |-> [avail |-> Max({events[i].avail : i \in Of(u, s)}),
                                     from |-> Max(Of(u, s))]], rows[u])]

-----------------------------------------------------------------------------
(***************************************************************************)
(* transfer_in and transfer_out.                                           *)
(***************************************************************************)

Goes(t, stage) == handler' = [handler EXCEPT ![t] = stage]

\* 1. lock the funds, or BAD_REQUEST
LockFunding(t) ==
    LET r == lock(funding, Transfer[t].amount)
    IN  /\ handler[t] = "new"
        /\ Transfer[t].dir = "in"
        /\ funding' = r.bal
        /\ Goes(t, IF r.res = "ok" THEN "locked" ELSE "refused")
        /\ UNCHANGED <<nextSeq, current, consumerVars, settleVars, rows, lost, now>>

\* publish: an error ends the handler, with the message sent or not
Publishes(t) ==
    /\ \/ /\ Works
          /\ Goes(t, "published")
          /\ ops' = Append(ops, t)
       \/ /\ Fails
          /\ Goes(t, "failed")
          /\ ops' \in {ops, Append(ops, t)}
    /\ UNCHANGED <<funding, nextSeq, current, opsPos, opsCommitted, fate, restarted,
                   settleVars, rows, now>>

\* 2. of transfer_in: after an error the funds are still locked
PublishIn(t) == Transfer[t].dir = "in" /\ handler[t] = "locked" /\ Publishes(t)

\* 1. of transfer_out
PublishOut(t) == Transfer[t].dir = "out" /\ handler[t] = "new" /\ Publishes(t)

\* 4. of transfer_in
SpendFunding(t) ==
    /\ handler[t] = "published"
    /\ Transfer[t].dir = "in"
    /\ funding' = spend_frozen(funding, Transfer[t].amount).bal
    /\ Goes(t, "done")
    /\ UNCHANGED <<nextSeq, current, consumerVars, settleVars, rows, lost, now>>

\* transfer_out takes the next seq of the user's newest row; no row or an
\* error: the table is left alone
ReadSeq(t) ==
    LET u == Transfer[t].user
    IN  /\ handler[t] = "published"
        /\ Transfer[t].dir = "out"
        /\ \/ /\ Works
              /\ DOMAIN rows[u] # {}
              /\ nextSeq' = [nextSeq EXCEPT ![t] = Newest(u) + 1]
              /\ Goes(t, "withdraw")
           \/ /\ (DOMAIN rows[u] = {} /\ Works) \/ Fails
              /\ Goes(t, "credit")
              /\ UNCHANGED nextSeq
        /\ UNCHANGED <<funding, current, consumerVars, settleVars, rows, now>>

\* withdraw: read the newest row again; nothing to do if it has reached seq
WithdrawReads(t) ==
    LET u == Transfer[t].user
    IN  /\ handler[t] = "withdraw"
        /\ \/ /\ Works
              /\ IF nextSeq[t] <= Newest(u)
                   THEN /\ Goes(t, "credit")
                        /\ UNCHANGED current
                   ELSE /\ current' = [current EXCEPT ![t] = rows[u][Newest(u)]]
                        /\ Goes(t, "append")
           \/ /\ Fails
              /\ Goes(t, "credit")
              /\ UNCHANGED current
        /\ UNCHANGED <<funding, nextSeq, consumerVars, settleVars, rows, now>>

\* withdraw: append the row it computed; an error is logged
WithdrawAppends(t) ==
    /\ handler[t] = "append"
    /\ \/ /\ Works
          /\ rows' = AppendRow(Transfer[t].user, nextSeq[t],
                               current[t].avail - Transfer[t].amount)
       \/ /\ Fails
          /\ UNCHANGED rows
    /\ Goes(t, "credit")
    /\ UNCHANGED <<funding, nextSeq, current, consumerVars, settleVars, now>>

\* 3. of transfer_out, whatever UBSCore does with the request
CreditFunding(t) ==
    /\ handler[t] = "credit"
    /\ funding' = deposit(funding, Transfer[t].amount).bal
    /\ Goes(t, "done")
    /\ UNCHANGED <<nextSeq, current, consumerVars, settleVars, rows, lost, now>>

Handler(t) ==
    /\ \/ LockFunding(t) \/ PublishIn(t) \/ SpendFunding(t)
       \/ PublishOut(t) \/ ReadSeq(t) \/ WithdrawReads(t) \/ WithdrawAppends(t) \/ CreditFunding(t)
    /\ UNCHANGED serviceVars

-----------------------------------------------------------------------------
(***************************************************************************)
(* Phase 4 of UBSCore's loop.                                              *)
(***************************************************************************)

\* Mutant: the event carries the request's id as its seq.
EventSeqOfRequest(t) == t

\* the milliseconds since 1970
EventSeq(t) == now

\* Mutant: a request to transfer out is deposited.
AppliedAsDeposit(t) ==
    deposit(ubs[Transfer[t].user], Transfer[t].amount)

\* on_deposit and on_withdraw
Applied(t) ==
    LET b == ubs[Transfer[t].user]  n == Transfer[t].amount
    IN  IF Transfer[t].dir = "in" THEN Ok(deposit(b, n).bal) ELSE withdraw(b, n)

Event(t) == [user |-> Transfer[t].user, seq |-> EventSeq(t),
             avail |-> Applied(t).bal.avail]

\* An event is published for every deposit and for a withdrawal that was not
\* refused; whether it could be sent is not looked at.
ConsumeOperation ==
    /\ Idle
    /\ opsPos < Len(ops)
    /\ opsPos' = opsPos + 1
    /\ LET t == ops[opsPos + 1]
           ok == Applied(t).res = "ok"
       IN  /\ ubs' = [ubs EXCEPT ![Transfer[t].user] = Applied(t).bal]
           /\ fate' = [fate EXCEPT ![t] = IF ok THEN "applied" ELSE "refused"]
           /\ \/ ok /\ Works /\ events' = Append(events, Event(t))
              \/ ok /\ Fails /\ UNCHANGED events
              \/ ~ok /\ Works /\ UNCHANGED events
    /\ UNCHANGED <<gatewayVars, ops, opsCommitted, restarted, evPos, evCommitted, writer,
                   latest, rows, now>>
    /\ UNCHANGED <<clientVars, inbox, loopVars, logVars, validated, verdict, stranded,
                   flushFailed, faults>>

CommitOperations ==
    /\ opsCommitted < opsPos
    /\ opsCommitted' = opsPos
    /\ UNCHANGED <<serviceVars, gatewayVars, ops, opsPos, fate, restarted, settleVars, rows,
                   lost, now>>

\* the consumer starts again where the group's offset was committed
UbsRestarts ==
    /\ ProcessEnds \/ PowerLoss
    /\ opsPos' = opsCommitted
    /\ restarted' = TRUE
    /\ UNCHANGED <<gatewayVars, ops, opsCommitted, fate, settleVars, rows, lost, now>>

-----------------------------------------------------------------------------
(***************************************************************************)
(* The settlement service.                                                 *)
(***************************************************************************)

\* the engine has an order, so that events of its outputs may be under way
EngineWorks == \E i \in DOMAIN validated : validated[i].kind = "order"

\* try_send: an event that does not fit in the writer's channel, which it shares
\* with those of the engine's outputs, is dropped
ConsumeEvent ==
    /\ evPos < Len(events)
    /\ evPos' = evPos + 1
    /\ \/ Len(writer) < WriterCapacity /\ writer' = Append(writer, evPos')
       \/ (Len(writer) = WriterCapacity \/ EngineWorks) /\ UNCHANGED writer
    /\ UNCHANGED <<serviceVars, gatewayVars, consumerVars, events, evCommitted, latest, rows,
                   lost, now>>

CommitEvents ==
    /\ evCommitted < evPos
    /\ evCommitted' = evPos
    /\ UNCHANGED <<serviceVars, gatewayVars, consumerVars, events, evPos, writer, latest,
                   rows, lost, now>>

\* the writer drains its channel into one batch; a batch that fails is logged
WriteRows ==
    /\ writer # <<>>
    /\ writer' = <<>>
    /\ \/ /\ Works
          /\ rows' = UpsertBatch(Range(writer))
          /\ latest' = [u \in Users |->
                Max({latest[u]} \cup {i \in Range(writer) : events[i].user = u})]
       \/ /\ Fails
          /\ UNCHANGED <<rows, latest>>
    /\ UNCHANGED <<serviceVars, gatewayVars, consumerVars, events, evPos, evCommitted, now>>

\* the orders that order i may have traded with
OthersThan(i) == {j \in DOMAIN validated : /\ validated[j].kind = "order"
                                           /\ validated[j].order # validated[i].order}

\* dispatch_to_writers: the row of an output's balance event, which replaces the
\* one before it.  Its balance is what the lock leaves of u64::MAX, cast to an
\* i64, or, for a trade, -1: not tracked.
WriteEngineRow ==
    \E i \in DOMAIN validated :
        LET o == validated[i].order  u == Order[o].user
        IN  /\ validated[i].kind = "order"
            /\ \E n \in {-1 - Order[o].cost} \cup {-1 : j \in OthersThan(i)} :
                  rows' = [rows EXCEPT ![u] =
                             Over([s \in {EngineSeq} |-> [avail |-> n, from |-> Other]], @)]
            /\ UNCHANGED <<serviceVars, gatewayVars, consumerVars, settleVars, lost, now>>

SettlementRestarts ==
    /\ Fails
    /\ writer' = <<>>
    /\ evPos' = evCommitted
    /\ UNCHANGED <<serviceVars, gatewayVars, consumerVars, events, evCommitted, latest, rows,
                   now>>

Tick ==
    /\ now < MaxNow
    /\ now' = now + 1
    /\ UNCHANGED <<serviceVars, gatewayVars, consumerVars, settleVars, rows, lost>>

Asked == Cardinality({o \in OrderIds : client[o] # "new"})
         + Cardinality({t \in TransferIds : handler[t] # "new"})

Next ==
    \/ \E t \in TransferIds : Handler(t) /\ Asked' <= MaxAsked
    \/ ServiceNext /\ UNCHANGED fundsVars /\ Asked' <= MaxAsked
    \/ ConsumeOperation \/ CommitOperations \/ UbsRestarts
    \/ ConsumeEvent \/ CommitEvents \/ WriteRows \/ WriteEngineRow \/ SettlementRestarts
    \/ Tick

Spec == Init /\ [][Next]_vars

-----------------------------------------------------------------------------
(***************************************************************************)
(* Properties.                                                             *)
(***************************************************************************)

\* Every variable has its type: balances fit in a u64, the log in its file and
\* the events in the writer's channel, and no consumer is ahead of its topic.
TypeOK ==
    /\ ServiceTypeOK
    /\ funding \in Balance
    /\ handler \in [TransferIds -> Stages]
    /\ nextSeq \in [TransferIds -> Nat]
    /\ \A t \in TransferIds : current[t].avail \in Int /\ current[t].from \in 0..Len(events)
    /\ ops \in Seq(TransferIds) /\ opsPos \in 0..Len(ops) /\ opsCommitted \in 0..opsPos
    /\ fate \in [TransferIds -> {"none", "applied", "refused"}]
    /\ events \in Seq([user : Users, seq : Nat, avail : 0..MaxU64])
    /\ evPos \in 0..Len(events) /\ evCommitted \in 0..evPos
    /\ Range(writer) \subseteq 1..evPos /\ Len(writer) <= WriterCapacity
    /\ \A u \in Users : DOMAIN rows[u] \subseteq Nat /\ latest[u] \in 0..Len(events)
    /\ restarted \in BOOLEAN /\ lost \in 0..MaxLost /\ now \in 0..MaxNow

\* Once every handler has ended and UBSCore, which was not restarted, is between
\* two batches and has consumed every operation: what can be spent, and what is
\* held for the orders UBSCore accepted, is what there was at the start, but for
\* exactly this: a transfer out that UBSCore refused was credited all the same;
\* a transfer in that was not sent stays locked; a transfer out that was reported
\* as failed may have been debited; and an order that the full log refused keeps
\* its funds locked.
MoneyAccounted ==
    LET Sum(S) == SumFunctionOnSet([t \in TransferIds |-> Transfer[t].amount], S)
        Cost(S) == SumFunctionOnSet([o \in OrderIds |-> Order[o].cost], S)
        Which(dir, stage, f) == {t \in TransferIds : /\ Transfer[t].dir = dir
                                                     /\ handler[t] = stage /\ fate[t] = f}
        spendable == funding.avail + SumFunctionOnSet([u \in Users |-> ubs[u].avail], Users)
        accepted == {o \in OrderIds : verdict[o] = "accept"}
    IN  /\ \A t \in TransferIds : handler[t] \in Start \cup Ended
        /\ Idle /\ opsPos = Len(ops)
        /\ ~restarted
        => spendable + Cost(accepted) + Cost(stranded)
             + Sum(Which("in", "failed", "none")) + Sum(Which("out", "failed", "applied"))
             = FundingStart + Seed * Cardinality(Users) + Sum(Which("out", "done", "refused"))

\* However events are dropped, written in batches or read again after a restart,
\* and whatever rows transfer_out and the engine add: the row that
\* get_current_balance returns is not of a time before the last operation that
\* was recorded, and if it is one of UBSCore's, it is of that millisecond.
LedgerInOrder ==
    \A u \in Users : latest[u] > 0 =>
        LET last == events[latest[u]].seq  row == rows[u][Newest(u)]
        IN  /\ Newest(u) >= last
            /\ row.from # Other => Newest(u) = last

\* What settlement_db.rs says of the table, "Current balance = latest row with
\* highest seq": once nothing is under way, and if nothing failed, the row that
\* get_current_balance returns has the balance UBSCore has.
BalanceIsCurrent ==
    /\ \A t \in TransferIds : handler[t] \in Start \cup Ended
    /\ \A o \in OrderIds : client[o] = "new"
    /\ opsPos = Len(ops) /\ evPos = Len(events) /\ writer = <<>>
    /\ lost = 0 /\ ~restarted
    => \A u \in Users : DOMAIN rows[u] # {} => rows[u][Newest(u)].avail = ubs[u].avail

\* What it also says, "Each row is immutable - insert only, never update".
RowsAreImmutable ==
    [][\A u \in Users : \A s \in DOMAIN rows[u] : rows'[u][s] = rows[u][s]]_vars
=============================================================================
