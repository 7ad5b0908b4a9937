---------------------------- MODULE UbsService ----------------------------
(***************************************************************************)
(* The UBSCore service's order path: the gateway's create_order and        *)
(* cancel_order (gateway.rs), the service loop that collects a batch of    *)
(* Aeron messages (bin/ubscore_aeron_service.rs), and the handler that     *)
(* validates and logs every order, flushes once, then forwards and answers *)
(* (ubs_core/comm/ubscore_handler.rs) over a memory-mapped log             *)
(* (ubs_core/wal/mmap_wal.rs).  Order ids are fresh, so the deduplication  *)
(* guard (UbsCore) lets them pass.  The loop runs in one thread; between   *)
(* its steps the process or the machine may go down.  Balances are of one  *)
(* asset; validate_order refuses every order whose symbol the service has  *)
(* not registered.                                                         *)
(***************************************************************************)
EXTENDS Accounts, FiniteSets, FiniteSetsExt, Functions

CONSTANTS
    Order,        \* the orders clients send: order_id -> [user, cost]
    Registered,   \* register_symbol was called for their symbol
    Seed,         \* what SEED_TEST_ACCOUNTS deposits for every user at start
    PollLimit,    \* POLL_LIMIT
    LogSlots,     \* entries the mapped file has room for
    MaxFaults     \* bound: restarts and failed flushes

OrderIds == DOMAIN Order

ASSUME ServiceAssumption ==
    /\ \A o \in OrderIds : Order[o].user \in Users /\ Order[o].cost \in Nat \ {0}
    /\ Registered \in BOOLEAN
    /\ Seed \in 0..MaxU64
    /\ {PollLimit, LogSlots} \subseteq Nat \ {0}
    /\ MaxFaults \in Nat

VARIABLES
    client,     \* what the client of each order was told by create_order
    cancel,     \* what it was told by cancel_order
    inbox,      \* the subscription: messages published and not yet polled
    phase,      \* the loop's next step
    batch,      \* collected messages that are not yet processed
    results,    \* processed messages with their ProcessResult
    ubs,        \* UBSCore's balances
    image,      \* the mapped log as the process sees it
    disk,       \* the log on the disk
    cursor,     \* entries the log's cursor has passed
    validated,  \* the validated_orders topic
    verdict,    \* history: UBSCore's result for each order in this life
    stranded,   \* history: orders the log refused with their funds locked
    flushFailed,\* history: a flush of this life failed
    faults

clientVars == <<client, cancel>>
logVars == <<image, disk, cursor>>
loopVars == <<phase, batch, results>>
serviceVars == <<clientVars, inbox, loopVars, ubs, logVars, validated, verdict,
                 stranded, flushFailed, faults>>

Told == {"new", "sent", "ok", "error"}
Message == [kind : {"order", "cancel"}, order : OrderIds]
Result == [msg : Message, res : {"pending", "accept", "reject"}]

Seeded == [u \in Users |-> [avail |-> Seed, frozen |-> 0]]

ServiceInit ==
    /\ client = [o \in OrderIds |-> "new"] /\ cancel = [o \in OrderIds |-> "new"]
    /\ inbox = <<>>
    /\ phase = "poll" /\ batch = <<>> /\ results = <<>>
    /\ ubs = Seeded
    /\ image = <<>> /\ disk = <<>> /\ cursor = 0
    /\ validated = <<>>
    /\ verdict = [o \in OrderIds |-> "none"]
    /\ stranded = {}
    /\ flushFailed = FALSE
    /\ faults = 0

-----------------------------------------------------------------------------
(***************************************************************************)
(* The gateway.  Both handlers look only at whether an answer came, not at *)
(* what it says: "ok" is the client's Accepted or Cancelled.               *)
(***************************************************************************)

Sends(kind, o) == inbox' = Append(inbox, [kind |-> kind, order |-> o])

create_order(o) ==
    /\ client[o] = "new"
    /\ client' = [client EXCEPT ![o] = "sent"]
    /\ Sends("order", o)
    /\ UNCHANGED <<cancel, loopVars, ubs, logVars, validated, verdict, stranded, flushFailed, faults>>

\* Mutant: the client learns the id before UBSCore has answered.
cancel_order_early(o) ==
    /\ client[o] # "new"
    /\ cancel[o] = "new"
    /\ cancel' = [cancel EXCEPT ![o] = "sent"]
    /\ Sends("cancel", o)
    /\ UNCHANGED <<client, loopVars, ubs, logVars, validated, verdict, stranded, flushFailed, faults>>

\* the client has the order's id from the answer to create_order
cancel_order(o) ==
    /\ client[o] = "ok"
    /\ cancel[o] = "new"
    /\ cancel' = [cancel EXCEPT ![o] = "sent"]
    /\ Sends("cancel", o)
    /\ UNCHANGED <<client, loopVars, ubs, logVars, validated, verdict, stranded, flushFailed, faults>>

\* ubscore_timeout_ms: the client is told of an error
TimesOut(o) ==
    /\ \/ /\ client[o] = "sent"
          /\ client' = [client EXCEPT ![o] = "error"]
          /\ UNCHANGED cancel
       \/ /\ cancel[o] = "sent"
          /\ cancel' = [cancel EXCEPT ![o] = "error"]
          /\ UNCHANGED client
    /\ UNCHANGED <<inbox, loopVars, ubs, logVars, validated, verdict, stranded, flushFailed, faults>>

\* an answer reaches the gateway if somebody still waits for it
Hears(m) ==
    IF m.kind = "order"
      THEN /\ client' = IF client[m.order] = "sent"
                          THEN [client EXCEPT ![m.order] = "ok"] ELSE client
           /\ UNCHANGED cancel
      ELSE /\ cancel' = IF cancel[m.order] = "sent"
                          THEN [cancel EXCEPT ![m.order] = "ok"] ELSE cancel
           /\ UNCHANGED client

-----------------------------------------------------------------------------
(***************************************************************************)
(* MmapWal.                                                                *)
(***************************************************************************)

\* Mutant: the room left in the file is not checked.
LogNeverFull == FALSE

LogFull == cursor = LogSlots

\* append writes at the cursor, over whatever is there
Appended(o) ==
    [i \in 1..Max({Len(image), cursor + 1}) |-> IF i = cursor + 1 THEN o ELSE image[i]]

\* Reads the record's big-endian length as little-endian: with a record of an
\* order at the start it is larger than the file, and the scan ends there.
find_cursor(log) == 0

-----------------------------------------------------------------------------
(***************************************************************************)
(* The service loop and process_batch.                                     *)
(***************************************************************************)

\* Phase 1 of the loop: poll hands at most POLL_LIMIT messages to BatchCollector
Collect ==
    LET n == Min({Len(inbox), PollLimit})
    IN  /\ phase = "poll"
        /\ n > 0
        /\ batch' = SubSeq(inbox, 1, n)
        /\ inbox' = SubSeq(inbox, n + 1, Len(inbox))
        /\ phase' = "validate"
        /\ UNCHANGED <<clientVars, results, ubs, logVars, validated, verdict, stranded, flushFailed,
                       faults>>

Processed(res) ==
    /\ batch' = Tail(batch)
    /\ results' = Append(results, [msg |-> Head(batch), res |-> res])
    /\ phase' = IF Len(batch) = 1 THEN "flush" ELSE "validate"

\* validate_order, which locks the funds, then append; an order the full log
\* refuses is rejected with its funds locked
handle_order_no_flush ==
    LET o == Head(batch).order
        locked == lock(ubs[Order[o].user], Order[o].cost)
    IN  /\ phase = "validate"
        /\ Head(batch).kind = "order"
        /\ ubs' = IF Registered THEN [ubs EXCEPT ![Order[o].user] = locked.bal] ELSE ubs
        /\ IF Registered /\ locked.res = "ok" /\ ~LogFull
             THEN /\ Processed("pending")
                  /\ image' = Appended(o) /\ cursor' = cursor + 1
             ELSE /\ Processed("reject")
                  /\ UNCHANGED <<image, cursor>>
        /\ stranded' = IF Registered /\ locked.res = "ok" /\ LogFull
                         THEN stranded \cup {o} ELSE stranded
        /\ UNCHANGED <<clientVars, inbox, disk, validated, verdict, flushFailed, faults>>

\* Forwarded to the engine at once, before the batch's flush and its orders,
\* and whatever became of the order; the send is not awaited.
handle_cancel ==
    /\ phase = "validate"
    /\ Head(batch).kind = "cancel"
    /\ Processed("accept")
    /\ validated' \in {validated, Append(validated, Head(batch))}
    /\ UNCHANGED <<clientVars, inbox, ubs, logVars, verdict, stranded, flushFailed, faults>>

\* Mutant: only a full batch is flushed.
FlushBatchWhenFull ==
    /\ phase = "flush"
    /\ phase' = "forward"
    /\ disk' = IF Len(results) = PollLimit THEN image ELSE disk
    /\ UNCHANGED <<clientVars, inbox, batch, results, ubs, image, cursor, validated, verdict,
                   stranded, flushFailed, faults>>

HasPending == \E i \in DOMAIN results : results[i].res = "pending"

\* Phase 2 of process_batch: one flush, if there is anything to flush
FlushBatch ==
    /\ phase = "flush"
    /\ phase' = "forward"
    /\ disk' = IF HasPending THEN image ELSE disk
    /\ UNCHANGED <<clientVars, inbox, batch, results, ubs, image, cursor, validated, verdict,
                   stranded, flushFailed, faults>>

\* a flush that fails is logged and the batch goes on
FlushBatchFails ==
    /\ phase = "flush"
    /\ HasPending
    /\ faults < MaxFaults
    /\ faults' = faults + 1
    /\ flushFailed' = TRUE
    /\ phase' = "forward"
    /\ UNCHANGED <<clientVars, inbox, batch, results, ubs, logVars, validated, verdict, stranded>>

\* Phase 3 of process_batch: forward_to_kafka in the batch's order.  The send
\* is not awaited, so the order may not reach the topic.
forward_to_kafka ==
    LET Of(res) == {r.msg.order : r \in {q \in Range(results) :
                                           q.msg.kind = "order" /\ q.res = res}}
        pending == {i \in DOMAIN results : results[i].res = "pending"}
    IN  /\ phase = "forward"
        /\ phase' = "respond"
        /\ \E n \in 0..Len(results) : \E sent \in [1..n -> pending] :
              /\ \A i, j \in 1..n : i < j => sent[i] < sent[j]
              /\ validated' = validated \o [i \in 1..n |-> results[sent[i]].msg]
        /\ verdict' = [o \in OrderIds |-> IF o \in Of("pending") THEN "accept"
                                          ELSE IF o \in Of("reject") THEN "reject"
                                          ELSE verdict[o]]
        /\ UNCHANGED <<clientVars, inbox, batch, results, ubs, logVars, stranded, flushFailed,
                       faults>>

\* Phase 3 of the loop: the answers are offered one by one; a refused offer
\* is ignored
Respond ==
    /\ phase = "respond"
    /\ \/ Hears(Head(results).msg)
       \/ UNCHANGED clientVars
    /\ results' = Tail(results)
    /\ phase' = IF Len(results) = 1 THEN "poll" ELSE "respond"
    /\ UNCHANGED <<inbox, batch, ubs, logVars, validated, verdict, stranded, flushFailed, faults>>

-----------------------------------------------------------------------------
(***************************************************************************)
(* The process ends and is started again, with its embedded media driver:  *)
(* no balances, no messages.  What was written to the mapped file survives *)
(* the process; a machine that goes down keeps what was flushed, and       *)
(* perhaps more.                                                           *)
(***************************************************************************)
Restarts(log) ==
    /\ faults < MaxFaults
    /\ faults' = faults + 1
    /\ phase' = "poll" /\ batch' = <<>> /\ results' = <<>> /\ inbox' = <<>>
    /\ ubs' = Seeded
    /\ image' = log /\ disk' = log /\ cursor' = find_cursor(log)
    /\ verdict' = [o \in OrderIds |-> "none"]
    /\ stranded' = {}
    /\ flushFailed' = FALSE
    /\ UNCHANGED <<clientVars, validated>>

ProcessEnds == Restarts(image)
PowerLoss == image # disk /\ Restarts(disk)

\* the loop between two batches: it may poll Kafka
Idle == phase = "poll"

LoopNext ==
    \/ Collect \/ handle_order_no_flush \/ handle_cancel
    \/ FlushBatch \/ FlushBatchFails \/ forward_to_kafka \/ Respond

ServiceNext ==
    \/ \E o \in OrderIds : create_order(o) \/ cancel_order(o) \/ TimesOut(o)
    \/ LoopNext

-----------------------------------------------------------------------------
ServiceTypeOK ==
    /\ client \in [OrderIds -> Told] /\ cancel \in [OrderIds -> Told]
    /\ inbox \in Seq(Message) /\ batch \in Seq(Message) /\ results \in Seq(Result)
    /\ phase \in {"poll", "validate", "flush", "forward", "respond"}
    /\ ubs \in [Users -> Balance]
    /\ image \in Seq(OrderIds) /\ disk \in Seq(OrderIds)
    /\ Len(image) <= LogSlots /\ cursor \in 0..Len(image)
    /\ validated \in Seq(Message)
    /\ verdict \in [OrderIds -> {"none", "accept", "reject"}]
    /\ stranded \subseteq OrderIds /\ flushFailed \in BOOLEAN /\ faults \in 0..MaxFaults

\* An order that was accepted and forwarded since the service started is among
\* the entries its log's cursor has passed, though the log refuses entries and
\* a restart makes it write over old ones; and unless a flush failed it is on
\* the disk, so that a restart finds it ("single flush", then "forward all").
AcceptedIsLogged ==
    \A o \in OrderIds : verdict[o] = "accept" =>
        /\ o \in Range(SubSeq(image, 1, cursor))
        /\ flushFailed \/ o \in Range(disk)

\* The engine never reads the cancel of an order before the order: a batch
\* forwards its cancels before its orders, but a client has an order's id only
\* from the answer, which is sent after the order was forwarded.
CancelFollowsOrder ==
    \A i, j \in DOMAIN validated :
        validated[i].kind = "cancel" /\ validated[j] = [validated[i] EXCEPT !.kind = "order"]
          => j < i
=============================================================================
