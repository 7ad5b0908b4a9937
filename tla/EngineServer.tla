---------------------------- MODULE EngineServer ----------------------------
(***************************************************************************)
(* matching_engine_server: a poll thread reads the orders topic in batches *)
(* and puts them on a disruptor ring, the matcher runs them through the    *)
(* engine, and the publisher sends the outputs to Kafka and stores the     *)
(* consumer offset.  Orders cross the book in MatchingEngine; here an      *)
(* order is accepted, with or without trades, or refused as a duplicate.   *)
(***************************************************************************)
EXTENDS EngineOutput

CONSTANTS
    Bad,           \* a message that does not parse or names no known symbol
    BatchSize,     \* messages per poll (1000)
    RingSize,      \* slots of the disruptor (8192)
    DedupSize      \* order ids the deduplicator remembers (100000)

ASSUME ServerAssumption ==
    /\ Bad \notin Orders
    /\ BatchSize \in Nat \ {0} /\ RingSize \in Nat \ {0} /\ DedupSize \in Nat \ {0}

VARIABLES
    topic,      \* the orders topic
    committed,  \* messages Kafka will not deliver again
    position,   \* messages the poll thread has read
    ring,       \* the slots: orders, offset of the last one, outputs
    published,  \* events put on the ring,
    matched,    \* run through the matcher,
    sent,       \* and done with by the publisher
    built,      \* outputs of the event the matcher is at
    at,         \* orders of that event it has handled
    out,        \* outputs of its event the publisher has sent
    outputSeq,  \* engine.output_seq
    lastHash,   \* engine.last_output_hash
    active,     \* order ids the book holds
    dedup       \* the deduplicator's queue, oldest first

memory == <<position, ring, published, matched, sent, built, at, out,
            outputSeq, lastHash, active, dedup>>
serverVars == <<topic, committed, memory, faults, outputs>>

Slot(n) == n % RingSize
EmptyEvent == [orders |-> <<>>, offset |-> 0, outputs |-> <<>>]

-----------------------------------------------------------------------------
(***************************************************************************)
(* The poll thread.                                                        *)
(***************************************************************************)

\* the messages of a batch that parse, in their order
Parsed(batch) ==
    LET upTo[i \in 0..Len(batch)] ==
          IF i = 0 THEN <<>>
          ELSE IF batch[i] = Bad THEN upTo[i - 1] ELSE Append(upTo[i - 1], batch[i])
    IN  upTo[Len(batch)]

\* Mutant: the offset is stored when the messages are read.
PollCommits(n) ==
    LET batch == SubSeq(topic, position + 1, position + n)
        good == {i \in 1..n : batch[i] # Bad}
    IN  /\ position + n <= Len(topic)
        /\ position' = position + n
        /\ good # {} => published - sent < RingSize
        /\ IF good = {} THEN UNCHANGED <<ring, published, committed>>
           ELSE /\ ring' = [ring EXCEPT ![Slot(published)] =
                              [@ EXCEPT !.orders = Parsed(batch),
                                        !.offset = position + Max(good)]]
                /\ published' = published + 1
                /\ committed' = position + n
        /\ UNCHANGED <<topic, matched, sent, built, at, out, outputSeq,
                       lastHash, active, dedup, faults, outputs>>

\* Mutant: the producer does not wait for the publisher.
PollOverruns(n) ==
    LET batch == SubSeq(topic, position + 1, position + n)
        good == {i \in 1..n : batch[i] # Bad}
    IN  /\ position + n <= Len(topic)
        /\ position' = position + n
        /\ IF good = {} THEN UNCHANGED <<ring, published>>
           ELSE /\ ring' = [ring EXCEPT ![Slot(published)] =
                              [@ EXCEPT !.orders = Parsed(batch),
                                        !.offset = position + Max(good)]]
                /\ published' = published + 1
        /\ UNCHANGED <<topic, committed, matched, sent, built, at, out, outputSeq,
                       lastHash, active, dedup, faults, outputs>>

\* read n messages; what parses goes on the ring as one event with the offset
\* of its last message.  The slot keeps the outputs of its last use.
Poll(n) ==
    LET batch == SubSeq(topic, position + 1, position + n)
        good == {i \in 1..n : batch[i] # Bad}
    IN  /\ position + n <= Len(topic)
        /\ position' = position + n
        /\ good # {} => published - sent < RingSize
        /\ IF good = {} THEN UNCHANGED <<ring, published>>
           ELSE /\ ring' = [ring EXCEPT ![Slot(published)] =
                              [@ EXCEPT !.orders = Parsed(batch),
                                        !.offset = position + Max(good)]]
                /\ published' = published + 1
        /\ UNCHANGED <<topic, committed, matched, sent, built, at, out, outputSeq,
                       lastHash, active, dedup, faults, outputs>>

-----------------------------------------------------------------------------
(***************************************************************************)
(* The matcher.                                                            *)
(***************************************************************************)

\* Mutant: nothing is remembered.
MarkNothing(o) == dedup

\* mark_processed: remember o, forget the oldest beyond the limit
MarkProcessed(o) ==
    IF Len(dedup) < DedupSize THEN Append(dedup, o) ELSE Append(Tail(dedup), o)

\* the engine takes an order that is not on the book: it may trade with
\* resting orders, and those it fills leave the book
EngineAccepts(o) ==
    \E filled \in SUBSET active, symbol \in Symbol :
        LET output == [seq |-> outputSeq + 1, prev |-> lastHash,
                       order |-> o, symbol |-> symbol]
        IN  /\ filled # {} => symbol = 1
            /\ active = {} => symbol = 0
            /\ active' = (active \ filled) \cup {o}
            /\ lastHash' = Hash(output)
            /\ built' = Append(built, output)

\* the matcher comes to the next order of its event
MatchOrder ==
    LET event == ring[Slot(matched)]
        o == event.orders[at + 1]
    IN  /\ matched < published /\ at < Len(event.orders)
        /\ at' = at + 1
        /\ IF o \in Range(dedup)
             THEN UNCHANGED <<dedup, outputSeq, lastHash, active, built>>
             ELSE /\ dedup' = MarkProcessed(o)
                  /\ outputSeq' = outputSeq + 1
                  /\ IF o \in active THEN UNCHANGED <<lastHash, active, built>>
                                     ELSE EngineAccepts(o)
        /\ UNCHANGED <<topic, committed, position, ring, published, matched,
                       sent, out, faults, outputs>>

\* the event is matched: outputs, if there are any, are put in its slot
MatchDone ==
    LET slot == Slot(matched)
    IN  /\ matched < published /\ at = Len(ring[slot].orders)
        /\ ring' = IF built = <<>> THEN ring ELSE [ring EXCEPT ![slot].outputs = built]
        /\ matched' = matched + 1
        /\ at' = 0
        /\ built' = <<>>
        /\ UNCHANGED <<topic, committed, position, published, sent, out, outputSeq,
                       lastHash, active, dedup, faults, outputs>>

-----------------------------------------------------------------------------
(***************************************************************************)
(* The publisher.                                                          *)
(***************************************************************************)

\* one output is sent, or refused, which is only logged
PublishOutput ==
    LET event == ring[Slot(sent)]
    IN  /\ sent < matched /\ out < Len(event.outputs)
        /\ out' = out + 1
        /\ \/ /\ outputs' = Append(outputs, event.outputs[out + 1])
              /\ UNCHANGED faults
           \/ /\ Fault("unsent")
              /\ UNCHANGED outputs
        /\ UNCHANGED <<topic, committed, position, ring, published, matched, sent,
                       built, at, outputSeq, lastHash, active, dedup>>

\* The event is done.  At the end of what the publisher found on the ring its
\* offset is stored, and rdkafka commits stored offsets from time to time: the
\* offset of this event is committed, or only a later one.
PublishDone ==
    LET event == ring[Slot(sent)]
    IN  /\ sent < matched /\ out = Len(event.outputs)
        /\ sent' = sent + 1
        /\ out' = 0
        /\ committed' \in {committed, event.offset}
        /\ UNCHANGED <<topic, position, ring, published, matched, built, at,
                       outputSeq, lastHash, active, dedup, faults, outputs>>

-----------------------------------------------------------------------------
\* the engine of a new process: the server takes no snapshot and has no order
\* log, so there is nothing to load
EngineInit == outputSeq = 0 /\ lastHash = GenesisHash /\ active = {}

MemoryInit ==
    /\ EngineInit
    /\ ring = [i \in 0..RingSize - 1 |-> EmptyEvent]
    /\ published = 0 /\ matched = 0 /\ sent = 0
    /\ built = <<>> /\ at = 0 /\ out = 0
    /\ dedup = <<>>

\* the topic holds what UBSCore forwards, duplicates included
ServerInit ==
    /\ topic \in [1..MaxMessages -> Orders \cup {Bad}]
    /\ committed = 0 /\ position = 0
    /\ MemoryInit
    /\ faults = [k \in FaultKind |-> 0]
    /\ outputs = <<>>

\* The process dies and starts again.  The snapshot directory is cleared and
\* there is no WAL, so the engine starts from nothing.
Restart ==
    /\ Fault("restart")
    /\ position' = committed
    /\ ring' = [i \in 0..RingSize - 1 |-> EmptyEvent]
    /\ published' = 0 /\ matched' = 0 /\ sent' = 0
    /\ built' = <<>> /\ at' = 0 /\ out' = 0
    /\ outputSeq' = 0 /\ lastHash' = GenesisHash
    /\ active' = {} /\ dedup' = <<>>
    /\ UNCHANGED <<topic, committed, outputs>>

ServerNext ==
    \/ \E n \in 1..BatchSize : Poll(n)
    \/ MatchOrder
    \/ MatchDone
    \/ PublishOutput
    \/ PublishDone
    \/ Restart

-----------------------------------------------------------------------------
ServerTypeOK ==
    /\ topic \in Seq(Orders \cup {Bad})
    /\ 0 <= committed /\ committed <= position /\ position <= Len(topic)
    /\ 0 <= sent /\ sent <= matched /\ matched <= published /\ published - sent <= RingSize
    /\ \A i \in DOMAIN ring :
          /\ ring[i].orders \in Seq(Orders) /\ ring[i].offset \in 0..MaxMessages
          /\ ring[i].outputs \in Seq(Output)
    /\ built \in Seq(Output) /\ at \in 0..BatchSize /\ out \in 0..BatchSize
    /\ outputSeq \in 0..MaxMessages /\ lastHash \in Chain
    /\ active \subseteq Orders
    /\ dedup \in Seq(Orders) /\ Len(dedup) <= DedupSize
    /\ outputs \in Seq(Output)
    /\ faults \in [FaultKind -> 0..MaxFaults]

\* matching_engine_server.rs: "if we crash before commit, Kafka will redeliver".
\* The offset of an order is committed only when its output is in Kafka: a
\* crash anywhere in the pipeline loses no order, unless Kafka refused an output.
AtLeastOnce ==
    faults["unsent"] = 0 =>
        \A i \in 1..committed :
            topic[i] # Bad => \E k \in DOMAIN outputs : outputs[k].order = topic[i]

\* "Critical for at-least-once delivery": an order that is delivered again is
\* not executed again in the life of an engine, even when it has left the book,
\* unless the deduplicator has seen DedupSize others since.
ExecutedOnce ==
    \A i, j \in DOMAIN lastHash :
        i < j /\ lastHash[i].order = lastHash[j].order =>
            lastHash[j].seq - lastHash[i].seq > DedupSize
=============================================================================
