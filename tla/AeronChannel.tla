---------------------------- MODULE AeronChannel ----------------------------
(***************************************************************************)
(* Request/response over Aeron IPC (ubs_core/comm/aeron_channel.rs, and    *)
(* the reply loop of bin/ubscore_aeron_service.rs).  Every AeronChannel    *)
(* numbers its requests from 1, hands the number to its poll thread, and   *)
(* publishes the request; UBSCore answers on one stream that every channel *)
(* subscribes to.                                                          *)
(***************************************************************************)
EXTENDS Naturals, Sequences, FiniteSets

CONSTANTS
    Channels,     \* the AeronChannels that connect: gateway_service opens one for
                  \* orders and one for transfers, internal_transfer_service another
    PerChannel,   \* bound: requests one channel makes
    RegCapacity   \* capacity of the queue that registers pending requests

ASSUME ChannelAssumption == PerChannel \in Nat \ {0} /\ RegCapacity \in Nat \ {0}

\* send_and_receive calls, named by their channel
Requests == Channels \X (1..PerChannel)
Owner(r) == r[1]

VARIABLES
    nextId,    \* next_correlation_id of each channel
    id,        \* correlation id of each request, 0 before it has one
    st,        \* where each send_and_receive is
    got,       \* the request whose answer was handed to this one, or <<>>
    reg,       \* pending_tx of each channel: requests on their way to the poll thread
    table,     \* the poll thread's map, as a set of <<correlation id, request>>
    thread,    \* the poll thread: "drain" pending_rx, then "poll" the subscription
    inbox,     \* requests published and not yet read by UBSCore
    outbox     \* answers not yet polled, per subscription

channelVars == <<nextId, id, st, got, reg, table, thread, inbox, outbox>>

CallStatus == {"new", "registered", "waiting", "answered", "timeout", "error"}

ChannelInit ==
    /\ nextId = [c \in Channels |-> 1]
    /\ id = [r \in Requests |-> 0]
    /\ st = [r \in Requests |-> "new"]
    /\ got = [r \in Requests |-> <<>>]
    /\ reg = [c \in Channels |-> <<>>]
    /\ table = [c \in Channels |-> {}]
    /\ thread = [c \in Channels |-> "drain"]
    /\ inbox = <<>>
    /\ outbox = [c \in Channels |-> <<>>]

\* Mutant: the correlation id is not advanced.
RegisterSameId(r) ==
    LET c == Owner(r)
    IN  /\ st[r] = "new"
        /\ Len(reg[c]) < RegCapacity
        /\ id' = [id EXCEPT ![r] = nextId[c]]
        /\ reg' = [reg EXCEPT ![c] = Append(@, r)]
        /\ st' = [st EXCEPT ![r] = "registered"]
        /\ UNCHANGED <<nextId, got, table, thread, inbox, outbox>>

\* Mutant: the registration channel is unbounded.
RegisterUnbounded(r) ==
    LET c == Owner(r)
    IN  /\ st[r] = "new"
        /\ nextId' = [nextId EXCEPT ![c] = @ + 1]
        /\ id' = [id EXCEPT ![r] = nextId[c]]
        /\ reg' = [reg EXCEPT ![c] = Append(@, r)]
        /\ st' = [st EXCEPT ![r] = "registered"]
        /\ UNCHANGED <<got, table, thread, inbox, outbox>>

\* take the next id and send the registration to the poll thread; blocks while
\* that channel is full
Register(r) ==
    LET c == Owner(r)
    IN  /\ st[r] = "new"
        /\ Len(reg[c]) < RegCapacity
        /\ nextId' = [nextId EXCEPT ![c] = @ + 1]
        /\ id' = [id EXCEPT ![r] = nextId[c]]
        /\ reg' = [reg EXCEPT ![c] = Append(@, r)]
        /\ st' = [st EXCEPT ![r] = "registered"]
        /\ UNCHANGED <<got, table, thread, inbox, outbox>>

\* publication.offer: accepted, or refused with an error code
Publish(r) ==
    /\ st[r] = "registered"
    /\ \/ /\ st' = [st EXCEPT ![r] = "waiting"]
          /\ inbox' = Append(inbox, r)
       \/ /\ st' = [st EXCEPT ![r] = "error"]
          /\ UNCHANGED inbox
    /\ UNCHANGED <<nextId, id, got, reg, table, thread, outbox>>

\* tokio::time::timeout: the entry stays with the poll thread
Timeout(r) ==
    /\ st[r] = "waiting"
    /\ st' = [st EXCEPT ![r] = "timeout"]
    /\ UNCHANGED <<nextId, id, got, reg, table, thread, inbox, outbox>>

-----------------------------------------------------------------------------
(***************************************************************************)
(* UBSCore echoes the correlation id.  Its offer is not checked, so an     *)
(* answer may be lost; otherwise every subscription of the stream gets it. *)
(***************************************************************************)
Answered(r) == [id |-> id[r], request |-> r]

ServerAnswers ==
    /\ inbox # <<>>
    /\ inbox' = Tail(inbox)
    /\ \/ outbox' = [c \in Channels |-> Append(outbox[c], Answered(Head(inbox)))]
       \/ UNCHANGED outbox
    /\ UNCHANGED <<nextId, id, st, got, reg, table, thread>>

-----------------------------------------------------------------------------
(***************************************************************************)
(* The poll thread: empty pending_rx, then poll, then again.               *)
(***************************************************************************)
PollRegisters(c) ==
    /\ thread[c] = "drain"
    /\ reg[c] # <<>>
    /\ table' = [table EXCEPT ![c] = @ \cup {<<id[Head(reg[c])], Head(reg[c])>>}]
    /\ reg' = [reg EXCEPT ![c] = Tail(@)]
    /\ UNCHANGED <<nextId, id, st, got, thread, inbox, outbox>>

PollStarts(c) ==
    /\ thread[c] = "drain"
    /\ reg[c] = <<>>
    /\ thread' = [thread EXCEPT ![c] = "poll"]
    /\ UNCHANGED <<nextId, id, st, got, reg, table, inbox, outbox>>

\* the entry with the answer's id is removed and its caller woken, if it is
\* still there to be woken
Take(c, a, e) ==
    /\ table' = [table EXCEPT ![c] = @ \ {e}]
    /\ got' = [got EXCEPT ![e[2]] = IF st[e[2]] = "waiting" THEN a.request ELSE @]
    /\ st' = [st EXCEPT ![e[2]] = IF @ = "waiting" THEN "answered" ELSE @]

\* one fragment of subscription.poll
PollDispatches(c) ==
    /\ thread[c] = "poll"
    /\ outbox[c] # <<>>
    /\ outbox' = [outbox EXCEPT ![c] = Tail(@)]
    /\ LET a == Head(outbox[c])
           entries == {e \in table[c] : e[1] = a.id}
       IN  IF entries # {}
             THEN \E e \in entries : Take(c, a, e)
             ELSE UNCHANGED <<table, got, st>>
    /\ UNCHANGED <<nextId, id, reg, thread, inbox>>

\* poll returns after at most 100 fragments, or when there are none
PollEnds(c) ==
    /\ thread[c] = "poll"
    /\ thread' = [thread EXCEPT ![c] = "drain"]
    /\ UNCHANGED <<nextId, id, st, got, reg, table, inbox, outbox>>

ChannelNext ==
    \/ \E r \in Requests : Register(r) \/ Publish(r) \/ Timeout(r)
    \/ ServerAnswers
    \/ \E c \in Channels : \/ PollRegisters(c) \/ PollStarts(c)
                          \/ PollDispatches(c) \/ PollEnds(c)

ChannelSpec == ChannelInit /\ [][ChannelNext]_channelVars

-----------------------------------------------------------------------------
(***************************************************************************)
(* Properties                                                              *)
(***************************************************************************)

\* The type invariant.
ChannelTypeOK ==
    /\ nextId \in [Channels -> 1..(PerChannel + 1)]
    /\ id \in [Requests -> 0..PerChannel]
    /\ st \in [Requests -> CallStatus]
    /\ got \in [Requests -> Requests \cup {<<>>}]
    /\ reg \in [Channels -> Seq(Requests)] /\ \A c \in Channels : Len(reg[c]) <= RegCapacity
    /\ table \in [Channels -> SUBSET ((1..PerChannel) \X Requests)]
    /\ thread \in [Channels -> {"drain", "poll"}]
    /\ inbox \in Seq(Requests)
    /\ outbox \in [Channels -> Seq([id : 1..PerChannel, request : Requests])]

\* the request has been published
Published(r) == st[r] \in {"waiting", "timeout", "answered"}

\* Answers are matched by correlation id, whatever is late, lost or given up: a
\* caller is handed the answer to a request that was published under its own
\* number, and never that of another request of its channel; and no entry is
\* left, after the answer, that another answer could be matched with.
AnsweredById ==
    /\ \A r \in Requests : st[r] = "answered" =>
          /\ Published(got[r]) /\ id[got[r]] = id[r]
          /\ Owner(got[r]) = Owner(r) => got[r] = r
    /\ \A c \in Channels : \A e \in table[c] :
          /\ Owner(e[2]) = c /\ e[1] = id[e[2]]
          /\ st[e[2]] # "answered"

\* aeron_channel.rs: "Caller just sees: send(payload) -> response".  A caller is
\* handed the answer to its own request.  It does not hold: channels number
\* their requests alike and listen to the same answers.
OwnAnswer == \A r \in Requests : st[r] = "answered" => got[r] = r
=============================================================================
