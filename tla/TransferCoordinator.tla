------------------------ MODULE TransferCoordinator ------------------------
(***************************************************************************)
(* Internal Transfer V2: the coordinator (transfer/coordinator.rs), its    *)
(* ScyllaDB table (transfer/db.rs), the HTTP handlers and the background   *)
(* workers that drive it (transfer/worker.rs, internal_transfer_service).  *)
(*                                                                         *)
(* Every `.await` of the code is a point where another task may run, so    *)
(* every database statement and every service call is a step of its own.   *)
(* The service calls are left to the modules that extend this one: a call  *)
(* leaves from "call" (or "commit") and is awaited in "await" (or          *)
(* "finalize"); CallReturns and FinalizeReturns hand its OpResult to the   *)
(* step.                                                                   *)
(***************************************************************************)
EXTENDS Naturals, Sequences, FiniteSets

CONSTANTS
    Transfers,      \* req_ids; the HTTP handler that serves t is process t
    Workers,        \* background workers, one per OS process
    QueueWorker,    \* the worker of the process that also serves HTTP
    QueueCapacity,  \* capacity of TransferQueue
    MaxCrashes      \* bound: how often a process dies in one behaviour

ASSUME TransferAssumption ==
    /\ QueueWorker \in Workers
    /\ Transfers \cap Workers = {}
    /\ Transfers # {}
    /\ QueueCapacity \in Nat \ {0}
    /\ MaxCrashes \in Nat

VARIABLES
    state,     \* transfers.state of each row, "absent" before the INSERT
    source,    \* transfers.source of each row
    proc,      \* the async task of each process: [pc, tx, st, res]
    todo,      \* stale transfers a worker still has to go through
    queue,     \* TransferQueue of the HTTP process
    told,      \* the status the HTTP client was answered
    crashes    \* crashes so far

coordVars == <<state, source, proc, todo, queue, told, crashes>>

ServiceId == {"funding", "trading"}

TransferState == {"init", "source_pending", "source_done", "target_pending",
                  "compensating", "committed", "rolled_back", "failed"}

Terminal == {"committed", "rolled_back", "failed"}

TransferEvent == {"SourceCall", "SourceOk", "SourceFail", "TargetCall",
                  "TargetOk", "TargetFail", "RollbackOk", "RollbackFail"}

OpResult == {"Success", "Failed", "Pending"}

Procs == Transfers \cup Workers

PC == {"none", "idle", "get", "persist", "reread", "call", "await",
       "commit", "finalize", "handle", "retry", "return", "error", "done", "scan"}

(***************************************************************************)
(* transition(current, event) of state.rs.  The coordinator does not call  *)
(* it: that its updates agree with it is a property (FollowsFsm).          *)
(***************************************************************************)
TransitionTable ==
    {<<"init", "SourceCall", "source_pending">>,
     <<"init", "SourceOk", "source_done">>,
     <<"init", "SourceFail", "failed">>,
     <<"source_pending", "SourceOk", "source_done">>,
     <<"source_pending", "SourceFail", "failed">>,
     <<"source_done", "TargetCall", "target_pending">>,
     <<"source_done", "TargetOk", "committed">>,
     <<"source_done", "TargetFail", "compensating">>,
     <<"target_pending", "TargetOk", "committed">>,
     <<"target_pending", "TargetFail", "compensating">>,
     <<"compensating", "RollbackOk", "rolled_back">>}

\* Pairs outside the table leave the state alone (RollbackFail included).
Reaches(current, next) ==
    \/ next = current
    \/ \E e \in TransferEvent : <<current, e, next>> \in TransitionTable

-----------------------------------------------------------------------------
(***************************************************************************)
(* The database.  A conditional update is an LWT.  Its answer may be lost  *)
(* after it took effect ("error"), and a row that cannot be parsed counts  *)
(* as applied.                                                             *)
(***************************************************************************)

\* Mutant: the update without its IF clause.
CasUnconditional(t, expected, new) == state' = [state EXCEPT ![t] = new]

\* update_state_if / update_state_with_error: the effect on the row
CasApplied(t, expected, new) ==
    state' = [state EXCEPT ![t] = IF @ = expected THEN new ELSE @]

\* what the caller learns: the applied column, or TRUE if it does not parse
CasAnswers(t, expected) == {TRUE, state[t] = expected}

Goto(p, pc) == proc' = [proc EXCEPT ![p].pc = pc]

\* step() hands s back to its caller
Return(p, s) ==
    proc' = [proc EXCEPT ![p].pc = "return", ![p].st = s, ![p].res = "Pending"]

\* leave step(): its local variables are gone
Leave(p, pc) ==
    proc' = [proc EXCEPT ![p].pc = pc, ![p].st = "init", ![p].res = "Pending"]

-----------------------------------------------------------------------------
(***************************************************************************)
(* One FSM step: TransferCoordinator::step and the step_* functions.       *)
(***************************************************************************)

PendingOf(s) == IF s = "init" THEN "source_pending" ELSE "target_pending"

\* Mutant: Init calls the source before it persists SourcePending.
StepGetCallsFirst(p) ==
    /\ proc[p].pc = "get"
    /\ proc' = [proc EXCEPT
                  ![p].st = state[proc[p].tx],
                  ![p].pc = CASE state[proc[p].tx] \in Terminal -> "return"
                              [] state[proc[p].tx] = "source_done" -> "persist"
                              [] OTHER -> "call"]
    /\ UNCHANGED <<state, source, todo, queue, told, crashes>>

\* db.get at the head of step(): a terminal record returns at once, Init and
\* SourceDone persist before they call, the other states call straight away
StepGet(p) ==
    LET t == proc[p].tx
        s == state[t]
    IN  /\ proc[p].pc = "get"
        /\ proc' = [proc EXCEPT
                      ![p].st = s,
                      ![p].pc = CASE s \in Terminal -> "return"
                                  [] s \in {"init", "source_done"} -> "persist"
                                  [] OTHER -> "call"]
        /\ UNCHANGED <<state, source, todo, queue, told, crashes>>

\* persist-before-call of step_init and step_source_done
StepPersist(p) ==
    LET t == proc[p].tx
        s == proc[p].st
    IN  /\ proc[p].pc = "persist"
        /\ \E applied \in CasAnswers(t, s) :
              proc' = [proc EXCEPT
                         ![p].pc = IF applied THEN "call" ELSE "reread"]
        /\ CasApplied(t, s, PendingOf(s))
        /\ UNCHANGED <<source, todo, queue, told, crashes>>

\* db.get after a lost race: the step returns what the winner wrote
StepReread(p) ==
    /\ proc[p].pc = "reread"
    /\ Return(p, state[proc[p].tx])
    /\ UNCHANGED <<state, source, todo, queue, told, crashes>>

\* the operation a step calls
OpOf(s) ==
    CASE s \in {"init", "source_pending"} -> "withdraw"
      [] s \in {"source_done", "target_pending"} -> "deposit"
      [] OTHER -> "rollback"

\* the adapter's answer reaches the step; a successful deposit is followed
\* by finalize_source_commit before the result is handled
CallReturns(p, res) ==
    /\ proc[p].pc = "await"
    /\ proc' = [proc EXCEPT
                  ![p].res = res,
                  ![p].pc = IF OpOf(proc[p].st) = "deposit" /\ res = "Success"
                              THEN "commit" ELSE "handle"]

\* finalize_source_commit ignores what source.commit answers
FinalizeReturns(p) ==
    /\ proc[p].pc = "finalize"
    /\ Goto(p, "handle")

\* the row a step updates after its call: Init and SourceDone have already
\* moved to their pending state
Expected(s) == IF s \in {"init", "source_done"} THEN PendingOf(s) ELSE s

\* Mutant: a deposit that timed out is taken for a failed one.
NewStateTimeoutFails(s, src, res) ==
    CASE s \in {"init", "source_pending"} ->
           IF res = "Success" THEN "source_done"
           ELSE IF res = "Failed" THEN "failed" ELSE "source_pending"
      [] s \in {"source_done", "target_pending"} ->
           IF res = "Success" THEN "committed" ELSE "compensating"
      [] OTHER -> IF res = "Success" THEN "rolled_back" ELSE "compensating"

\* Mutant: a withdraw that timed out is taken for a failed one.
NewStateGivesUp(s, src, res) ==
    CASE s \in {"init", "source_pending"} ->
           IF res = "Success" THEN "source_done" ELSE "failed"
      [] s \in {"source_done", "target_pending"} ->
           IF res = "Success" THEN "committed"
           ELSE IF res = "Failed" THEN "compensating" ELSE "target_pending"
      [] OTHER -> IF res = "Success" THEN "rolled_back" ELSE "compensating"

\* the state the result of the call leads to; equal to Expected(s) when the
\* step leaves the row alone
NewState(s, src, res) ==
    CASE s \in {"init", "source_pending"} ->
           CASE res = "Success" -> "source_done"
             [] res = "Failed"  -> "failed"
             [] OTHER           -> "source_pending"
      [] s = "source_done" ->
           CASE res = "Success" -> "committed"
             [] res = "Failed"  -> "compensating"
             [] OTHER           -> "target_pending"
      [] s = "target_pending" ->
           CASE res = "Success" -> "committed"
             [] res = "Failed" /\ src # "trading" -> "compensating"
             [] OTHER           -> "target_pending"
      [] OTHER ->
           IF res = "Success" THEN "rolled_back" ELSE "compensating"

\* the match on the OpResult: the update's applied flag is ignored and the
\* step returns the state it meant to write; if nothing changed since the
\* record was read the retry counter is incremented first
StepHandle(p) ==
    LET t   == proc[p].tx
        s   == proc[p].st
        new == NewState(s, source[t], proc[p].res)
    IN  /\ proc[p].pc = "handle"
        /\ CasApplied(t, Expected(s), new)
        /\ IF new = s THEN Goto(p, "retry") ELSE Return(p, new)
        /\ UNCHANGED <<source, todo, queue, told, crashes>>

\* db.increment_retry
StepRetry(p) ==
    /\ proc[p].pc = "retry"
    /\ Return(p, proc[p].st)
    /\ UNCHANGED <<state, source, todo, queue, told, crashes>>

\* a database statement that fails with `?`; an update may have been applied.
\* A result that leaves the row alone issues no statement in "handle".
StepDbError(p) ==
    LET t == proc[p].tx
        s == proc[p].st
    IN  /\ proc[p].pc \in {"get", "persist", "reread", "handle", "retry"}
        /\ proc[p].pc = "handle" =>
              NewState(s, source[t], proc[p].res) # Expected(s)
        /\ Leave(p, "error")
        /\ \/ UNCHANGED state
           \/ proc[p].pc = "persist" /\ CasApplied(t, s, PendingOf(s))
           \/ /\ proc[p].pc = "handle"
              /\ CasApplied(t, Expected(s),
                            NewState(s, source[t], proc[p].res))
        /\ UNCHANGED <<source, todo, queue, told, crashes>>

Step(p) ==
    \/ StepGet(p) \/ StepPersist(p) \/ StepReread(p)
    \/ StepHandle(p) \/ StepRetry(p) \/ StepDbError(p)

-----------------------------------------------------------------------------
(***************************************************************************)
(* HTTP: handle_transfer creates the row, then runs process_now.           *)
(***************************************************************************)

\* what the gateway's handler, the transfer service's and create all demand
ValidRequest(from, to, amount) == amount # 0 /\ from # to

\* the INSERT of a new row
Inserts(t, from) ==
    /\ state' = [state EXCEPT ![t] = "init"]
    /\ source' = [source EXCEPT ![t] = from]

\* coordinator.create
Create(t, from, to, amount) ==
    /\ proc[t].pc = "none"
    /\ ValidRequest(from, to, amount)
    /\ Inserts(t, from)
    /\ proc' = [proc EXCEPT ![t].pc = "get", ![t].st = "init"]
    /\ UNCHANGED <<todo, queue, told, crashes>>

\* the request is invalid, or the INSERT fails: the client is told "failed".
\* An INSERT that fails with a timeout may still have written the row.
CreateFails(t, from, to, amount) ==
    /\ proc[t].pc = "none"
    /\ \/ UNCHANGED <<state, source>>
       \/ ValidRequest(from, to, amount) /\ Inserts(t, from)
    /\ told' = [told EXCEPT ![t] = "failed"]
    /\ Leave(t, "done")
    /\ UNCHANGED <<todo, queue, crashes>>

\* Mutant: the answer carries the intermediate state.
AnswerRaw(t, s) ==
    /\ told' = [told EXCEPT ![t] = s]
    /\ queue' = queue
    /\ Leave(t, "done")
    /\ UNCHANGED <<state, source, todo, crashes>>

\* the status a handler reports
Status(s) == IF s \in Terminal THEN s ELSE "pending"

\* the handler's answer for the state process_now returned; a transfer that is
\* still open is queued, unless the queue is full
Answer(t, s) ==
    /\ told' = [told EXCEPT ![t] = Status(s)]
    /\ queue' = IF s \notin Terminal /\ Len(queue) < QueueCapacity
                  THEN Append(queue, t) ELSE queue
    /\ Leave(t, "done")
    /\ UNCHANGED <<state, source, todo, crashes>>

\* process_now: the state is terminal or the deadline has passed
HandlerAnswers(t) == proc[t].pc = "return" /\ Answer(t, proc[t].st)

\* process_now: another step before the deadline
HandlerLoops(t) ==
    /\ proc[t].pc = "return"
    /\ proc[t].st \notin Terminal
    /\ Leave(t, "get")
    /\ UNCHANGED <<state, source, todo, queue, told, crashes>>

\* process_now after an Err: report what db.get says, Failed if it fails too
HandlerErrs(t) ==
    /\ proc[t].pc = "error"
    /\ \E s \in {state[t], "failed"} : Answer(t, s)

-----------------------------------------------------------------------------
(***************************************************************************)
(* The background worker: run_one_cycle, process_transfer and              *)
(* scan_stale_transfers.                                                   *)
(***************************************************************************)

Process(w, t) ==
    proc' = [proc EXCEPT ![w].pc = "get", ![w].tx = t, ![w].st = "init"]

WorkerPops(w) ==
    /\ w = QueueWorker
    /\ proc[w].pc = "idle"
    /\ todo[w] = {}
    /\ queue # <<>>
    /\ Process(w, Head(queue))
    /\ queue' = Tail(queue)
    /\ UNCHANGED <<state, source, todo, told, crashes>>

\* Mutant: find_stale forgets transfers that crashed right after the INSERT.
OpenButInit == {t \in Transfers : state[t] \notin Terminal \cup {"absent", "init"}}

\* find_stale: rows in a non-terminal state whose updated_at is old enough
Open == {t \in Transfers : state[t] \notin Terminal \cup {"absent"}}

\* run_one_cycle finds the queue empty and starts the scan
WorkerDrained(w) ==
    /\ proc[w].pc = "idle"
    /\ todo[w] = {}
    /\ w = QueueWorker => queue = <<>>
    /\ Leave(w, "scan")
    /\ UNCHANGED <<state, source, todo, queue, told, crashes>>

\* db.find_stale; an error or an empty result ends the cycle
WorkerScans(w, stale) ==
    /\ proc[w].pc = "scan"
    /\ stale \subseteq Open
    /\ todo' = [todo EXCEPT ![w] = stale]
    /\ Leave(w, "idle")
    /\ UNCHANGED <<state, source, queue, told, crashes>>

\* the next record of the scan's result
WorkerTakes(w, t) ==
    /\ proc[w].pc = "idle"
    /\ t \in todo[w]
    /\ Process(w, t)
    /\ todo' = [todo EXCEPT ![w] = @ \ {t}]
    /\ UNCHANGED <<state, source, queue, told, crashes>>

\* process_transfer steps until the state is terminal ...
WorkerLoops(w) ==
    /\ proc[w].pc = "return"
    /\ Leave(w, IF proc[w].st \in Terminal THEN "idle" ELSE "get")
    /\ UNCHANGED <<state, source, todo, queue, told, crashes>>

\* ... or until a step fails
WorkerErrs(w) ==
    /\ proc[w].pc = "error"
    /\ Leave(w, "idle")
    /\ UNCHANGED <<state, source, todo, queue, told, crashes>>

\* the OS process of w dies and restarts: tasks, scan result and queue are
\* lost, the table and the services are not
Crash(w) ==
    LET dead == IF w = QueueWorker THEN {w} \cup Transfers ELSE {w}
    IN  /\ crashes < MaxCrashes
        /\ crashes' = crashes + 1
        /\ proc' = [p \in Procs |->
                      IF p \notin dead \/ proc[p].pc = "none" THEN proc[p]
                      ELSE [pc  |-> IF p \in Workers THEN "idle" ELSE "done",
                            tx  |-> proc[p].tx,
                            st  |-> "init",
                            res |-> "Pending"]]
        /\ todo' = [todo EXCEPT ![w] = {}]
        /\ queue' = IF w = QueueWorker THEN <<>> ELSE queue
        /\ UNCHANGED <<state, source, told>>

-----------------------------------------------------------------------------
CoordInit ==
    /\ state = [t \in Transfers |-> "absent"]
    /\ source = [t \in Transfers |-> "funding"]
    /\ proc = [p \in Procs |->
                 [pc |-> IF p \in Workers THEN "idle" ELSE "none",
                  tx |-> IF p \in Transfers THEN p
                         ELSE CHOOSE t \in Transfers : TRUE,
                  st |-> "init", res |-> "Pending"]]
    /\ todo = [w \in Workers |-> {}]
    /\ queue = <<>>
    /\ told = [t \in Transfers |-> "none"]
    /\ crashes = 0

\* every step of the tasks except the service calls; crashes are composed by
\* the extending module, which knows what is in flight
CoordNext ==
    \/ \E p \in Procs : Step(p)
    \/ \E t \in Transfers :
          \/ \E from, to \in ServiceId, amount \in {0, 1} :
                Create(t, from, to, amount) \/ CreateFails(t, from, to, amount)
          \/ HandlerAnswers(t) \/ HandlerLoops(t) \/ HandlerErrs(t)
    \/ \E w \in Workers :
          \/ WorkerPops(w) \/ WorkerDrained(w)
          \/ \E stale \in SUBSET Transfers : WorkerScans(w, stale)
          \/ \E t \in Transfers : WorkerTakes(w, t)
          \/ WorkerLoops(w) \/ WorkerErrs(w)

CoordTypeOK ==
    /\ state \in [Transfers -> TransferState \cup {"absent"}]
    /\ source \in [Transfers -> ServiceId]
    /\ proc \in [Procs -> [pc : PC, tx : Transfers,
                           st : TransferState, res : OpResult]]
    /\ todo \in [Workers -> SUBSET Transfers]
    /\ queue \in Seq(Transfers)
    /\ Len(queue) <= QueueCapacity
    /\ told \in [Transfers -> Terminal \cup {"none", "pending"}]
    /\ crashes \in 0..MaxCrashes
=============================================================================
