------------------------------ MODULE Transfer ------------------------------
(***************************************************************************)
(* Internal Transfer V2 over services that keep the ServiceAdapter         *)
(* contract (transfer/adapters/traits.rs): an operation is identified by   *)
(* its req_id, it is decided once, and every later call with that req_id   *)
(* answers the same.  A call may time out, and the service may decide it   *)
(* long after its caller gave up or died.                                  *)
(***************************************************************************)
EXTENDS TransferCoordinator

CONSTANT
    DepositMayFail  \* the services whose deposit may answer Failed

ASSUME DepositAssumption == DepositMayFail \subseteq ServiceId

VARIABLE
    ops     \* ops[t][o]: what became of operation o of transfer t

vars == <<coordVars, ops>>

Op == {"withdraw", "deposit", "commit", "rollback"}

\* "none": never asked; "asked": on its way; then decided for good
OpStatus == {"none", "asked", "ok", "fail"}

Target(t) == IF source[t] = "funding" THEN "trading" ELSE "funding"

Ask(t, o) ==
    ops' = [ops EXCEPT ![t][o] = IF @ = "none" THEN "asked" ELSE @]

\* withdraw, deposit or rollback leaves for the service
CallSent(p) ==
    /\ proc[p].pc = "call"
    /\ Ask(proc[p].tx, OpOf(proc[p].st))
    /\ Goto(p, "await")
    /\ UNCHANGED <<state, source, todo, queue, told, crashes>>

\* source.commit leaves for the service
CommitSent(p) ==
    /\ proc[p].pc = "commit"
    /\ Ask(proc[p].tx, "commit")
    /\ Goto(p, "finalize")
    /\ UNCHANGED <<state, source, todo, queue, told, crashes>>

\* what a service may decide.  A rollback is void_pending_transfer: it fails
\* once the pending transfer is posted, and always for Trading; a commit
\* fails once it is voided.
MayDecide(t, o, r) ==
    CASE o = "withdraw" -> r \in {"ok", "fail"}
      [] o = "deposit"  -> r = "ok" \/ (r = "fail" /\ Target(t) \in DepositMayFail)
      [] o = "commit"   -> r = IF ops[t]["rollback"] = "ok" THEN "fail" ELSE "ok"
      [] OTHER          -> r = IF source[t] = "trading" \/ ops[t]["commit"] = "ok"
                                 THEN "fail" ELSE "ok"

ServiceDecides(t, o, r) ==
    /\ ops[t][o] = "asked"
    /\ MayDecide(t, o, r)
    /\ ops' = [ops EXCEPT ![t][o] = r]
    /\ UNCHANGED coordVars

\* the answer to an awaited call: the decision if there is one ...
CallAnswered(p) ==
    LET d == ops[proc[p].tx][OpOf(proc[p].st)]
    IN  /\ d \in {"ok", "fail"}
        /\ CallReturns(p, IF d = "ok" THEN "Success" ELSE "Failed")
        /\ UNCHANGED <<state, source, todo, queue, told, crashes, ops>>

\* Mutant: a timeout is reported as a success.
CallTimeoutSucceeds(p) ==
    /\ CallReturns(p, "Success")
    /\ UNCHANGED <<state, source, todo, queue, told, crashes, ops>>

\* ... or Pending, for a timeout or a technical error, at any moment
CallTimesOut(p) ==
    /\ CallReturns(p, "Pending")
    /\ UNCHANGED <<state, source, todo, queue, told, crashes, ops>>

CommitReturns(p) ==
    /\ FinalizeReturns(p)
    /\ UNCHANGED <<state, source, todo, queue, told, crashes, ops>>

Init ==
    /\ CoordInit
    /\ ops = [t \in Transfers |-> [o \in Op |-> "none"]]

Next ==
    \/ CoordNext /\ UNCHANGED ops
    \/ (\E w \in Workers : Crash(w)) /\ UNCHANGED ops
    \/ \E p \in Procs : \/ CallSent(p) \/ CallAnswered(p) \/ CallTimesOut(p)
                        \/ CommitSent(p) \/ CommitReturns(p)
    \/ \E t \in Transfers, o \in Op, r \in {"ok", "fail"} :
          ServiceDecides(t, o, r)

Spec == Init /\ [][Next]_vars

-----------------------------------------------------------------------------
(***************************************************************************)
(* Properties                                                              *)
(***************************************************************************)

\* The type invariant.
TypeOK ==
    /\ CoordTypeOK
    /\ ops \in [Transfers -> [Op -> OpStatus]]

\* What became of the amount, seen from the two services.
Debited(t)  == ops[t]["withdraw"] = "ok"
Credited(t) == ops[t]["deposit"] = "ok"
Returned(t) == ops[t]["rollback"] = "ok"

\* No money is lost or made, whatever the interleaving of handler, workers,
\* late decisions, lost answers and crashes: nothing is credited or returned
\* that was not debited, an amount never goes to both sides, and the three
\* terminal states say where it is.
MoneyConserved ==
    \A t \in Transfers :
        /\ Credited(t) \/ Returned(t) => Debited(t)
        /\ ~(Credited(t) /\ Returned(t))
        /\ state[t] = "committed"   => Debited(t) /\ Credited(t)
        /\ state[t] = "rolled_back" => Debited(t) /\ Returned(t)
        /\ state[t] = "failed"      => ~Debited(t)

\* Persist-before-call: the row says that an operation may have been called
\* before any service can have seen it, so that a restart never forgets one.
PersistBeforeCall ==
    \A t \in Transfers :
        /\ ops[t]["withdraw"] # "none" => state[t] \notin {"absent", "init"}
        /\ ops[t]["deposit"] # "none" =>
              state[t] \in {"target_pending", "compensating", "committed", "rolled_back"}
        /\ ops[t]["rollback"] # "none" => state[t] \in {"compensating", "rolled_back"}

\* A client is told "committed" or "rolled_back" only when the money is there,
\* although the step ignores whether its last update was applied.
ToldTruthfully ==
    \A t \in Transfers :
        /\ told[t] = "committed"   => Credited(t) /\ ~Returned(t)
        /\ told[t] = "rolled_back" => Returned(t) /\ ~Credited(t)

\* Every write to the table, by whichever task, is a transition of state.rs;
\* in particular a terminal state is final.
FollowsFsm ==
    [][\A t \in Transfers :
          \/ state[t] = "absent" /\ state'[t] = "init"
          \/ Reaches(state[t], state'[t])]_vars

\* The mapping to AtomicTransfer: the row without its intermediate states, and
\* the place of the amount as the services know it.
StatusOf(s) == IF s \in Terminal \cup {"absent"} THEN s ELSE "open"

FundsOf(o) ==
    CASE o["withdraw"] # "ok" -> "source"
      [] o["deposit"] = "ok"  -> "target"
      [] o["rollback"] = "ok" -> "returned"
      [] OTHER                -> "between"

Atomic == INSTANCE AtomicTransfer WITH
    status <- [t \in Transfers |-> StatusOf(state[t])],
    funds  <- [t \in Transfers |-> FundsOf(ops[t])]

\* The coordinator, with its retries, races and crashes, implements a transfer
\* whose money moves once and only while the transfer is open.
ImplementsAtomic == Atomic!AtomicSpec

-----------------------------------------------------------------------------
(***************************************************************************)
(* Fairness: tokio runs every task; a service decides what it is asked;    *)
(* a statement or call that is repeated for ever does not fail for ever;   *)
(* an open row becomes stale, so some scan returns it.                     *)
(***************************************************************************)
Fairness ==
    /\ \A p \in Procs :
          /\ WF_vars(Step(p) /\ UNCHANGED ops)
          /\ WF_vars(CallSent(p)) /\ WF_vars(CommitSent(p)) /\ WF_vars(CommitReturns(p))
          /\ WF_vars(CallAnswered(p) \/ CallTimesOut(p))
    /\ \A t \in Transfers :
          /\ WF_vars((HandlerAnswers(t) \/ HandlerErrs(t)) /\ UNCHANGED ops)
          /\ \A o \in Op : WF_vars(\E r \in {"ok", "fail"} : ServiceDecides(t, o, r))
    /\ \A w \in Workers :
          /\ WF_vars((WorkerPops(w) \/ WorkerDrained(w)) /\ UNCHANGED ops)
          /\ WF_vars((WorkerLoops(w) \/ WorkerErrs(w)) /\ UNCHANGED ops)
          /\ WF_vars((\E t \in Transfers : WorkerTakes(w, t)) /\ UNCHANGED ops)
          /\ WF_vars((\E stale \in SUBSET Transfers : WorkerScans(w, stale)) /\ UNCHANGED ops)
          /\ \A t \in Transfers :
                SF_vars((\E stale \in SUBSET Transfers :
                           t \in stale /\ WorkerScans(w, stale)) /\ UNCHANGED ops)
          /\ SF_vars(StepGet(w) /\ UNCHANGED ops)
          /\ SF_vars(StepPersist(w) /\ UNCHANGED ops)
          /\ SF_vars(CallAnswered(w))
          /\ SF_vars(proc[w].res # "Pending" /\ StepHandle(w) /\ UNCHANGED ops)

FairSpec == Spec /\ Fairness

\* Every transfer that has a row ends in a terminal state, whatever was lost
\* or crashed on the way.
EveryTransferEnds ==
    \A t \in Transfers : state[t] # "absent" ~> state[t] \in Terminal
=============================================================================
