--------------------------- MODULE TransferProofs ---------------------------
(***************************************************************************)
(* Proofs about Transfer: its type invariant, the inductive invariant from *)
(* which the conservation of money follows, the state machine every row    *)
(* follows, and the refinement of AtomicTransfer, for any number of        *)
(* transfers and workers.                                                  *)
(***************************************************************************)
EXTENDS Transfer, TLAPS

(***************************************************************************)
(* The states a row may be in once a task has read s.                      *)
(***************************************************************************)
After(s) ==
    CASE s = "init"           -> TransferState
      [] s = "source_pending" -> TransferState \ {"init"}
      [] s = "source_done"    -> {"source_done", "target_pending", "compensating",
                                  "committed", "rolled_back"}
      [] s = "target_pending" -> {"target_pending", "compensating",
                                  "committed", "rolled_back"}
      [] s = "compensating"   -> {"compensating", "rolled_back"}
      [] OTHER                -> {s}

(***************************************************************************)
(* A row and what the services know of its transfer.                       *)
(***************************************************************************)
RowInv(t) ==
    /\ ops[t]["withdraw"] # "none" => state[t] \notin {"absent", "init"}
    /\ ops[t]["deposit"] # "none" => state[t] \in After("target_pending")
    /\ ops[t]["rollback"] # "none" => state[t] \in After("compensating")
    /\ ops[t]["commit"] # "none" => ops[t]["deposit"] = "ok"
    /\ state[t] \in After("source_done") => ops[t]["withdraw"] = "ok"
    /\ state[t] = "failed" => ops[t]["withdraw"] = "fail"
    /\ state[t] = "committed" => ops[t]["deposit"] = "ok"
    /\ state[t] \in After("compensating") => ops[t]["deposit"] = "fail"
    /\ state[t] = "rolled_back" => ops[t]["rollback"] = "ok"
    /\ told[t] = "committed" => ops[t]["deposit"] = "ok"
    /\ told[t] = "rolled_back" => ops[t]["rollback"] = "ok"

Resting == {"none", "idle", "done", "scan"}

InCall == {"call", "await", "commit", "finalize", "handle"}

(***************************************************************************)
(* What a task knows: the row has not gone back behind the record it read, *)
(* and the result it holds is what the service decided.                    *)
(***************************************************************************)
TaskInv(p) ==
    LET t == proc[p].tx
        s == proc[p].st
        c == proc[p].pc
    IN  /\ c \notin Resting => state[t] # "absent"
        /\ c \in {"persist", "reread"} =>
              s \in {"init", "source_done"} /\ state[t] \in After(s)
        /\ c \in InCall =>
              s \in TransferState \ Terminal /\ state[t] \in After(Expected(s))
        /\ c \in {"commit", "finalize"} =>
              OpOf(s) = "deposit" /\ proc[p].res = "Success"
        /\ c \in {"commit", "finalize", "handle"} =>
              /\ proc[p].res = "Success" => ops[t][OpOf(s)] = "ok"
              /\ proc[p].res = "Failed"  => ops[t][OpOf(s)] = "fail"
        /\ c = "retry" => s \notin Terminal
        /\ c = "return" /\ s = "committed" => ops[t]["deposit"] = "ok"
        /\ c = "return" /\ s = "rolled_back" => ops[t]["rollback"] = "ok"

(***************************************************************************)
(* A handler serves its own transfer, which has no row before it starts,   *)
(* and only transfers that have a row are queued or scanned.               *)
(***************************************************************************)
WiringInv ==
    /\ \A t \in Transfers :
          proc[t].tx = t /\ (proc[t].pc = "none" => state[t] = "absent")
    /\ \A w \in Workers : proc[w].pc # "none"
    /\ \A w \in Workers : \A t \in todo[w] : state[t] # "absent"
    /\ \A i \in 1..Len(queue) : state[queue[i]] # "absent"

IndInv ==
    /\ TypeOK
    /\ WiringInv
    /\ \A t \in Transfers : RowInv(t)
    /\ \A p \in Procs : TaskInv(p)

-----------------------------------------------------------------------------
(***************************************************************************)
(* How the actions update proc.                                            *)
(***************************************************************************)
Task == [pc : PC, tx : Transfers, st : TransferState, res : OpResult]

\* p now has program counter c and the locals t, s and r; no other task moved
Becomes(p, c, t, s, r) ==
    /\ proc' \in [Procs -> Task]
    /\ proc'[p].pc = c
    /\ proc'[p].tx = t
    /\ proc'[p].st = s
    /\ proc'[p].res = r
    /\ \A q \in Procs : q # p => proc'[q] = proc[q]

\* Goto changes the program counter of one task and nothing else of it.
LEMMA GotoEffect ==
    ASSUME TypeOK, NEW p \in Procs, NEW c \in PC, Goto(p, c)
    PROVE  Becomes(p, c, proc[p].tx, proc[p].st, proc[p].res)
  BY DEF TypeOK, CoordTypeOK, Goto, Becomes, Task

\* Return stores the state the step hands back.
LEMMA ReturnEffect ==
    ASSUME TypeOK, NEW p \in Procs, NEW s \in TransferState, Return(p, s)
    PROVE  Becomes(p, "return", proc[p].tx, s, "Pending")
  BY ZenonT(30) DEF TypeOK, CoordTypeOK, Return, Becomes, Task, PC, OpResult

\* Leave forgets the locals of the step.
LEMMA LeaveEffect ==
    ASSUME TypeOK, NEW p \in Procs, NEW c \in PC, Leave(p, c)
    PROVE  Becomes(p, c, proc[p].tx, "init", "Pending")
  BY ZenonT(30) DEF TypeOK, CoordTypeOK, Leave, Becomes, Task, OpResult, TransferState

\* Process starts a worker on a transfer.
LEMMA ProcessEffect ==
    ASSUME TypeOK, NEW p \in Procs, NEW t \in Transfers, Process(p, t)
    PROVE  Becomes(p, "get", t, "init", proc[p].res)
  BY ZenonT(30) DEF TypeOK, CoordTypeOK, Process, Becomes, Task, PC, TransferState

\* CallReturns stores the result and goes on to commit or to handle it.
LEMMA CallReturnsEffect ==
    ASSUME TypeOK, NEW p \in Procs, NEW r \in OpResult, CallReturns(p, r)
    PROVE  \/ /\ OpOf(proc[p].st) = "deposit" /\ r = "Success"
              /\ Becomes(p, "commit", proc[p].tx, proc[p].st, r)
           \/ /\ ~(OpOf(proc[p].st) = "deposit" /\ r = "Success")
              /\ Becomes(p, "handle", proc[p].tx, proc[p].st, r)
  BY DEF TypeOK, CoordTypeOK, CallReturns, Becomes, Task, PC

\* StepGet: the task holds the row it read and knows what to do next.
LEMMA StepGetEffect ==
    ASSUME TypeOK, NEW p \in Procs, StepGet(p), state[proc[p].tx] # "absent"
    PROVE  LET s == state[proc[p].tx]
           IN  \/ /\ s \in Terminal
                  /\ Becomes(p, "return", proc[p].tx, s, proc[p].res)
               \/ /\ s \in {"init", "source_done"}
                  /\ Becomes(p, "persist", proc[p].tx, s, proc[p].res)
               \/ /\ s \notin Terminal \cup {"init", "source_done"}
                  /\ Becomes(p, "call", proc[p].tx, s, proc[p].res)
  BY SMTT(30) DEF TypeOK, CoordTypeOK, StepGet, Becomes, Task, PC, Terminal

\* StepPersist: only the program counter of the task moves.
LEMMA StepPersistEffect ==
    ASSUME TypeOK, NEW p \in Procs, StepPersist(p)
    PROVE  \E c \in {"call", "reread"} :
              Becomes(p, c, proc[p].tx, proc[p].st, proc[p].res)
<1>1. PICK applied \in CasAnswers(proc[p].tx, proc[p].st) :
         proc' = [proc EXCEPT ![p].pc = IF applied THEN "call" ELSE "reread"]
  BY DEF StepPersist
<1>2. CASE applied
  <2>1. Goto(p, "call")
    BY <1>1, <1>2 DEF Goto
  <2> QED  BY <2>1, GotoEffect DEF PC
<1>3. CASE ~applied
  <2>1. Goto(p, "reread")
    BY <1>1, <1>3 DEF Goto
  <2> QED  BY <2>1, GotoEffect DEF PC
<1> QED  BY <1>2, <1>3

\* Create starts the handler of t on its own transfer.
LEMMA CreateEffect ==
    ASSUME TypeOK, NEW t \in Transfers, NEW from, NEW to, NEW amount,
           Create(t, from, to, amount)
    PROVE  Becomes(t, "get", proc[t].tx, "init", proc[t].res)
  BY DEF TypeOK, CoordTypeOK, Create, Inserts, Becomes, Task, PC, Procs, TransferState

\* A crash leaves every task as it was or at rest with no locals.
LEMMA CrashEffect ==
    ASSUME TypeOK, NEW w \in Workers, Crash(w)
    PROVE  /\ proc' \in [Procs -> Task]
           /\ \A q \in Procs :
                 \/ proc'[q] = proc[q]
                 \/ /\ proc[q].pc # "none"
                    /\ proc'[q].pc = IF q \in Workers THEN "idle" ELSE "done"
                    /\ proc'[q].tx = proc[q].tx
  BY DEF TypeOK, CoordTypeOK, Crash, Task, PC, Procs, TransferState, OpResult

\* The state a result leads to is a state, and one the table allows.
LEMMA NewStateType ==
    ASSUME NEW s \in TransferState, NEW src, NEW r
    PROVE  NewState(s, src, r) \in TransferState
  BY DEF NewState, TransferState

-----------------------------------------------------------------------------
(***************************************************************************)
(* What one task knows stays true while others move.                       *)
(***************************************************************************)

\* Rows only go forward, and what a service decided stays decided.
Advances ==
    /\ state' \in [Transfers -> TransferState \cup {"absent"}]
    /\ ops' \in [Transfers -> [Op -> OpStatus]]
    /\ \A t \in Transfers :
          /\ state[t] # "absent" => state'[t] \in After(state[t])
          /\ \A o \in Op : ops[t][o] \in {"ok", "fail"} => ops'[t][o] = ops[t][o]

\* A row that exists goes on existing.
LEMMA AfterType ==
    ASSUME NEW s \in TransferState, NEW x \in After(s)
    PROVE  x \in TransferState /\ x # "absent"
  BY DEF After, TransferState

\* A row that went forward is still after everything it was after.
LEMMA AfterTransitive ==
    ASSUME NEW s \in TransferState, NEW x \in After(s), NEW y \in After(x)
    PROVE  /\ y \in After(s)
           /\ y # "absent"
           /\ x \in TransferState
  BY DEF After, TransferState

\* OpOf names one of the operations, Expected one of the states.
LEMMA OpOfType ==
    ASSUME NEW s \in TransferState
    PROVE  OpOf(s) \in Op /\ Expected(s) \in TransferState
  BY DEF OpOf, Op, Expected, PendingOf, TransferState

\* The task invariant of a task that did not move.
LEMMA TaskFrame ==
    ASSUME TypeOK, NEW q \in Procs, TaskInv(q), proc'[q] = proc[q], Advances
    PROVE  TaskInv(q)'
<1> DEFINE t == proc[q].tx
           s == proc[q].st
           c == proc[q].pc
<1>1. t \in Transfers /\ s \in TransferState
  BY DEF TypeOK, CoordTypeOK
<1>2. \A x \in TransferState : state[t] \in After(x) => state'[t] \in After(x)
  <2> TAKE x \in TransferState
  <2> HAVE state[t] \in After(x)
  <2>1. state[t] # "absent"
    BY DEF After, TransferState
  <2> QED  BY <1>1, <2>1, AfterTransitive DEF Advances
<1>3. state[t] # "absent" => state'[t] # "absent"
  <2>1. state[t] \in TransferState \cup {"absent"}
    BY <1>1 DEF TypeOK, CoordTypeOK
  <2> QED  BY <1>1, <2>1, AfterType DEF Advances
<1>4. OpOf(s) \in Op /\ Expected(s) \in TransferState
  BY <1>1, OpOfType
<1>5. \A o \in Op : /\ ops[t][o] = "ok" => ops'[t][o] = "ok"
                    /\ ops[t][o] = "fail" => ops'[t][o] = "fail"
  BY <1>1 DEF Advances
<1>6. "deposit" \in Op /\ "rollback" \in Op
  BY DEF Op
<1> QED
  BY <1>1, <1>2, <1>3, <1>4, <1>5, <1>6 DEF TaskInv

\* Nothing moved: every row advances trivially.
LEMMA AdvancesUnchanged ==
    ASSUME TypeOK, UNCHANGED <<state, ops>>
    PROVE  Advances
  BY DEF Advances, TypeOK, CoordTypeOK, After, TransferState

\* A step that changes only the task p keeps the invariant if p keeps its own.
LEMMA LocalStep ==
    ASSUME IndInv, NEW p \in Procs, NEW c, NEW s, NEW r,
           Becomes(p, c, proc[p].tx, s, r), c # "none",
           UNCHANGED <<state, source, todo, queue, told, crashes, ops>>,
           TaskInv(p)'
    PROVE  IndInv'
<1>1. TypeOK'
  BY DEF IndInv, TypeOK, CoordTypeOK, Becomes, Task
<1>2. WiringInv'
  BY TransferAssumption DEF IndInv, WiringInv, Becomes, Procs
<1>3. \A t \in Transfers : RowInv(t)'
  BY DEF IndInv, RowInv
<1>4. \A q \in Procs : TaskInv(q)'
  BY AdvancesUnchanged, TaskFrame DEF IndInv, Becomes
<1> QED  BY <1>1, <1>2, <1>3, <1>4 DEF IndInv

-----------------------------------------------------------------------------
(***************************************************************************)
(* The invariant is preserved: steps that only move their own task.        *)
(***************************************************************************)

\* The pieces of the invariant about one task and its transfer.
LEMMA TaskFacts ==
    ASSUME IndInv, NEW p \in Procs
    PROVE  /\ TypeOK
           /\ TaskInv(p)
           /\ proc[p].tx \in Transfers
           /\ proc[p].st \in TransferState
           /\ proc[p].pc \in PC
           /\ proc[p].res \in OpResult
           /\ state[proc[p].tx] \in TransferState \cup {"absent"}
           /\ RowInv(proc[p].tx)
  BY DEF IndInv, TypeOK, CoordTypeOK

\* The read at the head of a step.
LEMMA StepGetInv ==
    ASSUME IndInv, NEW p \in Procs, StepGet(p), UNCHANGED ops
    PROVE  IndInv'
<1> DEFINE t == proc[p].tx
           s == state[t]
<1>1. s \in TransferState /\ s # "absent" /\ t \in Transfers
  BY TaskFacts DEF TaskInv, StepGet, Resting
<1>2. CASE s \in Terminal /\ Becomes(p, "return", t, s, proc[p].res)
  <2>1. TaskInv(p)'
    BY <1>1, <1>2, TaskFacts DEF TaskInv, Becomes, StepGet, RowInv, InCall
  <2> QED  BY <1>2, <2>1, LocalStep DEF StepGet
<1>3. CASE s \in {"init", "source_done"} /\ Becomes(p, "persist", t, s, proc[p].res)
  <2>1. s \in After(s)
    BY <1>3 DEF After, TransferState
  <2>2. TaskInv(p)'
    BY <1>1, <1>3, <2>1 DEF TaskInv, Becomes, StepGet, InCall
  <2> QED  BY <1>3, <2>2, LocalStep DEF StepGet
<1>4. CASE /\ s \notin Terminal \cup {"init", "source_done"}
           /\ Becomes(p, "call", t, s, proc[p].res)
  <2>1. s \in After(Expected(s))
    BY <1>1, <1>4 DEF After, Expected, TransferState, Terminal
  <2>2. TaskInv(p)'
    BY <1>1, <1>4, <2>1 DEF TaskInv, Becomes, StepGet, InCall
  <2> QED  BY <1>4, <2>2, LocalStep DEF StepGet
<1> QED  BY <1>1, <1>2, <1>3, <1>4, StepGetEffect, TaskFacts

\* The second read after a lost race.
LEMMA StepRereadInv ==
    ASSUME IndInv, NEW p \in Procs, StepReread(p), UNCHANGED ops
    PROVE  IndInv'
<1> DEFINE t == proc[p].tx
           s == state[t]
<1>1. s \in TransferState /\ s # "absent" /\ t \in Transfers
  BY TaskFacts DEF TaskInv, StepReread, Resting
<1>2. Becomes(p, "return", t, s, "Pending")
  BY <1>1, ReturnEffect, TaskFacts DEF StepReread
<1>3. TaskInv(p)'
  BY <1>1, <1>2, TaskFacts DEF TaskInv, Becomes, StepReread, RowInv, InCall
<1> QED  BY <1>2, <1>3, LocalStep DEF StepReread

\* increment_retry.
LEMMA StepRetryInv ==
    ASSUME IndInv, NEW p \in Procs, StepRetry(p), UNCHANGED ops
    PROVE  IndInv'
<1>1. Becomes(p, "return", proc[p].tx, proc[p].st, "Pending")
  BY ReturnEffect, TaskFacts DEF StepRetry
<1>2. proc[p].st \notin Terminal /\ state[proc[p].tx] # "absent"
  BY TaskFacts DEF TaskInv, StepRetry, Resting
<1>3. TaskInv(p)'
  BY <1>1, <1>2 DEF TaskInv, Becomes, StepRetry, InCall, Terminal
<1> QED  BY <1>1, <1>3, LocalStep DEF StepRetry

\* A task that leaves a step knows nothing but that its row exists.
LEMMA LeaveInv ==
    ASSUME IndInv, NEW p \in Procs,
           NEW c \in {"get", "error", "idle", "done", "scan"},
           c \notin Resting => state[proc[p].tx] # "absent", Leave(p, c),
           UNCHANGED <<state, source, todo, queue, told, crashes, ops>>
    PROVE  IndInv'
<1>1. Becomes(p, c, proc[p].tx, "init", "Pending")
  BY LeaveEffect, TaskFacts DEF PC
<1>2. TaskInv(p)'
  BY <1>1 DEF TaskInv, Becomes, InCall
<1> QED  BY <1>1, <1>2, LocalStep

\* The loops of handler and worker, and the worker's error path.
LEMMA LoopInv ==
    ASSUME IndInv, UNCHANGED ops,
           \/ \E t \in Transfers : HandlerLoops(t)
           \/ \E w \in Workers : WorkerLoops(w) \/ WorkerErrs(w)
    PROVE  IndInv'
<1>1. ASSUME NEW t \in Transfers, HandlerLoops(t)  PROVE IndInv'
  <2>1. t \in Procs /\ state[proc[t].tx] # "absent"
    BY <1>1, TaskFacts DEF HandlerLoops, TaskInv, Resting, Procs
  <2> QED  BY <1>1, <2>1, LeaveInv DEF HandlerLoops
<1>2. ASSUME NEW w \in Workers, WorkerLoops(w)  PROVE IndInv'
  <2>1. w \in Procs /\ state[proc[w].tx] # "absent"
    BY <1>2, TaskFacts DEF WorkerLoops, TaskInv, Resting, Procs
  <2> QED  BY <1>2, <2>1, LeaveInv DEF WorkerLoops
<1>3. ASSUME NEW w \in Workers, WorkerErrs(w)  PROVE IndInv'
  <2>1. w \in Procs /\ state[proc[w].tx] # "absent"
    BY <1>3, TaskFacts DEF WorkerErrs, TaskInv, Resting, Procs
  <2> QED  BY <1>3, <2>1, LeaveInv DEF WorkerErrs
<1> QED  BY <1>1, <1>2, <1>3

\* The answers to the service calls.
LEMMA AnsweredInv ==
    ASSUME IndInv, NEW p \in Procs, CallAnswered(p) \/ CallTimesOut(p)
    PROVE  IndInv'
<1> DEFINE t == proc[p].tx
           s == proc[p].st
<1>1. /\ proc[p].pc = "await" /\ t \in Transfers
      /\ s \in TransferState \ Terminal
      /\ state[t] \in After(Expected(s)) /\ state[t] # "absent"
  BY TaskFacts DEF CallAnswered, CallTimesOut, CallReturns, TaskInv, InCall, Resting
<1>2. PICK r \in OpResult : /\ CallReturns(p, r)
                            /\ r = "Success" => ops[t][OpOf(s)] = "ok"
                            /\ r = "Failed" => ops[t][OpOf(s)] = "fail"
  <2>1. CASE CallAnswered(p)
    <3>1. CASE ops[t][OpOf(s)] = "ok"
      BY <2>1, <3>1 DEF CallAnswered, OpResult
    <3>2. CASE ops[t][OpOf(s)] = "fail"
      BY <2>1, <3>2 DEF CallAnswered, OpResult
    <3> QED  BY <2>1, <3>1, <3>2 DEF CallAnswered
  <2>2. CASE CallTimesOut(p)
    BY <2>2 DEF CallTimesOut, OpResult
  <2> QED  BY <2>1, <2>2
<1>3. UNCHANGED <<state, source, todo, queue, told, crashes, ops>>
  BY DEF CallAnswered, CallTimesOut
<1>4. CASE OpOf(s) = "deposit" /\ r = "Success" /\ Becomes(p, "commit", t, s, r)
  <2>1. TaskInv(p)'
    BY <1>1, <1>2, <1>3, <1>4 DEF TaskInv, Becomes, InCall
  <2> QED  BY <1>3, <1>4, <2>1, LocalStep
<1>5. CASE Becomes(p, "handle", t, s, r)
  <2>1. TaskInv(p)'
    BY <1>1, <1>2, <1>3, <1>5 DEF TaskInv, Becomes, InCall
  <2> QED  BY <1>3, <1>5, <2>1, LocalStep
<1> QED  BY <1>2, <1>4, <1>5, CallReturnsEffect, TaskFacts

\* finalize_source_commit returns.
LEMMA CommitReturnsInv ==
    ASSUME IndInv, NEW p \in Procs, CommitReturns(p)
    PROVE  IndInv'
<1>1. Becomes(p, "handle", proc[p].tx, proc[p].st, proc[p].res)
  BY GotoEffect, TaskFacts DEF CommitReturns, FinalizeReturns, PC
<1>2. /\ proc[p].pc = "finalize"
      /\ UNCHANGED <<state, source, todo, queue, told, crashes, ops>>
  BY DEF CommitReturns, FinalizeReturns
<1>3. TaskInv(p)'
  BY <1>1, <1>2, TaskFacts DEF TaskInv, Becomes, InCall, Resting
<1> QED  BY <1>1, <1>2, <1>3, LocalStep

-----------------------------------------------------------------------------
(***************************************************************************)
(* The invariant is preserved: steps that write the row.                   *)
(***************************************************************************)

\* A conditional update from the state a call belongs to, to the state its
\* result leads to, keeps the row and the services in agreement.
LEMMA CasRowInv ==
    ASSUME IndInv, NEW t \in Transfers,
           NEW old \in TransferState, NEW new \in After(old),
           CasApplied(t, old, new), UNCHANGED <<ops, told>>,
           state[t] = old => (RowInv(t))'
    PROVE  /\ Advances
           /\ \A x \in Transfers : RowInv(x)'
           /\ \A x \in Transfers : state[x] = "absent" => state'[x] = "absent"
<1>1. new \in TransferState
  BY AfterType
<1>2. state' \in [Transfers -> TransferState \cup {"absent"}]
  BY <1>1 DEF IndInv, TypeOK, CoordTypeOK, CasApplied
<1>3. \A x \in Transfers : \/ state'[x] = state[x]
                           \/ x = t /\ state[x] = old /\ state'[x] = new
  BY DEF IndInv, TypeOK, CoordTypeOK, CasApplied
<1>4. \A x \in TransferState : x \in After(x)
  BY DEF After, TransferState
<1>5. Advances
  BY <1>2, <1>3, <1>4 DEF Advances, IndInv, TypeOK, CoordTypeOK
<1>6. ASSUME NEW x \in Transfers  PROVE RowInv(x)'
  <2>1. CASE state'[x] = state[x]
    BY <2>1 DEF IndInv, RowInv
  <2> QED  BY <1>3, <2>1
<1>7. old # "absent"
  BY DEF TransferState
<1> QED  BY <1>3, <1>5, <1>6, <1>7

\* A step of p that also updates the row of its transfer.
LEMMA WriteStep ==
    ASSUME IndInv, NEW p \in Procs, NEW c, NEW s, NEW r,
           Becomes(p, c, proc[p].tx, s, r), c # "none",
           UNCHANGED <<source, todo, queue, told, crashes, ops>>,
           proc[p].pc \notin Resting,
           Advances, \A x \in Transfers : RowInv(x)', TaskInv(p)',
           \A x \in Transfers : state[x] = "absent" => state'[x] = "absent"
    PROVE  IndInv'
<1>1. TypeOK'
  BY DEF IndInv, TypeOK, CoordTypeOK, Becomes, Task, Advances
<1>2. \A q \in Procs : TaskInv(q)'
  BY TaskFrame DEF IndInv, Becomes
<1>3. \A t \in Transfers : state[t] # "absent" => state'[t] # "absent"
  BY AfterType DEF IndInv, TypeOK, CoordTypeOK, Advances
<1>4. WiringInv'
  <2>1. \A t \in Transfers : proc'[t].tx = t /\ (proc'[t].pc = "none" => state'[t] = "absent")
    BY DEF IndInv, WiringInv, Becomes, Procs
  <2>2. \A w \in Workers : proc'[w].pc # "none"
    BY DEF IndInv, WiringInv, Becomes, Procs
  <2>3. \A w \in Workers : \A t \in todo'[w] : state'[t] # "absent"
    BY <1>3 DEF IndInv, TypeOK, CoordTypeOK, WiringInv
  <2>4. \A i \in 1..Len(queue') : state'[queue'[i]] # "absent"
    BY <1>3 DEF IndInv, TypeOK, CoordTypeOK, WiringInv
  <2> QED  BY <2>1, <2>2, <2>3, <2>4 DEF WiringInv
<1> QED  BY <1>1, <1>2, <1>4 DEF IndInv

\* Persist-before-call: whether the update took effect or another task was
\* faster, the row is past the state it was read in.
LEMMA PersistRow ==
    ASSUME IndInv, NEW p \in Procs, proc[p].pc = "persist",
           CasApplied(proc[p].tx, proc[p].st, PendingOf(proc[p].st)),
           UNCHANGED <<ops, told>>
    PROVE  /\ Advances
           /\ \A x \in Transfers : RowInv(x)'
           /\ \A x \in Transfers : state[x] = "absent" => state'[x] = "absent"
           /\ proc[p].st \in {"init", "source_done"}
           /\ state'[proc[p].tx] \in After(Expected(proc[p].st))
<1>0. PICK t \in Transfers, s \in TransferState : t = proc[p].tx /\ s = proc[p].st
  BY TaskFacts
<1>1. /\ s \in {"init", "source_done"} /\ state[t] \in After(s)
      /\ RowInv(t)
  BY <1>0, TaskFacts DEF TaskInv
<1>2. PendingOf(s) \in After(s) /\ s \in TransferState
  BY <1>1 DEF PendingOf, After, TransferState
<1>3. state'[t] = IF state[t] = s THEN PendingOf(s) ELSE state[t]
  BY <1>0, <1>1 DEF CasApplied, IndInv, TypeOK, CoordTypeOK
<1>4. state[t] = s => RowInv(t)'
  BY <1>1, <1>3 DEF RowInv, PendingOf, After
<1>5. state'[t] \in After(Expected(s))
  BY <1>1, <1>3 DEF After, Expected, PendingOf, TransferState
<1> QED  BY <1>0, <1>1, <1>2, <1>4, <1>5, CasRowInv

\* Writing the next state of the row keeps the invariant.
LEMMA StepPersistInv ==
    ASSUME IndInv, NEW p \in Procs, StepPersist(p), UNCHANGED ops
    PROVE  IndInv'
<1> DEFINE t == proc[p].tx
           s == proc[p].st
<1>1. /\ Advances
      /\ \A x \in Transfers : RowInv(x)'
      /\ \A x \in Transfers : state[x] = "absent" => state'[x] = "absent"
      /\ s \in {"init", "source_done"}
      /\ state'[t] \in After(Expected(s))
  BY PersistRow DEF StepPersist
<1>2. t \in Transfers /\ proc[p].pc = "persist"
  BY TaskFacts DEF StepPersist
<1>3. PICK c \in {"call", "reread"} : Becomes(p, c, t, s, proc[p].res)
  BY StepPersistEffect, TaskFacts
<1>4. Expected(s) \in After(s) /\ s \in TransferState /\ s \notin Terminal
  BY <1>1 DEF Expected, PendingOf, After, TransferState, Terminal
<1>5. state'[t] \in After(s) /\ state'[t] # "absent"
  BY <1>1, <1>4, AfterTransitive
<1>6. TaskInv(p)'
  BY <1>1, <1>3, <1>4, <1>5 DEF TaskInv, Becomes, InCall
<1> QED  BY <1>1, <1>2, <1>3, <1>6, WriteStep DEF StepPersist, Resting

\* The result of a call is only written to a row that still waits for it, and
\* leads where the table of state.rs allows.
LEMMA HandleRow ==
    ASSUME IndInv, NEW p \in Procs, proc[p].pc = "handle",
           CasApplied(proc[p].tx, Expected(proc[p].st),
                      NewState(proc[p].st, source[proc[p].tx], proc[p].res)),
           UNCHANGED <<ops, told>>
    PROVE  /\ Advances
           /\ \A x \in Transfers : RowInv(x)'
           /\ \A x \in Transfers : state[x] = "absent" => state'[x] = "absent"
           /\ state'[proc[p].tx] # "absent"
<1>a. PICK t \in Transfers, s \in TransferState, r \in OpResult :
         t = proc[p].tx /\ s = proc[p].st /\ r = proc[p].res
  BY TaskFacts
<1>0. PICK src, new :
         /\ t = proc[p].tx /\ s = proc[p].st /\ r = proc[p].res
         /\ src = source[proc[p].tx] /\ new = NewState(s, src, r)
  BY <1>a
<1>1. /\ s \notin Terminal /\ state[t] \in After(Expected(s)) /\ RowInv(t)
      /\ r = "Success" => ops[t][OpOf(s)] = "ok"
      /\ r = "Failed" => ops[t][OpOf(s)] = "fail"
  BY <1>0, TaskFacts DEF TaskInv, InCall
<1>2. Expected(s) \in TransferState
  BY OpOfType
<1>3. new \in After(Expected(s))
  BY <1>0, <1>1 DEF NewState, Expected, PendingOf, After, TransferState, Terminal, OpResult
<1>4. state'[t] = IF state[t] = Expected(s) THEN new ELSE state[t]
  BY <1>0 DEF CasApplied, IndInv, TypeOK, CoordTypeOK
<1>5. ASSUME state[t] = Expected(s)  PROVE RowInv(t)'
  <2>1. state'[t] = new
    BY <1>4, <1>5
  <2>2. CASE s \in {"init", "source_pending"}
    <3>1. state[t] = "source_pending"
      BY <1>5, <2>2 DEF Expected, PendingOf
    <3>2. \/ new = "source_done" /\ ops[t]["withdraw"] = "ok"
          \/ new = "failed" /\ ops[t]["withdraw"] = "fail"
          \/ new = "source_pending"
      BY <1>0, <1>1, <2>2 DEF NewState, OpOf, OpResult
    <3> QED  BY <1>1, <2>1, <3>1, <3>2 DEF RowInv, After
  <2>3. CASE s \in {"source_done", "target_pending"}
    <3>1. state[t] = "target_pending"
      BY <1>5, <2>3 DEF Expected, PendingOf
    <3>2. \/ new = "committed" /\ ops[t]["deposit"] = "ok"
          \/ new = "compensating" /\ ops[t]["deposit"] = "fail"
          \/ new = "target_pending"
      BY <1>0, <1>1, <2>3 DEF NewState, OpOf, OpResult
    <3> QED  BY <1>1, <2>1, <3>1, <3>2 DEF RowInv, After
  <2>4. CASE s = "compensating"
    <3>1. state[t] = "compensating"
      BY <1>5, <2>4 DEF Expected
    <3>2. \/ new = "rolled_back" /\ ops[t]["rollback"] = "ok"
          \/ new = "compensating"
      BY <1>0, <1>1, <2>4 DEF NewState, OpOf, OpResult
    <3> QED  BY <1>1, <2>1, <3>1, <3>2 DEF RowInv, After
  <2> QED  BY <1>1, <2>2, <2>3, <2>4 DEF TransferState, Terminal
<1>6. state'[t] # "absent"
  BY <1>1, <1>2, <1>3, <1>4, AfterType
<1> QED  BY <1>0, <1>2, <1>3, <1>5, <1>6, CasRowInv

\* The write after a call, and the state the step hands back.
LEMMA StepHandleInv ==
    ASSUME IndInv, NEW p \in Procs, StepHandle(p), UNCHANGED ops
    PROVE  IndInv'
<1>a. PICK t \in Transfers, s \in TransferState, r \in OpResult :
         t = proc[p].tx /\ s = proc[p].st /\ r = proc[p].res
  BY TaskFacts
<1>0. PICK src, new :
         /\ t = proc[p].tx /\ s = proc[p].st /\ r = proc[p].res
         /\ src = source[proc[p].tx] /\ new = NewState(s, src, r)
  BY <1>a
<1>1. /\ proc[p].pc = "handle"
      /\ CasApplied(t, Expected(s), new)
      /\ IF new = s THEN Goto(p, "retry") ELSE Return(p, new)
      /\ UNCHANGED <<source, todo, queue, told, crashes>>
  BY <1>0 DEF StepHandle
<1>2. /\ Advances
      /\ \A x \in Transfers : RowInv(x)'
      /\ \A x \in Transfers : state[x] = "absent" => state'[x] = "absent"
      /\ state'[t] # "absent"
  BY <1>0, <1>1, HandleRow
<1>3. /\ s \notin Terminal
      /\ r = "Success" => ops[t][OpOf(s)] = "ok"
      /\ new \in TransferState
  BY <1>0, <1>1, TaskFacts, NewStateType DEF TaskInv, InCall
<1>4. CASE new = s
  <2>1. Becomes(p, "retry", t, s, r)
    BY <1>0, <1>1, <1>4, GotoEffect, TaskFacts DEF PC
  <2>2. TaskInv(p)'
    BY <1>2, <1>3, <2>1 DEF TaskInv, Becomes, InCall
  <2> QED  BY <1>0, <1>1, <1>2, <2>1, <2>2, WriteStep DEF Resting
<1>5. CASE new # s
  <2>1. Becomes(p, "return", t, new, "Pending")
    BY <1>0, <1>1, <1>3, <1>5, ReturnEffect, TaskFacts
  <2>2. /\ new = "committed" => ops[t]["deposit"] = "ok"
        /\ new = "rolled_back" => ops[t]["rollback"] = "ok"
    BY <1>0, <1>3 DEF NewState, OpOf, OpResult, TransferState, Terminal
  <2>3. TaskInv(p)'
    BY <1>2, <1>3, <2>1, <2>2 DEF TaskInv, Becomes, InCall
  <2> QED  BY <1>0, <1>1, <1>2, <2>1, <2>3, WriteStep DEF Resting
<1> QED  BY <1>4, <1>5

\* A failed statement, applied or not.
LEMMA StepDbErrorInv ==
    ASSUME IndInv, NEW p \in Procs, StepDbError(p), UNCHANGED ops
    PROVE  IndInv'
<1>0. PICK t \in Transfers, s \in TransferState : t = proc[p].tx /\ s = proc[p].st
  BY TaskFacts
<1>1. /\ proc[p].pc \in {"get", "persist", "reread", "handle", "retry"}
      /\ Leave(p, "error")
      /\ UNCHANGED <<source, todo, queue, told, crashes>>
  BY DEF StepDbError
<1>2. state[t] # "absent"
  BY <1>0, <1>1, TaskFacts DEF TaskInv, Resting
<1>3. Becomes(p, "error", t, "init", "Pending")
  BY <1>0, <1>1, LeaveEffect, TaskFacts DEF PC
<1>4. ASSUME Advances, \A x \in Transfers : RowInv(x)',
             \A x \in Transfers : state[x] = "absent" => state'[x] = "absent"
      PROVE  IndInv'
  <2>1. state[t] \in TransferState
    BY <1>2, TaskFacts, <1>0
  <2>2. state'[t] # "absent"
    BY <1>2, <1>4, <2>1, AfterType DEF Advances
  <2>3. TaskInv(p)'
    BY <1>3, <2>2 DEF TaskInv, Becomes, InCall
  <2> QED  BY <1>0, <1>1, <1>3, <1>4, <2>3, WriteStep DEF Resting
<1>5. CASE UNCHANGED state
  <2>1. Advances
    BY <1>5, AdvancesUnchanged DEF IndInv
  <2>2. \A x \in Transfers : RowInv(x)'
    BY <1>1, <1>5 DEF IndInv, RowInv
  <2> QED  BY <1>4, <1>5, <2>1, <2>2
<1>6. CASE /\ proc[p].pc = "persist"
           /\ CasApplied(proc[p].tx, proc[p].st, PendingOf(proc[p].st))
  BY <1>1, <1>4, <1>6, PersistRow
<1>7. CASE /\ proc[p].pc = "handle"
           /\ CasApplied(proc[p].tx, Expected(proc[p].st),
                         NewState(proc[p].st, source[proc[p].tx], proc[p].res))
  BY <1>1, <1>4, <1>7, HandleRow
<1> QED  BY <1>5, <1>6, <1>7 DEF StepDbError

-----------------------------------------------------------------------------
(***************************************************************************)
(* The invariant is preserved: HTTP, workers and crashes.                  *)
(***************************************************************************)

\* A transfer that has no row yet is unknown to every service.
LEMMA AbsentFacts ==
    ASSUME IndInv, NEW t \in Transfers, proc[t].pc = "none"
    PROVE  /\ state[t] = "absent" /\ t \in Procs /\ proc[t].tx = t
           /\ \A o \in Op : ops[t][o] = "none"
<1>1. state[t] = "absent" /\ t \in Procs /\ proc[t].tx = t /\ RowInv(t)
  BY DEF IndInv, WiringInv, Procs
<1>2. \A s \in {"target_pending", "compensating"} : "absent" \notin After(s)
  BY DEF After
<1> QED  BY <1>1, <1>2 DEF RowInv, Op

\* The INSERT.
LEMMA InsertRow ==
    ASSUME IndInv, NEW t \in Transfers, proc[t].pc = "none",
           state' = [state EXCEPT ![t] = "init"], UNCHANGED ops,
           \A x \in Transfers : told'[x] = told[x] \/ told'[x] = "failed"
    PROVE  /\ Advances
           /\ \A x \in Transfers : RowInv(x)'
           /\ \A x \in Transfers : x # t => state'[x] = state[x]
           /\ state'[t] = "init"
<1>1. /\ state[t] = "absent" /\ \A o \in Op : ops[t][o] = "none"
      /\ RowInv(t)
  BY AbsentFacts DEF IndInv
<1>2. /\ state' \in [Transfers -> TransferState \cup {"absent"}]
      /\ \A x \in Transfers : state'[x] = IF x = t THEN "init" ELSE state[x]
  BY DEF IndInv, TypeOK, CoordTypeOK, TransferState
<1>3. \A x \in TransferState : x \in After(x)
  BY DEF After, TransferState
<1>4. Advances
  BY <1>1, <1>2, <1>3 DEF Advances, IndInv, TypeOK, CoordTypeOK
<1>5. ASSUME NEW x \in Transfers  PROVE RowInv(x)'
  <2>1. CASE x = t
    <3>1. \A s \in {"source_done", "compensating"} : "init" \notin After(s)
      BY DEF After
    <3> QED  BY <1>1, <1>2, <2>1, <3>1 DEF RowInv, Op
  <2>2. CASE x # t
    BY <1>2, <2>2 DEF IndInv, RowInv
  <2> QED  BY <2>1, <2>2
<1> QED  BY <1>2, <1>4, <1>5

\* A handler moves, and with it possibly its own row, its answer and the queue.
LEMMA HandlerStep ==
    ASSUME IndInv, NEW t \in Transfers, NEW c, NEW s, NEW r,
           Becomes(t, c, t, s, r), c # "none",
           UNCHANGED <<todo, crashes, ops>>, Advances,
           \A x \in Transfers : RowInv(x)',
           \A x \in Transfers : x # t => state'[x] = state[x],
           source' \in [Transfers -> ServiceId],
           told' \in [Transfers -> Terminal \cup {"none", "pending"}],
           \/ queue' = queue
           \/ /\ queue' = Append(queue, t) /\ Len(queue) < QueueCapacity
              /\ state'[t] # "absent",
           TaskInv(t)'
    PROVE  IndInv'
<1>1. \A q \in Procs : TaskInv(q)'
  BY TaskFrame DEF IndInv, Becomes
<1>2. \A x \in Transfers : state[x] # "absent" => state'[x] # "absent"
  BY AfterType DEF IndInv, TypeOK, CoordTypeOK, Advances
<1>3. /\ queue' \in Seq(Transfers) /\ Len(queue') <= QueueCapacity
      /\ \A i \in 1..Len(queue') : state'[queue'[i]] # "absent"
  <2>1. CASE queue' = queue
    BY <1>2, <2>1 DEF IndInv, TypeOK, CoordTypeOK, WiringInv
  <2>2. CASE /\ queue' = Append(queue, t) /\ Len(queue) < QueueCapacity
             /\ state'[t] # "absent"
    <3>1. queue \in Seq(Transfers) /\ \A i \in 1..Len(queue) : state'[queue[i]] # "absent"
      BY <1>2 DEF IndInv, TypeOK, CoordTypeOK, WiringInv
    <3> QED  BY <2>2, <3>1, TransferAssumption
  <2> QED  BY <2>1, <2>2
<1>4. TypeOK'
  BY <1>3 DEF IndInv, TypeOK, CoordTypeOK, Becomes, Task, Advances
<1>5. WiringInv'
  <2>1. \A x \in Transfers : proc'[x].tx = x /\ (proc'[x].pc = "none" => state'[x] = "absent")
    BY DEF IndInv, WiringInv, Becomes, Procs
  <2>2. \A w \in Workers : proc'[w].pc # "none"
    BY DEF IndInv, WiringInv, Becomes, Procs
  <2>3. \A w \in Workers : \A x \in todo'[w] : state'[x] # "absent"
    BY <1>2 DEF IndInv, TypeOK, CoordTypeOK, WiringInv
  <2> QED  BY <1>3, <2>1, <2>2, <2>3 DEF WiringInv
<1> QED  BY <1>1, <1>4, <1>5 DEF IndInv

\* The INSERT succeeds.
LEMMA CreateInv ==
    ASSUME IndInv, NEW t \in Transfers, NEW from \in ServiceId, NEW to, NEW amount,
           Create(t, from, to, amount), UNCHANGED ops
    PROVE  IndInv'
<1>1. proc[t].tx = t /\ TypeOK /\ proc[t].pc = "none"
  BY AbsentFacts DEF Create, IndInv
<1>2. Becomes(t, "get", t, "init", proc[t].res)
  BY <1>1, CreateEffect
<1>3. /\ Advances
      /\ \A x \in Transfers : RowInv(x)'
      /\ \A x \in Transfers : x # t => state'[x] = state[x]
      /\ state'[t] = "init"
  BY <1>1, InsertRow DEF Create, ValidRequest, Inserts
<1>4. TaskInv(t)'
  BY <1>2, <1>3 DEF TaskInv, Becomes, InCall
<1>5. /\ source' \in [Transfers -> ServiceId]
      /\ told' \in [Transfers -> Terminal \cup {"none", "pending"}]
      /\ queue' = queue /\ UNCHANGED <<todo, crashes, ops>>
  BY <1>1 DEF Create, Inserts, TypeOK, CoordTypeOK
<1> QED  BY <1>2, <1>3, <1>4, <1>5, HandlerStep

\* A rejected request, or an INSERT that failed.
LEMMA CreateFailsInv ==
    ASSUME IndInv, NEW t \in Transfers, NEW from \in ServiceId, NEW to, NEW amount,
           CreateFails(t, from, to, amount), UNCHANGED ops
    PROVE  IndInv'
<1>1. proc[t].tx = t /\ TypeOK /\ t \in Procs /\ proc[t].pc = "none"
  BY AbsentFacts DEF CreateFails, IndInv
<1>2. Becomes(t, "done", t, "init", "Pending")
  BY <1>1, LeaveEffect DEF CreateFails, PC
<1>3. TaskInv(t)'
  BY <1>2 DEF TaskInv, Becomes, InCall, Resting
<1>4. /\ told' \in [Transfers -> Terminal \cup {"none", "pending"}]
      /\ \A x \in Transfers : told'[x] = told[x] \/ told'[x] = "failed"
      /\ queue' = queue /\ UNCHANGED <<todo, crashes, ops>>
  BY <1>1 DEF CreateFails, Inserts, TypeOK, CoordTypeOK, Terminal
<1>5. CASE UNCHANGED <<state, source>>
  <2>1. Advances
    BY <1>1, <1>5, AdvancesUnchanged
  <2>2. \A x \in Transfers : RowInv(x)'
    BY <1>4, <1>5 DEF IndInv, RowInv
  <2>3. source' \in [Transfers -> ServiceId]
    BY <1>1, <1>5 DEF TypeOK, CoordTypeOK
  <2> QED  BY <1>2, <1>3, <1>4, <1>5, <2>1, <2>2, <2>3, HandlerStep
<1>6. CASE /\ state' = [state EXCEPT ![t] = "init"]
           /\ source' = [source EXCEPT ![t] = from]
  <2>1. source' \in [Transfers -> ServiceId]
    BY <1>1, <1>6 DEF TypeOK, CoordTypeOK
  <2>2. /\ Advances
        /\ \A x \in Transfers : RowInv(x)'
        /\ \A x \in Transfers : x # t => state'[x] = state[x]
    BY <1>1, <1>4, <1>6, InsertRow
  <2> QED  BY <1>2, <1>3, <1>4, <2>1, <2>2, HandlerStep
<1> QED  BY <1>5, <1>6 DEF CreateFails, ValidRequest, Inserts

\* The HTTP answer: what is told as a success is one.
LEMMA AnswerInv ==
    ASSUME IndInv, NEW t \in Transfers, UNCHANGED ops,
           HandlerAnswers(t) \/ HandlerErrs(t)
    PROVE  IndInv'
<1>1. /\ TypeOK /\ t \in Procs /\ proc[t].tx = t /\ TaskInv(t) /\ RowInv(t)
      /\ proc[t].st \in TransferState
  BY TaskFacts DEF IndInv, WiringInv, Procs
<1>2. state[t] \in TransferState
  BY <1>1 DEF HandlerAnswers, HandlerErrs, TaskInv, Resting, TypeOK, CoordTypeOK
<1>3. PICK s \in TransferState :
         /\ Answer(t, s)
         /\ s = "committed" => ops[t]["deposit"] = "ok"
         /\ s = "rolled_back" => ops[t]["rollback"] = "ok"
  <2>1. CASE HandlerAnswers(t)
    BY <1>1, <2>1 DEF HandlerAnswers, TaskInv
  <2>2. CASE HandlerErrs(t)
    BY <1>1, <1>2, <2>2 DEF HandlerErrs, RowInv, TransferState
  <2> QED  BY <2>1, <2>2
<1>4. Becomes(t, "done", t, "init", "Pending")
  BY <1>1, <1>3, LeaveEffect DEF Answer, Status, PC
<1>5. TaskInv(t)'
  BY <1>4 DEF TaskInv, Becomes, InCall, Resting
<1>6. /\ UNCHANGED <<todo, crashes, ops, state, source>>
      /\ told' = [told EXCEPT ![t] = IF s \in Terminal THEN s ELSE "pending"]
      /\ \/ queue' = queue
         \/ queue' = Append(queue, t) /\ Len(queue) < QueueCapacity
  BY <1>3 DEF Answer, Status
<1>7. told' \in [Transfers -> Terminal \cup {"none", "pending"}]
  BY <1>1, <1>6 DEF TypeOK, CoordTypeOK
<1>8. ASSUME NEW x \in Transfers  PROVE RowInv(x)'
  <2>1. RowInv(x)
    BY DEF IndInv
  <2>2. told'[x] = told[x] \/ (x = t /\ told'[x] \in {s, "pending"})
    BY <1>1, <1>6 DEF TypeOK, CoordTypeOK
  <2> QED  BY <1>3, <1>6, <2>1, <2>2 DEF RowInv
<1>9. Advances
  BY <1>1, <1>6, AdvancesUnchanged
<1>10. source' \in [Transfers -> ServiceId] /\ state'[t] # "absent"
  BY <1>1, <1>2, <1>6 DEF TypeOK, CoordTypeOK, TransferState
<1> QED  BY <1>4, <1>5, <1>6, <1>7, <1>8, <1>9, <1>10, HandlerStep

\* A worker moves, and with it possibly its scan result and the queue.
LEMMA WorkerStep ==
    ASSUME IndInv, NEW w \in Workers, NEW c, NEW t, NEW s, NEW r,
           Becomes(w, c, t, s, r), c # "none",
           UNCHANGED <<state, source, told, crashes, ops>>,
           todo' \in [Workers -> SUBSET Transfers],
           \A v \in Workers : \A x \in todo'[v] : state[x] # "absent",
           queue' \in {queue, Tail(queue)}, queue' = queue \/ queue # <<>>,
           TaskInv(w)'
    PROVE  IndInv'
<1>1. \A q \in Procs : TaskInv(q)'
  BY AdvancesUnchanged, TaskFrame DEF IndInv, Becomes
<1>2. \A x \in Transfers : RowInv(x)'
  BY DEF IndInv, RowInv
<1>3. /\ queue' \in Seq(Transfers) /\ Len(queue') <= QueueCapacity
      /\ \A i \in 1..Len(queue') : state[queue'[i]] # "absent"
  <2>1. /\ queue \in Seq(Transfers) /\ Len(queue) <= QueueCapacity
        /\ \A i \in 1..Len(queue) : state[queue[i]] # "absent"
    BY DEF IndInv, TypeOK, CoordTypeOK, WiringInv
  <2>2. CASE queue' = queue
    BY <2>1, <2>2
  <2>3. CASE queue # <<>> /\ queue' = Tail(queue)
    BY <2>1, <2>3, TransferAssumption
  <2> QED  BY <2>2, <2>3
<1>4. TypeOK'
  BY <1>3 DEF IndInv, TypeOK, CoordTypeOK, Becomes, Task
<1>5. WiringInv'
  <2>1. \A x \in Transfers : x # w
    BY TransferAssumption
  <2>2. \A x \in Transfers : proc'[x].tx = x /\ (proc'[x].pc = "none" => state'[x] = "absent")
    BY <2>1 DEF IndInv, WiringInv, Becomes, Procs
  <2>3. \A v \in Workers : proc'[v].pc # "none"
    BY DEF IndInv, WiringInv, Becomes, Procs
  <2> QED  BY <1>3, <2>2, <2>3 DEF WiringInv
<1> QED  BY <1>1, <1>2, <1>4, <1>5 DEF IndInv

\* Queue, scan and the records of a scan.
LEMMA WorkerInv ==
    ASSUME IndInv, NEW w \in Workers, UNCHANGED ops,
           \/ WorkerPops(w) \/ WorkerDrained(w)
           \/ \E stale \in SUBSET Transfers : WorkerScans(w, stale)
           \/ \E t \in Transfers : WorkerTakes(w, t)
    PROVE  IndInv'
<1>0. /\ TypeOK /\ w \in Procs /\ todo \in [Workers -> SUBSET Transfers]
      /\ \A v \in Workers : \A x \in todo[v] : state[x] # "absent"
      /\ queue \in Seq(Transfers)
      /\ \A i \in 1..Len(queue) : state[queue[i]] # "absent"
  BY DEF IndInv, WiringInv, TypeOK, CoordTypeOK, Procs
<1>1. CASE WorkerPops(w)
  <2>1. Head(queue) \in Transfers /\ state[Head(queue)] # "absent"
    BY <1>0, <1>1 DEF WorkerPops
  <2>2. Becomes(w, "get", Head(queue), "init", proc[w].res)
    BY <1>0, <1>1, <2>1, ProcessEffect DEF WorkerPops
  <2>3. TaskInv(w)'
    BY <1>1, <2>1, <2>2 DEF TaskInv, Becomes, InCall, WorkerPops
  <2>4. /\ UNCHANGED <<state, source, told, crashes, ops>>
        /\ todo' = todo /\ queue' = Tail(queue) /\ queue # <<>>
    BY <1>1 DEF WorkerPops
  <2> QED  BY <1>0, <2>2, <2>3, <2>4, WorkerStep
<1>2. CASE WorkerDrained(w)
  BY <1>0, <1>2, LeaveInv DEF WorkerDrained, Resting
<1>3. ASSUME NEW stale \in SUBSET Transfers, WorkerScans(w, stale)  PROVE IndInv'
  <2>1. Becomes(w, "idle", proc[w].tx, "init", "Pending")
    BY <1>0, <1>3, LeaveEffect DEF WorkerScans, PC
  <2>2. TaskInv(w)'
    BY <2>1 DEF TaskInv, Becomes, InCall, Resting
  <2>3. \A v \in Workers : \A x \in todo'[v] : state[x] # "absent"
    BY <1>0, <1>3 DEF WorkerScans, Open
  <2>4. todo' \in [Workers -> SUBSET Transfers]
    BY <1>0, <1>3 DEF WorkerScans
  <2> QED  BY <1>3, <2>1, <2>2, <2>3, <2>4, WorkerStep DEF WorkerScans
<1>4. ASSUME NEW t \in Transfers, WorkerTakes(w, t)  PROVE IndInv'
  <2>1. Becomes(w, "get", t, "init", proc[w].res)
    BY <1>0, <1>4, ProcessEffect DEF WorkerTakes
  <2>2. TaskInv(w)'
    BY <1>0, <1>4, <2>1 DEF TaskInv, Becomes, InCall, WorkerTakes
  <2>3. /\ todo' \in [Workers -> SUBSET Transfers]
        /\ \A v \in Workers : \A x \in todo'[v] : state[x] # "absent"
    BY <1>0, <1>4 DEF WorkerTakes
  <2> QED  BY <1>4, <2>1, <2>2, <2>3, WorkerStep DEF WorkerTakes
<1> QED  BY <1>1, <1>2, <1>3, <1>4

\* A crash forgets tasks, never rows.
LEMMA CrashInv ==
    ASSUME IndInv, NEW w \in Workers, Crash(w), UNCHANGED ops
    PROVE  IndInv'
<1>0. /\ TypeOK /\ WiringInv
      /\ UNCHANGED <<state, source, told, ops>>
      /\ todo' = [todo EXCEPT ![w] = {}]
      /\ queue' = IF w = QueueWorker THEN <<>> ELSE queue
      /\ crashes < MaxCrashes /\ crashes' = crashes + 1
  BY DEF IndInv, Crash
<1>1. /\ proc' \in [Procs -> Task]
      /\ \A q \in Procs :
            \/ proc'[q] = proc[q]
            \/ /\ proc[q].pc # "none"
               /\ proc'[q].pc = IF q \in Workers THEN "idle" ELSE "done"
               /\ proc'[q].tx = proc[q].tx
  BY <1>0, CrashEffect
<1>2. crashes' \in 0..MaxCrashes
  BY <1>0, TransferAssumption DEF TypeOK, CoordTypeOK
<1>3. queue' \in Seq(Transfers) /\ Len(queue') <= QueueCapacity
  BY <1>0, TransferAssumption DEF TypeOK, CoordTypeOK
<1>4. TypeOK'
  BY <1>0, <1>1, <1>2, <1>3 DEF TypeOK, CoordTypeOK, Task
<1>5. WiringInv'
  <2>1. \A x \in Transfers : proc'[x].tx = x /\ (proc'[x].pc = "none" => state'[x] = "absent")
    BY <1>0, <1>1, TransferAssumption DEF WiringInv, Procs
  <2>2. \A v \in Workers : proc'[v].pc # "none"
    BY <1>0, <1>1 DEF WiringInv, Procs
  <2>3. \A v \in Workers : \A x \in todo'[v] : state'[x] # "absent"
    BY <1>0 DEF WiringInv, TypeOK, CoordTypeOK
  <2>4. \A i \in 1..Len(queue') : state'[queue'[i]] # "absent"
    BY <1>0 DEF WiringInv
  <2> QED  BY <2>1, <2>2, <2>3, <2>4 DEF WiringInv
<1>6. \A x \in Transfers : RowInv(x)'
  BY <1>0 DEF IndInv, RowInv
<1>7. ASSUME NEW q \in Procs  PROVE TaskInv(q)'
  <2>1. CASE proc'[q] = proc[q]
    BY <1>0, <2>1, AdvancesUnchanged, TaskFrame DEF IndInv
  <2>2. CASE proc'[q].pc \in {"idle", "done"}
    BY <2>2 DEF TaskInv, InCall, Resting
  <2> QED  BY <1>1, <2>1, <2>2
<1> QED  BY <1>4, <1>5, <1>6, <1>7 DEF IndInv

-----------------------------------------------------------------------------
(***************************************************************************)
(* The invariant is preserved: what the services see and decide.           *)
(***************************************************************************)

\* One operation of one transfer changes its status.
OpBecomes(t, o, new) ==
    /\ ops' \in [Transfers -> [Op -> OpStatus]]
    /\ ops'[t][o] = new
    /\ \A x \in Transfers, y \in Op : <<x, y>> # <<t, o>> => ops'[x][y] = ops[x][y]

\* Asking for an operation changes nothing but that it was asked for.
LEMMA AskEffect ==
    ASSUME TypeOK, NEW t \in Transfers, NEW o \in Op, Ask(t, o)
    PROVE  OpBecomes(t, o, IF ops[t][o] = "none" THEN "asked" ELSE ops[t][o])
<1>0. PICK new : new = IF ops[t][o] = "none" THEN "asked" ELSE ops[t][o]
  OBVIOUS
<1>1. /\ new \in OpStatus
      /\ ops' = [ops EXCEPT ![t][o] = new]
  BY <1>0 DEF TypeOK, Ask, OpStatus
<1>2. OpBecomes(t, o, new)
  BY <1>1 DEF TypeOK, OpBecomes, OpStatus
<1> QED  BY <1>0, <1>2

\* A call leaves only when the row allows it.
LEMMA AskRow ==
    ASSUME IndInv, NEW t \in Transfers, NEW o \in Op, Ask(t, o),
           UNCHANGED <<state, told>>,
           o = "withdraw" => state[t] \in After("source_pending"),
           o = "deposit"  => state[t] \in After("target_pending"),
           o = "rollback" => state[t] \in After("compensating"),
           o = "commit"   => ops[t]["deposit"] = "ok"
    PROVE  Advances /\ \A x \in Transfers : RowInv(x)'
<1>0. OpBecomes(t, o, IF ops[t][o] = "none" THEN "asked" ELSE ops[t][o]) /\ TypeOK
  BY AskEffect DEF IndInv
<1>1. \A x \in Transfers, y \in Op :
         \/ ops'[x][y] = ops[x][y]
         \/ x = t /\ y = o /\ ops[x][y] = "none" /\ ops'[x][y] = "asked"
  BY <1>0 DEF OpBecomes
<1>2. \A x \in TransferState : x \in After(x)
  BY DEF After, TransferState
<1>3. Advances
  BY <1>0, <1>1, <1>2 DEF Advances, OpBecomes, TypeOK, CoordTypeOK
<1>4. ASSUME NEW x \in Transfers  PROVE RowInv(x)'
  <2>1. /\ \A y \in Op : ops[x][y] \in {"ok", "fail"} => ops'[x][y] = ops[x][y]
        /\ RowInv(x)
    BY <1>3 DEF Advances, IndInv
  <2>2. ops'[x]["withdraw"] # "none" => state[x] \notin {"absent", "init"}
    BY <1>1, <2>1 DEF RowInv, Op, After, TransferState
  <2>3. ops'[x]["deposit"] # "none" => state[x] \in After("target_pending")
    BY <1>1, <2>1 DEF RowInv, Op
  <2>4. ops'[x]["rollback"] # "none" => state[x] \in After("compensating")
    BY <1>1, <2>1 DEF RowInv, Op
  <2>5. ops'[x]["commit"] # "none" => ops'[x]["deposit"] = "ok"
    BY <1>1, <2>1 DEF RowInv, Op
  <2> QED  BY <2>1, <2>2, <2>3, <2>4, <2>5 DEF RowInv, Op
<1> QED  BY <1>3, <1>4

\* withdraw, deposit or rollback is sent.
LEMMA CallSentInv ==
    ASSUME IndInv, NEW p \in Procs, CallSent(p)
    PROVE  IndInv'
<1>0. PICK t \in Transfers, s \in TransferState : t = proc[p].tx /\ s = proc[p].st
  BY TaskFacts
<1>1. /\ s \notin Terminal /\ state[t] \in After(Expected(s))
      /\ proc[p].pc = "call" /\ state[t] # "absent"
  BY <1>0, TaskFacts DEF TaskInv, InCall, CallSent, Resting
<1>2. /\ OpOf(s) \in Op /\ OpOf(s) # "commit"
      /\ OpOf(s) = "withdraw" => Expected(s) = "source_pending"
      /\ OpOf(s) = "deposit"  => Expected(s) = "target_pending"
      /\ OpOf(s) = "rollback" => Expected(s) = "compensating"
  BY <1>1 DEF OpOf, Op, Expected, PendingOf, TransferState, Terminal
<1>3. /\ Ask(t, OpOf(s))
      /\ UNCHANGED <<state, source, todo, queue, told, crashes>>
  BY <1>0 DEF CallSent
<1>4. Advances /\ \A x \in Transfers : RowInv(x)'
  BY <1>1, <1>2, <1>3, AskRow
<1>5. Becomes(p, "await", t, s, proc[p].res)
  BY <1>0, GotoEffect, TaskFacts DEF CallSent, PC
<1>6. TaskInv(p)'
  BY <1>1, <1>3, <1>5 DEF TaskInv, Becomes, InCall
<1>7. \A q \in Procs : TaskInv(q)'
  BY <1>4, <1>5, <1>6, TaskFrame DEF IndInv, Becomes
<1>8. TypeOK'
  BY <1>3, <1>4, <1>5 DEF IndInv, TypeOK, CoordTypeOK, Becomes, Task, Advances
<1>9. WiringInv'
  BY <1>0, <1>3, <1>5 DEF IndInv, WiringInv, Becomes, Procs
<1> QED  BY <1>4, <1>7, <1>8, <1>9 DEF IndInv

\* source.commit is sent, after a successful deposit.
LEMMA CommitSentInv ==
    ASSUME IndInv, NEW p \in Procs, CommitSent(p)
    PROVE  IndInv'
<1>0. PICK t \in Transfers, s \in TransferState : t = proc[p].tx /\ s = proc[p].st
  BY TaskFacts
<1>1. /\ s \notin Terminal /\ state[t] \in After(Expected(s))
      /\ proc[p].pc = "commit" /\ state[t] # "absent"
      /\ OpOf(s) = "deposit" /\ proc[p].res = "Success" /\ ops[t]["deposit"] = "ok"
  BY <1>0, TaskFacts DEF TaskInv, InCall, CommitSent, Resting
<1>3. /\ Ask(t, "commit") /\ "commit" \in Op /\ "deposit" \in Op
      /\ UNCHANGED <<state, source, todo, queue, told, crashes>>
  BY <1>0 DEF CommitSent, Op
<1>4. Advances /\ \A x \in Transfers : RowInv(x)'
  BY <1>1, <1>3, AskRow
<1>5. Becomes(p, "finalize", t, s, proc[p].res)
  BY <1>0, GotoEffect, TaskFacts DEF CommitSent, PC
<1>6. ops'[t]["deposit"] = "ok"
  BY <1>1, <1>3, <1>4 DEF Advances
<1>7. TaskInv(p)'
  BY <1>1, <1>3, <1>5, <1>6 DEF TaskInv, Becomes, InCall
<1>8. \A q \in Procs : TaskInv(q)'
  BY <1>4, <1>5, <1>7, TaskFrame DEF IndInv, Becomes
<1>9. TypeOK'
  BY <1>3, <1>4, <1>5 DEF IndInv, TypeOK, CoordTypeOK, Becomes, Task, Advances
<1>10. WiringInv'
  BY <1>0, <1>3, <1>5 DEF IndInv, WiringInv, Becomes, Procs
<1> QED  BY <1>4, <1>8, <1>9, <1>10 DEF IndInv

\* A service decides an operation, perhaps long after its caller gave up.
LEMMA ServiceDecidesInv ==
    ASSUME IndInv, NEW t \in Transfers, NEW o \in Op, NEW r \in {"ok", "fail"},
           ServiceDecides(t, o, r)
    PROVE  IndInv'
<1>0. /\ TypeOK /\ ops[t][o] = "asked" /\ UNCHANGED coordVars
      /\ ops' = [ops EXCEPT ![t][o] = r]
  BY DEF ServiceDecides, IndInv
<1>1. UNCHANGED <<state, source, proc, todo, queue, told, crashes>>
  BY <1>0 DEF coordVars
<1>2. OpBecomes(t, o, r)
  BY <1>0 DEF TypeOK, OpBecomes, OpStatus
<1>3. \A x \in TransferState : x \in After(x)
  BY DEF After, TransferState
<1>4. Advances
  BY <1>0, <1>1, <1>2, <1>3 DEF Advances, OpBecomes, TypeOK, CoordTypeOK
<1>5. ASSUME NEW x \in Transfers  PROVE RowInv(x)'
  <2>1. /\ \A y \in Op : \/ ops'[x][y] = ops[x][y]
                         \/ ops[x][y] = "asked" /\ ops'[x][y] # "none"
        /\ RowInv(x)
    BY <1>0, <1>2 DEF OpBecomes, IndInv
  <2> QED  BY <1>1, <2>1 DEF RowInv, Op
<1>6. \A q \in Procs : TaskInv(q)'
  BY <1>1, <1>4, TaskFrame DEF IndInv
<1>7. TypeOK' /\ WiringInv'
  BY <1>1, <1>4 DEF IndInv, TypeOK, CoordTypeOK, WiringInv, Advances
<1> QED  BY <1>5, <1>6, <1>7 DEF IndInv

-----------------------------------------------------------------------------
(***************************************************************************)
(* The theorems.                                                           *)
(***************************************************************************)

\* The invariant holds when nothing has happened yet.
LEMMA IndInvInit == Init => IndInv
<1> SUFFICES ASSUME Init  PROVE IndInv
  OBVIOUS
<1>1. proc \in [Procs -> Task]
  BY TransferAssumption DEF Init, CoordInit, Task, PC, Procs, TransferState, OpResult
<1>2. TypeOK
  BY <1>1, TransferAssumption DEF Init, CoordInit, TypeOK, CoordTypeOK, Task,
     ServiceId, OpStatus
<1>3. WiringInv
  BY TransferAssumption DEF Init, CoordInit, WiringInv, Procs
<1>4. \A t \in Transfers : RowInv(t)
  <2>1. \A s \in {"source_done", "target_pending", "compensating"} : "absent" \notin After(s)
    BY DEF After
  <2> QED  BY <2>1 DEF Init, CoordInit, RowInv, Op
<1>5. \A p \in Procs : TaskInv(p)
  BY DEF Init, CoordInit, TaskInv, Procs, InCall, Resting
<1> QED  BY <1>2, <1>3, <1>4, <1>5 DEF IndInv

\* Every step keeps it.
LEMMA IndInvNext == IndInv /\ [Next]_vars => IndInv'
<1> SUFFICES ASSUME IndInv, [Next]_vars  PROVE IndInv'
  OBVIOUS
<1>1. ASSUME NEW p \in Procs, Step(p), UNCHANGED ops  PROVE IndInv'
  BY <1>1, StepGetInv, StepPersistInv, StepRereadInv, StepHandleInv,
     StepRetryInv, StepDbErrorInv DEF Step
<1>2. ASSUME NEW t \in Transfers, UNCHANGED ops,
             NEW from \in ServiceId, NEW to \in ServiceId, NEW amount \in {0, 1},
             Create(t, from, to, amount) \/ CreateFails(t, from, to, amount)
      PROVE  IndInv'
  BY <1>2, CreateInv, CreateFailsInv
<1>3. ASSUME NEW t \in Transfers, UNCHANGED ops,
             HandlerAnswers(t) \/ HandlerLoops(t) \/ HandlerErrs(t)
      PROVE  IndInv'
  BY <1>3, AnswerInv, LoopInv
<1>4. ASSUME NEW w \in Workers, UNCHANGED ops,
             \/ WorkerPops(w) \/ WorkerDrained(w)
             \/ \E stale \in SUBSET Transfers : WorkerScans(w, stale)
             \/ \E t \in Transfers : WorkerTakes(w, t)
             \/ WorkerLoops(w) \/ WorkerErrs(w) \/ Crash(w)
      PROVE  IndInv'
  BY <1>4, WorkerInv, LoopInv, CrashInv
<1>5. ASSUME NEW p \in Procs,
             \/ CallSent(p) \/ CallAnswered(p) \/ CallTimesOut(p)
             \/ CommitSent(p) \/ CommitReturns(p)
      PROVE  IndInv'
  BY <1>5, CallSentInv, AnsweredInv, CommitSentInv, CommitReturnsInv
<1>6. ASSUME NEW t \in Transfers, NEW o \in Op, NEW r \in {"ok", "fail"},
             ServiceDecides(t, o, r)
      PROVE  IndInv'
  BY <1>6, ServiceDecidesInv
<1>7. CASE UNCHANGED vars
  <2>1. /\ UNCHANGED <<state, source, proc, todo, queue, told, crashes, ops>>
        /\ TypeOK
    BY <1>7 DEF vars, coordVars, IndInv
  <2>2. TypeOK' /\ WiringInv' /\ \A t \in Transfers : RowInv(t)'
    BY <2>1 DEF IndInv, TypeOK, CoordTypeOK, WiringInv, RowInv
  <2>3. \A p \in Procs : TaskInv(p)'
    BY <2>1, AdvancesUnchanged, TaskFrame DEF IndInv
  <2> QED  BY <2>2, <2>3 DEF IndInv
<1> QED
  BY <1>1, <1>2, <1>3, <1>4, <1>5, <1>6, <1>7 DEF Next, CoordNext

\* IndInv is an invariant of the transfer service.
THEOREM IndInvHolds == Spec => []IndInv
  BY IndInvInit, IndInvNext, PTL DEF Spec

\* Type correctness: whatever the interleaving, every task works on an
\* existing transfer and the queue stays within its capacity.
THEOREM TypeCorrect == Spec => []TypeOK
<1>1. IndInv => TypeOK
  BY DEF IndInv
<1> QED  BY <1>1, IndInvHolds, PTL

\* Money is conserved by any number of transfers, workers and crashes
\* (coordinator.rs over services that keep the contract of traits.rs).
THEOREM Conservation == Spec => []MoneyConserved
<1>1. IndInv => MoneyConserved
  <2> SUFFICES ASSUME IndInv, NEW t \in Transfers
               PROVE  /\ Credited(t) \/ Returned(t) => Debited(t)
                      /\ ~(Credited(t) /\ Returned(t))
                      /\ state[t] = "committed"   => Debited(t) /\ Credited(t)
                      /\ state[t] = "rolled_back" => Debited(t) /\ Returned(t)
                      /\ state[t] = "failed"      => ~Debited(t)
    BY DEF MoneyConserved
  <2>1. RowInv(t)
    BY DEF IndInv
  <2>2. /\ \A s \in After("target_pending") : s \in After("source_done")
        /\ \A s \in After("compensating") : s \in After("source_done")
        /\ "committed" \in After("source_done")
        /\ "rolled_back" \in After("source_done")
    BY DEF After
  <2> QED  BY <2>1, <2>2 DEF RowInv, Credited, Returned, Debited
<1> QED  BY <1>1, IndInvHolds, PTL

\* No service sees an operation the table does not know of.
THEOREM PersistedFirst == Spec => []PersistBeforeCall
<1>1. IndInv => PersistBeforeCall
  BY DEF IndInv, RowInv, PersistBeforeCall, After
<1> QED  BY <1>1, IndInvHolds, PTL

\* A client that is told of a success or a rollback can rely on it.
THEOREM ToldTheTruth == Spec => []ToldTruthfully
<1>1. IndInv => ToldTruthfully
  <2> SUFFICES ASSUME IndInv, NEW t \in Transfers
               PROVE  /\ told[t] = "committed"   => Credited(t) /\ ~Returned(t)
                      /\ told[t] = "rolled_back" => Returned(t) /\ ~Credited(t)
    BY DEF ToldTruthfully
  <2> QED  BY DEF IndInv, RowInv, Credited, Returned
<1> QED  BY <1>1, IndInvHolds, PTL

-----------------------------------------------------------------------------
(***************************************************************************)
(* What a step does to the table: it leaves it alone, inserts a row, or    *)
(* moves one row along the transitions of state.rs.  No step changes the   *)
(* table and what the services decided at once.                            *)
(***************************************************************************)
RowMoves(t) ==
    /\ \/ state[t] = "absent" /\ state'[t] = "init"
       \/ Reaches(state[t], state'[t])
    /\ state' = [state EXCEPT ![t] = state'[t]]

\* The conditional update after persist-before-call is a transition.
LEMMA PersistMoves ==
    ASSUME IndInv, NEW p \in Procs, proc[p].pc = "persist",
           CasApplied(proc[p].tx, proc[p].st, PendingOf(proc[p].st))
    PROVE  \E t \in Transfers : RowMoves(t)
<1>1. PICK t \in Transfers, s \in {"init", "source_done"} : t = proc[p].tx /\ s = proc[p].st
  BY TaskFacts DEF TaskInv
<1>2. state'[t] = IF state[t] = s THEN PendingOf(s) ELSE state[t]
  BY <1>1 DEF CasApplied, IndInv, TypeOK, CoordTypeOK
<1>3. state' = [state EXCEPT ![t] = state'[t]]
  BY <1>1, <1>2 DEF CasApplied, IndInv, TypeOK, CoordTypeOK
<1>4. Reaches(s, PendingOf(s))
  BY <1>1 DEF Reaches, PendingOf, TransitionTable, TransferEvent
<1>5. Reaches(state[t], state[t])
  BY DEF Reaches
<1> QED  BY <1>2, <1>3, <1>4, <1>5 DEF RowMoves

\* So is the update with the result of a call.
LEMMA HandleMoves ==
    ASSUME IndInv, NEW p \in Procs, proc[p].pc = "handle",
           CasApplied(proc[p].tx, Expected(proc[p].st),
                      NewState(proc[p].st, source[proc[p].tx], proc[p].res))
    PROVE  \E t \in Transfers : RowMoves(t)
<1>1. PICK t \in Transfers, s \in TransferState \ Terminal, r \in OpResult :
         t = proc[p].tx /\ s = proc[p].st /\ r = proc[p].res
  BY TaskFacts DEF TaskInv, InCall
<1>2. PICK src, new : src = source[t] /\ new = NewState(s, src, r)
  OBVIOUS
<1>3. state'[t] = IF state[t] = Expected(s) THEN new ELSE state[t]
  BY <1>1, <1>2 DEF CasApplied, IndInv, TypeOK, CoordTypeOK
<1>4. state' = [state EXCEPT ![t] = state'[t]]
  BY <1>1, <1>2, <1>3 DEF CasApplied, IndInv, TypeOK, CoordTypeOK
<1>5. Reaches(Expected(s), new)
  <2>1. \/ Expected(s) = "source_pending" /\ new \in {"source_done", "failed", "source_pending"}
        \/ Expected(s) = "target_pending" /\ new \in {"committed", "compensating", "target_pending"}
        \/ Expected(s) = "compensating" /\ new \in {"rolled_back", "compensating"}
    BY <1>1, <1>2 DEF Expected, PendingOf, NewState, TransferState, Terminal, OpResult
  <2> QED  BY <2>1 DEF Reaches, TransitionTable, TransferEvent
<1>6. Reaches(state[t], state[t])
  BY DEF Reaches
<1> QED  BY <1>3, <1>4, <1>5, <1>6 DEF RowMoves

\* A step of the FSM driver, failed statements included, moves at most one row.
LEMMA StepMoves ==
    ASSUME IndInv, NEW p \in Procs, Step(p)
    PROVE  UNCHANGED state \/ \E t \in Transfers : RowMoves(t)
<1>1. CASE StepPersist(p)
  BY <1>1, PersistMoves DEF StepPersist
<1>2. CASE StepHandle(p)
  BY <1>2, HandleMoves DEF StepHandle
<1>3. CASE StepDbError(p)
  BY <1>3, PersistMoves, HandleMoves DEF StepDbError
<1>4. CASE StepGet(p) \/ StepReread(p) \/ StepRetry(p)
  BY <1>4 DEF StepGet, StepReread, StepRetry
<1> QED  BY <1>1, <1>2, <1>3, <1>4 DEF Step

\* The INSERT finds no row.
LEMMA InsertMoves ==
    ASSUME IndInv, NEW t \in Transfers, proc[t].pc = "none", NEW from, Inserts(t, from)
    PROVE  RowMoves(t)
<1>1. state[t] = "absent"
  BY DEF IndInv, WiringInv
<1>2. state' = [state EXCEPT ![t] = "init"]
  BY DEF Inserts
<1>3. state'[t] = "init"
  BY <1>2 DEF IndInv, TypeOK, CoordTypeOK
<1> QED  BY <1>1, <1>2, <1>3 DEF RowMoves

\* Every step, of whichever task, process or service.
LEMMA NextMoves ==
    ASSUME IndInv, Next
    PROVE  \/ UNCHANGED state
           \/ UNCHANGED ops /\ \E t \in Transfers : RowMoves(t)
<1>1. ASSUME NEW p \in Procs, Step(p), UNCHANGED ops
      PROVE  \/ UNCHANGED state
             \/ UNCHANGED ops /\ \E t \in Transfers : RowMoves(t)
  BY <1>1, StepMoves
<1>2. ASSUME NEW t \in Transfers, UNCHANGED ops, NEW from, NEW to, NEW amount,
             Create(t, from, to, amount) \/ CreateFails(t, from, to, amount)
      PROVE  \/ UNCHANGED state
             \/ UNCHANGED ops /\ \E x \in Transfers : RowMoves(x)
  BY <1>2, InsertMoves DEF Create, CreateFails
<1>3. ASSUME NEW t \in Transfers, HandlerAnswers(t) \/ HandlerLoops(t) \/ HandlerErrs(t)
      PROVE  UNCHANGED state
  BY <1>3 DEF HandlerAnswers, HandlerLoops, HandlerErrs, Answer
<1>4. ASSUME NEW w \in Workers,
             \/ WorkerPops(w) \/ WorkerDrained(w)
             \/ \E stale \in SUBSET Transfers : WorkerScans(w, stale)
             \/ \E t \in Transfers : WorkerTakes(w, t)
             \/ WorkerLoops(w) \/ WorkerErrs(w) \/ Crash(w)
      PROVE  UNCHANGED state
  BY <1>4 DEF WorkerPops, WorkerDrained, WorkerScans, WorkerTakes, WorkerLoops, WorkerErrs, Crash
<1>5. ASSUME NEW p \in Procs,
             \/ CallSent(p) \/ CallAnswered(p) \/ CallTimesOut(p)
             \/ CommitSent(p) \/ CommitReturns(p)
      PROVE  UNCHANGED state
  BY <1>5 DEF CallSent, CallAnswered, CallTimesOut, CommitSent, CommitReturns
<1>6. ASSUME NEW t \in Transfers, NEW o \in Op, NEW r \in {"ok", "fail"},
             ServiceDecides(t, o, r)
      PROVE  UNCHANGED state
  BY <1>6 DEF ServiceDecides, coordVars
<1> QED
  BY <1>1, <1>2, <1>3, <1>4, <1>5, <1>6 DEF Next, CoordNext

\* Every write to the table is a transition of state.rs, although the
\* coordinator never consults transition(); a terminal state is final.
THEOREM FsmFollowed == Spec => FollowsFsm
<1>1. ASSUME IndInv, [Next]_vars, NEW t \in Transfers
      PROVE  \/ state[t] = "absent" /\ state'[t] = "init"
             \/ Reaches(state[t], state'[t])
  <2>1. CASE UNCHANGED state
    BY <2>1 DEF Reaches
  <2>2. ASSUME NEW x \in Transfers, RowMoves(x)
        PROVE  \/ state[t] = "absent" /\ state'[t] = "init"
               \/ Reaches(state[t], state'[t])
    <3>1. CASE t = x
      BY <2>2, <3>1 DEF RowMoves
    <3>2. CASE t # x
      <4>1. state'[t] = state[t]
        BY <1>1, <2>2, <3>2 DEF RowMoves, IndInv, TypeOK, CoordTypeOK
      <4> QED  BY <4>1 DEF Reaches
    <3> QED  BY <3>1, <3>2
  <2> QED  BY <1>1, <2>1, <2>2, NextMoves DEF vars, coordVars
<1>2. IndInv /\ [Next]_vars =>
        [\A t \in Transfers : \/ state[t] = "absent" /\ state'[t] = "init"
                              \/ Reaches(state[t], state'[t])]_vars
  BY <1>1
<1> QED  BY <1>2, IndInvHolds, PTL DEF Spec, FollowsFsm

-----------------------------------------------------------------------------
(***************************************************************************)
(* The refinement of AtomicTransfer.  A step maps to a stutter unless it   *)
(* inserts a row, decides a terminal state, or is the service decision     *)
(* that moves the amount.                                                  *)
(***************************************************************************)

\* What the rows and the decisions look like from AtomicTransfer, before and
\* after a step.
LEMMA AtomicView ==
    ASSUME IndInv, IndInv'
    PROVE  /\ state \in [Transfers -> TransferState \cup {"absent"}]
           /\ state' \in [Transfers -> TransferState \cup {"absent"}]
           /\ ops \in [Transfers -> [Op -> OpStatus]]
           /\ ops' \in [Transfers -> [Op -> OpStatus]]
           /\ \A t \in Transfers : RowInv(t) /\ RowInv(t)'
  BY DEF IndInv, TypeOK, CoordTypeOK

\* A row that moves is submitted, is decided where its money is, or stays open.
LEMMA RowRefines ==
    ASSUME IndInv, IndInv', UNCHANGED ops, NEW t \in Transfers, RowMoves(t)
    PROVE  [Atomic!AtomicNext]_(Atomic!atomicVars)
<1>1. /\ state \in [Transfers -> TransferState \cup {"absent"}]
      /\ state' \in [Transfers -> TransferState \cup {"absent"}]
      /\ RowInv(t)'
  BY AtomicView
<1>2. PICK status, status1, funds :
        /\ status = [x \in Transfers |-> StatusOf(state[x])]
        /\ status1 = [x \in Transfers |-> StatusOf(state'[x])]
        /\ funds = [x \in Transfers |-> FundsOf(ops[x])]
  OBVIOUS
<1>3. status1 = [status EXCEPT ![t] = StatusOf(state'[t])]
  BY <1>1, <1>2 DEF RowMoves
<1>4. status[t] = StatusOf(state[t]) /\ funds[t] = FundsOf(ops[t])
  BY <1>2
<1>5. CASE StatusOf(state'[t]) = StatusOf(state[t])
  <2>1. status1 = status
    BY <1>2, <1>3, <1>5
  <2> QED  BY <1>2, <2>1 DEF Atomic!atomicVars
<1>6. CASE StatusOf(state'[t]) # StatusOf(state[t])
  <2>1. \/ status[t] = "absent" /\ StatusOf(state'[t]) = "open"
        \/ status[t] = "open" /\ StatusOf(state'[t]) = state'[t] /\ state'[t] \in Terminal
    BY <1>1, <1>4, <1>6
    DEF RowMoves, Reaches, TransitionTable, StatusOf, Terminal, TransferState
  <2>2. CASE status[t] = "absent" /\ StatusOf(state'[t]) = "open"
    <3>1. Atomic!Submit(t)
      BY <1>2, <1>3, <2>2 DEF Atomic!Submit
    <3> QED  BY <3>1 DEF Atomic!AtomicNext
  <2>3. CASE status[t] = "open" /\ StatusOf(state'[t]) = state'[t] /\ state'[t] \in Terminal
    <3>1. \/ state'[t] = "committed" /\ funds[t] = "target"
          \/ state'[t] = "rolled_back" /\ funds[t] = "returned"
          \/ state'[t] = "failed" /\ funds[t] = "source"
      BY <1>1, <1>4, <2>3 DEF RowInv, FundsOf, Terminal, After
    <3>2. \/ Atomic!Decide(t, "committed", "target")
          \/ Atomic!Decide(t, "rolled_back", "returned")
          \/ Atomic!Decide(t, "failed", "source")
      BY <1>2, <1>3, <2>3, <3>1 DEF Atomic!Decide
    <3> QED  BY <3>2 DEF Atomic!AtomicNext
  <2> QED  BY <2>1, <2>2, <2>3
<1> QED  BY <1>5, <1>6

\* Asking a service moves nothing.
LEMMA AskRefines ==
    ASSUME IndInv, IndInv', NEW t \in Transfers, NEW o \in Op, Ask(t, o), UNCHANGED state
    PROVE  [Atomic!AtomicNext]_(Atomic!atomicVars)
<1>1. ops \in [Transfers -> [Op -> OpStatus]]
  BY AtomicView
<1>2. \A x \in Transfers : \A a \in Op : (ops'[x][a] = "ok") <=> (ops[x][a] = "ok")
  BY <1>1 DEF Ask
<1>3. \A x \in Transfers : FundsOf(ops'[x]) = FundsOf(ops[x])
  BY <1>2 DEF FundsOf, Op
<1> QED  BY <1>3 DEF Atomic!atomicVars

\* A decision moves the amount of an open transfer, or nothing.
LEMMA DecideRefines ==
    ASSUME IndInv, IndInv', NEW t \in Transfers, NEW o \in Op, NEW r \in {"ok", "fail"},
           ServiceDecides(t, o, r)
    PROVE  [Atomic!AtomicNext]_(Atomic!atomicVars)
<1>1. /\ state \in [Transfers -> TransferState \cup {"absent"}]
      /\ ops \in [Transfers -> [Op -> OpStatus]]
      /\ RowInv(t) /\ RowInv(t)'
  BY AtomicView
<1>2. /\ ops' = [ops EXCEPT ![t][o] = r] /\ ops[t][o] = "asked"
      /\ state' = state
  BY DEF ServiceDecides, coordVars
<1>3. PICK status, funds, funds1 :
        /\ status = [x \in Transfers |-> StatusOf(state[x])]
        /\ funds = [x \in Transfers |-> FundsOf(ops[x])]
        /\ funds1 = [x \in Transfers |-> FundsOf(ops'[x])]
  OBVIOUS
<1>4. funds1 = [funds EXCEPT ![t] = FundsOf(ops'[t])]
  BY <1>1, <1>2, <1>3
<1>5. status[t] = StatusOf(state[t]) /\ funds[t] = FundsOf(ops[t])
  BY <1>3
<1>6. \A a \in Op : ops'[t][a] = IF a = o THEN r ELSE ops[t][a]
  BY <1>1, <1>2
<1>7. \/ FundsOf(ops'[t]) = FundsOf(ops[t])
      \/ /\ StatusOf(state[t]) = "open"
         /\ <<FundsOf(ops[t]), FundsOf(ops'[t])>> \in
              {<<"source", "between">>, <<"between", "target">>, <<"between", "returned">>}
  <2>1. CASE r = "fail"
    BY <1>2, <1>6, <2>1 DEF FundsOf, Op
  <2>2. CASE r = "ok" /\ o = "commit"
    BY <1>6, <2>2 DEF FundsOf, Op
  <2>3. CASE r = "ok" /\ o = "withdraw"
    <3>1. ops[t]["deposit"] # "ok" /\ ops[t]["rollback"] # "ok"
      BY <1>1, <1>2, <2>3 DEF RowInv, After
    <3>2. StatusOf(state[t]) = "open"
      BY <1>1, <1>2, <2>3 DEF RowInv, After, StatusOf, Terminal
    <3> QED  BY <1>2, <1>6, <2>3, <3>1, <3>2 DEF FundsOf, Op
  <2>4. CASE r = "ok" /\ o = "deposit"
    <3>1. ops[t]["withdraw"] = "ok" /\ ops[t]["rollback"] # "ok"
      BY <1>1, <1>2, <2>4 DEF RowInv, After
    <3>2. StatusOf(state[t]) = "open"
      BY <1>1, <1>2, <2>4 DEF RowInv, After, StatusOf, Terminal
    <3> QED  BY <1>2, <1>6, <2>4, <3>1, <3>2 DEF FundsOf, Op
  <2>5. CASE r = "ok" /\ o = "rollback"
    <3>1. ops[t]["withdraw"] = "ok" /\ ops[t]["deposit"] # "ok"
      BY <1>1, <1>2, <2>5 DEF RowInv, After
    <3>2. StatusOf(state[t]) = "open"
      BY <1>1, <1>2, <2>5 DEF RowInv, After, StatusOf, Terminal
    <3> QED  BY <1>2, <1>6, <2>5, <3>1, <3>2 DEF FundsOf, Op
  <2> QED  BY <2>1, <2>2, <2>3, <2>4, <2>5 DEF Op
<1>8. CASE FundsOf(ops'[t]) = FundsOf(ops[t])
  <2>1. funds1 = funds
    BY <1>3, <1>4, <1>8
  <2> QED  BY <1>2, <1>3, <2>1 DEF Atomic!atomicVars
<1>9. CASE /\ StatusOf(state[t]) = "open"
           /\ <<FundsOf(ops[t]), FundsOf(ops'[t])>> \in
                {<<"source", "between">>, <<"between", "target">>, <<"between", "returned">>}
  <2>1. \/ Atomic!Move(t, "source", "between")
        \/ Atomic!Move(t, "between", "target")
        \/ Atomic!Move(t, "between", "returned")
    BY <1>2, <1>3, <1>4, <1>5, <1>9 DEF Atomic!Move
  <2> QED  BY <2>1 DEF Atomic!AtomicNext
<1> QED  BY <1>7, <1>8, <1>9

\* Neither the rows nor the decisions change: a stutter.
LEMMA QuietRefines ==
    ASSUME UNCHANGED <<state, ops>>
    PROVE  [Atomic!AtomicNext]_(Atomic!atomicVars)
  BY DEF Atomic!atomicVars

\* Every step of the service is a step of AtomicTransfer or none.
LEMMA NextRefines ==
    ASSUME IndInv, IndInv', [Next]_vars
    PROVE  [Atomic!AtomicNext]_(Atomic!atomicVars)
<1>1. CASE UNCHANGED vars
  BY <1>1, QuietRefines DEF vars, coordVars
<1>2. CASE Next /\ UNCHANGED ops
  BY <1>2, NextMoves, RowRefines, QuietRefines
<1>3. CASE Next /\ ops' # ops
  <2>1. \/ \E p \in Procs : CallSent(p) \/ CommitSent(p)
        \/ \E t \in Transfers, o \in Op, r \in {"ok", "fail"} : ServiceDecides(t, o, r)
    BY <1>3 DEF Next, CallAnswered, CallTimesOut, CommitReturns
  <2>2. ASSUME NEW p \in Procs, CallSent(p) \/ CommitSent(p)
        PROVE  [Atomic!AtomicNext]_(Atomic!atomicVars)
    <3>1. proc[p].tx \in Transfers /\ OpOf(proc[p].st) \in Op /\ "commit" \in Op
      BY TaskFacts, OpOfType DEF Op
    <3>2. /\ UNCHANGED state
          /\ \/ Ask(proc[p].tx, OpOf(proc[p].st))
             \/ Ask(proc[p].tx, "commit")
      BY <2>2 DEF CallSent, CommitSent
    <3> QED  BY <3>1, <3>2, AskRefines
  <2> QED  BY <2>1, <2>2, DecideRefines
<1> QED  BY <1>1, <1>2, <1>3

\* The coordinator, over services that keep their contract, implements
\* AtomicTransfer: the money moves once and only while the transfer is open.
THEOREM Refinement == Spec => ImplementsAtomic
<1>1. Init => Atomic!AtomicInit
  <2> SUFFICES ASSUME Init  PROVE Atomic!AtomicInit
    OBVIOUS
  <2>1. \A t \in Transfers : StatusOf(state[t]) = "absent" /\ FundsOf(ops[t]) = "source"
    BY DEF Init, CoordInit, StatusOf, FundsOf, Op
  <2> QED  BY <2>1 DEF Atomic!AtomicInit
<1>2. IndInv /\ IndInv' /\ [Next]_vars => [Atomic!AtomicNext]_(Atomic!atomicVars)
  BY NextRefines
<1> QED  BY <1>1, <1>2, IndInvHolds, PTL DEF Spec, ImplementsAtomic, Atomic!AtomicSpec
=============================================================================
