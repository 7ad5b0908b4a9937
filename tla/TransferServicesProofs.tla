------------------------ MODULE TransferServicesProofs ------------------------
(***************************************************************************)
(* Proofs about transfers over the production adapters, for any number of  *)
(* transfers, workers, crashes, lost and foreign answers: of a transfer    *)
(* whose calls got no other request's answer, no credit without a debit,   *)
(* no commit without a credit or before its pending transfer is posted,    *)
(* and no compensation.                                                    *)
(*                                                                         *)
(* And about the channel over which the Trading adapter calls UBSCore, for *)
(* any number of channels on one stream, requests and registrations under  *)
(* way: a caller is only handed the answer to a request that was published *)
(* under its own correlation id.                                           *)
(***************************************************************************)
EXTENDS TransferServices, AeronChannel, FiniteSetTheorems, TLAPS

(***************************************************************************)
(* The states a row may be in once a task has read s.  No deposit of the   *)
(* production adapters is answered Failed, so no row ever compensates.     *)
(***************************************************************************)
Reached == {"init", "source_pending", "source_done", "target_pending", "committed", "failed"}

After(s) ==
    CASE s = "init"           -> Reached
      [] s = "source_pending" -> Reached \ {"init"}
      [] s = "source_done"    -> {"source_done", "target_pending", "committed"}
      [] s = "target_pending" -> {"target_pending", "committed"}
      [] OTHER                -> {s}

\* t's pending transfer in Funding is posted, or its commit call was given up,
\* or TigerBeetle refused it because the id of the posting was taken
Posted(t) ==
    source[t] = "funding" => \/ tb[t] = "posted"
                             \/ t \in dropped
                             \/ tb[t] = "pending" /\ tb[PostId(t)] # "free"

\* no message of t has reached a service
Untouched(t) ==
    /\ tb[t] \in {"free", "resolution"} /\ tbTrading[t] = "free"
    /\ debits[t] = 0 /\ credits[t] = 0

(***************************************************************************)
(* A row and what the services did for its transfer.  Nothing is known of  *)
(* a transfer that was misled by another request's answer.                 *)
(***************************************************************************)
RowKnown(t) ==
    /\ state[t] \in Reached \cup {"absent"}
    /\ state[t] \in After("source_done") => Debited(t)
    /\ state[t] = "committed" => Credited(t) /\ Posted(t)
    /\ told[t] = "committed" => Credited(t)
    /\ Credited(t) => Debited(t)
    /\ tb[t] # "voided"

RowInv(t) ==
    /\ state[t] = "absent" => Untouched(t)
    /\ t \notin misled => RowKnown(t)

Resting == {"none", "idle", "done", "scan"}

InCall == {"call", "await", "commit", "finalize", "handle"}

\* what an answer to operation o of t tells
Tells(t, o, answer) ==
    /\ answer = "Success" /\ o = "withdraw" => Debited(t)
    /\ answer = "Success" /\ o = "deposit" => Credited(t)
    /\ answer = "Failed" => o = "withdraw"

(***************************************************************************)
(* What a task knows: the row has not gone back behind the record it read, *)
(* and the answer it got or holds is true of the services.                 *)
(***************************************************************************)
TaskKnown(p) ==
    LET t == proc[p].tx
        s == proc[p].st
        c == proc[p].pc
        r == proc[p].res
    IN  /\ c \in {"persist", "reread"} =>
              s \in {"init", "source_done"} /\ state[t] \in After(s)
        /\ c \in InCall =>
              s \in Reached \ Terminal /\ state[t] \in After(Expected(s))
        /\ c \in {"commit", "finalize"} => OpOf(s) = "deposit" /\ r = "Success"
        /\ c \in {"commit", "finalize", "handle"} => Tells(t, OpOf(s), r)
        /\ c = "handle" /\ r = "Success" /\ OpOf(s) = "deposit" => Posted(t)
        /\ c = "retry" => s \notin Terminal
        /\ c = "return" /\ s = "committed" => Credited(t)
        /\ c = "await" /\ call[p] \in OpResult => Tells(t, OpOf(s), call[p])
        /\ c = "finalize" /\ call[p] \in OpResult => Posted(t)

TaskInv(p) ==
    /\ proc[p].pc \notin Resting => state[proc[p].tx] # "absent"
    /\ call[p] # "none" => proc[p].pc \in {"await", "finalize"}
    /\ proc[p].tx \notin misled => TaskKnown(p)

\* A message nobody waits for is of a transfer that came that far.
LateInv ==
    \A m \in late :
        /\ state[m[1]] # "absent"
        /\ m[1] \notin misled =>
              m[2] # "rollback" /\ (m[2] \in {"deposit", "commit"} => Debited(m[1]))

(***************************************************************************)
(* A handler serves its own transfer, which has no row before it starts,   *)
(* and only transfers that have a row are queued or scanned.               *)
(***************************************************************************)
WiringInv ==
    /\ \A t \in Transfers :
          proc[t].tx = t /\ (proc[t].pc = "none" => state[t] = "absent")
    /\ \A w \in Workers : proc[w].pc # "none"
    /\ \A w \in Workers : \A t \in todo[w] : state[t] # "absent"
    /\ \A i \in 1..Len(queue) : state[queue[i]] # "absent"

IndInv ==
    /\ TypeOK
    /\ WiringInv
    /\ LateInv
    /\ \A t \in Transfers : RowInv(t)
    /\ \A p \in Procs : TaskInv(p)

-----------------------------------------------------------------------------
(***************************************************************************)
(* How the actions update proc.                                            *)
(***************************************************************************)
Task == [pc : PC, tx : Transfers, st : TransferState, res : OpResult]

\* p now has program counter c and the locals t, s and r; no other task moved
Becomes(p, c, t, s, r) ==
    /\ proc' \in [Procs -> Task]
    /\ proc'[p].pc = c /\ proc'[p].tx = t /\ proc'[p].st = s /\ proc'[p].res = r
    /\ \A q \in Procs : q # p => proc'[q] = proc[q]

\* Goto moves the program counter; Return and Leave also set the locals;
\* Process starts a worker on a transfer.
LEMMA TaskEffects ==
    ASSUME CoordTypeOK, NEW p \in Procs
    PROVE  /\ \A c \in PC : Goto(p, c) => Becomes(p, c, proc[p].tx, proc[p].st, proc[p].res)
           /\ \A s \in TransferState : Return(p, s) => Becomes(p, "return", proc[p].tx, s, "Pending")
           /\ \A c \in PC : Leave(p, c) => Becomes(p, c, proc[p].tx, "init", "Pending")
           /\ \A t \in Transfers : Process(p, t) => Becomes(p, "get", t, "init", proc[p].res)
<1>1. ASSUME NEW c \in PC, Goto(p, c)
      PROVE  Becomes(p, c, proc[p].tx, proc[p].st, proc[p].res)
  BY <1>1 DEF CoordTypeOK, Goto, Becomes, Task
<1>2. ASSUME NEW s \in TransferState, Return(p, s)
      PROVE  Becomes(p, "return", proc[p].tx, s, "Pending")
  BY ZenonT(30), <1>2 DEF CoordTypeOK, Return, Becomes, Task, PC, OpResult
<1>3. ASSUME NEW c \in PC, Leave(p, c)
      PROVE  Becomes(p, c, proc[p].tx, "init", "Pending")
  BY ZenonT(30), <1>3 DEF CoordTypeOK, Leave, Becomes, Task, OpResult, TransferState
<1>4. ASSUME NEW t \in Transfers, Process(p, t)
      PROVE  Becomes(p, "get", t, "init", proc[p].res)
  BY ZenonT(30), <1>4 DEF CoordTypeOK, Process, Becomes, Task, PC, TransferState
<1> QED  BY <1>1, <1>2, <1>3, <1>4

\* The answer to a call is stored; a successful deposit is finalized next.
LEMMA CallReturnsEffect ==
    ASSUME CoordTypeOK, NEW p \in Procs, NEW r \in OpResult, CallReturns(p, r)
    PROVE  \/ /\ OpOf(proc[p].st) = "deposit" /\ r = "Success"
              /\ Becomes(p, "commit", proc[p].tx, proc[p].st, r)
           \/ /\ ~(OpOf(proc[p].st) = "deposit" /\ r = "Success")
              /\ Becomes(p, "handle", proc[p].tx, proc[p].st, r)
  BY DEF CoordTypeOK, CallReturns, Becomes, Task, PC

\* The task holds the row it read and knows what to do next.
LEMMA StepGetEffect ==
    ASSUME CoordTypeOK, NEW p \in Procs, StepGet(p), state[proc[p].tx] # "absent"
    PROVE  LET s == state[proc[p].tx]
           IN  \/ /\ s \in Terminal
                  /\ Becomes(p, "return", proc[p].tx, s, proc[p].res)
               \/ /\ s \in {"init", "source_done"}
                  /\ Becomes(p, "persist", proc[p].tx, s, proc[p].res)
               \/ /\ s \notin Terminal \cup {"init", "source_done"}
                  /\ Becomes(p, "call", proc[p].tx, s, proc[p].res)
  BY DEF CoordTypeOK, StepGet, Becomes, Task, PC, Terminal

\* A crash leaves every task as it was or at rest with no locals.
LEMMA CrashEffect ==
    ASSUME CoordTypeOK, NEW w \in Workers, Crash(w)
    PROVE  /\ proc' \in [Procs -> Task]
           /\ \A q \in Procs :
                 \/ /\ proc'[q] = proc[q]
                    /\ proc[q].pc = "none" \/ ~(q = w \/ (w = QueueWorker /\ q \in Transfers))
                 \/ /\ proc[q].pc # "none" /\ proc'[q].tx = proc[q].tx
                    /\ proc'[q].pc = IF q \in Workers THEN "idle" ELSE "done"
                    /\ q = w \/ (w = QueueWorker /\ q \in Transfers)
  BY DEF CoordTypeOK, Crash, Task, PC, Procs, TransferState, OpResult

-----------------------------------------------------------------------------
(***************************************************************************)
(* What tasks and rows rely on stays true while others move.               *)
(***************************************************************************)

\* Rows only go forward, and what the services did is not undone.
Advances ==
    /\ misled \subseteq misled' /\ dropped \subseteq dropped'
    /\ \A i \in TbIds : tb[i] # "free" => tb'[i] # "free"
    /\ \A t \in Transfers : state[t] # "absent" =>
          /\ state'[t] # "absent"
          /\ source'[t] = source[t]
          /\ t \notin misled' =>
                /\ state'[t] \in After(state[t])
                /\ Debited(t) => Debited(t)'
                /\ Credited(t) => Credited(t)'
                /\ tb[t] = "posted" => tb'[t] = "posted"
                /\ tb[t] = "pending" => tb'[t] \in {"pending", "posted"}

\* A state is after itself, and what is after one is a state that was reached.
LEMMA AfterFacts ==
    /\ \A s \in Reached : s \in After(s) /\ s \in TransferState /\ s # "absent"
    /\ \A s \in Reached : \A x \in After(s) : x \in Reached /\ \A y \in After(x) : y \in After(s)
    /\ \A s \in Reached : Expected(s) \in Reached
    /\ \A x \in After("target_pending") : x \in After("source_done")
    /\ \A s \in {"init", "source_done"} : PendingOf(s) \in Reached /\ PendingOf(s) \in After(s)
<1>1. \A s \in Reached : s \in After(s) /\ s \in TransferState /\ s # "absent"
  BY DEF After, Reached, TransferState
<1>2. ASSUME NEW s \in Reached, NEW x \in After(s)
      PROVE  x \in Reached /\ \A y \in After(x) : y \in After(s)
  BY <1>2 DEF After, Reached
<1>3. \A s \in Reached : Expected(s) \in Reached
  BY DEF Expected, PendingOf, Reached
<1>4. \A x \in After("target_pending") : x \in After("source_done")
  BY DEF After
<1>5. \A s \in {"init", "source_done"} : PendingOf(s) \in Reached /\ PendingOf(s) \in After(s)
  BY DEF PendingOf, After, Reached
<1> QED  BY <1>1, <1>2, <1>3, <1>4, <1>5

\* TigerBeetle's three ids of a transfer.
LEMMA IdFacts ==
    ASSUME NEW t \in Transfers
    PROVE  /\ t \in Nat /\ t \in TbIds
           /\ PostId(t) \in TbIds /\ PostId(t) # t /\ VoidId(t) \in TbIds /\ VoidId(t) # t
<1>1. t \in Nat
  BY ServicesAssumption
<1>2. t = t + 0 /\ PostId(t) = t + 1 /\ VoidId(t) = t + 2 /\ t + 1 # t /\ t + 2 # t
  BY <1>1 DEF PostId, VoidId
<1>3. t \in TbIds /\ PostId(t) \in TbIds /\ VoidId(t) \in TbIds
  <2>1. 0 \in 0..2 /\ 1 \in 0..2 /\ 2 \in 0..2
    OBVIOUS
  <2> QED  BY <1>2, <2>1 DEF TbIds
<1> QED  BY <1>1, <1>2, <1>3

\* The pieces of the invariant about one task and its transfer.
LEMMA TaskFacts ==
    ASSUME IndInv, NEW p \in Procs
    PROVE  /\ CoordTypeOK /\ TaskInv(p) /\ RowInv(proc[p].tx)
           /\ proc[p].tx \in Transfers /\ proc[p].st \in TransferState
           /\ proc[p].pc \in PC /\ proc[p].res \in OpResult
           /\ proc[p].tx \notin misled => /\ state[proc[p].tx] \in Reached \cup {"absent"}
                                          /\ RowKnown(proc[p].tx) /\ TaskKnown(p)
<1>1. /\ CoordTypeOK /\ TaskInv(p)
      /\ proc[p].tx \in Transfers /\ proc[p].st \in TransferState
      /\ proc[p].pc \in PC /\ proc[p].res \in OpResult
  BY DEF IndInv, TypeOK, CoordTypeOK
<1>2. RowInv(proc[p].tx)
  BY <1>1 DEF IndInv
<1> QED  BY <1>1, <1>2 DEF RowInv, RowKnown, TaskInv

\* What was known of a transfer with a row is still true of it.
LEMMA KnownStays ==
    ASSUME Advances, NEW t \in Transfers, state[t] \in Reached, t \notin misled'
    PROVE  /\ t \notin misled
           /\ state'[t] \in Reached /\ state'[t] # "absent"
           /\ \A s \in Reached : state[t] \in After(s) => state'[t] \in After(s)
           /\ Debited(t) => Debited(t)'
           /\ Credited(t) => Credited(t)'
           /\ Posted(t) => Posted(t)'
           /\ \A o, r : Tells(t, o, r) => Tells(t, o, r)'
<1>1. /\ state'[t] \in After(state[t]) /\ source'[t] = source[t]
      /\ Debited(t) => Debited(t)'
      /\ Credited(t) => Credited(t)'
      /\ tb[t] = "posted" => tb'[t] = "posted"
      /\ tb[t] = "pending" => tb'[t] \in {"pending", "posted"}
      /\ t \in dropped => t \in dropped'
      /\ tb[PostId(t)] # "free" => tb'[PostId(t)] # "free"
      /\ t \notin misled
  BY AfterFacts, IdFacts DEF Advances
<1>2. /\ state'[t] \in Reached /\ state'[t] # "absent"
      /\ \A s \in Reached : state[t] \in After(s) => state'[t] \in After(s)
  BY <1>1, AfterFacts
<1>3. Posted(t) => Posted(t)'
  BY <1>1 DEF Posted
<1>4. ASSUME NEW o, NEW r, Tells(t, o, r)
      PROVE  Tells(t, o, r)'
  BY <1>1, <1>4 DEF Tells
<1> QED  BY <1>1, <1>2, <1>3, <1>4

\* The invariant of a task that did not move.
LEMMA TaskFrame ==
    ASSUME IndInv, NEW q \in Procs, proc'[q] = proc[q], call'[q] = call[q], Advances
    PROVE  TaskInv(q)'
<1>0. PICK t, s, c, r, a : /\ t = proc[q].tx /\ s = proc[q].st /\ c = proc[q].pc
                           /\ r = proc[q].res /\ a = call[q]
  OBVIOUS
<1>1. /\ t \in Transfers /\ TaskInv(q)
      /\ t \notin misled => state[t] \in Reached \cup {"absent"} /\ TaskKnown(q)
  BY <1>0, TaskFacts
<1>2. /\ c \notin Resting => state'[t] # "absent"
      /\ a # "none" => c \in {"await", "finalize"}
  BY <1>0, <1>1 DEF TaskInv, Advances
<1>3. ASSUME t \notin misled'  PROVE TaskKnown(q)'
  <2>1. t \notin misled
    BY <1>3 DEF Advances
  <2>2. CASE c \in Resting
    BY <1>0, <2>2 DEF TaskKnown, Resting, InCall
  <2>3. CASE c \notin Resting
    <3>1. state[t] \in Reached /\ TaskKnown(q)
      BY <1>0, <1>1, <2>1, <2>3 DEF TaskInv
    <3>2. s \in Reached \ Terminal => Expected(s) \in Reached
      BY AfterFacts
    <3>3. "init" \in Reached /\ "source_done" \in Reached
      BY DEF Reached
    <3>4. /\ \A x \in Reached : state[t] \in After(x) => state'[t] \in After(x)
          /\ Credited(t) => Credited(t)'
          /\ Posted(t) => Posted(t)'
          /\ \A o, y : Tells(t, o, y) => Tells(t, o, y)'
      BY <1>1, <1>3, <3>1, KnownStays
    <3> QED  BY <1>0, <3>1, <3>2, <3>3, <3>4 DEF TaskKnown
  <2> QED  BY <2>2, <2>3
<1> QED  BY <1>0, <1>2, <1>3 DEF TaskInv

\* One message nobody waits for, while others move.
LEMMA MessageFrame ==
    ASSUME IndInv, Advances, NEW m \in late
    PROVE  /\ state'[m[1]] # "absent"
           /\ m[1] \notin misled' =>
                 m[2] # "rollback" /\ (m[2] \in {"deposit", "commit"} => Debited(m[1])')
<1>0. PICK t \in Transfers : t = m[1]
  BY DEF IndInv, TypeOK
<1>1. /\ state[t] # "absent" /\ RowInv(t)
      /\ t \notin misled => m[2] # "rollback" /\ (m[2] \in {"deposit", "commit"} => Debited(t))
  BY <1>0 DEF LateInv, IndInv
<1>2. state'[t] # "absent"
  BY <1>1 DEF Advances
<1>3. ASSUME t \notin misled'
      PROVE  m[2] # "rollback" /\ (m[2] \in {"deposit", "commit"} => Debited(t)')
  <2>1. t \notin misled
    BY <1>3 DEF Advances
  <2>2. state[t] \in Reached
    BY <1>1, <2>1 DEF RowInv, RowKnown
  <2> QED  BY <1>1, <1>3, <2>1, <2>2, KnownStays
<1> QED  BY <1>0, <1>2, <1>3

\* Messages nobody waits for, while others move.
LEMMA LateFrame ==
    ASSUME IndInv, Advances, late' \subseteq late
    PROVE  LateInv'
  BY MessageFrame DEF LateInv

\* A row the step does not touch.
LEMMA RowSame ==
    ASSUME NEW x \in Transfers, RowInv(x), state'[x] = state[x], source'[x] = source[x],
           told'[x] = told[x] \/ told'[x] # "committed" \/ (x \notin misled => Credited(x)),
           misled \subseteq misled', dropped \subseteq dropped',
           UNCHANGED <<tb, tbTrading, debits, credits>>
    PROVE  RowInv(x)'
<1>1. /\ Untouched(x)' <=> Untouched(x)
      /\ Debited(x)' <=> Debited(x)
      /\ Credited(x)' <=> Credited(x)
      /\ Posted(x) => Posted(x)'
  BY DEF Untouched, Debited, Credited, Posted
<1> QED  BY <1>1 DEF RowInv, RowKnown

\* Rows advance trivially when nothing but a counter changes.
LEMMA AdvancesQuiet ==
    ASSUME IndInv, UNCHANGED <<state, source, tb, tbTrading, debits, credits>>,
           misled \subseteq misled', dropped \subseteq dropped'
    PROVE  Advances
<1>1. \A t \in Transfers : t \notin misled' => state[t] \in Reached \cup {"absent"}
  BY DEF IndInv, RowInv, RowKnown
<1> QED  BY <1>1, AfterFacts DEF Advances, Debited, Credited

\* what TypeOK says of the services
ServiceTypes ==
    /\ adapter \in [Workers -> Adapters]
    /\ tbTrading \in [Transfers -> {"free", "pending", "deposited"}]
    /\ tb \in [TbIds -> {"free", "pending", "posted", "voided", "deposited", "resolution"}]
    /\ avail \in Nat
    /\ debits \in [Transfers -> 0..MaxApplied]
    /\ credits \in [Transfers -> 0..MaxApplied]
    /\ call \in [Procs -> OpResult \cup {"none", "sent"}]
    /\ late \subseteq Transfers \X {"withdraw", "deposit", "commit", "rollback"} \X Adapters
    /\ lost \in 0..MaxLost /\ foreign \in 0..MaxForeign
    /\ misled \subseteq Transfers /\ dropped \subseteq Transfers

\* Every step: the invariant is kept if types, rows and wiring are, rows go
\* forward, and whoever moved keeps its own invariant.
LEMMA Keeps ==
    ASSUME IndInv, CoordTypeOK', ServiceTypes', WiringInv', LateInv', Advances,
           \A x \in Transfers : RowInv(x)',
           \A q \in Procs : (proc'[q] = proc[q] /\ call'[q] = call[q]) \/ TaskInv(q)'
    PROVE  IndInv'
<1>1. TypeOK'
  BY DEF TypeOK, ServiceTypes
<1>2. \A q \in Procs : TaskInv(q)'
  BY TaskFrame
<1> QED  BY <1>1, <1>2 DEF IndInv

\* A step of the coordinator leaves the services and their messages alone.
LEMMA Quietly ==
    ASSUME IndInv, UNCHANGED serviceVars
    PROVE  /\ UNCHANGED <<adapter, tb, tbTrading, avail, debits, credits, call, late, lost>>
           /\ UNCHANGED <<foreign, misled, dropped>>
           /\ ServiceTypes'
  BY DEF IndInv, TypeOK, ServiceTypes, serviceVars, historyVars

\* The wiring, when one task p moved on and rows went forward.
LEMMA WiringKept ==
    ASSUME IndInv, Advances, NEW p \in Procs, NEW c, NEW t, NEW s, NEW r, Becomes(p, c, t, s, r),
           c # "none", p \in Transfers => t = p,
           \A x \in Transfers : x # p => state'[x] = state[x] \/ state[x] # "absent",
           todo' \in [Workers -> SUBSET Transfers],
           \A w \in Workers : \A x \in todo'[w] : state'[x] # "absent",
           \A i \in 1..Len(queue') : state'[queue'[i]] # "absent"
    PROVE  WiringInv'
<1>1. WiringInv
  BY DEF IndInv
<1>2. ASSUME NEW x \in Transfers  PROVE proc'[x].tx = x /\ (proc'[x].pc = "none" => state'[x] = "absent")
  <2>1. x \in Procs /\ proc[x].tx = x /\ (proc[x].pc = "none" => state[x] = "absent")
    BY <1>1 DEF WiringInv, Procs
  <2>2. CASE x = p
    BY <2>2 DEF Becomes
  <2>3. CASE x # p
    BY <2>1, <2>3 DEF Becomes
  <2> QED  BY <2>2, <2>3
<1>3. ASSUME NEW w \in Workers  PROVE proc'[w].pc # "none"
  BY <1>1 DEF WiringInv, Becomes, Procs
<1> QED  BY <1>2, <1>3 DEF WiringInv

\* Rows stay when they go forward.
LEMMA RowsStay ==
    ASSUME IndInv, Advances
    PROVE  /\ \A x \in Transfers : state[x] # "absent" => state'[x] # "absent"
           /\ \A w \in Workers : \A x \in todo[w] : x \in Transfers /\ state'[x] # "absent"
           /\ queue \in Seq(Transfers) /\ Len(queue) <= QueueCapacity
           /\ \A i \in 1..Len(queue) : state'[queue[i]] # "absent"
<1>1. \A x \in Transfers : state[x] # "absent" => state'[x] # "absent"
  BY DEF Advances
<1>2. /\ \A w \in Workers : \A x \in todo[w] : x \in Transfers /\ state[x] # "absent"
      /\ queue \in Seq(Transfers) /\ Len(queue) <= QueueCapacity
      /\ \A i \in 1..Len(queue) : queue[i] \in Transfers /\ state[queue[i]] # "absent"
  BY DEF IndInv, WiringInv, TypeOK, CoordTypeOK
<1> QED  BY <1>1, <1>2

\* A task p moves, and possibly the row of its transfer.
LEMMA TaskStep ==
    ASSUME IndInv, NEW p \in Procs, NEW c, NEW s, NEW r, Becomes(p, c, proc[p].tx, s, r), c # "none",
           UNCHANGED <<source, todo, queue, told, crashes>>, UNCHANGED serviceVars,
           state' \in [Transfers -> TransferState \cup {"absent"}],
           \A x \in Transfers : state[x] = "absent" => state'[x] = "absent",
           Advances, \A x \in Transfers : RowInv(x)', TaskInv(p)'
    PROVE  IndInv'
<1>1. /\ UNCHANGED <<adapter, tb, tbTrading, avail, debits, credits, call, late, lost>>
      /\ ServiceTypes'
  BY Quietly
<1>2. CoordTypeOK'
  BY DEF IndInv, TypeOK, CoordTypeOK, Becomes, Task
<1>3. LateInv'
  BY <1>1, LateFrame
<1>4. WiringInv'
  <2>1. p \in Transfers => proc[p].tx = p
    BY DEF IndInv, WiringInv
  <2>2. todo' \in [Workers -> SUBSET Transfers]
    BY DEF IndInv, TypeOK, CoordTypeOK
  <2>3. \A x \in Transfers : x # p => state'[x] = state[x] \/ state[x] # "absent"
    OBVIOUS
  <2>4. /\ \A w \in Workers : \A x \in todo'[w] : state'[x] # "absent"
        /\ \A i \in 1..Len(queue') : state'[queue'[i]] # "absent"
    BY RowsStay
  <2>5. PICK t : t = proc[p].tx
    OBVIOUS
  <2> QED  BY <2>1, <2>2, <2>3, <2>4, <2>5, WiringKept
<1>5. \A q \in Procs : (proc'[q] = proc[q] /\ call'[q] = call[q]) \/ TaskInv(q)'
  BY <1>1 DEF Becomes
<1> QED  BY <1>1, <1>2, <1>3, <1>4, <1>5, Keeps

\* The same without the row.
LEMMA LocalStep ==
    ASSUME IndInv, NEW p \in Procs, NEW c, NEW s, NEW r, Becomes(p, c, proc[p].tx, s, r), c # "none",
           UNCHANGED <<state, source, todo, queue, told, crashes>>, UNCHANGED serviceVars, TaskInv(p)'
    PROVE  IndInv'
<1>1. UNCHANGED <<tb, tbTrading, debits, credits, misled, dropped>>
  BY Quietly
<1>2. Advances
  BY <1>1, AdvancesQuiet
<1>3. \A x \in Transfers : RowInv(x)'
  BY <1>1, RowSame DEF IndInv
<1>4. state' \in [Transfers -> TransferState \cup {"absent"}]
  BY DEF IndInv, TypeOK, CoordTypeOK
<1> QED  BY <1>2, <1>3, <1>4, TaskStep

-----------------------------------------------------------------------------
(***************************************************************************)
(* The steps of the coordinator.                                           *)
(***************************************************************************)

\* A task with no call under way has none afterwards.
LEMMA NoCall ==
    ASSUME IndInv, NEW p \in Procs, proc[p].pc \notin {"await", "finalize"}, UNCHANGED serviceVars
    PROVE  call[p] = "none" /\ call'[p] = "none"
<1>1. call[p] = "none"
  BY TaskFacts DEF TaskInv
<1> QED  BY <1>1 DEF serviceVars

\* The read at the head of a step.
LEMMA StepGetInv ==
    ASSUME IndInv, NEW p \in Procs, StepGet(p), UNCHANGED serviceVars
    PROVE  IndInv'
<1>t. PICK t \in Transfers : t = proc[p].tx
  BY TaskFacts
<1>0. PICK s : t = proc[p].tx /\ s = state[t]
  BY <1>t
<1>1. /\ s # "absent" /\ CoordTypeOK
      /\ call'[p] = "none" /\ UNCHANGED <<state, source, todo, queue, told, crashes>>
      /\ UNCHANGED <<tb, tbTrading, debits, credits, misled, dropped>>
  BY <1>0, TaskFacts, NoCall, Quietly DEF TaskInv, StepGet, Resting
<1>2. t \notin misled => s \in Reached /\ RowKnown(t)
  BY <1>0, <1>1, TaskFacts
<1>3. PICK c \in {"return", "persist", "call"} :
         /\ Becomes(p, c, t, s, proc[p].res)
         /\ c = "return" <=> s \in Terminal
         /\ c = "persist" <=> s \in {"init", "source_done"}
  BY <1>0, <1>1, StepGetEffect DEF Terminal
<1>4. ASSUME t \notin misled'  PROVE TaskKnown(p)'
  <2>1. s \in Reached /\ RowKnown(t)
    BY <1>1, <1>2, <1>4
  <2>2. CASE c = "return"
    <3>1. s = "committed" => Credited(t)'
      BY <1>1, <1>0, <2>1 DEF RowKnown, Credited
    <3> QED  BY <1>1, <1>3, <2>2, <3>1 DEF TaskKnown, Becomes, InCall
  <2>3. CASE c = "persist"
    BY <1>0, <1>1, <1>3, <2>1, <2>3, AfterFacts DEF TaskKnown, Becomes, InCall
  <2>4. CASE c = "call"
    <3>1. Expected(s) = s /\ s \in Reached \ Terminal
      BY <1>3, <2>1, <2>4 DEF Expected
    <3> QED  BY <1>0, <1>1, <1>3, <2>1, <2>4, <3>1, AfterFacts DEF TaskKnown, Becomes, InCall
  <2> QED  BY <2>2, <2>3, <2>4
<1>5. TaskInv(p)'
  BY <1>0, <1>1, <1>3, <1>4 DEF TaskInv, Becomes
<1> QED  BY <1>0, <1>1, <1>3, <1>5, LocalStep

\* The second read after a lost race, and increment_retry.
LEMMA StepReturnsInv ==
    ASSUME IndInv, NEW p \in Procs, StepReread(p) \/ StepRetry(p), UNCHANGED serviceVars
    PROVE  IndInv'
<1>0. PICK t \in Transfers : t = proc[p].tx
  BY TaskFacts
<1>1. /\ state[t] # "absent" /\ CoordTypeOK
      /\ call'[p] = "none" /\ UNCHANGED <<state, source, todo, queue, told, crashes>>
      /\ UNCHANGED <<tb, tbTrading, debits, credits, misled, dropped>>
      /\ state[t] \in TransferState /\ proc[p].st \in TransferState
      /\ t \notin misled => RowKnown(t) /\ TaskKnown(p)
  BY <1>0, TaskFacts, NoCall, Quietly DEF TaskInv, StepReread, StepRetry, Resting, CoordTypeOK
<1>2. PICK s \in TransferState : Return(p, s) /\ (t \notin misled /\ s = "committed" => Credited(t))
  <2>1. CASE StepReread(p)
    BY <1>0, <1>1, <2>1 DEF StepReread, RowKnown
  <2>2. CASE StepRetry(p)
    BY <1>0, <1>1, <2>2 DEF StepRetry, TaskKnown, Terminal
  <2> QED  BY <2>1, <2>2
<1>3. Becomes(p, "return", t, s, "Pending")
  BY <1>0, <1>1, <1>2, TaskEffects
<1>4. t \notin misled /\ s = "committed" => Credited(t)'
  BY <1>1, <1>2 DEF Credited
<1>5. t \notin misled' => TaskKnown(p)'
  BY <1>1, <1>3, <1>4 DEF TaskKnown, Becomes, InCall
<1>6. TaskInv(p)'
  BY <1>1, <1>3, <1>5 DEF TaskInv, Becomes
<1> QED  BY <1>0, <1>1, <1>3, <1>6, LocalStep

\* A task that leaves a step knows nothing but that its row exists.
LEMMA LeftInv ==
    ASSUME NEW p \in Procs, NEW c \in {"get", "error", "idle", "done", "scan"}, NEW t, NEW r,
           Becomes(p, c, t, "init", r), call'[p] = "none",
           c \notin Resting => state'[t] # "absent"
    PROVE  TaskInv(p)'
<1>1. TaskKnown(p)'
  BY DEF TaskKnown, Becomes, InCall, Resting
<1> QED  BY <1>1 DEF TaskInv, Becomes

\* The same, when nothing but the task changes.
LEMMA LeaveInv ==
    ASSUME IndInv, NEW p \in Procs, NEW c \in {"get", "error", "idle", "done", "scan"},
           c \notin Resting => state[proc[p].tx] # "absent", Leave(p, c),
           proc[p].pc \notin {"await", "finalize"},
           UNCHANGED <<state, source, todo, queue, told, crashes>>, UNCHANGED serviceVars
    PROVE  IndInv'
<1>0. PICK t : t = proc[p].tx
  OBVIOUS
<1>1. Becomes(p, c, t, "init", "Pending") /\ call'[p] = "none"
  BY <1>0, TaskEffects, TaskFacts, NoCall DEF PC
<1>2. TaskInv(p)'
  BY <1>0, <1>1, LeftInv
<1> QED  BY <1>0, <1>1, <1>2, LocalStep

\* The loops of handler and worker, the worker's error path and its drained queue.
LEMMA LoopInv ==
    ASSUME IndInv, UNCHANGED serviceVars,
           \/ \E t \in Transfers : HandlerLoops(t)
           \/ \E w \in Workers : WorkerLoops(w) \/ WorkerErrs(w) \/ WorkerDrained(w)
    PROVE  IndInv'
<1>1. ASSUME NEW t \in Transfers, HandlerLoops(t)  PROVE IndInv'
  <2>1. t \in Procs /\ state[proc[t].tx] # "absent"
    BY <1>1, TaskFacts DEF HandlerLoops, TaskInv, Resting, Procs
  <2> QED  BY <1>1, <2>1, LeaveInv DEF HandlerLoops
<1>2. ASSUME NEW w \in Workers, WorkerLoops(w)  PROVE IndInv'
  <2>1. w \in Procs /\ state[proc[w].tx] # "absent"
    BY <1>2, TaskFacts DEF WorkerLoops, TaskInv, Resting, Procs
  <2> QED  BY <1>2, <2>1, LeaveInv DEF WorkerLoops
<1>3. ASSUME NEW w \in Workers, WorkerErrs(w)  PROVE IndInv'
  <2>1. w \in Procs
    BY DEF Procs
  <2> QED  BY <1>3, <2>1, LeaveInv DEF WorkerErrs, Resting
<1>4. ASSUME NEW w \in Workers, WorkerDrained(w)  PROVE IndInv'
  <2>1. w \in Procs
    BY DEF Procs
  <2> QED  BY <1>4, <2>1, LeaveInv DEF WorkerDrained, Resting
<1> QED  BY <1>1, <1>2, <1>3, <1>4

\* A conditional update of a row, to a state that is after the expected one.
LEMMA CasRow ==
    ASSUME IndInv, NEW t \in Transfers, NEW old \in TransferState, NEW new \in TransferState,
           CasApplied(t, old, new), UNCHANGED <<source, told, crashes>>, UNCHANGED serviceVars,
           t \notin misled =>
              /\ old \in Reached /\ new \in After(old)
              /\ state[t] = old /\ new \in After("source_done") => Debited(t)
              /\ state[t] = old /\ new = "committed" => Credited(t) /\ Posted(t)
    PROVE  /\ Advances /\ \A x \in Transfers : RowInv(x)'
           /\ state' \in [Transfers -> TransferState \cup {"absent"}]
           /\ \A x \in Transfers : state[x] = "absent" => state'[x] = "absent"
           /\ state'[t] = IF state[t] = old THEN new ELSE state[t]
<1>1. /\ \A x \in Transfers : state'[x] = IF x = t /\ state[x] = old THEN new ELSE state[x]
      /\ old # "absent" /\ new # "absent"
      /\ state' \in [Transfers -> TransferState \cup {"absent"}]
  BY DEF CasApplied, IndInv, TypeOK, CoordTypeOK, TransferState
<1>2. UNCHANGED <<tb, tbTrading, debits, credits, misled, dropped>>
  BY Quietly
<1>3. \A x \in Transfers : x \notin misled => state[x] \in Reached \cup {"absent"}
  BY DEF IndInv, RowInv, RowKnown
<1>4. Advances
  BY <1>1, <1>2, <1>3, AfterFacts DEF Advances, Debited, Credited
<1>5. ASSUME NEW x \in Transfers  PROVE RowInv(x)'
  <2>1. RowInv(x)
    BY DEF IndInv
  <2>2. CASE state'[x] = state[x]
    BY <1>2, <2>1, <2>2, RowSame
  <2>3. CASE state'[x] # state[x]
    <3>1. x = t /\ state[t] = old /\ state'[x] = new /\ state'[x] # "absent"
      BY <1>1, <2>3
    <3>2. /\ Debited(x)' <=> Debited(x)
          /\ Credited(x)' <=> Credited(x)
          /\ Posted(x)' <=> Posted(x)
      BY <1>2 DEF Debited, Credited, Posted
    <3>3. ASSUME x \notin misled  PROVE RowKnown(x)'
      <4>1. RowKnown(x) /\ new \in Reached
        BY <2>1, <3>1, <3>3, AfterFacts DEF RowInv
      <4> QED  BY <1>2, <3>1, <3>2, <3>3, <4>1 DEF RowKnown
    <3> QED  BY <1>2, <3>1, <3>3 DEF RowInv
  <2> QED  BY <2>2, <2>3
<1> QED  BY <1>1, <1>4, <1>5

\* Persist-before-call: whether the update took effect or another task was
\* faster, the row is past the state it was read in.
LEMMA PersistRow ==
    ASSUME IndInv, NEW p \in Procs, proc[p].pc = "persist",
           CasApplied(proc[p].tx, proc[p].st, PendingOf(proc[p].st)),
           UNCHANGED <<source, told, crashes>>, UNCHANGED serviceVars
    PROVE  /\ Advances /\ \A x \in Transfers : RowInv(x)'
           /\ state' \in [Transfers -> TransferState \cup {"absent"}]
           /\ \A x \in Transfers : state[x] = "absent" => state'[x] = "absent"
           /\ proc[p].tx \notin misled => /\ proc[p].st \in {"init", "source_done"}
                                          /\ state'[proc[p].tx] \in After(Expected(proc[p].st))
<1>0. PICK t \in Transfers, s \in TransferState : t = proc[p].tx /\ s = proc[p].st
  BY TaskFacts
<1>1. t \notin misled => s \in {"init", "source_done"} /\ state[t] \in After(s) /\ RowKnown(t)
  BY <1>0, TaskFacts DEF TaskKnown
<1>2. t \notin misled => PendingOf(s) \in After(s) /\ s \in Reached /\ PendingOf(s) # "committed"
  BY <1>1 DEF PendingOf, After, Reached
<1>3. t \notin misled /\ state[t] = s /\ PendingOf(s) \in After("source_done") => Debited(t)
  BY <1>1 DEF RowKnown, PendingOf, After
<1>4. PICK new \in TransferState : new = PendingOf(s)
  BY DEF PendingOf, TransferState
<1>5. /\ Advances /\ \A x \in Transfers : RowInv(x)'
      /\ state' \in [Transfers -> TransferState \cup {"absent"}]
      /\ \A x \in Transfers : state[x] = "absent" => state'[x] = "absent"
      /\ state'[t] = IF state[t] = s THEN new ELSE state[t]
  BY <1>0, <1>2, <1>3, <1>4, CasRow
<1>6. t \notin misled => state'[t] \in After(Expected(s))
  BY <1>1, <1>4, <1>5 DEF After, Expected, PendingOf, Reached
<1> QED  BY <1>0, <1>1, <1>5, <1>6

\* Writing the pending state.
LEMMA StepPersistInv ==
    ASSUME IndInv, NEW p \in Procs, StepPersist(p), UNCHANGED serviceVars
    PROVE  IndInv'
<1>t. PICK t \in Transfers : t = proc[p].tx
  BY TaskFacts
<1>0. PICK s : t = proc[p].tx /\ s = proc[p].st
  BY <1>t
<1>1. /\ Advances /\ \A x \in Transfers : RowInv(x)'
      /\ state' \in [Transfers -> TransferState \cup {"absent"}]
      /\ \A x \in Transfers : state[x] = "absent" => state'[x] = "absent"
      /\ t \notin misled => s \in {"init", "source_done"} /\ state'[t] \in After(Expected(s))
  BY <1>0, PersistRow DEF StepPersist
<1>2. PICK c \in {"call", "reread"} : Becomes(p, c, t, s, proc[p].res)
  <2>1. PICK applied \in CasAnswers(t, s) :
           proc' = [proc EXCEPT ![p].pc = IF applied THEN "call" ELSE "reread"]
    BY <1>0 DEF StepPersist
  <2>2. Goto(p, "call") \/ Goto(p, "reread")
    BY <2>1 DEF Goto
  <2> QED  BY <1>0, <2>2, TaskEffects, TaskFacts DEF PC
<1>3. state'[t] # "absent"
  BY <1>0, <1>1, TaskFacts DEF TaskInv, Resting, StepPersist, Advances
<1>4. call'[p] = "none" /\ misled' = misled /\ UNCHANGED <<source, todo, queue, told, crashes>>
  BY NoCall, Quietly DEF StepPersist
<1>5. ASSUME t \notin misled'  PROVE TaskKnown(p)'
  <2>1. s \in {"init", "source_done"} /\ state'[t] \in After(Expected(s))
    BY <1>1, <1>4, <1>5
  <2>2. s \in Reached \ Terminal /\ Expected(s) \in After(s)
    BY <2>1 DEF Expected, PendingOf, After, Reached, Terminal
  <2>3. state'[t] \in After(s)
    BY <2>1, <2>2, AfterFacts
  <2> QED  BY <1>2, <1>4, <2>1, <2>2, <2>3 DEF TaskKnown, Becomes, InCall
<1>6. TaskInv(p)'
  BY <1>2, <1>3, <1>4, <1>5 DEF TaskInv, Becomes
<1> QED  BY <1>0, <1>1, <1>2, <1>4, <1>6, TaskStep

\* The result of a call is only written to a row that still waits for it, and
\* what it says is true of the services.
LEMMA HandleRow ==
    ASSUME IndInv, NEW p \in Procs, proc[p].pc = "handle",
           CasApplied(proc[p].tx, Expected(proc[p].st),
                      NewState(proc[p].st, source[proc[p].tx], proc[p].res)),
           UNCHANGED <<source, told, crashes>>, UNCHANGED serviceVars
    PROVE  /\ Advances /\ \A x \in Transfers : RowInv(x)'
           /\ state' \in [Transfers -> TransferState \cup {"absent"}]
           /\ \A x \in Transfers : state[x] = "absent" => state'[x] = "absent"
           /\ state'[proc[p].tx] # "absent"
           /\ NewState(proc[p].st, source[proc[p].tx], proc[p].res) \in TransferState
           /\ proc[p].tx \notin misled =>
                 /\ NewState(proc[p].st, source[proc[p].tx], proc[p].res) = "committed" => Credited(proc[p].tx)
                 /\ proc[p].st \notin Terminal
<1>a. PICK t \in Transfers, s \in TransferState, r \in OpResult :
         t = proc[p].tx /\ s = proc[p].st /\ r = proc[p].res
  BY TaskFacts
<1>b. PICK src : src = source[t]
  OBVIOUS
<1>0. PICK new \in TransferState, old \in TransferState : new = NewState(s, src, r) /\ old = Expected(s)
  BY DEF NewState, Expected, PendingOf, TransferState
<1>1. /\ state[t] # "absent"
      /\ t \notin misled =>
            /\ s \in Reached \ Terminal /\ state[t] \in After(old) /\ RowKnown(t)
            /\ Tells(t, OpOf(s), r)
            /\ r = "Success" /\ OpOf(s) = "deposit" => Posted(t)
  BY <1>a, <1>0, TaskFacts DEF TaskInv, TaskKnown, InCall, Resting
<1>2. ASSUME t \notin misled
      PROVE  /\ old \in Reached /\ new \in After(old)
             /\ new \in After("source_done") => Debited(t)
             /\ new = "committed" => Credited(t) /\ Posted(t)
  <2>0. old \in Reached
    BY <1>0, <1>1, <1>2, AfterFacts
  <2>1. CASE s \in {"init", "source_pending"}
    <3>1. old = "source_pending" /\ OpOf(s) = "withdraw"
      BY <1>0, <2>1 DEF Expected, PendingOf, OpOf
    <3>2. /\ new \in {"source_done", "failed", "source_pending"}
          /\ new = "source_done" => r = "Success"
      BY <1>0, <2>1 DEF NewState
    <3> QED  BY <1>1, <1>2, <2>0, <3>1, <3>2 DEF After, Reached, Tells
  <2>2. CASE s \in {"source_done", "target_pending"}
    <3>1. old = "target_pending" /\ OpOf(s) = "deposit"
      BY <1>0, <2>2 DEF Expected, PendingOf, OpOf
    <3>2. r # "Failed"
      BY <1>1, <1>2, <3>1 DEF Tells
    <3>3. /\ new \in {"committed", "target_pending"}
          /\ new = "committed" => r = "Success"
      BY <1>0, <2>2, <3>2 DEF NewState
    <3>4. new \in After(old) /\ (new = "committed" => Credited(t) /\ Posted(t))
      BY <1>1, <1>2, <3>1, <3>3 DEF After, Tells
    <3>5. Debited(t)
      BY <1>1, <1>2, <3>1, AfterFacts DEF RowKnown
    <3> QED  BY <2>0, <3>4, <3>5
  <2> QED  BY <1>1, <1>2, <2>1, <2>2 DEF Reached, Terminal
<1>3. CasApplied(t, old, new)
  BY <1>a, <1>b, <1>0
<1>4. /\ Advances /\ \A x \in Transfers : RowInv(x)'
      /\ state' \in [Transfers -> TransferState \cup {"absent"}]
      /\ \A x \in Transfers : state[x] = "absent" => state'[x] = "absent"
      /\ state'[t] = IF state[t] = old THEN new ELSE state[t]
  BY <1>2, <1>3, CasRow
<1>5. state'[t] # "absent"
  BY <1>1, <1>4 DEF Advances
<1> QED  BY <1>a, <1>b, <1>0, <1>1, <1>2, <1>4, <1>5

\* The write after a call, and the state the step hands back.
LEMMA StepHandleInv ==
    ASSUME IndInv, NEW p \in Procs, StepHandle(p), UNCHANGED serviceVars
    PROVE  IndInv'
<1>a. PICK t \in Transfers, s \in TransferState, r \in OpResult :
         t = proc[p].tx /\ s = proc[p].st /\ r = proc[p].res
  BY TaskFacts
<1>0. PICK new : new = NewState(s, source[t], r)
  OBVIOUS
<1>1. /\ proc[p].pc = "handle"
      /\ CasApplied(t, Expected(s), new)
      /\ IF new = s THEN Goto(p, "retry") ELSE Return(p, new)
      /\ UNCHANGED <<source, todo, queue, told, crashes>>
  BY <1>a, <1>0 DEF StepHandle
<1>2. /\ Advances /\ \A x \in Transfers : RowInv(x)'
      /\ state' \in [Transfers -> TransferState \cup {"absent"}]
      /\ \A x \in Transfers : state[x] = "absent" => state'[x] = "absent"
      /\ state'[t] # "absent" /\ new \in TransferState
      /\ t \notin misled => (new = "committed" => Credited(t)) /\ s \notin Terminal
  BY <1>a, <1>0, <1>1, HandleRow
<1>3. call'[p] = "none" /\ misled' = misled /\ (Credited(t) => Credited(t)')
  BY <1>1, NoCall, Quietly DEF Credited
<1>4. CASE new = s
  <2>1. Becomes(p, "retry", t, s, r)
    BY <1>a, <1>1, <1>4, TaskEffects, TaskFacts DEF PC
  <2>2. t \notin misled' => TaskKnown(p)'
    BY <1>2, <1>3, <2>1 DEF TaskKnown, Becomes, InCall
  <2>3. TaskInv(p)'
    BY <1>2, <1>3, <2>1, <2>2 DEF TaskInv, Becomes
  <2> QED  BY <1>a, <1>1, <1>2, <2>1, <2>3, TaskStep
<1>5. CASE new # s
  <2>1. Becomes(p, "return", t, new, "Pending")
    BY <1>a, <1>1, <1>2, <1>5, TaskEffects, TaskFacts
  <2>2. t \notin misled' => TaskKnown(p)'
    BY <1>2, <1>3, <2>1 DEF TaskKnown, Becomes, InCall
  <2>3. TaskInv(p)'
    BY <1>2, <1>3, <2>1, <2>2 DEF TaskInv, Becomes
  <2> QED  BY <1>a, <1>1, <1>2, <2>1, <2>3, TaskStep
<1> QED  BY <1>4, <1>5

\* A failed statement, applied or not.
LEMMA StepDbErrorInv ==
    ASSUME IndInv, NEW p \in Procs, StepDbError(p), UNCHANGED serviceVars
    PROVE  IndInv'
<1>0. PICK t \in Transfers : t = proc[p].tx
  BY TaskFacts
<1>1. /\ proc[p].pc \in {"get", "persist", "reread", "handle", "retry"}
      /\ Leave(p, "error")
      /\ UNCHANGED <<source, todo, queue, told, crashes>>
  BY DEF StepDbError
<1>2. state[t] # "absent" /\ call'[p] = "none"
  BY <1>0, <1>1, TaskFacts, NoCall DEF TaskInv, Resting
<1>3. Becomes(p, "error", t, "init", "Pending")
  BY <1>0, <1>1, TaskEffects, TaskFacts DEF PC
<1>4. ASSUME Advances, \A x \in Transfers : RowInv(x)',
             state' \in [Transfers -> TransferState \cup {"absent"}],
             \A x \in Transfers : state[x] = "absent" => state'[x] = "absent"
      PROVE  IndInv'
  <2>1. state'[t] # "absent"
    BY <1>2, <1>4 DEF Advances
  <2>2. TaskInv(p)'
    BY <1>2, <1>3, <2>1, LeftInv
  <2> QED  BY <1>0, <1>1, <1>3, <1>4, <2>2, TaskStep
<1>5. CASE UNCHANGED state
  BY <1>0, <1>1, <1>2, <1>5, LeaveInv
<1>6. CASE /\ proc[p].pc = "persist"
           /\ CasApplied(proc[p].tx, proc[p].st, PendingOf(proc[p].st))
  BY <1>1, <1>4, <1>6, PersistRow
<1>7. CASE /\ proc[p].pc = "handle"
           /\ CasApplied(proc[p].tx, Expected(proc[p].st),
                         NewState(proc[p].st, source[proc[p].tx], proc[p].res))
  BY <1>1, <1>4, <1>7, HandleRow
<1> QED  BY <1>5, <1>6, <1>7 DEF StepDbError

-----------------------------------------------------------------------------
(***************************************************************************)
(* HTTP handlers and workers.                                              *)
(***************************************************************************)

\* A handler moves, and with it possibly its own row, its answer and the queue.
LEMMA HandlerStep ==
    ASSUME IndInv, NEW t \in Transfers, NEW c, NEW s, NEW r,
           Becomes(t, c, t, s, r), c # "none",
           UNCHANGED <<todo, crashes>>, UNCHANGED serviceVars, Advances,
           \A x \in Transfers : RowInv(x)',
           \A x \in Transfers : x # t => state'[x] = state[x],
           state' \in [Transfers -> TransferState \cup {"absent"}],
           source' \in [Transfers -> ServiceId],
           told' \in [Transfers -> Terminal \cup {"none", "pending"}],
           \/ queue' = queue
           \/ queue' = Append(queue, t) /\ Len(queue) < QueueCapacity /\ state'[t] # "absent",
           TaskInv(t)'
    PROVE  IndInv'
<1>1. /\ UNCHANGED <<adapter, tb, tbTrading, avail, debits, credits, call, late, lost>>
      /\ ServiceTypes' /\ t \in Procs
  BY Quietly DEF Procs
<1>2. /\ queue' \in Seq(Transfers) /\ Len(queue') <= QueueCapacity
      /\ \A i \in 1..Len(queue') : state'[queue'[i]] # "absent"
  <2>1. /\ queue \in Seq(Transfers) /\ Len(queue) <= QueueCapacity
        /\ \A i \in 1..Len(queue) : state'[queue[i]] # "absent"
    BY RowsStay
  <2>2. CASE queue' = queue
    BY <2>1, <2>2
  <2>3. CASE queue' = Append(queue, t) /\ Len(queue) < QueueCapacity /\ state'[t] # "absent"
    BY <2>1, <2>3, TransferAssumption
  <2> QED  BY <2>2, <2>3
<1>3. CoordTypeOK'
  BY <1>2 DEF IndInv, TypeOK, CoordTypeOK, Becomes, Task
<1>4. WiringInv'
  <2>1. todo' \in [Workers -> SUBSET Transfers]
    BY DEF IndInv, TypeOK, CoordTypeOK
  <2>2. \A w \in Workers : \A x \in todo'[w] : state'[x] # "absent"
    BY RowsStay
  <2> QED  BY <1>1, <1>2, <2>1, <2>2, WiringKept
<1>5. LateInv'
  BY <1>1, LateFrame
<1>6. \A q \in Procs : (proc'[q] = proc[q] /\ call'[q] = call[q]) \/ TaskInv(q)'
  BY <1>1 DEF Becomes
<1> QED  BY <1>1, <1>3, <1>4, <1>5, <1>6, Keeps

\* The INSERT: no service has heard of the transfer yet.
LEMMA InsertRow ==
    ASSUME IndInv, NEW t \in Transfers, NEW from \in ServiceId, proc[t].pc = "none", Inserts(t, from),
           UNCHANGED serviceVars, UNCHANGED crashes,
           \A x \in Transfers : told'[x] = told[x] \/ told'[x] = "failed"
    PROVE  /\ Advances /\ \A x \in Transfers : RowInv(x)'
           /\ \A x \in Transfers : x # t => state'[x] = state[x]
           /\ state' \in [Transfers -> TransferState \cup {"absent"}]
           /\ source' \in [Transfers -> ServiceId]
           /\ state'[t] = "init"
<1>1. /\ state[t] = "absent" /\ RowInv(t)
      /\ UNCHANGED <<tb, tbTrading, debits, credits, misled, dropped>>
  BY Quietly DEF IndInv, WiringInv
<1>2. /\ state' \in [Transfers -> TransferState \cup {"absent"}]
      /\ source' \in [Transfers -> ServiceId]
      /\ \A x \in Transfers : state'[x] = IF x = t THEN "init" ELSE state[x]
      /\ \A x \in Transfers : x # t => source'[x] = source[x]
  BY DEF IndInv, TypeOK, CoordTypeOK, Inserts, TransferState
<1>3. \A x \in Transfers : x \notin misled => state[x] \in Reached \cup {"absent"}
  BY DEF IndInv, RowInv, RowKnown
<1>4. Advances
  BY <1>1, <1>2, <1>3, AfterFacts DEF Advances, Debited, Credited
<1>5. ASSUME NEW x \in Transfers  PROVE RowInv(x)'
  <2>1. RowInv(x)
    BY DEF IndInv
  <2>2. CASE x # t
    BY <1>1, <1>2, <2>1, <2>2, RowSame
  <2>3. CASE x = t
    <3>1. Untouched(x) /\ ~Credited(x)
      BY <1>1, <2>3 DEF RowInv, Untouched, Credited
    <3>2. ~Credited(x)'
      BY <1>1, <3>1 DEF Untouched, Credited
    <3>3. x \notin misled => told'[x] # "committed"
      BY <2>1, <3>1 DEF RowInv, RowKnown
    <3>4. state'[x] = "init" /\ "init" \in Reached /\ "init" \notin After("source_done")
      BY <1>2, <2>3 DEF Reached, After
    <3>5. tb'[x] # "voided"
      BY <1>1, <3>1 DEF Untouched
    <3>6. x \notin misled' => RowKnown(x)'
      BY <1>1, <3>2, <3>3, <3>4, <3>5 DEF RowKnown
    <3> QED  BY <3>4, <3>6 DEF RowInv
  <2> QED  BY <2>2, <2>3
<1> QED  BY <1>2, <1>4, <1>5

\* A request, accepted or rejected, or an INSERT that failed.
LEMMA CreateInv ==
    ASSUME IndInv, NEW t \in Transfers, NEW from \in ServiceId, NEW to, NEW amount,
           Create(t, from, to, amount) \/ CreateFails(t, from, to, amount), UNCHANGED serviceVars
    PROVE  IndInv'
<1>1. /\ proc[t].tx = t /\ CoordTypeOK /\ t \in Procs /\ proc[t].pc = "none" /\ call'[t] = "none"
  <2>1. t \in Procs /\ proc[t].pc = "none"
    BY DEF Create, CreateFails, Procs
  <2> QED  BY <2>1, NoCall DEF IndInv, TypeOK, WiringInv
<1>2. CASE Create(t, from, to, amount)
  <2>1. /\ Inserts(t, from) /\ UNCHANGED <<todo, queue, told, crashes>>
        /\ proc' = [proc EXCEPT ![t].pc = "get", ![t].st = "init"]
    BY <1>2 DEF Create
  <2>2. Becomes(t, "get", t, "init", proc[t].res)
    BY <1>1, <2>1 DEF CoordTypeOK, Becomes, Task, PC, TransferState
  <2>3. /\ Advances /\ \A x \in Transfers : RowInv(x)'
        /\ \A x \in Transfers : x # t => state'[x] = state[x]
        /\ state' \in [Transfers -> TransferState \cup {"absent"}]
        /\ source' \in [Transfers -> ServiceId]
        /\ state'[t] = "init"
    BY <1>1, <2>1, InsertRow
  <2>4. TaskInv(t)'
    BY <1>1, <2>2, <2>3, LeftInv
  <2>5. told' \in [Transfers -> Terminal \cup {"none", "pending"}]
    BY <1>1, <2>1 DEF CoordTypeOK
  <2> QED  BY <2>1, <2>2, <2>3, <2>4, <2>5, HandlerStep
<1>3. CASE CreateFails(t, from, to, amount)
  <2>1. Becomes(t, "done", t, "init", "Pending")
    BY <1>1, <1>3, TaskEffects DEF CreateFails, PC
  <2>2. TaskInv(t)'
    BY <1>1, <2>1, LeftInv DEF Resting
  <2>3. /\ told' \in [Transfers -> Terminal \cup {"none", "pending"}]
        /\ \A x \in Transfers : told'[x] = told[x] \/ told'[x] = "failed"
        /\ queue' = queue /\ UNCHANGED <<todo, crashes>>
        /\ UNCHANGED <<tb, tbTrading, debits, credits, misled, dropped>>
    BY <1>1, <1>3, Quietly DEF CreateFails, CoordTypeOK, Terminal
  <2>4. CASE UNCHANGED <<state, source>>
    <3>1. Advances
      BY <2>3, <2>4, AdvancesQuiet
    <3>2. \A x \in Transfers : RowInv(x)'
      BY <2>3, <2>4, RowSame DEF IndInv
    <3>3. /\ source' \in [Transfers -> ServiceId]
          /\ state' \in [Transfers -> TransferState \cup {"absent"}]
      BY <1>1, <2>4 DEF CoordTypeOK
    <3> QED  BY <2>1, <2>2, <2>3, <2>4, <3>1, <3>2, <3>3, HandlerStep
  <2>5. CASE Inserts(t, from)
    <3>1. /\ Advances /\ \A x \in Transfers : RowInv(x)'
          /\ \A x \in Transfers : x # t => state'[x] = state[x]
          /\ state' \in [Transfers -> TransferState \cup {"absent"}]
          /\ source' \in [Transfers -> ServiceId]
      BY <1>1, <2>3, <2>5, InsertRow
    <3> QED  BY <2>1, <2>2, <2>3, <3>1, HandlerStep
  <2> QED  BY <1>3, <2>4, <2>5 DEF CreateFails
<1> QED  BY <1>2, <1>3

\* The HTTP answer: what is told as a success is one.
LEMMA AnswerInv ==
    ASSUME IndInv, NEW t \in Transfers, UNCHANGED serviceVars, HandlerAnswers(t) \/ HandlerErrs(t)
    PROVE  IndInv'
<1>1. /\ CoordTypeOK /\ t \in Procs /\ proc[t].tx = t /\ TaskInv(t) /\ RowInv(t)
      /\ proc[t].st \in TransferState /\ proc[t].pc \in {"return", "error"}
  BY TaskFacts DEF IndInv, WiringInv, Procs, HandlerAnswers, HandlerErrs
<1>2. /\ state[t] \in TransferState /\ state[t] # "absent" /\ call'[t] = "none"
      /\ t \notin misled => RowKnown(t) /\ TaskKnown(t)
  BY <1>1, NoCall, TaskFacts DEF TaskInv, Resting, CoordTypeOK
<1>3. PICK s \in TransferState : Answer(t, s) /\ (t \notin misled /\ s = "committed" => Credited(t))
  <2>1. CASE HandlerAnswers(t)
    BY <1>1, <1>2, <2>1 DEF HandlerAnswers, TaskKnown
  <2>2. CASE HandlerErrs(t)
    BY <1>1, <1>2, <2>2 DEF HandlerErrs, RowKnown, TransferState
  <2> QED  BY <2>1, <2>2
<1>4. Becomes(t, "done", t, "init", "Pending")
  BY <1>1, <1>3, TaskEffects DEF Answer, PC
<1>5. TaskInv(t)'
  BY <1>1, <1>2, <1>4, LeftInv DEF Resting
<1>6. /\ UNCHANGED <<todo, crashes, state, source>>
      /\ UNCHANGED <<tb, tbTrading, debits, credits, misled, dropped>>
      /\ told' = [told EXCEPT ![t] = IF s \in Terminal THEN s ELSE "pending"]
      /\ \/ queue' = queue
         \/ queue' = Append(queue, t) /\ Len(queue) < QueueCapacity
  BY <1>3, Quietly DEF Answer, Status
<1>7. /\ told' \in [Transfers -> Terminal \cup {"none", "pending"}]
      /\ \A x \in Transfers : told'[x] = told[x] \/ (x = t /\ told'[x] \in {s, "pending"})
  BY <1>1, <1>6 DEF CoordTypeOK
<1>8. \A x \in Transfers : RowInv(x)'
  BY <1>3, <1>6, <1>7, RowSame DEF IndInv
<1>9. Advances
  BY <1>6, AdvancesQuiet
<1>10. /\ source' \in [Transfers -> ServiceId] /\ state'[t] # "absent"
       /\ state' \in [Transfers -> TransferState \cup {"absent"}]
  BY <1>1, <1>2, <1>6 DEF CoordTypeOK
<1> QED  BY <1>4, <1>5, <1>6, <1>7, <1>8, <1>9, <1>10, HandlerStep

\* A worker moves, and with it possibly its scan result and the queue.
LEMMA WorkerStep ==
    ASSUME IndInv, NEW w \in Workers, NEW c, NEW t, NEW s, NEW r,
           Becomes(w, c, t, s, r), c # "none",
           UNCHANGED <<state, source, told, crashes>>, UNCHANGED serviceVars,
           todo' \in [Workers -> SUBSET Transfers],
           \A v \in Workers : \A x \in todo'[v] : state[x] # "absent",
           queue' \in {queue, Tail(queue)}, queue' = queue \/ queue # <<>>,
           TaskInv(w)'
    PROVE  IndInv'
<1>1. /\ UNCHANGED <<adapter, tb, tbTrading, avail, debits, credits, call, late, lost>>
      /\ UNCHANGED <<misled, dropped>> /\ ServiceTypes' /\ w \in Procs /\ w \notin Transfers
  BY Quietly, TransferAssumption DEF Procs
<1>2. Advances
  BY <1>1, AdvancesQuiet
<1>3. \A x \in Transfers : RowInv(x)'
  BY <1>1, RowSame DEF IndInv
<1>4. /\ queue' \in Seq(Transfers) /\ Len(queue') <= QueueCapacity
      /\ \A i \in 1..Len(queue') : state'[queue'[i]] # "absent"
  <2>1. /\ queue \in Seq(Transfers) /\ Len(queue) <= QueueCapacity
        /\ \A i \in 1..Len(queue) : state'[queue[i]] # "absent"
    BY <1>2, RowsStay
  <2>2. CASE queue' = queue
    BY <2>1, <2>2
  <2>3. CASE queue # <<>> /\ queue' = Tail(queue)
    BY <2>1, <2>3, TransferAssumption
  <2> QED  BY <2>2, <2>3
<1>5. CoordTypeOK'
  BY <1>4 DEF IndInv, TypeOK, CoordTypeOK, Becomes, Task
<1>6. WiringInv'
  BY <1>1, <1>2, <1>4, WiringKept
<1>7. LateInv'
  BY <1>1, <1>2, LateFrame
<1>8. \A q \in Procs : (proc'[q] = proc[q] /\ call'[q] = call[q]) \/ TaskInv(q)'
  BY <1>1 DEF Becomes
<1> QED  BY <1>1, <1>2, <1>3, <1>5, <1>6, <1>7, <1>8, Keeps

\* Queue, scan and the records of a scan.
LEMMA WorkerInv ==
    ASSUME IndInv, NEW w \in Workers, UNCHANGED serviceVars,
           \/ WorkerPops(w)
           \/ \E stale \in SUBSET Transfers : WorkerScans(w, stale)
           \/ \E t \in Transfers : WorkerTakes(w, t)
    PROVE  IndInv'
<1>0. /\ CoordTypeOK /\ w \in Procs /\ todo \in [Workers -> SUBSET Transfers]
      /\ \A v \in Workers : \A x \in todo[v] : state[x] # "absent"
      /\ queue \in Seq(Transfers)
      /\ \A i \in 1..Len(queue) : state[queue[i]] # "absent"
      /\ call'[w] = "none"
  <2>1. w \in Procs /\ proc[w].pc \notin {"await", "finalize"}
    BY DEF Procs, WorkerPops, WorkerScans, WorkerTakes
  <2> QED  BY <2>1, NoCall DEF IndInv, WiringInv, TypeOK, CoordTypeOK
<1>1. CASE WorkerPops(w)
  <2>1. Head(queue) \in Transfers /\ state[Head(queue)] # "absent"
    BY <1>0, <1>1 DEF WorkerPops
  <2>2. PICK t \in Transfers : t = Head(queue)
    BY <2>1
  <2>3. Becomes(w, "get", t, "init", proc[w].res)
    BY <1>0, <1>1, <2>2, TaskEffects DEF WorkerPops
  <2>4. /\ UNCHANGED <<state, source, told, crashes>>
        /\ todo' = todo /\ queue' = Tail(queue) /\ queue # <<>>
    BY <1>1 DEF WorkerPops
  <2>5. TaskInv(w)'
    BY <1>0, <2>1, <2>2, <2>3, <2>4, LeftInv
  <2> QED  BY <1>0, <2>3, <2>4, <2>5, WorkerStep
<1>2. ASSUME NEW stale \in SUBSET Transfers, WorkerScans(w, stale)  PROVE IndInv'
  <2>1. Becomes(w, "idle", proc[w].tx, "init", "Pending")
    BY <1>0, <1>2, TaskEffects DEF WorkerScans, PC
  <2>2. TaskInv(w)'
    BY <1>0, <2>1, LeftInv DEF Resting
  <2>3. /\ \A v \in Workers : \A x \in todo'[v] : state[x] # "absent"
        /\ todo' \in [Workers -> SUBSET Transfers]
    BY <1>0, <1>2 DEF WorkerScans, Open
  <2> QED  BY <1>2, <2>1, <2>2, <2>3, WorkerStep DEF WorkerScans
<1>3. ASSUME NEW t \in Transfers, WorkerTakes(w, t)  PROVE IndInv'
  <2>1. Becomes(w, "get", t, "init", proc[w].res)
    BY <1>0, <1>3, TaskEffects DEF WorkerTakes
  <2>2. TaskInv(w)'
    BY <1>0, <1>3, <2>1, LeftInv DEF WorkerTakes
  <2>3. /\ todo' \in [Workers -> SUBSET Transfers]
        /\ \A v \in Workers : \A x \in todo'[v] : state[x] # "absent"
    BY <1>0, <1>3 DEF WorkerTakes
  <2> QED  BY <1>3, <2>1, <2>2, <2>3, WorkerStep DEF WorkerTakes
<1> QED  BY <1>1, <1>2, <1>3

-----------------------------------------------------------------------------
(***************************************************************************)
(* What the services execute.                                              *)
(***************************************************************************)
Ops == {"withdraw", "deposit", "commit", "rollback"}

\* the services, after they executed operation o of t
Done(t, o, answer) ==
    /\ tb' \in [TbIds -> {"free", "pending", "posted", "voided", "deposited", "resolution"}]
    /\ tbTrading' \in [Transfers -> {"free", "pending", "deposited"}]
    /\ avail' \in Nat
    /\ debits' \in [Transfers -> 0..MaxApplied]
    /\ credits' \in [Transfers -> 0..MaxApplied]
    /\ Advances
    /\ \A x \in Transfers : RowInv(x)'
    /\ t \notin misled => Tells(t, o, answer)'
    /\ t \notin misled /\ o = "commit" => Posted(t)'

\* create_transfers changes the transfer it names, and for a commit or a
\* rollback the id the resolution takes.
LEMMA TbEffect ==
    ASSUME tb \in [TbIds -> {"free", "pending", "posted", "voided", "deposited", "resolution"}],
           NEW t \in Transfers, NEW o \in Ops, tb' = TbAfter(t, o)
    PROVE  /\ tb' \in [TbIds -> {"free", "pending", "posted", "voided", "deposited", "resolution"}]
           /\ \A i \in TbIds : i # t => tb'[i] = tb[i] \/ (tb[i] = "free" /\ tb'[i] = "resolution")
           /\ \/ tb' = tb /\ (o = "commit" => ~(tb[PostId(t)] = "free" /\ tb[t] = "pending"))
              \/ o = "withdraw" /\ tb[t] = "free" /\ tb'[t] = "pending"
              \/ o = "deposit" /\ tb[t] = "free" /\ tb'[t] = "deposited"
              \/ o = "commit" /\ tb[t] = "pending" /\ tb'[t] = "posted"
              \/ o = "rollback" /\ tb[t] = "pending" /\ tb'[t] = "voided"
<1>0. PICK i \in TbIds, j \in TbIds : i = PostId(t) /\ i # t /\ j = VoidId(t) /\ j # t /\ t \in TbIds
  BY IdFacts
<1>1. CASE o = "withdraw"
  BY <1>0, <1>1 DEF TbAfter, TbCreates
<1>2. CASE o = "deposit"
  BY <1>0, <1>2 DEF TbAfter, TbCreates
<1>3. CASE o = "commit"
  <2>1. tb' = IF tb[i] = "free" /\ tb[t] = "pending"
                THEN [tb EXCEPT ![t] = "posted", ![i] = "resolution"] ELSE tb
    BY <1>0, <1>3 DEF TbAfter, TbResolves
  <2> QED  BY <1>0, <1>3, <2>1
<1>4. CASE o = "rollback"
  <2>1. tb' = IF tb[j] = "free" /\ tb[t] = "pending"
                THEN [tb EXCEPT ![t] = "voided", ![j] = "resolution"] ELSE tb
    BY <1>0, <1>4 DEF TbAfter, TbResolves
  <2> QED  BY <1>0, <1>4, <2>1
<1> QED  BY <1>1, <1>2, <1>3, <1>4 DEF Ops

\* What is known of an operation of t when it is executed.
Sensible(t, o) ==
    /\ state[t] # "absent"
    /\ t \notin misled =>
          /\ state[t] \in Reached /\ o # "rollback"
          /\ o \in {"deposit", "commit"} => Debited(t)
    /\ UNCHANGED <<state, source, told, crashes, misled, dropped>>

\* An operation of t touches the services' record of t, and of another
\* transfer at most an id that is still free.
LEMMA OthersStay ==
    ASSUME IndInv, NEW t \in Transfers, NEW o, Sensible(t, o),
           \A i \in TbIds : i # t => tb'[i] = tb[i] \/ (tb[i] = "free" /\ tb'[i] = "resolution"),
           tb[t] # "free" => tb'[t] # "free",
           \A x \in Transfers : x # t => /\ tbTrading'[x] = tbTrading[x]
                                         /\ debits'[x] = debits[x] /\ credits'[x] = credits[x],
           t \notin misled => /\ Debited(t) => Debited(t)'
                              /\ Credited(t) => Credited(t)'
                              /\ tb[t] = "posted" => tb'[t] = "posted"
                              /\ tb[t] = "pending" => tb'[t] \in {"pending", "posted"}
                              /\ Credited(t)' => Debited(t)'
                              /\ tb'[t] # "voided"
    PROVE  Advances /\ \A x \in Transfers : RowInv(x)'
<1>1. /\ UNCHANGED <<state, source, told, misled, dropped>>
      /\ \A x \in Transfers : RowInv(x) /\ (x \notin misled => state[x] \in Reached \cup {"absent"})
      /\ \A x \in Transfers : x \in TbIds /\ PostId(x) \in TbIds
  BY IdFacts DEF Sensible, IndInv, RowInv, RowKnown
<1>2. \A i \in TbIds : tb[i] # "free" => tb'[i] # "free"
  OBVIOUS
<1>3. ASSUME NEW x \in Transfers, x # t
      PROVE  /\ Debited(x)' <=> Debited(x)
             /\ Credited(x)' <=> Credited(x)
             /\ tb[x] # "free" => tb'[x] = tb[x]
             /\ tb[x] = "free" => tb'[x] \in {"free", "resolution"}
             /\ Untouched(x) => Untouched(x)'
             /\ Posted(x) => Posted(x)'
  <2>1. /\ tb'[x] = tb[x] \/ (tb[x] = "free" /\ tb'[x] = "resolution")
        /\ tb[PostId(x)] # "free" => tb'[PostId(x)] # "free"
    BY <1>1, <1>2, <1>3
  <2> QED  BY <1>1, <1>3, <2>1 DEF Debited, Credited, Untouched, Posted
<1>4. Advances
  <2>1. ASSUME NEW x \in Transfers, x \notin misled
        PROVE  /\ Debited(x) => Debited(x)'
               /\ Credited(x) => Credited(x)'
               /\ tb[x] = "posted" => tb'[x] = "posted"
               /\ tb[x] = "pending" => tb'[x] \in {"pending", "posted"}
    BY <1>3, <2>1
  <2> QED  BY <1>1, <1>2, <2>1, AfterFacts DEF Advances
<1>5. ASSUME NEW x \in Transfers, x # t  PROVE RowInv(x)'
  BY <1>1, <1>3, <1>5 DEF RowInv, RowKnown
<1>6. RowInv(t)'
  <2>1. state'[t] # "absent"
    BY <1>1 DEF Sensible
  <2>2. ASSUME t \notin misled  PROVE RowKnown(t)'
    <3>1. RowKnown(t) /\ state[t] \in Reached
      BY <1>1, <2>2 DEF RowInv, Sensible
    <3>2. Posted(t) => Posted(t)'
      BY <1>1, <1>4, <2>2, <3>1, KnownStays
    <3> QED  BY <1>1, <2>2, <3>1, <3>2 DEF RowKnown
  <2> QED  BY <1>1, <2>1, <2>2 DEF RowInv
<1> QED  BY <1>4, <1>5, <1>6

\* An operation of Funding.
LEMMA FundingDone ==
    ASSUME IndInv, NEW t \in Transfers, NEW o \in Ops, Sensible(t, o), NEW answer,
           FundingExecutes(t, o, answer)
    PROVE  Done(t, o, answer)
<1>1. /\ tb' = TbAfter(t, o) /\ answer = (IF tb' = tb THEN "Pending" ELSE "Success")
      /\ UNCHANGED <<tbTrading, avail, debits, credits, state, source, told, misled, dropped>>
      /\ ServiceOf(t, o) = "funding" /\ source[t] \in ServiceId
      /\ ServiceTypes
      /\ t \notin misled => /\ RowKnown(t) /\ o # "rollback"
                            /\ o \in {"deposit", "commit"} => Debited(t)
  BY DEF FundingExecutes, Sensible, IndInv, TypeOK, CoordTypeOK, ServiceTypes, RowInv
<1>2. /\ tb' \in [TbIds -> {"free", "pending", "posted", "voided", "deposited", "resolution"}]
      /\ \A i \in TbIds : i # t => tb'[i] = tb[i] \/ (tb[i] = "free" /\ tb'[i] = "resolution")
      /\ \/ tb' = tb /\ (o = "commit" => ~(tb[PostId(t)] = "free" /\ tb[t] = "pending"))
         \/ o = "withdraw" /\ tb[t] = "free" /\ tb'[t] = "pending"
         \/ o = "deposit" /\ tb[t] = "free" /\ tb'[t] = "deposited"
         \/ o = "commit" /\ tb[t] = "pending" /\ tb'[t] = "posted"
         \/ o = "rollback" /\ tb[t] = "pending" /\ tb'[t] = "voided"
  BY <1>1, TbEffect DEF ServiceTypes
<1>3. /\ o = "withdraw" => source[t] = "funding"
      /\ o = "deposit" => source[t] = "trading"
      /\ o = "commit" => source[t] = "funding"
  BY <1>1 DEF ServiceOf, Target, ServiceId
<1>4. ASSUME t \notin misled
      PROVE  /\ Debited(t) => Debited(t)'
             /\ Credited(t) => Credited(t)'
             /\ tb[t] = "posted" => tb'[t] = "posted"
             /\ tb[t] = "pending" => tb'[t] \in {"pending", "posted"}
             /\ Credited(t)' => Debited(t)'
             /\ tb'[t] # "voided"
  <2>1. RowKnown(t) /\ o # "rollback" /\ (o \in {"deposit", "commit"} => Debited(t))
    BY <1>1, <1>4
  <2>2. /\ Debited(t) => Debited(t)'
        /\ Credited(t) => Credited(t)'
        /\ tb[t] = "posted" => tb'[t] = "posted"
        /\ tb[t] = "pending" => tb'[t] \in {"pending", "posted"}
    BY <1>1, <1>2, <1>3, <2>1 DEF Debited, Credited
  <2>3. Credited(t)' => Debited(t)
    BY <1>1, <1>2, <1>3, <2>1 DEF Credited, RowKnown
  <2>4. tb'[t] # "voided"
    BY <1>2, <2>1 DEF RowKnown
  <2> QED  BY <2>2, <2>3, <2>4
<1>5. Advances /\ \A x \in Transfers : RowInv(x)'
  <2>1. tb[t] # "free" => tb'[t] # "free"
    BY <1>2
  <2> QED  BY <1>1, <1>2, <1>4, <2>1, OthersStay
<1>6. ASSUME t \notin misled  PROVE Tells(t, o, answer)'
  <2>1. answer = "Success" => tb' # tb
    BY <1>1
  <2>2. answer = "Success" /\ o = "withdraw" => Debited(t)'
    BY <1>1, <1>2, <1>3, <2>1 DEF Debited
  <2>3. answer = "Success" /\ o = "deposit" => Credited(t)'
    BY <1>1, <1>2, <1>3, <2>1 DEF Credited
  <2>4. answer # "Failed"
    BY <1>1
  <2> QED  BY <2>2, <2>3, <2>4 DEF Tells
<1>7. ASSUME t \notin misled, o = "commit"  PROVE Posted(t)'
  <2>1. tb[t] \in {"pending", "posted"} /\ source[t] = "funding"
    BY <1>1, <1>3, <1>7 DEF Debited
  <2>2. CASE tb'[t] = "posted"
    BY <2>2 DEF Posted
  <2>3. CASE tb' = tb /\ tb[t] = "pending" /\ tb[PostId(t)] # "free"
    BY <2>3 DEF Posted
  <2> QED  BY <1>2, <1>7, <2>1, <2>2, <2>3
<1> QED  BY <1>1, <1>2, <1>5, <1>6, <1>7 DEF Done, ServiceTypes

\* An operation of Trading, by UBSCore or by TigerBeetle.
LEMMA TradingDone ==
    ASSUME IndInv, NEW t \in Transfers, NEW o \in Ops, Sensible(t, o), NEW answer,
           TradingExecutes(t, o, answer) \/ TbTradingExecutes(t, o, answer)
    PROVE  Done(t, o, answer)
<1>1. /\ UNCHANGED <<tb, state, source, told, misled, dropped>>
      /\ ServiceOf(t, o) = "trading" /\ source[t] \in ServiceId
      /\ ServiceTypes
      /\ t \notin misled => /\ RowKnown(t) /\ o # "rollback"
                            /\ o \in {"deposit", "commit"} => Debited(t)
  BY DEF TradingExecutes, TbTradingExecutes, Sensible, IndInv, TypeOK, CoordTypeOK, ServiceTypes, RowInv
<1>2. /\ o = "withdraw" => source[t] = "trading"
      /\ o = "deposit" => source[t] = "funding"
      /\ o = "commit" => source[t] = "trading"
  BY <1>1 DEF ServiceOf, Target, ServiceId
<1>3. /\ \A n \in 0..MaxApplied : Counted(n) \in 0..MaxApplied /\ Counted(n) > 0
      /\ MaxApplied \in Nat
  BY ServicesAssumption DEF Counted
<1>4. /\ avail' \in Nat
      /\ debits' \in [Transfers -> 0..MaxApplied] /\ credits' \in [Transfers -> 0..MaxApplied]
      /\ tbTrading' \in [Transfers -> {"free", "pending", "deposited"}]
      /\ \A x \in Transfers : x # t => debits'[x] = debits[x] /\ credits'[x] = credits[x] /\ tbTrading'[x] = tbTrading[x]
      /\ debits[t] > 0 => debits'[t] > 0
      /\ credits[t] > 0 => credits'[t] > 0
      /\ tbTrading[t] # "free" => tbTrading'[t] = tbTrading[t]
      /\ credits'[t] > 0 \/ tbTrading'[t] = "deposited" =>
            o = "deposit" \/ credits[t] > 0 \/ tbTrading[t] = "deposited"
      /\ answer = "Success" /\ o = "withdraw" => debits'[t] > 0 \/ tbTrading'[t] = "pending"
      /\ answer = "Success" /\ o = "deposit" => credits'[t] > 0 \/ tbTrading'[t] = "deposited"
      /\ answer = "Failed" => o \in {"withdraw", "rollback"}
  <2>1. CASE TradingExecutes(t, o, answer)
    <3>1. CASE o = "withdraw"
      BY <1>1, <1>3, <2>1, <3>1 DEF TradingExecutes, ServiceTypes
    <3>2. CASE o = "deposit"
      BY <1>1, <1>3, <2>1, <3>2 DEF TradingExecutes, ServiceTypes
    <3>3. CASE o \in {"commit", "rollback"}
      BY <1>1, <1>3, <2>1, <3>3 DEF TradingExecutes, ServiceTypes
    <3> QED  BY <3>1, <3>2, <3>3 DEF Ops
  <2>2. CASE TbTradingExecutes(t, o, answer)
    <3>1. CASE tbTrading[t] = "free" /\ o \in {"withdraw", "deposit"}
      BY <1>1, <2>2, <3>1 DEF TbTradingExecutes, ServiceTypes
    <3>2. CASE ~(tbTrading[t] = "free" /\ o \in {"withdraw", "deposit"})
      BY <1>1, <2>2, <3>2 DEF TbTradingExecutes, ServiceTypes
    <3> QED  BY <3>1, <3>2
  <2> QED  BY <2>1, <2>2
<1>5. ASSUME t \notin misled
      PROVE  /\ Debited(t) => Debited(t)'
             /\ Credited(t) => Credited(t)'
             /\ Credited(t)' => Debited(t)'
             /\ tb'[t] # "voided"
  <2>1. RowKnown(t) /\ (o = "deposit" => Debited(t))
    BY <1>1, <1>5
  <2>2. /\ Debited(t) => Debited(t)'
        /\ Credited(t) => Credited(t)'
    BY <1>1, <1>4 DEF Debited, Credited
  <2>3. Credited(t)' => Debited(t)
    BY <1>1, <1>2, <1>4, <2>1 DEF Credited, RowKnown
  <2> QED  BY <1>1, <2>1, <2>2, <2>3 DEF RowKnown
<1>6. Advances /\ \A x \in Transfers : RowInv(x)'
  BY <1>1, <1>4, <1>5, OthersStay
<1>7. t \notin misled => Tells(t, o, answer)'
  BY <1>1, <1>2, <1>4 DEF Tells, Debited, Credited
<1>8. o = "commit" => Posted(t)'
  BY <1>1, <1>2 DEF Posted
<1> QED  BY <1>1, <1>4, <1>6, <1>7, <1>8 DEF Done, ServiceTypes

\* Whatever adapter carries it.
LEMMA ExecutesDone ==
    ASSUME IndInv, NEW t \in Transfers, NEW o \in Ops, Sensible(t, o), NEW a, NEW answer,
           Executes(t, o, a, answer)
    PROVE  Done(t, o, answer)
  BY FundingDone, TradingDone DEF Executes

-----------------------------------------------------------------------------
(***************************************************************************)
(* Calls, answers and crashes.                                             *)
(***************************************************************************)

\* A call leaves with an operation that its row has come to, and with an
\* adapter.
LEMMA AwaitedFacts ==
    ASSUME IndInv, NEW p \in Procs, proc[p].pc \in {"call", "await", "commit", "finalize"}
    PROVE  /\ proc[p].tx \in Transfers /\ state[proc[p].tx] # "absent"
           /\ Awaited(p) \in Ops /\ AdapterOf(p) \in Adapters
           /\ proc[p].tx \notin misled =>
                 /\ state[proc[p].tx] \in Reached /\ Awaited(p) # "rollback"
                 /\ Awaited(p) \in {"deposit", "commit"} => Debited(proc[p].tx)
<1>0. PICK t \in Transfers, s \in TransferState : t = proc[p].tx /\ s = proc[p].st
  BY TaskFacts
<1>1. state[t] # "absent" /\ Awaited(p) \in Ops
  BY <1>0, TaskFacts DEF TaskInv, Resting, Awaited, OpOf, Ops
<1>2. ASSUME t \notin misled
      PROVE  /\ state[t] \in Reached /\ Awaited(p) # "rollback"
             /\ Awaited(p) \in {"deposit", "commit"} => Debited(t)
  <2>1. /\ state[t] \in Reached /\ s \in Reached \ Terminal /\ state[t] \in After(Expected(s))
        /\ proc[p].pc = "finalize" => OpOf(s) = "deposit"
        /\ RowKnown(t)
    BY <1>0, <1>1, <1>2, TaskFacts DEF TaskKnown, InCall
  <2>2. OpOf(s) \in {"withdraw", "deposit"}
    BY <2>1 DEF OpOf, Reached, Terminal
  <2>3. Awaited(p) # "rollback" /\ (Awaited(p) \in {"deposit", "commit"} => OpOf(s) = "deposit")
    BY <1>0, <2>1, <2>2 DEF Awaited
  <2>4. OpOf(s) = "deposit" => Debited(t)
    <3>1. OpOf(s) = "deposit" => Expected(s) = "target_pending"
      BY <2>1 DEF OpOf, Expected, PendingOf, Reached, Terminal
    <3> QED  BY <2>1, <3>1, AfterFacts DEF RowKnown
  <2> QED  BY <2>1, <2>3, <2>4
<1>3. AdapterOf(p) \in Adapters
  BY TransferAssumption DEF AdapterOf, IndInv, TypeOK
<1> QED  BY <1>0, <1>1, <1>2, <1>3

\* A task p moves with its call; neither rows nor services change.
LEMMA CallStep ==
    ASSUME IndInv, NEW p \in Procs, NEW c, NEW s, NEW r, Becomes(p, c, proc[p].tx, s, r), c # "none",
           UNCHANGED <<state, source, todo, queue, told, crashes, adapter, tb, tbTrading, avail, debits, credits>>,
           call' \in [Procs -> OpResult \cup {"none", "sent"}],
           \A q \in Procs : q # p => call'[q] = call[q],
           late' \subseteq Transfers \X {"withdraw", "deposit", "commit", "rollback"} \X Adapters,
           lost' \in 0..MaxLost, foreign' \in 0..MaxForeign,
           misled \subseteq misled', misled' \subseteq Transfers,
           dropped \subseteq dropped', dropped' \subseteq Transfers,
           Advances => LateInv', TaskInv(p)'
    PROVE  IndInv'
<1>1. Advances
  BY AdvancesQuiet
<1>2. \A x \in Transfers : RowInv(x)'
  BY RowSame DEF IndInv
<1>3. CoordTypeOK' /\ ServiceTypes'
  BY DEF IndInv, TypeOK, CoordTypeOK, ServiceTypes, Becomes, Task
<1>4. WiringInv'
  <2>1. p \in Transfers => proc[p].tx = p
    BY DEF IndInv, WiringInv
  <2>2. todo' \in [Workers -> SUBSET Transfers]
    BY DEF IndInv, TypeOK, CoordTypeOK
  <2>3. /\ \A w \in Workers : \A x \in todo'[w] : state'[x] # "absent"
        /\ \A i \in 1..Len(queue') : state'[queue'[i]] # "absent"
    BY <1>1, RowsStay
  <2>4. PICK t : t = proc[p].tx
    OBVIOUS
  <2> QED  BY <1>1, <2>1, <2>2, <2>3, <2>4, WiringKept
<1>5. \A q \in Procs : (proc'[q] = proc[q] /\ call'[q] = call[q]) \/ TaskInv(q)'
  BY DEF Becomes
<1> QED  BY <1>1, <1>2, <1>3, <1>4, <1>5, Keeps

\* A call leaves.
LEMMA CallSentInv ==
    ASSUME IndInv, NEW p \in Procs, CallSent(p)
    PROVE  IndInv'
<1>1. /\ CoordTypeOK /\ TaskInv(p)
      /\ call' = [call EXCEPT ![p] = "sent"] /\ call \in [Procs -> OpResult \cup {"none", "sent"}]
      /\ UNCHANGED <<state, source, todo, queue, told, crashes, adapter, tb, tbTrading, avail, debits, credits>>
      /\ UNCHANGED <<late, lost, foreign, misled, dropped>>
      /\ late \subseteq Transfers \X {"withdraw", "deposit", "commit", "rollback"} \X Adapters
      /\ lost \in 0..MaxLost /\ foreign \in 0..MaxForeign
      /\ misled \subseteq Transfers /\ dropped \subseteq Transfers
  BY TaskFacts DEF CallSent, IndInv, TypeOK, historyVars
<1>2. PICK c \in {"await", "finalize"} :
         /\ Becomes(p, c, proc[p].tx, proc[p].st, proc[p].res)
         /\ IF c = "await" THEN proc[p].pc = "call" ELSE proc[p].pc = "commit"
  BY <1>1, TaskEffects DEF CallSent, PC
<1>3. /\ call' \in [Procs -> OpResult \cup {"none", "sent"}]
      /\ call'[p] = "sent" /\ "sent" \notin OpResult
      /\ \A q \in Procs : q # p => call'[q] = call[q]
  BY <1>1 DEF OpResult
<1>4. TaskInv(p)'
  <2>0. PICK t, s, r : t = proc[p].tx /\ s = proc[p].st /\ r = proc[p].res
    OBVIOUS
  <2>1. Tells(t, OpOf(s), r) => Tells(t, OpOf(s), r)'
    BY <1>1 DEF Tells, Debited, Credited
  <2>2. ASSUME t \notin misled'  PROVE TaskKnown(p)'
    <3>1. TaskKnown(p)
      BY <1>1, <2>0, <2>2 DEF TaskInv
    <3> QED  BY <1>1, <1>2, <1>3, <2>0, <2>1, <3>1 DEF TaskKnown, Becomes, InCall
  <2>3. state[t] # "absent"
    BY <1>1, <1>2, <2>0 DEF TaskInv, Resting
  <2> QED  BY <1>1, <1>2, <1>3, <2>0, <2>2, <2>3 DEF TaskInv, Becomes
<1>5. Advances => LateInv'
  BY <1>1, LateFrame
<1> QED  BY <1>1, <1>2, <1>3, <1>4, <1>5, CallStep

\* The answer reaches the task, the adapter gives up, or the answer is another
\* request's.
LEMMA ReturnsTask ==
    ASSUME IndInv, NEW p \in Procs, NEW r \in OpResult, Returns(p, r),
           \/ call[p] \in OpResult /\ r = call[p]
           \/ r = "Pending" /\ (proc[p].pc = "finalize" =>
                                  call[p] \in OpResult \/ proc[p].tx \in dropped')
           \/ proc[p].tx \in misled',
           UNCHANGED <<state, source, tb, tbTrading, debits, credits>>,
           misled \subseteq misled', dropped \subseteq dropped', call'[p] = "none"
    PROVE  \E c \in {"commit", "handle"}, x \in OpResult :
              Becomes(p, c, proc[p].tx, proc[p].st, x) /\ TaskInv(p)'
<1>0. PICK t \in Transfers, s \in TransferState : t = proc[p].tx /\ s = proc[p].st
  BY TaskFacts
<1>1. /\ CoordTypeOK /\ TaskInv(p) /\ proc[p].res \in OpResult
      /\ proc[p].pc \in {"await", "finalize"} /\ state[t] # "absent"
      /\ t \notin misled' => TaskKnown(p)
  BY <1>0, TaskFacts DEF Returns, CallReturns, FinalizeReturns, TaskInv, Resting
<1>2. /\ \A o, x : Tells(t, o, x) => Tells(t, o, x)'
      /\ Posted(t) => Posted(t)'
  <2>1. \A o, x : Tells(t, o, x) => Tells(t, o, x)'
    BY DEF Tells, Debited, Credited
  <2> QED  BY <2>1 DEF Posted
<1>3. CASE CallReturns(p, r)
  <2>1. proc[p].pc = "await"
    BY <1>3 DEF CallReturns
  <2>2. \/ Becomes(p, "commit", t, s, r) /\ OpOf(s) = "deposit" /\ r = "Success"
        \/ Becomes(p, "handle", t, s, r) /\ ~(OpOf(s) = "deposit" /\ r = "Success")
    BY <1>0, <1>1, <1>3, CallReturnsEffect
  <2>3. ASSUME t \notin misled'  PROVE TaskKnown(p)'
    <3>1. Tells(t, OpOf(s), r)
      BY <1>0, <1>1, <2>1, <2>3 DEF TaskKnown, Tells, OpResult
    <3>2. s \in Reached \ Terminal /\ state[t] \in After(Expected(s))
      BY <1>0, <1>1, <2>1, <2>3 DEF TaskKnown, InCall
    <3> QED  BY <1>2, <2>2, <3>1, <3>2 DEF TaskKnown, Becomes, InCall
  <2>4. TaskInv(p)'
    BY <1>1, <2>2, <2>3 DEF TaskInv, Becomes
  <2> QED  BY <1>0, <2>2, <2>4
<1>4. CASE FinalizeReturns(p)
  <2>1. proc[p].pc = "finalize" /\ Becomes(p, "handle", t, s, proc[p].res)
    BY <1>0, <1>1, <1>4, TaskEffects DEF FinalizeReturns, PC
  <2>2. ASSUME t \notin misled'  PROVE TaskKnown(p)'
    <3>1. Posted(t)'
      <4>1. CASE call[p] \in OpResult
        BY <1>0, <1>1, <1>2, <2>1, <2>2, <4>1 DEF TaskKnown
      <4>2. CASE t \in dropped'
        BY <4>2 DEF Posted
      <4> QED  BY <1>0, <2>1, <2>2, <4>1, <4>2
    <3>2. /\ s \in Reached \ Terminal /\ state[t] \in After(Expected(s))
          /\ Tells(t, OpOf(s), proc[p].res)
      BY <1>0, <1>1, <2>1, <2>2 DEF TaskKnown, InCall
    <3> QED  BY <1>2, <2>1, <3>1, <3>2 DEF TaskKnown, Becomes, InCall
  <2>3. TaskInv(p)'
    BY <1>1, <2>1, <2>2 DEF TaskInv, Becomes
  <2> QED  BY <1>0, <1>1, <2>1, <2>3
<1> QED  BY <1>3, <1>4 DEF Returns

\* An answer in time.
LEMMA CallAnsweredInv ==
    ASSUME IndInv, NEW p \in Procs, CallAnswered(p)
    PROVE  IndInv'
<1>1. /\ call[p] \in OpResult /\ Returns(p, call[p])
      /\ call' = [call EXCEPT ![p] = "none"] /\ call \in [Procs -> OpResult \cup {"none", "sent"}]
      /\ UNCHANGED <<state, source, todo, queue, told, crashes, adapter, tb, tbTrading, avail, debits, credits>>
      /\ UNCHANGED <<late, lost, foreign, misled, dropped>>
      /\ late \subseteq Transfers \X {"withdraw", "deposit", "commit", "rollback"} \X Adapters
      /\ lost \in 0..MaxLost /\ foreign \in 0..MaxForeign
      /\ misled \subseteq Transfers /\ dropped \subseteq Transfers
  BY DEF CallAnswered, IndInv, TypeOK, historyVars
<1>2. /\ call' \in [Procs -> OpResult \cup {"none", "sent"}] /\ call'[p] = "none"
      /\ \A q \in Procs : q # p => call'[q] = call[q]
  BY <1>1
<1>3. PICK c \in {"commit", "handle"}, x \in OpResult :
         Becomes(p, c, proc[p].tx, proc[p].st, x) /\ TaskInv(p)'
  <2>1. PICK r \in OpResult : r = call[p]
    BY <1>1
  <2> QED  BY <1>1, <1>2, <2>1, ReturnsTask
<1>4. Advances => LateInv'
  BY <1>1, LateFrame
<1> QED  BY <1>1, <1>2, <1>3, <1>4, CallStep

\* The messages that tasks leave behind are of transfers that came that far.
LEMMA AbandonsLate ==
    ASSUME IndInv, NEW S \in SUBSET Procs, Abandons(S), Advances
    PROVE  /\ late' \subseteq Transfers \X {"withdraw", "deposit", "commit", "rollback"} \X Adapters
           /\ LateInv'
<1>1. PICK M \in SUBSET {<<proc[p].tx, Awaited(p), AdapterOf(p)>> : p \in {q \in S : call[q] = "sent"}} :
         late' = late \cup M
  BY DEF Abandons
<1>2. ASSUME NEW m \in M
      PROVE  /\ m \in Transfers \X {"withdraw", "deposit", "commit", "rollback"} \X Adapters
             /\ state'[m[1]] # "absent"
             /\ m[1] \notin misled' =>
                   m[2] # "rollback" /\ (m[2] \in {"deposit", "commit"} => Debited(m[1])')
  <2>1. PICK p \in S : call[p] = "sent" /\ m = <<proc[p].tx, Awaited(p), AdapterOf(p)>>
    BY <1>1
  <2>2. p \in Procs /\ proc[p].pc \in {"await", "finalize"}
    BY <2>1, TaskFacts DEF TaskInv
  <2>3. PICK t, o, a : t = proc[p].tx /\ o = Awaited(p) /\ a = AdapterOf(p)
    OBVIOUS
  <2>4. /\ t \in Transfers /\ state[t] # "absent" /\ o \in Ops /\ a \in Adapters
        /\ t \notin misled => /\ state[t] \in Reached /\ o # "rollback"
                              /\ o \in {"deposit", "commit"} => Debited(t)
    BY <2>2, <2>3, AwaitedFacts
  <2>5. state'[t] # "absent" /\ (t \notin misled' => t \notin misled)
    BY <2>4 DEF Advances
  <2>6. t \notin misled' => o # "rollback" /\ (o \in {"deposit", "commit"} => Debited(t)')
    BY <2>4, <2>5, KnownStays
  <2>7. m = <<t, o, a>> /\ m[1] = t /\ m[2] = o
    BY <2>1, <2>3
  <2>8. m[1] \notin misled' =>
           m[2] # "rollback" /\ (m[2] \in {"deposit", "commit"} => Debited(m[1])')
    BY <2>6, <2>7
  <2> QED  BY <2>4, <2>5, <2>7, <2>8 DEF Ops
<1>3. late \subseteq Transfers \X {"withdraw", "deposit", "commit", "rollback"} \X Adapters
  BY DEF IndInv, TypeOK
<1>4. LateInv'
  BY <1>1, <1>2, MessageFrame DEF LateInv
<1> QED  BY <1>1, <1>2, <1>3, <1>4

\* The adapter gives up.
LEMMA CallLostInv ==
    ASSUME IndInv, NEW p \in Procs, CallLost(p)
    PROVE  IndInv'
<1>1. /\ lost < MaxLost /\ lost' = lost + 1 /\ Returns(p, "Pending") /\ Abandons({p})
      /\ call' = [call EXCEPT ![p] = "none"] /\ call \in [Procs -> OpResult \cup {"none", "sent"}]
      /\ UNCHANGED <<state, source, todo, queue, told, crashes, adapter, tb, tbTrading, avail, debits, credits>>
      /\ lost \in 0..MaxLost /\ MaxLost \in Nat /\ foreign \in 0..MaxForeign
      /\ misled \subseteq Transfers /\ dropped \subseteq Transfers /\ UNCHANGED <<foreign, misled>>
      /\ dropped' = IF proc[p].pc = "finalize" /\ call[p] = "sent"
                      THEN dropped \cup {proc[p].tx} ELSE dropped
      /\ call[p] # "none" /\ proc[p].tx \in Transfers
  BY ServicesAssumption, TaskFacts DEF CallLost, IndInv, TypeOK
<1>2. /\ call' \in [Procs -> OpResult \cup {"none", "sent"}] /\ call'[p] = "none"
      /\ \A q \in Procs : q # p => call'[q] = call[q]
      /\ lost' \in 0..MaxLost /\ "Pending" \in OpResult
      /\ dropped \subseteq dropped' /\ dropped' \subseteq Transfers /\ misled \subseteq misled'
      /\ proc[p].pc = "finalize" => call[p] \in OpResult \/ proc[p].tx \in dropped'
  BY <1>1 DEF OpResult
<1>3. PICK c \in {"commit", "handle"}, x \in OpResult :
         Becomes(p, c, proc[p].tx, proc[p].st, x) /\ TaskInv(p)'
  BY <1>1, <1>2, ReturnsTask
<1>4. Advances
  BY <1>1, <1>2, AdvancesQuiet
<1>5. /\ late' \subseteq Transfers \X {"withdraw", "deposit", "commit", "rollback"} \X Adapters
      /\ LateInv'
  BY <1>1, <1>4, AbandonsLate
<1> QED  BY <1>1, <1>2, <1>3, <1>5, CallStep

\* Another request's answer.
LEMMA CallMisansweredInv ==
    ASSUME IndInv, NEW p \in Procs, CallMisanswered(p)
    PROVE  IndInv'
<1>1. /\ foreign < MaxForeign /\ foreign' = foreign + 1 /\ Abandons({p})
      /\ call' = [call EXCEPT ![p] = "none"] /\ call \in [Procs -> OpResult \cup {"none", "sent"}]
      /\ UNCHANGED <<state, source, todo, queue, told, crashes, adapter, tb, tbTrading, avail, debits, credits>>
      /\ lost \in 0..MaxLost /\ MaxForeign \in Nat /\ foreign \in 0..MaxForeign
      /\ misled \subseteq Transfers /\ dropped \subseteq Transfers /\ UNCHANGED <<lost, dropped>>
      /\ misled' = misled \cup {proc[p].tx} /\ proc[p].tx \in Transfers
  BY ServicesAssumption, TaskFacts DEF CallMisanswered, IndInv, TypeOK
<1>r. PICK r \in OpResult : Returns(p, r)
  BY DEF CallMisanswered, OpResult
<1>2. /\ call' \in [Procs -> OpResult \cup {"none", "sent"}] /\ call'[p] = "none"
      /\ \A q \in Procs : q # p => call'[q] = call[q]
      /\ foreign' \in 0..MaxForeign
      /\ misled \subseteq misled' /\ misled' \subseteq Transfers /\ proc[p].tx \in misled'
  BY <1>1
<1>3. PICK c \in {"commit", "handle"}, x \in OpResult :
         Becomes(p, c, proc[p].tx, proc[p].st, x) /\ TaskInv(p)'
  BY <1>1, <1>r, <1>2, ReturnsTask
<1>4. Advances
  BY <1>1, <1>2, AdvancesQuiet
<1>5. /\ late' \subseteq Transfers \X {"withdraw", "deposit", "commit", "rollback"} \X Adapters
      /\ LateInv'
  BY <1>1, <1>4, AbandonsLate
<1> QED  BY <1>1, <1>2, <1>3, <1>5, CallStep

\* A service executes an operation; the tasks and rows stay where they are.
LEMMA ServiceStep ==
    ASSUME IndInv, NEW t \in Transfers, NEW o, NEW answer, Done(t, o, answer),
           UNCHANGED coordVars, UNCHANGED <<adapter, lost, foreign, misled, dropped>>,
           call' \in [Procs -> OpResult \cup {"none", "sent"}],
           late' \subseteq late,
           \A q \in Procs : call'[q] = call[q] \/ TaskInv(q)'
    PROVE  IndInv'
<1>1. UNCHANGED <<state, source, proc, todo, queue, told, crashes>>
  BY DEF coordVars
<1>2. /\ Advances /\ \A x \in Transfers : RowInv(x)'
      /\ ServiceTypes'
  BY DEF Done, ServiceTypes, IndInv, TypeOK
<1>3. CoordTypeOK' /\ WiringInv'
  BY <1>1 DEF IndInv, TypeOK, CoordTypeOK, WiringInv
<1>4. LateInv'
  BY <1>2, LateFrame
<1> QED  BY <1>1, <1>2, <1>3, <1>4, Keeps

\* A call that is awaited takes effect.
LEMMA ServiceExecutesInv ==
    ASSUME IndInv, NEW p \in Procs, ServiceExecutes(p)
    PROVE  IndInv'
<1>0. PICK t, s, o, a : t = proc[p].tx /\ s = proc[p].st /\ o = Awaited(p) /\ a = AdapterOf(p)
  OBVIOUS
<1>1. PICK answer \in OpResult : Executes(t, o, a, answer) /\ call' = [call EXCEPT ![p] = answer]
  BY <1>0 DEF ServiceExecutes
<1>2. /\ call[p] = "sent" /\ UNCHANGED coordVars
      /\ UNCHANGED <<adapter, late, lost, foreign, misled, dropped>>
      /\ UNCHANGED <<state, source, proc, told, crashes>>
      /\ call \in [Procs -> OpResult \cup {"none", "sent"}]
  BY DEF ServiceExecutes, coordVars, historyVars, IndInv, TypeOK
<1>3. proc[p].pc \in {"await", "finalize"} /\ TaskInv(p)
  BY <1>2, TaskFacts DEF TaskInv
<1>4. /\ t \in Transfers /\ state[t] # "absent" /\ o \in Ops
      /\ t \notin misled => /\ state[t] \in Reached /\ o # "rollback"
                            /\ o \in {"deposit", "commit"} => Debited(t)
  BY <1>0, <1>3, AwaitedFacts
<1>5. Sensible(t, o)
  BY <1>2, <1>4 DEF Sensible
<1>6. Done(t, o, answer)
  BY <1>1, <1>4, <1>5, ExecutesDone
<1>7. /\ call' \in [Procs -> OpResult \cup {"none", "sent"}]
      /\ call'[p] = answer /\ \A q \in Procs : q # p => call'[q] = call[q]
  BY <1>1, <1>2
<1>8. TaskInv(p)'
  <2>1. ASSUME t \notin misled'  PROVE TaskKnown(p)'
    <3>1. /\ t \notin misled /\ state[t] \in Reached /\ TaskKnown(p)
          /\ \A x, y : Tells(t, x, y) => Tells(t, x, y)'
      BY <1>0, <1>2, <1>3, <1>4, <1>6, <2>1, KnownStays DEF Done, TaskInv
    <3>2. CASE proc[p].pc = "await"
      <4>1. o = OpOf(s) /\ Tells(t, OpOf(s), answer)'
        BY <1>0, <1>6, <3>1, <3>2 DEF Awaited, Done
      <4> QED  BY <1>0, <1>2, <1>7, <3>1, <3>2, <4>1 DEF TaskKnown, InCall
    <3>3. CASE proc[p].pc = "finalize"
      <4>1. o = "commit" /\ Posted(t)'
        BY <1>0, <1>6, <3>1, <3>3 DEF Awaited, Done
      <4> QED  BY <1>0, <1>2, <1>7, <3>1, <3>3, <4>1 DEF TaskKnown, InCall
    <3> QED  BY <1>3, <3>2, <3>3
  <2> QED  BY <1>0, <1>2, <1>3, <1>4, <2>1 DEF TaskInv
<1>9. \A q \in Procs : call'[q] = call[q] \/ TaskInv(q)'
  BY <1>7, <1>8
<1> QED  BY <1>2, <1>4, <1>6, <1>7, <1>9, ServiceStep

\* A message nobody waits for takes effect.
LEMMA ServiceExecutesLateInv ==
    ASSUME IndInv, NEW m \in late, ServiceExecutesLate(m)
    PROVE  IndInv'
<1>0. PICK t, o, a : t = m[1] /\ o = m[2] /\ a = m[3]
  OBVIOUS
<1>1. PICK answer \in OpResult : Executes(t, o, a, answer)
  BY <1>0 DEF ServiceExecutesLate
<1>2. /\ late' = late \ {m} /\ UNCHANGED coordVars
      /\ UNCHANGED <<adapter, call, lost, foreign, misled, dropped>>
      /\ UNCHANGED <<state, source, proc, told, crashes>>
      /\ call \in [Procs -> OpResult \cup {"none", "sent"}]
  BY DEF ServiceExecutesLate, coordVars, historyVars, IndInv, TypeOK
<1>3. t \in Transfers /\ o \in Ops
  BY <1>0 DEF IndInv, TypeOK, Ops
<1>4. /\ state[t] # "absent" /\ RowInv(t)
      /\ t \notin misled => o # "rollback" /\ (o \in {"deposit", "commit"} => Debited(t))
  BY <1>0, <1>3 DEF IndInv, LateInv
<1>5. Sensible(t, o)
  BY <1>2, <1>4 DEF Sensible, RowInv, RowKnown
<1>6. Done(t, o, answer)
  BY <1>1, <1>3, <1>5, ExecutesDone
<1>7. late' \subseteq late /\ call' \in [Procs -> OpResult \cup {"none", "sent"}]
  BY <1>2
<1> QED  BY <1>2, <1>3, <1>6, <1>7, ServiceStep

\* A process dies: its tasks, scan result and queue are gone, rows and
\* services are not, and its messages may still arrive.
LEMMA CrashInv ==
    ASSUME IndInv, NEW w \in Workers, CrashLoses(w)
    PROVE  IndInv'
<1> DEFINE Dead(q) == q = w \/ (w = QueueWorker /\ q \in Transfers)
           gone == {p \in Procs : call[p] # "none" /\ Dead(p)}
<1>0. /\ Crash(w) /\ Abandons(gone) /\ gone \in SUBSET Procs
      /\ call' = [p \in Procs |-> IF p \in gone THEN "none" ELSE call[p]]
      /\ \E a \in Adapters : adapter' = [adapter EXCEPT ![w] = a]
      /\ UNCHANGED <<tb, tbTrading, avail, debits, credits, lost, foreign, misled, dropped>>
  BY DEF CrashLoses, historyVars
<1>1. /\ UNCHANGED <<state, source, told>>
      /\ todo' = [todo EXCEPT ![w] = {}]
      /\ queue' = (IF w = QueueWorker THEN <<>> ELSE queue)
      /\ crashes < MaxCrashes /\ crashes' = crashes + 1
      /\ CoordTypeOK /\ ServiceTypes /\ WiringInv
  BY <1>0 DEF IndInv, TypeOK, ServiceTypes, Crash
<1>2. /\ proc' \in [Procs -> Task]
      /\ \A q \in Procs :
            \/ proc'[q] = proc[q] /\ (proc[q].pc = "none" \/ ~Dead(q))
            \/ /\ proc[q].pc # "none" /\ proc'[q].tx = proc[q].tx
               /\ proc'[q].pc = (IF q \in Workers THEN "idle" ELSE "done")
               /\ Dead(q)
  BY <1>0, <1>1, CrashEffect
<1>3. crashes' \in 0..MaxCrashes
  BY <1>1, TransferAssumption DEF CoordTypeOK
<1>4. Advances
  BY <1>0, <1>1, AdvancesQuiet
<1>5. /\ late' \subseteq Transfers \X {"withdraw", "deposit", "commit", "rollback"} \X Adapters
      /\ LateInv'
  <2>1. PICK S \in SUBSET Procs : S = gone
    BY <1>0
  <2> HIDE DEF gone
  <2> QED  BY <1>0, <1>4, <2>1, AbandonsLate
<1>6. CoordTypeOK'
  <2>1. queue' \in Seq(Transfers) /\ Len(queue') <= QueueCapacity
    BY <1>1, TransferAssumption DEF CoordTypeOK
  <2> QED  BY <1>1, <1>2, <1>3, <2>1 DEF CoordTypeOK, Task
<1>7. ServiceTypes'
  <2>1. adapter' \in [Workers -> Adapters]
    BY <1>0, <1>1 DEF ServiceTypes
  <2>2. call' \in [Procs -> OpResult \cup {"none", "sent"}]
    BY <1>0, <1>1 DEF ServiceTypes
  <2> QED  BY <1>0, <1>1, <1>5, <2>1, <2>2 DEF ServiceTypes
<1>8. WiringInv'
  <2>1. \A x \in Transfers : proc'[x].tx = x /\ (proc'[x].pc = "none" => state'[x] = "absent")
    BY <1>1, <1>2, TransferAssumption DEF WiringInv, Procs
  <2>2. \A v \in Workers : proc'[v].pc # "none"
    BY <1>1, <1>2 DEF WiringInv, Procs
  <2>3. \A v \in Workers : \A x \in todo'[v] : state'[x] # "absent"
    BY <1>1 DEF WiringInv, CoordTypeOK
  <2>4. \A i \in 1..Len(queue') : state'[queue'[i]] # "absent"
    BY <1>1 DEF WiringInv
  <2> QED  BY <2>1, <2>2, <2>3, <2>4 DEF WiringInv
<1>9. \A x \in Transfers : RowInv(x)'
  BY <1>0, <1>1, RowSame DEF IndInv
<1>10. ASSUME NEW q \in Procs
       PROVE  (proc'[q] = proc[q] /\ call'[q] = call[q]) \/ TaskInv(q)'
  <2>1. CASE proc'[q] = proc[q] /\ (proc[q].pc = "none" \/ ~Dead(q))
    <3>1. proc[q].pc = "none" => call[q] = "none"
      BY TaskFacts DEF TaskInv
    <3>2. call'[q] = call[q]
      BY <1>0, <2>1, <3>1
    <3> QED  BY <2>1, <3>2
  <2>2. CASE proc'[q].pc \in {"idle", "done"} /\ Dead(q)
    <3>1. call'[q] = "none"
      BY <1>0, <2>2
    <3> QED  BY <2>2, <3>1 DEF TaskInv, TaskKnown, InCall, Resting
  <2> QED  BY <1>2, <2>1, <2>2
<1> QED  BY <1>4, <1>5, <1>6, <1>7, <1>8, <1>9, <1>10, Keeps

-----------------------------------------------------------------------------
(***************************************************************************)
(* The theorems.                                                           *)
(***************************************************************************)

\* The invariant holds when nothing has happened yet.
LEMMA IndInvInit == Init => IndInv
<1> SUFFICES ASSUME Init  PROVE IndInv
  OBVIOUS
<1>1. proc \in [Procs -> Task]
  BY TransferAssumption DEF Init, CoordInit, Task, PC, Procs, TransferState, OpResult
<1>2. CoordTypeOK
  BY <1>1, TransferAssumption DEF Init, CoordInit, CoordTypeOK, Task, ServiceId
<1>3. TypeOK
  BY <1>2, ServicesAssumption DEF Init, TypeOK
<1>4. WiringInv
  BY TransferAssumption DEF Init, CoordInit, WiringInv, Procs
<1>5. LateInv
  BY DEF Init, LateInv
<1>6. ASSUME NEW t \in Transfers  PROVE RowInv(t)
  <2>1. /\ state[t] = "absent" /\ told[t] = "none" /\ source[t] = "funding"
        /\ tb[t] = "free" /\ tbTrading[t] = "free"
        /\ debits[t] = 0 /\ credits[t] = 0
    BY IdFacts DEF Init, CoordInit
  <2>2. "absent" \notin After("source_done")
    BY DEF After
  <2> QED  BY <2>1, <2>2 DEF RowInv, RowKnown, Untouched, Credited
<1>7. \A p \in Procs : TaskInv(p)
  BY DEF Init, CoordInit, TaskInv, TaskKnown, Procs, InCall, Resting
<1> QED  BY <1>3, <1>4, <1>5, <1>6, <1>7 DEF IndInv

\* Every step keeps it.
LEMMA IndInvNext == IndInv /\ [Next]_vars => IndInv'
<1> SUFFICES ASSUME IndInv, [Next]_vars  PROVE IndInv'
  OBVIOUS
<1>1. ASSUME NEW p \in Procs, Step(p), UNCHANGED serviceVars  PROVE IndInv'
  BY <1>1, StepGetInv, StepPersistInv, StepReturnsInv, StepHandleInv, StepDbErrorInv DEF Step
<1>2. ASSUME NEW t \in Transfers, UNCHANGED serviceVars,
             NEW from \in ServiceId, NEW to \in ServiceId, NEW amount \in {0, 1},
             Create(t, from, to, amount) \/ CreateFails(t, from, to, amount)
      PROVE  IndInv'
  BY <1>2, CreateInv
<1>3. ASSUME NEW t \in Transfers, UNCHANGED serviceVars,
             HandlerAnswers(t) \/ HandlerLoops(t) \/ HandlerErrs(t)
      PROVE  IndInv'
  BY <1>3, AnswerInv, LoopInv
<1>4. ASSUME NEW w \in Workers, UNCHANGED serviceVars,
             \/ WorkerPops(w) \/ WorkerDrained(w)
             \/ \E stale \in SUBSET Transfers : WorkerScans(w, stale)
             \/ \E t \in Transfers : WorkerTakes(w, t)
             \/ WorkerLoops(w) \/ WorkerErrs(w)
      PROVE  IndInv'
  BY <1>4, WorkerInv, LoopInv
<1>5. ASSUME NEW p \in Procs,
             \/ CallSent(p) \/ ServiceExecutes(p)
             \/ CallAnswered(p) \/ CallLost(p) \/ CallMisanswered(p)
      PROVE  IndInv'
  BY <1>5, CallSentInv, ServiceExecutesInv, CallAnsweredInv, CallLostInv, CallMisansweredInv
<1>6. ASSUME NEW m \in late, ServiceExecutesLate(m)  PROVE IndInv'
  BY <1>6, ServiceExecutesLateInv
<1>7. ASSUME NEW w \in Workers, CrashLoses(w)  PROVE IndInv'
  BY <1>7, CrashInv
<1>8. CASE UNCHANGED vars
  <2>1. /\ UNCHANGED <<state, source, proc, todo, queue, told, crashes>>
        /\ UNCHANGED <<adapter, tb, tbTrading, avail, debits, credits, call, late, lost>>
        /\ UNCHANGED <<foreign, misled, dropped>>
    BY <1>8 DEF vars, coordVars, serviceVars, historyVars
  <2>2. Advances
    BY <2>1, AdvancesQuiet
  <2>3. CoordTypeOK' /\ ServiceTypes' /\ WiringInv'
    BY <2>1 DEF IndInv, TypeOK, CoordTypeOK, ServiceTypes, WiringInv
  <2>4. LateInv'
    BY <2>1, <2>2, LateFrame
  <2>5. \A t \in Transfers : RowInv(t)'
    BY <2>1, RowSame DEF IndInv
  <2> QED  BY <2>1, <2>2, <2>3, <2>4, <2>5, Keeps
<1> QED
  BY <1>1, <1>2, <1>3, <1>4, <1>5, <1>6, <1>7, <1>8 DEF Next, CoordNext

\* The invariant that ties rows, tasks, messages and the production services
\* together holds for any number of transfers and workers.
THEOREM ServicesInvHolds == Spec => []IndInv
  BY IndInvInit, IndInvNext, PTL DEF Spec

\* Type correctness: UBSCore's balance never goes below zero, and no message
\* is of a transfer or an adapter that does not exist.
THEOREM TypeCorrect == Spec => []TypeOK
<1>1. IndInv => TypeOK
  BY DEF IndInv
<1> QED  BY <1>1, ServicesInvHolds, PTL

\* With the production adapters no account is credited without a debit, and no
\* transfer is committed, or told to be, without a credit, whatever is lost,
\* late or repeated, unless a call of that transfer was handed the answer to
\* another channel's request: that is the one way it can happen.
THEOREM NoCreditAlone == Spec => []CreditFollowsDebit
<1>1. IndInv => CreditFollowsDebit
  BY DEF IndInv, RowInv, RowKnown, CreditFollowsDebit
<1> QED  BY <1>1, ServicesInvHolds, PTL

\* Although the answer to commit is ignored, a committed transfer from Funding
\* is posted, or TigerBeetle refused the posting because its id, the one after
\* the transfer's own, is taken; unless the commit call was given up or a call
\* of the transfer got another request's answer.
THEOREM CommitsArePosted == Spec => []CommittedIsPosted
<1>1. IndInv => CommittedIsPosted
  <2> SUFFICES ASSUME IndInv, NEW t \in Transfers \ (misled \cup dropped),
                      state[t] = "committed", source[t] = "funding"
               PROVE  tb[t] = "posted" \/ (tb[t] = "pending" /\ tb[PostId(t)] # "free")
    BY DEF CommittedIsPosted
  <2>1. Posted(t)
    BY DEF IndInv, RowInv, RowKnown
  <2> QED  BY <2>1 DEF Posted
<1> QED  BY <1>1, ServicesInvHolds, PTL

\* no transfer is being compensated, or was, but after another request's answer
OnlyMisledCompensate ==
    \A t \in Transfers \ misled : state[t] \notin {"compensating", "rolled_back"}

\* UBSCore accepts every deposit it reads, and the adapters answer TigerBeetle's
\* errors as Pending, so step_compensating is only reached when a deposit gets
\* the rejection of another channel's request: a transfer whose deposit does
\* not succeed is retried, never undone.
THEOREM NeverRollsBack == Spec => []OnlyMisledCompensate
<1>1. IndInv => OnlyMisledCompensate
  BY DEF IndInv, RowInv, RowKnown, Reached, OnlyMisledCompensate
<1> QED  BY <1>1, ServicesInvHolds, PTL

-----------------------------------------------------------------------------
(***************************************************************************)
(* The Aeron channel.                                                      *)
(***************************************************************************)

Used(c) == {r \in Requests : Owner(r) = c /\ st[r] # "new"}

(***************************************************************************)
(* next_correlation_id counts the requests of a channel, so that ids are   *)
(* never given twice in one channel.                                       *)
(***************************************************************************)
IdsInv ==
    /\ \A c \in Channels : nextId[c] = Cardinality(Used(c)) + 1
    /\ \A r \in Requests : /\ st[r] = "new" <=> id[r] = 0
                           /\ id[r] < nextId[Owner(r)]
    /\ \A q, r \in Requests : Owner(q) = Owner(r) /\ id[q] = id[r] /\ id[r] # 0 => q = r

(***************************************************************************)
(* A registration is with the poll thread once: on its way, or in the map, *)
(* and gone when it was answered.                                          *)
(***************************************************************************)
EntriesInv ==
    \A c \in Channels :
        /\ \A i \in 1..Len(reg[c]) : /\ Owner(reg[c][i]) = c
                                     /\ st[reg[c][i]] \notin {"new", "answered"}
        /\ \A i, j \in 1..Len(reg[c]) : reg[c][i] = reg[c][j] => i = j
        /\ \A e \in table[c] : /\ Owner(e[2]) = c /\ e[1] = id[e[2]]
                               /\ st[e[2]] \notin {"new", "answered"}
                               /\ \A i \in 1..Len(reg[c]) : reg[c][i] # e[2]

(***************************************************************************)
(* Requests and answers under way have an id, and answers carry that of    *)
(* the request.                                                            *)
(***************************************************************************)
TransitInv ==
    /\ \A i \in 1..Len(inbox) : st[inbox[i]] # "new"
    /\ \A c \in Channels : \A i \in 1..Len(outbox[c]) :
          outbox[c][i].id = id[outbox[c][i].request]
    /\ \A r \in Requests : got[r] # <<>> => id[got[r]] = id[r] /\ st[got[r]] # "new"
    /\ \A r \in Requests : st[r] = "answered" => got[r] # <<>>

ChannelIndInv == ChannelTypeOK /\ IdsInv /\ EntriesInv /\ TransitInv

-----------------------------------------------------------------------------
(***************************************************************************)
(* Facts about requests and sequences.                                     *)
(***************************************************************************)

\* A request belongs to a client, and is not the "no answer" of got.
LEMMA RequestFacts ==
    ASSUME NEW r \in Requests
    PROVE  Owner(r) \in Channels /\ r # <<>>
  BY SMTT(30) DEF Requests, Owner

\* While a client has a request left, it has given fewer ids than it has
\* requests.
LEMMA UsedBound ==
    ASSUME NEW r \in Requests, st[r] = "new"
    PROVE  /\ IsFiniteSet(Used(Owner(r)))
           /\ Cardinality(Used(Owner(r))) \in Nat
           /\ Cardinality(Used(Owner(r))) < PerChannel
<1> DEFINE c == Owner(r)
           F == [q \in Used(c) \cup {r} |-> q[2]]
<1>1. PerChannel \in Nat /\ IsFiniteSet(1..PerChannel) /\ Cardinality(1..PerChannel) = PerChannel
  BY ChannelAssumption, FS_Interval
<1>2. F \in Injection(Used(c) \cup {r}, 1..PerChannel)
  BY DEF Used, Requests, Owner, Injection, IsInjective
<1>3. /\ IsFiniteSet(Used(c) \cup {r})
      /\ Cardinality(Used(c) \cup {r}) <= PerChannel
  BY <1>1, <1>2, FS_Injection
<1>4. r \notin Used(c) /\ Used(c) \in SUBSET (Used(c) \cup {r})
  BY DEF Used
<1>5. IsFiniteSet(Used(c)) /\ Cardinality(Used(c)) \in Nat
  BY <1>3, <1>4, FS_Subset, FS_CardinalityType
<1>6. Cardinality(Used(c) \cup {r}) = Cardinality(Used(c)) + 1
  BY <1>4, <1>5, FS_AddElement
<1> QED  BY <1>1, <1>3, <1>5, <1>6

\* An element of a sequence that was appended to, or cut at its head.
LEMMA AppendElements ==
    ASSUME NEW S, NEW s \in Seq(S), NEW e \in S
    PROVE  /\ Append(s, e) \in Seq(S) /\ Len(Append(s, e)) = Len(s) + 1
           /\ \A i \in 1..Len(Append(s, e)) :
                 \/ i \in 1..Len(s) /\ Append(s, e)[i] = s[i]
                 \/ i = Len(s) + 1 /\ Append(s, e)[i] = e
  OBVIOUS

\* What is left of a queue was in it.
LEMMA TailElements ==
    ASSUME NEW S, NEW s \in Seq(S), s # <<>>
    PROVE  /\ Tail(s) \in Seq(S) /\ Len(Tail(s)) = Len(s) - 1
           /\ Head(s) \in S /\ Head(s) = s[1] /\ 1 \in 1..Len(s)
           /\ \A i \in 1..Len(Tail(s)) : i + 1 \in 1..Len(s) /\ Tail(s)[i] = s[i + 1]
  OBVIOUS

\* An element of a sequence is of the sequence's type.
LEMMA SeqElement ==
    ASSUME NEW S, NEW s \in Seq(S), NEW i \in 1..Len(s)
    PROVE  s[i] \in S
  OBVIOUS

-----------------------------------------------------------------------------
(***************************************************************************)
(* The invariant is preserved.                                             *)
(***************************************************************************)

\* A request that is neither new nor answered changes to another such status,
\* and what depends on ids alone stays.
LEMMA StatusStep ==
    ASSUME ChannelIndInv, NEW r \in Requests, NEW s \in CallStatus \ {"new", "answered"},
           st[r] # "new", st' = [st EXCEPT ![r] = s],
           UNCHANGED <<nextId, id, got, reg, table, thread, outbox>>
    PROVE  IdsInv' /\ EntriesInv'
<1>1. \A q \in Requests : /\ st'[q] = "new" <=> st[q] = "new"
                          /\ st'[q] = "answered" => st[q] = "answered"
  BY DEF ChannelIndInv, ChannelTypeOK
<1>2. \A c \in Channels : Used(c)' = Used(c)
  BY <1>1 DEF Used
<1>3. IdsInv'
  BY <1>1, <1>2 DEF ChannelIndInv, IdsInv
<1>4. EntriesInv'
  <2>1. ASSUME NEW c \in Channels
        PROVE  /\ \A i \in 1..Len(reg[c]) : reg[c][i] \in Requests
               /\ \A e \in table[c] : e[2] \in Requests
    BY DEF ChannelIndInv, ChannelTypeOK
  <2>2. UNCHANGED <<reg, table, id>>
    OBVIOUS
  <2>3. \A q \in Requests : st[q] \notin {"new", "answered"} => st'[q] \notin {"new", "answered"}
    BY <1>1
  <2> QED  BY <2>1, <2>2, <2>3 DEF ChannelIndInv, EntriesInv
<1> QED  BY <1>3, <1>4

\* Registering a request keeps the invariant.
LEMMA RegisterInv ==
    ASSUME ChannelIndInv, NEW r \in Requests, Register(r)
    PROVE  ChannelIndInv'
<1> DEFINE c == Owner(r)
<1>0. c \in Channels /\ r # <<>>
  BY RequestFacts
<1>1. /\ st[r] = "new" /\ Len(reg[c]) < RegCapacity
      /\ nextId' = [nextId EXCEPT ![c] = nextId[c] + 1]
      /\ id' = [id EXCEPT ![r] = nextId[c]]
      /\ reg' = [reg EXCEPT ![c] = Append(reg[c], r)]
      /\ st' = [st EXCEPT ![r] = "registered"]
      /\ UNCHANGED <<got, table, thread, inbox, outbox>>
  BY DEF Register
<1>2. /\ IsFiniteSet(Used(c)) /\ Cardinality(Used(c)) \in Nat
      /\ Cardinality(Used(c)) < PerChannel
  BY <1>1, UsedBound
<1>3. nextId[c] = Cardinality(Used(c)) + 1 /\ nextId[c] \in 1..PerChannel
  BY <1>0, <1>2, ChannelAssumption DEF ChannelIndInv, IdsInv
<1>4. \A q \in Requests : q # r => st'[q] = st[q] /\ id'[q] = id[q]
  BY <1>1 DEF ChannelIndInv, ChannelTypeOK
<1>5. st'[r] = "registered" /\ id'[r] = nextId[c]
  BY <1>1 DEF ChannelIndInv, ChannelTypeOK
<1>6. ChannelTypeOK'
  <2>1. nextId' \in [Channels -> 1..(PerChannel + 1)]
    BY <1>0, <1>1, <1>3, ChannelAssumption DEF ChannelIndInv, ChannelTypeOK
  <2>2. id' \in [Requests -> 0..PerChannel] /\ st' \in [Requests -> CallStatus]
    BY <1>1, <1>3, ChannelAssumption DEF ChannelIndInv, ChannelTypeOK, CallStatus
  <2>3. reg[c] \in Seq(Requests)
    BY <1>0 DEF ChannelIndInv, ChannelTypeOK
  <2>4. /\ reg' \in [Channels -> Seq(Requests)]
        /\ \A d \in Channels : Len(reg'[d]) <= RegCapacity
    BY <1>0, <1>1, <2>3, AppendElements, ChannelAssumption DEF ChannelIndInv, ChannelTypeOK
  <2> QED  BY <1>1, <2>1, <2>2, <2>4 DEF ChannelIndInv, ChannelTypeOK
<1>7. IdsInv'
  <2>1. Used(c)' = Used(c) \cup {r}
    BY <1>0, <1>4, <1>5 DEF Used
  <2>2. \A d \in Channels : d # c => Used(d)' = Used(d)
    BY <1>4 DEF Used
  <2>3. r \notin Used(c)
    BY <1>1 DEF Used
  <2>4. Cardinality(Used(c)') = Cardinality(Used(c)) + 1
    BY <1>2, <2>1, <2>3, FS_AddElement
  <2>5. \A d \in Channels : nextId'[d] = Cardinality(Used(d)') + 1
    BY <1>0, <1>1, <1>2, <1>3, <2>2, <2>4 DEF ChannelIndInv, IdsInv, ChannelTypeOK
  <2>6. /\ nextId'[c] = nextId[c] + 1
        /\ \A d \in Channels : d # c => nextId'[d] = nextId[d]
        /\ \A d \in Channels : nextId[d] \in Nat
    BY <1>0, <1>1 DEF ChannelIndInv, ChannelTypeOK
  <2>7. \A q \in Requests : /\ st'[q] = "new" <=> id'[q] = 0
                            /\ id'[q] < nextId'[Owner(q)]
    <3> SUFFICES ASSUME NEW q \in Requests
                 PROVE  /\ st'[q] = "new" <=> id'[q] = 0
                        /\ id'[q] < nextId'[Owner(q)]
      OBVIOUS
    <3>1. /\ st[q] = "new" <=> id[q] = 0
          /\ id[q] < nextId[Owner(q)] /\ Owner(q) \in Channels /\ id[q] \in Nat
      BY RequestFacts DEF ChannelIndInv, IdsInv, ChannelTypeOK
    <3>2. CASE q = r
      BY <1>3, <1>5, <2>6, <3>2
    <3>3. CASE q # r
      BY <1>4, <2>6, <3>1, <3>3
    <3> QED  BY <3>2, <3>3
  <2>8. \A p, q \in Requests : Owner(p) = Owner(q) /\ id'[p] = id'[q] /\ id'[q] # 0 => p = q
    <3>1. \A q \in Requests : Owner(q) = c => id[q] < nextId[c] /\ id[q] \in Nat
      BY DEF ChannelIndInv, IdsInv, ChannelTypeOK
    <3>2. \A q \in Requests : Owner(q) = c /\ q # r => id'[q] # id'[r]
      BY <1>3, <1>4, <1>5, <3>1
    <3>3. \A p, q \in Requests : p # r /\ q # r /\ Owner(p) = Owner(q) /\ id'[p] = id'[q] /\ id'[q] # 0
                                   => p = q
      BY <1>4 DEF ChannelIndInv, IdsInv
    <3> QED  BY <3>2, <3>3
  <2> QED  BY <2>5, <2>7, <2>8 DEF IdsInv
<1>8. \A d \in Channels : /\ \A i \in 1..Len(reg[d]) : reg[d][i] \in Requests /\ reg[d][i] # r
                         /\ \A e \in table[d] : e[2] \in Requests /\ e[2] # r
  BY SMTT(30), <1>1 DEF ChannelIndInv, EntriesInv, ChannelTypeOK
<1>9. EntriesInv'
  <2> SUFFICES ASSUME NEW d \in Channels
               PROVE
        /\ \A i \in 1..Len(reg'[d]) : /\ Owner(reg'[d][i]) = d
                                      /\ st'[reg'[d][i]] \notin {"new", "answered"}
        /\ \A i, j \in 1..Len(reg'[d]) : reg'[d][i] = reg'[d][j] => i = j
        /\ \A e \in table'[d] : /\ Owner(e[2]) = d /\ e[1] = id'[e[2]]
                                /\ st'[e[2]] \notin {"new", "answered"}
                                /\ \A i \in 1..Len(reg'[d]) : reg'[d][i] # e[2]
    BY DEF EntriesInv
  <2>1. /\ \A i \in 1..Len(reg[d]) : /\ Owner(reg[d][i]) = d
                                     /\ st'[reg[d][i]] \notin {"new", "answered"}
        /\ \A i, j \in 1..Len(reg[d]) : reg[d][i] = reg[d][j] => i = j
        /\ \A e \in table[d] : /\ Owner(e[2]) = d /\ e[1] = id'[e[2]]
                               /\ st'[e[2]] \notin {"new", "answered"}
                               /\ \A i \in 1..Len(reg[d]) : reg[d][i] # e[2]
    BY <1>4, <1>8 DEF ChannelIndInv, EntriesInv
  <2>2. CASE d # c
    <3>1. reg'[d] = reg[d] /\ table'[d] = table[d]
      BY <1>1, <2>2 DEF ChannelIndInv, ChannelTypeOK
    <3> QED  BY <2>1, <3>1
  <2>3. CASE d = c
    <3>1. reg'[d] = Append(reg[d], r) /\ table'[d] = table[d] /\ reg[d] \in Seq(Requests)
      BY <1>0, <1>1, <2>3 DEF ChannelIndInv, ChannelTypeOK
    <3>2. \A i \in 1..Len(reg'[d]) : \/ i \in 1..Len(reg[d]) /\ reg'[d][i] = reg[d][i]
                                     \/ i = Len(reg[d]) + 1 /\ reg'[d][i] = r
      BY <3>1, AppendElements
    <3> QED  BY <1>5, <1>8, <2>1, <2>3, <3>1, <3>2
  <2> QED  BY <2>2, <2>3
<1>10. TransitInv'
  <2>1. \A i \in 1..Len(inbox) : inbox[i] \in Requests /\ st[inbox[i]] # "new"
    BY DEF ChannelIndInv, ChannelTypeOK, TransitInv
  <2>2. \A d \in Channels : \A i \in 1..Len(outbox[d]) :
           /\ outbox[d][i].id \in 1..PerChannel /\ outbox[d][i].request \in Requests
           /\ outbox[d][i].id = id[outbox[d][i].request]
    <3> SUFFICES ASSUME NEW d \in Channels, NEW i \in 1..Len(outbox[d])
                 PROVE  /\ outbox[d][i].id \in 1..PerChannel /\ outbox[d][i].request \in Requests
                        /\ outbox[d][i].id = id[outbox[d][i].request]
      OBVIOUS
    <3>1. outbox[d] \in Seq([id : 1..PerChannel, request : Requests])
      BY DEF ChannelIndInv, ChannelTypeOK
    <3>2. outbox[d][i] \in [id : 1..PerChannel, request : Requests]
      BY <3>1, SeqElement
    <3> QED  BY <3>2 DEF ChannelIndInv, TransitInv
  <2>3. id[r] = 0
    BY <1>1 DEF ChannelIndInv, IdsInv
  <2>4. \A q \in Requests : got[q] # <<>> =>
           got[q] \in Requests /\ id[got[q]] = id[q] /\ st[got[q]] # "new"
    BY DEF ChannelIndInv, ChannelTypeOK, TransitInv
  <2>5. \A i \in 1..Len(inbox') : st'[inbox'[i]] # "new"
    BY <1>1, <1>4, <1>5, <2>1
  <2>6. \A d \in Channels : \A i \in 1..Len(outbox'[d]) :
           outbox'[d][i].id = id'[outbox'[d][i].request]
    BY <1>1, <1>4, <2>2, <2>3
  <2>7. \A q \in Requests : got'[q] # <<>> =>
           id'[got'[q]] = id'[q] /\ st'[got'[q]] # "new"
    <3> SUFFICES ASSUME NEW q \in Requests, got[q] # <<>>
                 PROVE  id'[got[q]] = id'[q] /\ st'[got[q]] # "new"
      BY <1>1
    <3>1. got[q] # r /\ id[got[q]] # 0
      BY <1>1, <2>4 DEF ChannelIndInv, IdsInv
    <3>2. q # r
      BY <2>3, <2>4, <3>1
    <3> QED  BY <1>4, <2>4, <3>1, <3>2
  <2> QED  BY <1>1, <1>4, <1>5, <2>5, <2>6, <2>7 DEF ChannelIndInv, TransitInv
<1> QED  BY <1>6, <1>7, <1>9, <1>10 DEF ChannelIndInv

\* A request that has an id and no answer changes its status: nothing but the
\* status, and maybe the inbox, changes.
LEMMA PublishInv ==
    ASSUME ChannelIndInv, NEW r \in Requests, Publish(r)
    PROVE  ChannelIndInv'
<1>1. PICK s \in {"waiting", "error"} : st' = [st EXCEPT ![r] = s]
  BY DEF Publish
<1>2. /\ st[r] = "registered"
      /\ UNCHANGED <<nextId, id, got, reg, table, thread, outbox>>
      /\ inbox' = inbox \/ inbox' = Append(inbox, r)
  BY DEF Publish
<1>3. inbox \in Seq(Requests)
  BY DEF ChannelIndInv, ChannelTypeOK
<1>4. ChannelTypeOK'
  <2>1. inbox' \in Seq(Requests)
    BY <1>2, <1>3, AppendElements
  <2>2. st' \in [Requests -> CallStatus]
    BY <1>1 DEF ChannelIndInv, ChannelTypeOK, CallStatus
  <2> QED  BY <1>2, <2>1, <2>2 DEF ChannelIndInv, ChannelTypeOK
<1>5. IdsInv' /\ EntriesInv'
  BY <1>1, <1>2, StatusStep DEF CallStatus
<1>6. TransitInv'
  <2>1. \A q \in Requests : /\ st'[q] = "new" <=> st[q] = "new" 
                            /\ st'[q] = "answered" => st[q] = "answered"
    BY <1>1, <1>2 DEF ChannelIndInv, ChannelTypeOK
  <2>2. \A i \in 1..Len(inbox') : inbox'[i] \in Requests /\ st[inbox'[i]] # "new"
    <3>1. \A i \in 1..Len(inbox) : inbox[i] \in Requests /\ st[inbox[i]] # "new"
      BY <1>3 DEF ChannelIndInv, TransitInv
    <3> QED  BY <1>2, <1>3, <3>1, AppendElements
  <2>3. \A q \in Requests : got[q] # <<>> => got[q] \in Requests
    BY DEF ChannelIndInv, ChannelTypeOK
  <2> QED  BY <1>2, <2>1, <2>2, <2>3 DEF ChannelIndInv, TransitInv
<1> QED  BY <1>4, <1>5, <1>6 DEF ChannelIndInv

\* A caller that gives up keeps the invariant.
LEMMA TimeoutInv ==
    ASSUME ChannelIndInv, NEW r \in Requests, Timeout(r)
    PROVE  ChannelIndInv'
<1>1. /\ st[r] = "waiting" /\ st' = [st EXCEPT ![r] = "timeout"]
      /\ UNCHANGED <<nextId, id, got, reg, table, thread, inbox, outbox>>
  BY DEF Timeout
<1>2. ChannelTypeOK'
  BY <1>1 DEF ChannelIndInv, ChannelTypeOK, CallStatus
<1>3. IdsInv' /\ EntriesInv'
  BY <1>1, StatusStep DEF CallStatus
<1>4. TransitInv'
  <2>1. \A q \in Requests : /\ st'[q] = "new" <=> st[q] = "new"
                            /\ st'[q] = "answered" => st[q] = "answered"
    BY <1>1 DEF ChannelIndInv, ChannelTypeOK
  <2>2. \A i \in 1..Len(inbox) : inbox[i] \in Requests
    BY DEF ChannelIndInv, ChannelTypeOK
  <2>3. \A q \in Requests : got[q] # <<>> => got[q] \in Requests
    BY DEF ChannelIndInv, ChannelTypeOK
  <2> QED  BY <1>1, <2>1, <2>2, <2>3 DEF ChannelIndInv, TransitInv
<1> QED  BY <1>2, <1>3, <1>4 DEF ChannelIndInv

\* UBSCore echoes the id of the request it read.
LEMMA ServerInv ==
    ASSUME ChannelIndInv, ServerAnswers
    PROVE  ChannelIndInv'
<1> DEFINE r == Head(inbox)
<1>1. /\ inbox # <<>> /\ inbox' = Tail(inbox)
      /\ \/ outbox' = [c \in Channels |-> Append(outbox[c], Answered(r))]
         \/ outbox' = outbox
      /\ UNCHANGED <<nextId, id, st, got, reg, table, thread>>
  BY DEF ServerAnswers
<1>2. /\ Tail(inbox) \in Seq(Requests) /\ r \in Requests /\ r = inbox[1] /\ 1 \in 1..Len(inbox)
      /\ \A i \in 1..Len(Tail(inbox)) : i + 1 \in 1..Len(inbox) /\ Tail(inbox)[i] = inbox[i + 1]
  BY <1>1, TailElements DEF ChannelIndInv, ChannelTypeOK
<1>3. Answered(r) \in [id : 1..PerChannel, request : Requests]
  <2>1. st[r] # "new"
    BY <1>2 DEF ChannelIndInv, TransitInv
  <2>2. id[r] \in 1..PerChannel
    BY <1>2, <2>1, ChannelAssumption DEF ChannelIndInv, ChannelTypeOK, IdsInv
  <2> QED  BY <1>2, <2>2 DEF Answered
<1>4. outbox' \in [Channels -> Seq([id : 1..PerChannel, request : Requests])]
  <2>1. \A c \in Channels : outbox[c] \in Seq([id : 1..PerChannel, request : Requests])
    BY DEF ChannelIndInv, ChannelTypeOK
  <2>2. \A c \in Channels : Append(outbox[c], Answered(r)) \in
                              Seq([id : 1..PerChannel, request : Requests])
    BY <1>3, <2>1, AppendElements
  <2> QED  BY <1>1, <2>2 DEF ChannelIndInv, ChannelTypeOK
<1>5. ChannelTypeOK'
  BY <1>1, <1>2, <1>4 DEF ChannelIndInv, ChannelTypeOK
<1>6. IdsInv' /\ EntriesInv'
  BY <1>1 DEF ChannelIndInv, IdsInv, EntriesInv, Used
<1>7. TransitInv'
  <2>1. \A i \in 1..Len(inbox') : st'[inbox'[i]] # "new"
    BY <1>1, <1>2 DEF ChannelIndInv, TransitInv
  <2>2. ASSUME NEW c \in Channels, NEW i \in 1..Len(outbox'[c])
        PROVE  outbox'[c][i].id = id'[outbox'[c][i].request]
    <3>1. outbox[c] \in Seq([id : 1..PerChannel, request : Requests])
      BY DEF ChannelIndInv, ChannelTypeOK
    <3>2. CASE outbox' = outbox
      BY <1>1, <2>2, <3>2 DEF ChannelIndInv, TransitInv
    <3>3. CASE outbox' = [d \in Channels |-> Append(outbox[d], Answered(r))]
      <4>1. outbox'[c] = Append(outbox[c], Answered(r))
        BY <3>3
      <4>2. \/ i \in 1..Len(outbox[c]) /\ outbox'[c][i] = outbox[c][i]
            \/ outbox'[c][i] = Answered(r)
        BY <1>3, <2>2, <3>1, <4>1, AppendElements
      <4>3. Answered(r).id = id[Answered(r).request]
        BY DEF Answered
      <4> QED  BY <1>1, <4>2, <4>3 DEF ChannelIndInv, TransitInv
    <3> QED  BY <1>1, <3>2, <3>3
  <2> QED  BY <1>1, <2>1, <2>2 DEF ChannelIndInv, TransitInv
<1> QED  BY <1>5, <1>6, <1>7 DEF ChannelIndInv

\* A registration moves from the channel to the map.
LEMMA PollRegistersInv ==
    ASSUME ChannelIndInv, NEW c \in Channels, PollRegisters(c)
    PROVE  ChannelIndInv'
<1> DEFINE r == Head(reg[c])
<1>1. /\ reg[c] # <<>>
      /\ table' = [table EXCEPT ![c] = table[c] \cup {<<id[r], r>>}]
      /\ reg' = [reg EXCEPT ![c] = Tail(reg[c])]
      /\ UNCHANGED <<nextId, id, st, got, thread, inbox, outbox>>
  BY DEF PollRegisters
<1>2. /\ Tail(reg[c]) \in Seq(Requests) /\ Len(Tail(reg[c])) = Len(reg[c]) - 1
      /\ r \in Requests /\ r = reg[c][1] /\ 1 \in 1..Len(reg[c]) /\ Len(reg[c]) \in Nat
      /\ \A i \in 1..Len(Tail(reg[c])) : /\ i + 1 \in 1..Len(reg[c])
                                         /\ Tail(reg[c])[i] = reg[c][i + 1]
                                         /\ i + 1 # 1
  BY <1>1, TailElements DEF ChannelIndInv, ChannelTypeOK
<1>3. st[r] \notin {"new", "answered"} /\ Owner(r) = c
  BY <1>2 DEF ChannelIndInv, EntriesInv
<1>4. <<id[r], r>> \in (1..PerChannel) \X Requests
  BY <1>2, <1>3, ChannelAssumption DEF ChannelIndInv, ChannelTypeOK, IdsInv
<1>5. ChannelTypeOK'
  <2>1. table' \in [Channels -> SUBSET ((1..PerChannel) \X Requests)]
    BY <1>1, <1>4 DEF ChannelIndInv, ChannelTypeOK
  <2>2. /\ reg' \in [Channels -> Seq(Requests)]
        /\ \A d \in Channels : Len(reg'[d]) <= RegCapacity
    BY <1>1, <1>2, ChannelAssumption DEF ChannelIndInv, ChannelTypeOK
  <2> QED  BY <1>1, <2>1, <2>2 DEF ChannelIndInv, ChannelTypeOK
<1>6. IdsInv' /\ TransitInv'
  BY <1>1 DEF ChannelIndInv, IdsInv, TransitInv, Used
<1>7. EntriesInv'
  <2> SUFFICES ASSUME NEW d \in Channels
               PROVE
        /\ \A i \in 1..Len(reg'[d]) : /\ Owner(reg'[d][i]) = d
                                      /\ st[reg'[d][i]] \notin {"new", "answered"}
        /\ \A i, j \in 1..Len(reg'[d]) : reg'[d][i] = reg'[d][j] => i = j
        /\ \A e \in table'[d] : /\ Owner(e[2]) = d /\ e[1] = id[e[2]]
                                /\ st[e[2]] \notin {"new", "answered"}
                                /\ \A i \in 1..Len(reg'[d]) : reg'[d][i] # e[2]
    BY <1>1 DEF EntriesInv
  <2>1. /\ \A i \in 1..Len(reg[d]) : /\ Owner(reg[d][i]) = d
                                     /\ st[reg[d][i]] \notin {"new", "answered"}
        /\ \A i, j \in 1..Len(reg[d]) : reg[d][i] = reg[d][j] => i = j
        /\ \A e \in table[d] : /\ Owner(e[2]) = d /\ e[1] = id[e[2]]
                               /\ st[e[2]] \notin {"new", "answered"}
                               /\ \A i \in 1..Len(reg[d]) : reg[d][i] # e[2]
    BY DEF ChannelIndInv, EntriesInv
  <2>2. CASE d # c
    <3>1. reg'[d] = reg[d] /\ table'[d] = table[d]
      BY <1>1, <2>2 DEF ChannelIndInv, ChannelTypeOK
    <3> QED  BY <2>1, <3>1
  <2>3. CASE d = c
    <3>1. reg'[d] = Tail(reg[c]) /\ table'[d] = table[c] \cup {<<id[r], r>>}
      BY <1>1, <2>3 DEF ChannelIndInv, ChannelTypeOK
    <3>2. \A i, j \in 1..Len(reg'[d]) : reg'[d][i] = reg'[d][j] => i = j
      BY <1>2, <2>1, <2>3, <3>1
    <3>3. \A i \in 1..Len(reg'[d]) : reg'[d][i] # r
      BY <1>2, <2>1, <2>3, <3>1
    <3>4. \A i \in 1..Len(reg'[d]) : \E j \in 1..Len(reg[d]) : reg'[d][i] = reg[d][j]
      BY <1>2, <2>3, <3>1
    <3>5. \A i \in 1..Len(reg'[d]) : /\ Owner(reg'[d][i]) = d
                                     /\ st[reg'[d][i]] \notin {"new", "answered"}
      BY <2>1, <3>4
    <3>6. ASSUME NEW e \in table'[d]
          PROVE  /\ Owner(e[2]) = d /\ e[1] = id[e[2]]
                 /\ st[e[2]] \notin {"new", "answered"}
                 /\ \A i \in 1..Len(reg'[d]) : reg'[d][i] # e[2]
      <4>1. CASE e \in table[c]
        BY <2>1, <2>3, <3>4, <4>1
      <4>2. CASE e = <<id[r], r>>
        BY <1>3, <2>3, <3>3, <4>2
      <4> QED  BY <3>1, <3>6, <4>1, <4>2
    <3> QED  BY <3>2, <3>5, <3>6
  <2> QED  BY <2>2, <2>3
<1> QED  BY <1>5, <1>6, <1>7 DEF ChannelIndInv

\* An answer wakes the caller of the entry with its id, if there is one.
LEMMA PollDispatchesInv ==
    ASSUME ChannelIndInv, NEW c \in Channels, PollDispatches(c)
    PROVE  ChannelIndInv'
<1> DEFINE a == Head(outbox[c])
<1>1. /\ outbox[c] # <<>> /\ outbox' = [outbox EXCEPT ![c] = Tail(outbox[c])]
      /\ UNCHANGED <<nextId, id, reg, thread, inbox>>
  BY DEF PollDispatches
<1>2. outbox[c] \in Seq([id : 1..PerChannel, request : Requests])
  BY DEF ChannelIndInv, ChannelTypeOK
<1>3. /\ Tail(outbox[c]) \in Seq([id : 1..PerChannel, request : Requests])
      /\ a \in [id : 1..PerChannel, request : Requests]
      /\ a = outbox[c][1] /\ 1 \in 1..Len(outbox[c])
      /\ \A i \in 1..Len(Tail(outbox[c])) : /\ i + 1 \in 1..Len(outbox[c])
                                            /\ Tail(outbox[c])[i] = outbox[c][i + 1]
  BY <1>1, <1>2, TailElements
<1>4. a.request \in Requests /\ a.id = id[a.request] /\ a.id \in 1..PerChannel
  BY <1>3 DEF ChannelIndInv, TransitInv
<1>5. outbox' \in [Channels -> Seq([id : 1..PerChannel, request : Requests])]
  BY <1>1, <1>3 DEF ChannelIndInv, ChannelTypeOK
<1>6. \A d \in Channels : \A i \in 1..Len(outbox'[d]) :
         outbox'[d][i].id = id[outbox'[d][i].request]
  <2> SUFFICES ASSUME NEW d \in Channels, NEW i \in 1..Len(outbox'[d])
               PROVE  outbox'[d][i].id = id[outbox'[d][i].request]
    OBVIOUS
  <2>1. \E j \in 1..Len(outbox[d]) : outbox'[d][i] = outbox[d][j]
    BY <1>1, <1>3 DEF ChannelIndInv, ChannelTypeOK
  <2> QED  BY <2>1 DEF ChannelIndInv, TransitInv
<1>7. CASE UNCHANGED <<table, got, st>>
  <2>1. ChannelTypeOK'
    BY <1>1, <1>5, <1>7 DEF ChannelIndInv, ChannelTypeOK
  <2>2. IdsInv' /\ EntriesInv'
    BY <1>1, <1>7 DEF ChannelIndInv, IdsInv, EntriesInv, Used
  <2>3. TransitInv'
    BY <1>1, <1>6, <1>7 DEF ChannelIndInv, TransitInv
  <2> QED  BY <2>1, <2>2, <2>3 DEF ChannelIndInv
<1>8. ASSUME NEW e \in table[c], e[1] = a.id, Take(c, a, e)
      PROVE  ChannelIndInv'
  <2>1. /\ e[2] \in Requests /\ Owner(e[2]) = c /\ e[1] = id[e[2]]
        /\ st[e[2]] \notin {"new", "answered"}
        /\ \A i \in 1..Len(reg[c]) : reg[c][i] # e[2]
    BY <1>8 DEF ChannelIndInv, ChannelTypeOK, EntriesInv
  <2>2. PICK q \in Requests : q = e[2]
    BY <2>1
  <2>3. /\ table' = [table EXCEPT ![c] = table[c] \ {e}]
        /\ got' = [got EXCEPT ![q] = IF st[q] = "waiting" THEN a.request ELSE got[q]]
        /\ st' = [st EXCEPT ![q] = IF st[q] = "waiting" THEN "answered" ELSE st[q]]
    BY <1>8, <2>2 DEF Take
  <2>4. ChannelTypeOK'
    <3>1. table' \in [Channels -> SUBSET ((1..PerChannel) \X Requests)]
      BY <2>3 DEF ChannelIndInv, ChannelTypeOK
    <3>2. got' \in [Requests -> Requests \cup {<<>>}] /\ st' \in [Requests -> CallStatus]
      BY <1>4, <2>3 DEF ChannelIndInv, ChannelTypeOK, CallStatus
    <3> QED  BY <1>1, <1>5, <3>1, <3>2 DEF ChannelIndInv, ChannelTypeOK
  <2>5. \A x \in Requests : /\ st'[x] = "new" <=> st[x] = "new"
                            /\ x # q => st'[x] = st[x] /\ got'[x] = got[x]
    BY <2>1, <2>2, <2>3 DEF ChannelIndInv, ChannelTypeOK
  <2>6. IdsInv'
    <3>1. \A d \in Channels : Used(d)' = Used(d)
      BY <2>5 DEF Used
    <3> QED  BY <1>1, <2>5, <3>1 DEF ChannelIndInv, IdsInv
  <2>7. EntriesInv'
    <3> SUFFICES ASSUME NEW d \in Channels
                 PROVE
          /\ \A i \in 1..Len(reg[d]) : /\ Owner(reg[d][i]) = d
                                       /\ st'[reg[d][i]] \notin {"new", "answered"}
          /\ \A i, j \in 1..Len(reg[d]) : reg[d][i] = reg[d][j] => i = j
          /\ \A x \in table'[d] : /\ Owner(x[2]) = d /\ x[1] = id[x[2]]
                                  /\ st'[x[2]] \notin {"new", "answered"}
                                  /\ \A i \in 1..Len(reg[d]) : reg[d][i] # x[2]
      BY <1>1 DEF EntriesInv
    <3>1. \A i \in 1..Len(reg[d]) : reg[d][i] \in Requests /\ reg[d][i] # q
      BY <2>1, <2>2 DEF ChannelIndInv, ChannelTypeOK, EntriesInv
    <3>2. ASSUME NEW x \in table'[d]
          PROVE  x \in table[d] /\ x[2] \in Requests /\ x[2] # q
      <4>1. x \in table[d] /\ (d = c => x # e)
        BY <2>3, <3>2 DEF ChannelIndInv, ChannelTypeOK
      <4>2. x \in (1..PerChannel) \X Requests /\ e \in (1..PerChannel) \X Requests
        BY <1>8, <4>1 DEF ChannelIndInv, ChannelTypeOK
      <4>3. Owner(x[2]) = d /\ x[1] = id[x[2]]
        BY <4>1 DEF ChannelIndInv, EntriesInv
      <4>4. x[2] = q => x = e
        <5> SUFFICES ASSUME x[2] = q  PROVE x = e
          OBVIOUS
        <5>1. x[1] = e[1] /\ x[2] = e[2]
          BY <2>1, <2>2, <4>3
        <5> QED  BY <4>2, <5>1
      <4>5. x[2] = q => d = c
        BY <2>1, <2>2, <4>3
      <4> QED  BY <4>1, <4>2, <4>4, <4>5
    <3> QED  BY <2>5, <3>1, <3>2 DEF ChannelIndInv, EntriesInv
  <2>8. TransitInv'
    <3>1. \A i \in 1..Len(inbox') : st'[inbox'[i]] # "new"
      <4>1. \A i \in 1..Len(inbox) : inbox[i] \in Requests /\ st[inbox[i]] # "new"
        BY SeqElement DEF ChannelIndInv, ChannelTypeOK, TransitInv
      <4> QED  BY <1>1, <2>5, <4>1
    <3>2. \A x \in Requests : got'[x] # <<>> => id'[got'[x]] = id'[x] /\ st'[got'[x]] # "new"
      <4> SUFFICES ASSUME NEW x \in Requests, got'[x] # <<>>
                   PROVE  id[got'[x]] = id[x] /\ st'[got'[x]] # "new"
        BY <1>1
      <4>1. CASE x = q /\ st[q] = "waiting"
        <5>1. got'[x] = a.request
          BY <2>3, <4>1 DEF ChannelIndInv, ChannelTypeOK
        <5>2. id[a.request] = id[x] /\ id[a.request] # 0
          BY <1>4, <1>8, <2>1, <2>2, <4>1
        <5>3. st[a.request] # "new"
          BY <1>4, <5>2 DEF ChannelIndInv, IdsInv
        <5> QED  BY <1>4, <2>5, <5>1, <5>2, <5>3
      <4>2. CASE ~(x = q /\ st[q] = "waiting")
        <5>1. got'[x] = got[x]
          BY <2>3, <4>2 DEF ChannelIndInv, ChannelTypeOK
        <5>2. got[x] \in Requests /\ id[got[x]] = id[x] /\ st[got[x]] # "new"
          BY <5>1 DEF ChannelIndInv, ChannelTypeOK, TransitInv
        <5> QED  BY <2>5, <5>1, <5>2
      <4> QED  BY <4>1, <4>2
    <3>3. \A x \in Requests : st'[x] = "answered" => got'[x] # <<>>
      <4> SUFFICES ASSUME NEW x \in Requests, st'[x] = "answered"
                   PROVE  got'[x] # <<>>
        OBVIOUS
      <4>1. CASE x = q
        <5>1. st[q] = "waiting" /\ got'[q] = a.request
          BY <2>1, <2>2, <2>3, <4>1 DEF ChannelIndInv, ChannelTypeOK
        <5> QED  BY <1>4, <4>1, <5>1, RequestFacts
      <4>2. CASE x # q
        BY <2>5, <4>2 DEF ChannelIndInv, TransitInv
      <4> QED  BY <4>1, <4>2
    <3>4. \A d \in Channels : \A i \in 1..Len(outbox'[d]) :
             outbox'[d][i].id = id'[outbox'[d][i].request]
      BY ZenonT(30), <1>1, <1>6
    <3> QED  BY <3>1, <3>2, <3>3, <3>4 DEF TransitInv
  <2> QED  BY <2>4, <2>6, <2>7, <2>8 DEF ChannelIndInv
<1> QED  BY <1>7, <1>8 DEF PollDispatches

\* The loop's other steps touch only the thread's place in it.
LEMMA PollLoopInv ==
    ASSUME ChannelIndInv, NEW c \in Channels, PollStarts(c) \/ PollEnds(c)
    PROVE  ChannelIndInv'
<1>1. /\ \E s \in {"drain", "poll"} : thread' = [thread EXCEPT ![c] = s]
      /\ UNCHANGED <<nextId, id, st, got, reg, table, inbox, outbox>>
  BY DEF PollStarts, PollEnds
<1>2. ChannelTypeOK'
  BY <1>1 DEF ChannelIndInv, ChannelTypeOK
<1>3. IdsInv' /\ EntriesInv'
  BY <1>1 DEF ChannelIndInv, IdsInv, EntriesInv, Used
<1>4. TransitInv'
  BY <1>1 DEF ChannelIndInv, TransitInv
<1> QED  BY <1>2, <1>3, <1>4 DEF ChannelIndInv

-----------------------------------------------------------------------------
(***************************************************************************)
(* The theorems.                                                           *)
(***************************************************************************)

\* The first state satisfies the invariant.
LEMMA ChannelIndInvInit == ChannelInit => ChannelIndInv
<1> SUFFICES ASSUME ChannelInit  PROVE ChannelIndInv
  OBVIOUS
<1>1. ChannelTypeOK
  BY ChannelAssumption DEF ChannelInit, ChannelTypeOK, CallStatus
<1>2. \A c \in Channels : Used(c) = {}
  BY DEF ChannelInit, Used
<1>3. IdsInv
  <2>1. \A c \in Channels : nextId[c] = Cardinality(Used(c)) + 1
    <3>1. \A c \in Channels : nextId[c] = 1
      BY DEF ChannelInit
    <3>2. \A c \in Channels : Cardinality(Used(c)) = 0
      BY <1>2, FS_EmptySet, Zenon
    <3> QED  BY <3>1, <3>2
  <2>2. \A r \in Requests : st[r] = "new" /\ id[r] = 0 /\ id[r] < nextId[Owner(r)]
    BY RequestFacts DEF ChannelInit
  <2> QED  BY <2>1, <2>2 DEF IdsInv
<1>4. EntriesInv /\ TransitInv
  BY DEF ChannelInit, EntriesInv, TransitInv
<1> QED  BY <1>1, <1>3, <1>4 DEF ChannelIndInv

\* Every step keeps the invariant.
LEMMA ChannelIndInvNext == ChannelIndInv /\ [ChannelNext]_channelVars => ChannelIndInv'
<1> SUFFICES ASSUME ChannelIndInv, [ChannelNext]_channelVars  PROVE ChannelIndInv'
  OBVIOUS
<1>1. CASE UNCHANGED channelVars
  <2>1. ChannelTypeOK' /\ IdsInv'
    BY <1>1 DEF channelVars, ChannelIndInv, ChannelTypeOK, IdsInv, Used
  <2>2. EntriesInv' /\ TransitInv'
    BY <1>1 DEF channelVars, ChannelIndInv, EntriesInv, TransitInv
  <2> QED  BY <2>1, <2>2 DEF ChannelIndInv
<1>2. CASE ChannelNext
  BY <1>2, RegisterInv, PublishInv, TimeoutInv, ServerInv, PollRegistersInv,
     PollDispatchesInv, PollLoopInv DEF ChannelNext
<1> QED  BY <1>1, <1>2

\* The invariant that ties ids, registrations, entries and answers together
\* holds for any number of channels.
THEOREM ChannelInv == ChannelSpec => []ChannelIndInv
  BY ChannelIndInvInit, ChannelIndInvNext, PTL DEF ChannelSpec

\* Type correctness: correlation ids never run past the requests made, and the
\* registration channel stays within its capacity.
THEOREM ChannelTypeCorrect == ChannelSpec => []ChannelTypeOK
<1>1. ChannelIndInv => ChannelTypeOK
  BY DEF ChannelIndInv
<1> QED  BY <1>1, ChannelInv, PTL

\* Whatever is read, answered or handed over was published.
SentInv ==
    /\ \A i \in 1..Len(inbox) : Published(inbox[i])
    /\ \A c \in Channels : \A i \in 1..Len(outbox[c]) : Published(outbox[c][i].request)
    /\ \A r \in Requests : got[r] # <<>> => Published(got[r])

\* A request that was published stays so.
LEMMA StaysPublished ==
    ASSUME ChannelIndInv, ChannelNext
    PROVE  \A q \in Requests : Published(q) => Published(q)'
<1> SUFFICES ASSUME NEW q \in Requests, Published(q)
             PROVE  Published(q)'
  OBVIOUS
<1>0. st \in [Requests -> CallStatus]
  BY DEF ChannelIndInv, ChannelTypeOK
<1>1. CASE UNCHANGED st
  BY <1>1 DEF Published
<1>2. CASE \E r \in Requests : Register(r) \/ Publish(r) \/ Timeout(r)
  BY <1>0, <1>2 DEF Register, Publish, Timeout, Published
<1>3. ASSUME NEW c \in Channels, PollDispatches(c), st' # st
      PROVE  Published(q)'
  <2>1. PICK e \in table[c] : st' = [st EXCEPT ![e[2]] = IF st[e[2]] = "waiting" THEN "answered"
                                                        ELSE st[e[2]]]
    BY <1>3 DEF PollDispatches, Take
  <2> QED  BY <1>0, <2>1 DEF Published
<1> QED  BY <1>1, <1>2, <1>3 DEF ChannelNext, ServerAnswers, PollRegisters, PollStarts, PollEnds

\* Every step keeps SentInv.
LEMMA SentNext == ChannelIndInv /\ SentInv /\ [ChannelNext]_channelVars => SentInv'
<1> DEFINE Pub == {"waiting", "timeout", "answered"}
<1> SUFFICES ASSUME ChannelIndInv, SentInv, [ChannelNext]_channelVars  PROVE SentInv'
  OBVIOUS
<1>1. CASE UNCHANGED channelVars
  BY <1>1 DEF channelVars, SentInv, Published
<1>2. CASE ChannelNext
  <2>0. /\ inbox \in Seq(Requests) /\ got \in [Requests -> Requests \cup {<<>>}]
        /\ outbox \in [Channels -> Seq([id : 1..PerChannel, request : Requests])]
        /\ st \in [Requests -> CallStatus]
    BY DEF ChannelIndInv, ChannelTypeOK
  <2>1. \A q \in Requests : Published(q) => st'[q] \in Pub
    BY <1>2, StaysPublished DEF Published
  <2>2. \A i \in 1..Len(inbox) : inbox[i] \in Requests /\ st'[inbox[i]] \in Pub
    BY <2>0, <2>1 DEF SentInv
  <2>3. \A c \in Channels : \A i \in 1..Len(outbox[c]) :
           outbox[c][i].request \in Requests /\ st'[outbox[c][i].request] \in Pub
    <3> SUFFICES ASSUME NEW c \in Channels, NEW i \in 1..Len(outbox[c])
                 PROVE  outbox[c][i].request \in Requests /\ st'[outbox[c][i].request] \in Pub
      OBVIOUS
    <3>1. outbox[c] \in Seq([id : 1..PerChannel, request : Requests])
      BY <2>0
    <3>2. outbox[c][i] \in [id : 1..PerChannel, request : Requests]
      BY <3>1, SeqElement
    <3>3. outbox[c][i].request \in Requests
      BY <3>2
    <3> QED  BY <2>1, <3>3 DEF SentInv
  <2>4. \A r \in Requests : got[r] # <<>> => got[r] \in Requests /\ st'[got[r]] \in Pub
    BY <2>0, <2>1 DEF SentInv
  <2>5. CASE UNCHANGED <<inbox, outbox, got>>
    <3>1. \A i \in 1..Len(inbox') : st'[inbox[i]] \in Pub
      BY <2>2, <2>5
    <3>2. \A c \in Channels : \A i \in 1..Len(outbox'[c]) : st'[outbox[c][i].request] \in Pub
      BY <2>3, <2>5
    <3> QED  BY <2>4, <2>5, <3>1, <3>2 DEF SentInv, Published
  <2>6. ASSUME NEW r \in Requests, Publish(r), inbox' # inbox
        PROVE  SentInv'
    <3>1. inbox' = Append(inbox, r) /\ st'[r] = "waiting" /\ UNCHANGED <<outbox, got>>
      BY <2>0, <2>6 DEF Publish
    <3>2. \A i \in 1..Len(inbox') : st'[inbox'[i]] \in Pub
      <4>1. \A i \in 1..Len(inbox') :
               (i \in 1..Len(inbox) /\ inbox'[i] = inbox[i]) \/ inbox'[i] = r
        BY <2>0, <3>1, AppendElements
      <4> QED  BY <2>2, <3>1, <4>1 DEF Published
    <3> QED  BY <2>3, <2>4, <3>1, <3>2 DEF SentInv, Published
  <2>7. CASE ServerAnswers
    <3>1. inbox # <<>> /\ inbox' = Tail(inbox) /\ UNCHANGED got /\ UNCHANGED st
      BY <2>7 DEF ServerAnswers
    <3>2. /\ Head(inbox) \in Requests /\ Head(inbox) = inbox[1] /\ 1 \in 1..Len(inbox)
          /\ \A i \in 1..Len(Tail(inbox)) : i + 1 \in 1..Len(inbox) /\ Tail(inbox)[i] = inbox[i + 1]
      BY <2>0, <3>1, TailElements
    <3>3. \A i \in 1..Len(inbox') : st'[inbox'[i]] \in Pub
      BY <2>2, <3>1, <3>2 DEF Published
    <3>4. ASSUME NEW c \in Channels, NEW i \in 1..Len(outbox'[c])
          PROVE  st'[outbox'[c][i].request] \in Pub
      <4>1. CASE outbox' = outbox
        BY <2>3, <3>4, <4>1 DEF Published
      <4>2. CASE outbox' = [d \in Channels |-> Append(outbox[d], Answered(Head(inbox)))]
        <5>1. outbox'[c] = Append(outbox[c], Answered(Head(inbox)))
          BY <4>2
        <5>2. outbox[c] \in Seq([id : 1..PerChannel, request : Requests])
          BY <2>0
        <5>3. \/ i \in 1..Len(outbox[c]) /\ outbox'[c][i] = outbox[c][i]
              \/ outbox'[c][i] = Answered(Head(inbox))
          BY <3>4, <5>1, <5>2
        <5>4. Answered(Head(inbox)).request = inbox[1]
          BY <3>2 DEF Answered
        <5> QED  BY <2>2, <2>3, <3>2, <5>3, <5>4 DEF Published
      <4> QED  BY <2>7, <4>1, <4>2 DEF ServerAnswers
    <3> QED  BY <2>4, <3>1, <3>3, <3>4 DEF SentInv, Published
  <2>8. ASSUME NEW c \in Channels, PollDispatches(c)
        PROVE  SentInv'
    <3>1. outbox[c] # <<>> /\ outbox' = [outbox EXCEPT ![c] = Tail(outbox[c])] /\ UNCHANGED inbox
      BY <2>8 DEF PollDispatches
    <3>2. outbox[c] \in Seq([id : 1..PerChannel, request : Requests])
      BY <2>0
    <3>3. /\ Head(outbox[c]) = outbox[c][1] /\ 1 \in 1..Len(outbox[c])
          /\ \A i \in 1..Len(Tail(outbox[c])) : /\ i + 1 \in 1..Len(outbox[c])
                                                /\ Tail(outbox[c])[i] = outbox[c][i + 1]
      BY <3>1, <3>2, TailElements
    <3>4. ASSUME NEW d \in Channels, NEW i \in 1..Len(outbox'[d])
          PROVE  st'[outbox'[d][i].request] \in Pub
      <4>1. PICK j \in 1..Len(outbox[d]) : outbox'[d][i] = outbox[d][j]
        BY <2>0, <3>1, <3>3, <3>4
      <4> QED  BY <2>3, <4>1 DEF Published
    <3>5. ASSUME NEW r \in Requests, got'[r] # <<>>
          PROVE  st'[got'[r]] \in Pub
      <4>1. got'[r] = got[r] \/ got'[r] = outbox[c][1].request
        BY <2>0, <2>8, <3>3 DEF PollDispatches, Take
      <4> QED  BY <2>3, <2>4, <3>3, <3>5, <4>1 DEF Published
    <3>6. \A i \in 1..Len(inbox') : st'[inbox'[i]] \in Pub
      BY <2>2, <3>1 DEF Published
    <3> QED  BY <3>4, <3>5, <3>6 DEF SentInv, Published
  <2> QED  BY <1>2, <2>5, <2>6, <2>7, <2>8
           DEF ChannelNext, Register, Publish, Timeout, PollRegisters, PollStarts, PollEnds
<1> QED  BY <1>1, <1>2

\* send_and_receive matches answers by correlation id, with any number of
\* channels on the stream and whatever is late, lost or given up: a caller gets
\* the answer to a published request of its own number, of its own channel only
\* its own.
THEOREM AnswersCarryTheId == ChannelSpec => []AnsweredById
<1>1. ASSUME ChannelIndInv, SentInv  PROVE AnsweredById
  <2>1. ASSUME NEW r \in Requests, st[r] = "answered"
        PROVE  /\ Published(got[r]) /\ id[got[r]] = id[r]
               /\ Owner(got[r]) = Owner(r) => got[r] = r
    <3>1. got[r] \in Requests /\ id[got[r]] = id[r] /\ id[r] # 0 /\ Published(got[r])
      BY <1>1, <2>1 DEF ChannelIndInv, ChannelTypeOK, TransitInv, IdsInv, SentInv
    <3> QED  BY <1>1, <3>1 DEF ChannelIndInv, IdsInv
  <2>2. \A c \in Channels : \A e \in table[c] :
           Owner(e[2]) = c /\ e[1] = id[e[2]] /\ st[e[2]] # "answered"
    BY <1>1 DEF ChannelIndInv, EntriesInv
  <2> QED  BY <2>1, <2>2 DEF AnsweredById
<1>2. ChannelIndInv /\ SentInv => AnsweredById
  BY <1>1
<1>3. ChannelInit => SentInv
  BY DEF ChannelInit, SentInv
<1> QED  BY <1>2, <1>3, ChannelInv, SentNext, PTL DEF ChannelSpec

=============================================================================
