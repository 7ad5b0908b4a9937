-------------------------- MODULE TransferServices --------------------------
(***************************************************************************)
(* Internal Transfer V2 over the services it runs with in production:      *)
(* Funding is TigerBeetle (adapters/funding.rs), Trading is UBSCore over   *)
(* Aeron (adapters/trading.rs), or TigerBeetle too when main() could not   *)
(* reach UBSCore at the start of the process.  Every transfer is of one    *)
(* unit, for one user and asset.  TigerBeetle refuses a transfer id it has *)
(* seen before; UBSCore applies every message it reads, and its answers    *)
(* come over a stream that other channels with the same correlation ids    *)
(* read and write too (AeronChannel), so a caller may be handed the answer *)
(* to somebody else's request.                                             *)
(***************************************************************************)
EXTENDS TransferCoordinator

CONSTANTS
    Adapters,     \* the Trading adapters main() may choose: "ubs", "tb"
    Balance,      \* the user's available balance in UBSCore at the start
    MaxLost,      \* bound: answers that are lost or come too late
    MaxForeign,   \* bound: calls that are handed another request's answer
    MaxApplied    \* bound: messages of one kind per transfer that are counted

\* req_ids are Snowflake numbers
ASSUME ServicesAssumption ==
    /\ Transfers \subseteq Nat
    /\ Adapters # {} /\ Adapters \subseteq {"ubs", "tb"}
    /\ Balance \in Nat /\ MaxLost \in Nat /\ MaxForeign \in Nat
    /\ MaxApplied \in Nat \ {0}

VARIABLES
    adapter,   \* the Trading adapter the process of each worker runs with
    tb,        \* TigerBeetle's transfers by id
    tbTrading, \* TigerBeetle's transfers under TbTradingAdapter's ids
    avail,     \* the user's available balance in UBSCore
    debits,    \* withdraw messages of each transfer UBSCore accepted
    credits,   \* deposit messages of each transfer UBSCore accepted
    call,      \* the call each task awaits: "none", "sent" or its answer
    late,      \* messages nobody waits for that a service may still execute
    lost,      \* answers lost so far
    foreign,   \* calls handed another request's answer so far
    misled,    \* history: the transfers of those calls
    dropped    \* history: the transfers whose commit call was given up

historyVars == <<foreign, misled, dropped>>
serviceVars == <<adapter, tb, tbTrading, avail, debits, credits, call, late, lost, historyVars>>
vars == <<coordVars, serviceVars>>

TbIds == {t + i : t \in Transfers, i \in 0..2}

PostId(t) == t + 1
VoidId(t) == t + 2

\* the services of a transfer: withdraw, commit and rollback go to its source
Target(t) == IF source[t] = "funding" THEN "trading" ELSE "funding"
ServiceOf(t, o) == IF o = "deposit" THEN Target(t) ELSE source[t]

-----------------------------------------------------------------------------
(***************************************************************************)
(* TbFundingAdapter: create_transfers with an id of its own.  Any error,   *)
(* "exists" included, is answered as Pending.                              *)
(***************************************************************************)

\* TigerBeetle: withdraw creates a pending transfer, deposit a plain one
TbCreates(t, kind) ==
    IF tb[t] = "free" THEN [tb EXCEPT ![t] = kind] ELSE tb

\* TigerBeetle: commit posts, rollback voids the pending transfer, under a
\* second id
TbResolves(t, i, kind) ==
    IF tb[i] = "free" /\ tb[t] = "pending"
      THEN [tb EXCEPT ![t] = kind, ![i] = "resolution"] ELSE tb

\* Mutant: commit voids the pending transfer.
TbAfterSwapped(t, o) ==
    CASE o = "withdraw" -> TbCreates(t, "pending")
      [] o = "deposit"  -> TbCreates(t, "deposited")
      [] o = "commit"   -> TbResolves(t, VoidId(t), "voided")
      [] OTHER          -> TbResolves(t, PostId(t), "posted")

TbAfter(t, o) ==
    CASE o = "withdraw" -> TbCreates(t, "pending")
      [] o = "deposit"  -> TbCreates(t, "deposited")
      [] o = "commit"   -> TbResolves(t, PostId(t), "posted")
      [] OTHER          -> TbResolves(t, VoidId(t), "voided")

\* a call to Funding takes effect; answer is what the adapter will return
FundingExecutes(t, o, answer) ==
    /\ ServiceOf(t, o) = "funding"
    /\ tb' = TbAfter(t, o)
    /\ answer = IF tb' = tb THEN "Pending" ELSE "Success"
    /\ UNCHANGED <<tbTrading, avail, debits, credits>>

\* one more message applied, counted up to MaxApplied
Counted(n) == IF n < MaxApplied THEN n + 1 ELSE n

\* Mutant: UBSCore accepts a withdraw without taking it from the balance.
TradingAccepts(t, o, answer) ==
    /\ ServiceOf(t, o) = "trading"
    /\ answer = "Success"
    /\ credits' = [credits EXCEPT ![t] = IF o = "deposit" THEN Counted(@) ELSE @]
    /\ UNCHANGED <<tb, tbTrading, avail, debits>>

\* Mutant: on_withdraw does not check the balance.
TradingOverdraws(t, o, answer) ==
    /\ ServiceOf(t, o) = "trading"
    /\ answer = "Success"
    /\ avail' = IF o = "withdraw" THEN avail - 1 ELSE avail
    /\ UNCHANGED <<tb, tbTrading, debits, credits>>

\* UbsTradingAdapter and UBSCore: on_withdraw checks the balance, on_deposit
\* always accepts, neither looks at tx_id
TradingExecutes(t, o, answer) ==
    /\ ServiceOf(t, o) = "trading"
    /\ CASE o = "withdraw" ->
              IF avail > 0
                THEN /\ answer = "Success"
                     /\ avail' = avail - 1
                     /\ debits' = [debits EXCEPT ![t] = Counted(@)]
                     /\ UNCHANGED credits
                ELSE answer = "Failed" /\ UNCHANGED <<avail, debits, credits>>
         [] o = "deposit" ->
              /\ answer = "Success"
              /\ avail' = IF credits[t] < MaxApplied THEN avail + 1 ELSE avail
              /\ credits' = [credits EXCEPT ![t] = Counted(@)]
              /\ UNCHANGED debits
         [] o = "commit" -> answer = "Success" /\ UNCHANGED <<avail, debits, credits>>
         [] OTHER -> answer = "Failed" /\ UNCHANGED <<avail, debits, credits>>
    /\ UNCHANGED <<tb, tbTrading>>

\* TbTradingAdapter: like Funding's, but commit and rollback name neither an
\* id of their own nor the pending transfer's, and TigerBeetle refuses both
TbTradingExecutes(t, o, answer) ==
    /\ ServiceOf(t, o) = "trading"
    /\ IF tbTrading[t] = "free" /\ o \in {"withdraw", "deposit"}
         THEN /\ tbTrading' = [tbTrading EXCEPT ![t] =
                                 IF o = "withdraw" THEN "pending" ELSE "deposited"]
              /\ answer = "Success"
         ELSE /\ answer = IF o = "rollback" THEN "Failed" ELSE "Pending"
              /\ UNCHANGED tbTrading
    /\ UNCHANGED <<tb, avail, debits, credits>>

\* a call of operation o, made with Trading adapter a, takes effect
Executes(t, o, a, answer) ==
    \/ FundingExecutes(t, o, answer)
    \/ a = "ubs" /\ TradingExecutes(t, o, answer)
    \/ a = "tb" /\ TbTradingExecutes(t, o, answer)

-----------------------------------------------------------------------------
(***************************************************************************)
(* Calls, answers and what gets lost between them.                         *)
(***************************************************************************)

\* the operation a task awaits
Awaited(p) == IF proc[p].pc = "finalize" THEN "commit" ELSE OpOf(proc[p].st)

\* the adapter of the process a task belongs to
AdapterOf(p) == adapter[IF p \in Workers THEN p ELSE QueueWorker]

CallSent(p) ==
    /\ \/ proc[p].pc = "call" /\ Goto(p, "await")
       \/ proc[p].pc = "commit" /\ Goto(p, "finalize")
    /\ call' = [call EXCEPT ![p] = "sent"]
    /\ UNCHANGED <<state, source, todo, queue, told, crashes,
                   adapter, tb, tbTrading, avail, debits, credits, late, lost, historyVars>>

ServiceExecutes(p) ==
    /\ call[p] = "sent"
    /\ \E answer \in OpResult :
          /\ Executes(proc[p].tx, Awaited(p), AdapterOf(p), answer)
          /\ call' = [call EXCEPT ![p] = answer]
    /\ UNCHANGED <<coordVars, adapter, late, lost, historyVars>>

\* a message whose sender gave up or died
ServiceExecutesLate(m) ==
    /\ m \in late
    /\ late' = late \ {m}
    /\ \E answer \in OpResult : Executes(m[1], m[2], m[3], answer)
    /\ UNCHANGED <<coordVars, adapter, call, lost, historyVars>>

Returns(p, answer) ==
    \/ CallReturns(p, answer)
    \/ FinalizeReturns(p)

CallAnswered(p) ==
    /\ call[p] \in OpResult
    /\ Returns(p, call[p])
    /\ call' = [call EXCEPT ![p] = "none"]
    /\ UNCHANGED <<state, source, todo, queue, told, crashes,
                   adapter, tb, tbTrading, avail, debits, credits, late, lost, historyVars>>

\* the messages tasks S leave behind: each may still arrive
Abandons(S) ==
    \E M \in SUBSET {<<proc[p].tx, Awaited(p), AdapterOf(p)>> :
                        p \in {q \in S : call[q] = "sent"}} :
        late' = late \cup M

\* the adapter gives up: the answer is lost, or the message itself
CallLost(p) ==
    /\ lost < MaxLost
    /\ lost' = lost + 1
    /\ call[p] # "none"
    /\ Returns(p, "Pending")
    /\ Abandons({p})
    /\ call' = [call EXCEPT ![p] = "none"]
    /\ dropped' = IF proc[p].pc = "finalize" /\ call[p] = "sent"
                    THEN dropped \cup {proc[p].tx} ELSE dropped
    /\ UNCHANGED <<state, source, todo, queue, told, crashes,
                   adapter, tb, tbTrading, avail, debits, credits, foreign, misled>>

\* a withdraw or deposit over Aeron is handed the answer another channel's
\* request with the same id got, from whatever kind of request; its own
\* message may still be executed.  (Commit and rollback send no message.)
CallMisanswered(p) ==
    /\ foreign < MaxForeign
    /\ foreign' = foreign + 1
    /\ call[p] # "none"
    /\ AdapterOf(p) = "ubs" /\ ServiceOf(proc[p].tx, Awaited(p)) = "trading"
    /\ Awaited(p) \in {"withdraw", "deposit"}
    /\ \E answer \in {"Success", "Failed"} : Returns(p, answer)
    /\ Abandons({p})
    /\ call' = [call EXCEPT ![p] = "none"]
    /\ misled' = misled \cup {proc[p].tx}
    /\ UNCHANGED <<state, source, todo, queue, told, crashes,
                   adapter, tb, tbTrading, avail, debits, credits, lost, dropped>>

\* the process of w dies; the one that replaces it chooses its adapter anew
CrashLoses(w) ==
    LET gone == {p \in Procs : call[p] # "none" /\ (p = w \/ (w = QueueWorker /\ p \in Transfers))}
    IN  /\ Crash(w)
        /\ Abandons(gone)
        /\ call' = [p \in Procs |-> IF p \in gone THEN "none" ELSE call[p]]
        /\ \E a \in Adapters : adapter' = [adapter EXCEPT ![w] = a]
        /\ UNCHANGED <<tb, tbTrading, avail, debits, credits, lost, historyVars>>

-----------------------------------------------------------------------------
Init ==
    /\ CoordInit
    /\ adapter \in [Workers -> Adapters]
    /\ tb = [i \in TbIds |-> "free"]
    /\ tbTrading = [t \in Transfers |-> "free"]
    /\ avail = Balance
    /\ debits = [t \in Transfers |-> 0]
    /\ credits = [t \in Transfers |-> 0]
    /\ call = [p \in Procs |-> "none"]
    /\ late = {}
    /\ lost = 0 /\ foreign = 0
    /\ misled = {} /\ dropped = {}

Next ==
    \/ CoordNext /\ UNCHANGED serviceVars
    \/ \E p \in Procs : \/ CallSent(p) \/ ServiceExecutes(p)
                        \/ CallAnswered(p) \/ CallLost(p) \/ CallMisanswered(p)
    \/ \E m \in late : ServiceExecutesLate(m)
    \/ \E w \in Workers : CrashLoses(w)

Spec == Init /\ [][Next]_vars

-----------------------------------------------------------------------------
(***************************************************************************)
(* Properties                                                              *)
(***************************************************************************)

\* The type invariant.
TypeOK ==
    /\ CoordTypeOK
    /\ adapter \in [Workers -> Adapters]
    /\ tbTrading \in [Transfers -> {"free", "pending", "deposited"}]
    /\ tb \in [TbIds -> {"free", "pending", "posted", "voided", "deposited", "resolution"}]
    /\ avail \in Nat
    /\ debits \in [Transfers -> 0..MaxApplied]
    /\ credits \in [Transfers -> 0..MaxApplied]
    /\ call \in [Procs -> OpResult \cup {"none", "sent"}]
    /\ late \subseteq Transfers \X {"withdraw", "deposit", "commit", "rollback"} \X Adapters
    /\ lost \in 0..MaxLost /\ foreign \in 0..MaxForeign
    /\ misled \subseteq Transfers /\ dropped \subseteq Transfers

Debited(t)  == IF source[t] = "trading" THEN debits[t] > 0 \/ tbTrading[t] = "pending"
               ELSE tb[t] \in {"pending", "posted"}
Credited(t) == IF source[t] = "trading" THEN tb[t] = "deposited"
               ELSE credits[t] > 0 \/ tbTrading[t] = "deposited"

\* No credit without a debit, and no commit without a credit, with the
\* production adapters too, whatever is lost, late or repeated: for every
\* transfer whose calls got no other request's answer.
CreditFollowsDebit ==
    \A t \in Transfers \ misled :
        /\ Credited(t) => Debited(t)
        /\ state[t] = "committed" \/ told[t] = "committed" => Credited(t)

\* state.rs says of SourceDone: "Source confirmed debit/freeze".  Every transfer
\* that came that far was debited.
SourceConfirmed ==
    \A t \in Transfers :
        state[t] \in {"source_done", "target_pending", "committed"} => Debited(t)

\* finalize_source_commit ignores what commit answers, yet the row is only
\* committed after its pending TigerBeetle transfer was posted, over crashes,
\* retries and late messages, with two exceptions: the commit call itself was
\* given up, or its id is another transfer's.
CommittedIsPosted ==
    \A t \in Transfers \ (misled \cup dropped) :
        state[t] = "committed" /\ source[t] = "funding" =>
            \/ tb[t] = "posted"
            \/ tb[t] = "pending" /\ tb[PostId(t)] # "free"

\* funding.rs, commit: "Post the pending transfer (release frozen funds)".
FundsReleased ==
    \A t \in Transfers :
        state[t] = "committed" /\ source[t] = "funding" => tb[t] = "posted"

\* INTERNAL_TRANSFER_V2_DESIGN.md: a service must "Prevent double-spend/
\* double-credit internally".
CreditedOnce == \A t \in Transfers : credits[t] <= 1

-----------------------------------------------------------------------------
\* Fairness as in Transfer: every task runs, every call that is repeated for
\* ever is executed and answered, every open row is scanned.
Fairness ==
    /\ \A p \in Procs :
          /\ WF_vars(Step(p) /\ UNCHANGED serviceVars)
          /\ WF_vars(CallSent(p)) /\ WF_vars(ServiceExecutes(p)) /\ WF_vars(CallAnswered(p))
    /\ \A t \in Transfers :
          WF_vars((HandlerAnswers(t) \/ HandlerErrs(t)) /\ UNCHANGED serviceVars)
    /\ \A w \in Workers :
          /\ WF_vars((WorkerPops(w) \/ WorkerDrained(w) \/ WorkerLoops(w) \/ WorkerErrs(w))
                       /\ UNCHANGED serviceVars)
          /\ WF_vars((\E t \in Transfers : WorkerTakes(w, t)) /\ UNCHANGED serviceVars)
          /\ \A t \in Transfers :
                SF_vars((\E stale \in SUBSET Transfers :
                           t \in stale /\ WorkerScans(w, stale)) /\ UNCHANGED serviceVars)
          /\ SF_vars(StepGet(w) /\ UNCHANGED serviceVars)
          /\ SF_vars(StepPersist(w) /\ UNCHANGED serviceVars)
          /\ SF_vars(StepHandle(w) /\ UNCHANGED serviceVars)

FairSpec == Spec /\ Fairness

\* INTERNAL_TRANSFER_ARCHITECTURE.md: "No funds can be permanently lost - FSM
\* ensures eventual consistency".  Every transfer with a row ends.
EveryTransferEnds ==
    \A t \in Transfers : state[t] # "absent" ~> state[t] \in Terminal
=============================================================================
