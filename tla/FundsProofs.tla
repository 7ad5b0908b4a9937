----------------------------- MODULE FundsProofs -----------------------------
(***************************************************************************)
(* Proofs about the UBSCore service's order path and the flow of funds,    *)
(* for any orders, transfers, capacities, restarts and failures: what was  *)
(* accepted is logged, no cancel is read before its order, the balance     *)
(* table follows the events, and the money is accounted for.               *)
(***************************************************************************)
EXTENDS Funds, SumTheorems, SequenceTheorems, TLAPS

(***************************************************************************)
(* The service loop: what is collected is processed before it is answered. *)
(***************************************************************************)
LoopInv ==
    /\ phase = "poll" => batch = <<>> /\ results = <<>>
    /\ phase = "validate" => batch # <<>>
    /\ phase \in {"flush", "forward", "respond"} => batch = <<>> /\ results # <<>>

\* among the entries the cursor of the log l has passed
Passed(o, l, c) == \E k \in 1..c : l[k] = o

(***************************************************************************)
(* The log: an order that is pending or accepted has been appended, and    *)
(* after the flush it is on the disk.                                      *)
(***************************************************************************)
LogInv ==
    /\ Len(disk) <= LogSlots
    /\ \A o \in OrderIds : verdict[o] = "accept" =>
          Passed(o, image, cursor) /\ (flushFailed \/ o \in Range(disk))
    /\ \A i \in 1..Len(results) : results[i].res = "pending" =>
          LET o == results[i].msg.order
          IN  /\ results[i].msg.kind = "order" /\ Passed(o, image, cursor)
              /\ phase \in {"forward", "respond"} => flushFailed \/ o \in Range(disk)

OrderMsg(o) == [kind |-> "order", order |-> o]
CancelMsg(o) == [kind |-> "cancel", order |-> o]

In(m, s) == \E i \in 1..Len(s) : s[i] = m
InResults(m) == \E i \in 1..Len(results) : results[i].msg = m

\* an order is at most once in the sequence
Single(s) == \A i, j \in 1..Len(s) : s[i].kind = "order" /\ s[i] = s[j] => i = j

(***************************************************************************)
(* An order travels once through subscription, batch and results; its      *)
(* client is told its id when it has passed all of them, and only then is  *)
(* there a cancel.                                                         *)
(***************************************************************************)
Travels(o) ==
    LET m == OrderMsg(o)
    IN  /\ ~(In(m, inbox) /\ (In(m, batch) \/ InResults(m)))
        /\ ~(In(m, batch) /\ InResults(m))
        /\ client[o] \in {"new", "ok"} => ~In(m, inbox) /\ ~In(m, batch)
        /\ client[o] = "new" => ~InResults(m)
        /\ client[o] = "ok" /\ InResults(m) => phase = "respond"
        /\ \/ In(CancelMsg(o), inbox) \/ In(CancelMsg(o), batch) \/ In(CancelMsg(o), validated)
           => client[o] = "ok"

OnceInv ==
    /\ Single(inbox) /\ Single(batch)
    /\ \A o \in OrderIds : Travels(o)

ServiceInv ==
    /\ ServiceTypeOK
    /\ LoopInv
    /\ LogInv
    /\ OnceInv
    /\ CancelFollowsOrder

-----------------------------------------------------------------------------
(***************************************************************************)
(* A request is published at most once, and not before its handler says    *)
(* so; until UBSCore is restarted it has treated exactly what it consumed. *)
(***************************************************************************)
OpsInv ==
    /\ \A i, j \in 1..Len(ops) : ops[i] = ops[j] => i = j
    /\ \A i \in 1..Len(ops) : handler[ops[i]] \notin {"new", "locked", "refused"}
    /\ \A t \in TransferIds :
          /\ handler[t] \in {"published", "withdraw", "append", "credit", "done"} =>
                \E i \in 1..Len(ops) : ops[i] = t
          /\ Transfer[t].dir = "in" => handler[t] \notin {"withdraw", "append", "credit"}
          /\ Transfer[t].dir = "out" => handler[t] \notin {"locked", "refused"}
          /\ fate[t] = "refused" => Transfer[t].dir = "out"
          /\ ~restarted /\ fate[t] # "none" => \E i \in 1..opsPos : ops[i] = t
    /\ ~restarted => \A i \in 1..opsPos : fate[ops[i]] # "none"

\* events carry the time they were made, which is not one of the engine's numbers
EventsInv ==
    /\ now > EngineSeq /\ \A i \in 1..Len(events) : events[i].seq > EngineSeq
    /\ \A i, j \in 1..Len(events) : i <= j => events[i].seq <= events[j].seq
    /\ \A i \in 1..Len(events) : events[i].seq <= now

(***************************************************************************)
(* A row of UBSCore's is that of an event that was written, and the last   *)
(* event that was written has one.                                         *)
(***************************************************************************)
RowsInv(u) ==
    /\ IsFiniteSet(DOMAIN rows[u])
    /\ \A s \in DOMAIN rows[u] :
          /\ rows[u][s].avail \in Int
          /\ rows[u][s].from # Other =>
                rows[u][s].from \in 1..latest[u] /\ events[rows[u][s].from].seq = s
    /\ latest[u] > 0 => /\ events[latest[u]].seq \in DOMAIN rows[u]
                        /\ rows[u][events[latest[u]].seq].from # Other

TableInv ==
    /\ rows = [u \in Users |-> rows[u]] /\ latest \in [Users -> Nat]
    /\ current = [t \in TransferIds |-> current[t]]
    /\ writer \in Seq(Nat)
    /\ EventsInv
    /\ \A u \in Users : RowsInv(u)
    /\ \A t \in TransferIds : handler[t] = "withdraw" => DOMAIN rows[Transfer[t].user] # {}

-----------------------------------------------------------------------------
Amount == [t \in TransferIds |-> Transfer[t].amount]

\* all there is and all that clients move fits in a u64
SupplyFits ==
    FundingStart + Seed * Cardinality(Users) + SumFunctionOnSet(Amount, TransferIds) <= MaxU64

\* what the request has added to the money that can be spent
Gained(t) ==
    IF Transfer[t].dir = "in"
      THEN (IF fate[t] = "applied" THEN Amount[t] ELSE 0)
           - (IF handler[t] \in {"locked", "published", "failed", "done"} THEN Amount[t] ELSE 0)
      ELSE (IF handler[t] = "done" THEN Amount[t] ELSE 0)
           - (IF fate[t] = "applied" THEN Amount[t] ELSE 0)

\* what the request holds locked in the funding account
Reserved(t) ==
    IF Transfer[t].dir = "in" /\ handler[t] \in {"locked", "published", "failed"}
      THEN Amount[t] ELSE 0

GainedBy == [t \in TransferIds |-> Gained(t)]
ReservedBy == [t \in TransferIds |-> Reserved(t)]
Worth == [u \in Users |-> ubs[u].avail + ubs[u].frozen]

(***************************************************************************)
(* What can be spent is what there was and what the requests added so far. *)
(***************************************************************************)
MoneyInv ==
    SupplyFits /\ ~restarted =>
        /\ funding.avail + SumFunctionOnSet(Worth, Users)
             = FundingStart + Seed * Cardinality(Users) + SumFunctionOnSet(GainedBy, TransferIds)
        /\ funding.frozen = SumFunctionOnSet(ReservedBy, TransferIds)

IndInv ==
    /\ ServiceInv
    /\ TypeOK
    /\ OpsInv
    /\ TableInv
    /\ MoneyInv

-----------------------------------------------------------------------------
(***************************************************************************)
(* Lemmas about the model's operators.                                     *)
(***************************************************************************)

\* The greatest of a finite set of numbers is one of them.
LEMMA MaxFacts ==
    ASSUME NEW S, IsFiniteSet(S), S # {}, \A x \in S : x \in Int
    PROVE  Max(S) \in S /\ \A y \in S : Max(S) >= y
  BY Extremes DEF Max

\* The greater of two numbers.
LEMMA MaxOfTwo ==
    ASSUME NEW a \in Int, NEW b \in Int
    PROVE  Max({a, b}) = IF a >= b THEN a ELSE b
<1>1. PICK x \in {a, b} : \A y \in {a, b} : x >= y
  OBVIOUS
<1> QED  BY <1>1 DEF Max

\* The lesser of two numbers.
LEMMA MinOfTwo ==
    ASSUME NEW a \in Int, NEW b \in Int
    PROVE  Min({a, b}) = IF a <= b THEN a ELSE b
<1>1. PICK x \in {a, b} : \A y \in {a, b} : x <= y
  OBVIOUS
<1> QED  BY <1>1 DEF Min

\* The operations on one balance keep it within a u64, and none but lock,
\* when the sum of both parts overflows, loses anything.
LEMMA BalanceOps ==
    ASSUME NEW b \in Balance, NEW n \in Nat
    PROVE  /\ deposit(b, n).bal \in Balance /\ withdraw(b, n).bal \in Balance
           /\ lock(b, n).bal \in Balance /\ spend_frozen(b, n).bal \in Balance
           /\ deposit(b, n).bal.frozen = b.frozen
           /\ b.avail + n <= MaxU64 => deposit(b, n).bal.avail = b.avail + n
           /\ withdraw(b, n).res = "ok" =>
                 withdraw(b, n).bal.avail = b.avail - n /\ withdraw(b, n).bal.frozen = b.frozen
           /\ withdraw(b, n).res # "ok" => withdraw(b, n).bal = b
           /\ b.frozen + n <= MaxU64 /\ lock(b, n).res # "ok" => lock(b, n).bal = b
           /\ lock(b, n).res = "ok" => /\ lock(b, n).bal.avail = b.avail - n
                                       /\ lock(b, n).bal.frozen = b.frozen + n
           /\ spend_frozen(b, n).bal.avail = b.avail
           /\ b.frozen >= n => spend_frozen(b, n).bal.frozen = b.frozen - n
<1>1. b.avail \in 0..MaxU64 /\ b.frozen \in 0..MaxU64 /\ MaxU64 \in Nat
  BY AccountsAssumption DEF Balance
<1>2. deposit(b, n).bal \in Balance /\ deposit(b, n).bal.frozen = b.frozen
      /\ (b.avail + n <= MaxU64 => deposit(b, n).bal.avail = b.avail + n)
  BY <1>1 DEF deposit, Ok, Err, Balance
<1>3. /\ withdraw(b, n).bal \in Balance
      /\ withdraw(b, n).res = "ok" =>
            withdraw(b, n).bal.avail = b.avail - n /\ withdraw(b, n).bal.frozen = b.frozen
      /\ withdraw(b, n).res # "ok" => withdraw(b, n).bal = b
  BY <1>1 DEF withdraw, Ok, Err, Balance
<1>4. /\ lock(b, n).bal \in Balance
      /\ b.frozen + n <= MaxU64 /\ lock(b, n).res # "ok" => lock(b, n).bal = b
      /\ lock(b, n).res = "ok" => /\ lock(b, n).bal.avail = b.avail - n
                                  /\ lock(b, n).bal.frozen = b.frozen + n
  <2>1. CASE b.avail < n
    <3>1. lock(b, n) = Err(b)
      BY <1>1, <2>1 DEF lock
    <3>2. lock(b, n).bal = b /\ lock(b, n).res = "err"
      BY <3>1 DEF Err
    <3> QED  BY <3>2
  <2>2. CASE b.avail >= n /\ b.frozen + n > MaxU64
    <3>1. lock(b, n) = Err([b EXCEPT !.avail = @ - n])
      BY <1>1, <2>2 DEF lock
    <3> QED  BY <1>1, <2>2, <3>1 DEF Err, Balance
  <2>3. CASE b.avail >= n /\ b.frozen + n <= MaxU64
    <3>1. lock(b, n) = Ok([[b EXCEPT !.avail = @ - n] EXCEPT !.frozen = @ + n])
      BY <1>1, <2>3 DEF lock
    <3>2. lock(b, n).bal = [avail |-> b.avail - n, frozen |-> b.frozen + n]
      <4>1. b = [avail |-> b.avail, frozen |-> b.frozen]
        BY DEF Balance
      <4>2. lock(b, n).bal = [[b EXCEPT !.avail = @ - n] EXCEPT !.frozen = @ + n]
        BY <3>1 DEF Ok
      <4> QED  BY <4>1, <4>2
    <3>3. lock(b, n).res = "ok"
      BY <3>1 DEF Ok
    <3> QED  BY <1>1, <2>3, <3>2, <3>3 DEF Balance
  <2> QED  BY <1>1, <2>1, <2>2, <2>3
<1>5. /\ spend_frozen(b, n).bal \in Balance
      /\ spend_frozen(b, n).bal.avail = b.avail
      /\ b.frozen >= n => spend_frozen(b, n).bal.frozen = b.frozen - n
  BY <1>1 DEF spend_frozen, Ok, Err, Balance
<1> QED  BY <1>2, <1>3, <1>4, <1>5

\* lock moves to the frozen part what it takes, or nothing.
LEMMA LockFrozen ==
    ASSUME NEW b \in Balance, NEW n \in Nat
    PROVE  lock(b, n).bal.frozen = b.frozen + (IF lock(b, n).res = "ok" THEN n ELSE 0)
<1>1. b.avail \in 0..MaxU64 /\ b.frozen \in 0..MaxU64 /\ MaxU64 \in Nat
  BY AccountsAssumption DEF Balance
<1>2. CASE lock(b, n).res = "ok"
  BY <1>1, <1>2, BalanceOps
<1>3. CASE b.avail < n
  <2>1. lock(b, n).bal = b /\ lock(b, n).res = "err"
    BY <1>3 DEF lock, Err
  <2> QED  BY <1>1, <2>1
<1>4. CASE b.avail >= n /\ b.frozen + n > MaxU64
  <2>1. lock(b, n) = Err([b EXCEPT !.avail = @ - n])
    BY <1>1, <1>4 DEF lock
  <2>2. lock(b, n).bal.frozen = b.frozen /\ lock(b, n).res = "err"
    BY <1>1, <2>1 DEF Err, Balance
  <2> QED  BY <1>1, <2>2
<1>5. CASE b.avail >= n /\ b.frozen + n <= MaxU64
  <2>1. lock(b, n).res = "ok"
    BY <1>1, <1>5 DEF lock, Ok
  <2> QED  BY <1>2, <2>1
<1> QED  BY <1>1, <1>2, <1>3, <1>4, <1>5

-----------------------------------------------------------------------------
(***************************************************************************)
(* The service: the invariant holds at first and every step keeps it.      *)
(***************************************************************************)

\* The service starts in the invariant.
LEMMA ServiceInvInit ==
    ASSUME ServiceInit
    PROVE  ServiceInv
<1>1. MaxU64 \in Nat /\ Seed \in 0..MaxU64 /\ LogSlots \in Nat /\ MaxFaults \in Nat
  BY AccountsAssumption, ServiceAssumption
<1>2. ubs \in [Users -> Balance]
  BY <1>1 DEF ServiceInit, Seeded, Balance
<1>3. ServiceTypeOK
  <2>1. client \in [OrderIds -> Told] /\ cancel \in [OrderIds -> Told]
    BY DEF ServiceInit, Told
  <2>2. verdict \in [OrderIds -> {"none", "accept", "reject"}]
    BY DEF ServiceInit
  <2>3. /\ inbox \in Seq(Message) /\ batch \in Seq(Message) /\ results \in Seq(Result)
        /\ image \in Seq(OrderIds) /\ disk \in Seq(OrderIds) /\ validated \in Seq(Message)
    BY DEF ServiceInit
  <2>5. /\ Len(image) <= LogSlots /\ cursor \in 0..Len(image) /\ faults \in 0..MaxFaults
    <3>1. image = <<>> /\ cursor = 0 /\ faults = 0
      BY DEF ServiceInit
    <3> QED  BY <1>1, <3>1
  <2>6. flushFailed \in BOOLEAN /\ stranded \subseteq OrderIds
    BY DEF ServiceInit
  <2>4. phase \in {"poll", "validate", "flush", "forward", "respond"}
    BY DEF ServiceInit
  <2> QED  BY <1>2, <2>1, <2>2, <2>3, <2>4, <2>5, <2>6 DEF ServiceTypeOK
<1>4. LoopInv /\ LogInv
  BY <1>1 DEF ServiceInit, LoopInv, LogInv
<1>5. OnceInv /\ CancelFollowsOrder
  BY DEF ServiceInit, OnceInv, Single, Travels, In, InResults, CancelFollowsOrder
<1> QED  BY <1>3, <1>4, <1>5 DEF ServiceInv

\* A step that leaves the service alone keeps its invariant.
LEMMA ServiceFrame ==
    ASSUME ServiceInv, UNCHANGED <<clientVars, inbox, loopVars, logVars, validated, verdict,
                                   stranded, flushFailed, faults>>,
           ubs' \in [Users -> Balance]
    PROVE  ServiceInv'
<1> USE DEF clientVars, loopVars, logVars
<1>1. ServiceTypeOK' /\ LoopInv' /\ LogInv'
  BY DEF ServiceInv, ServiceTypeOK, LoopInv, LogInv, Passed
<1>2. OnceInv' /\ CancelFollowsOrder'
  BY DEF ServiceInv, OnceInv, Single, Travels, In, InResults, CancelFollowsOrder
<1> QED  BY <1>1, <1>2 DEF ServiceInv

\* What a message and a result consist of.
LEMMA Messages ==
    ASSUME NEW o \in OrderIds
    PROVE  /\ OrderMsg(o) \in Message /\ CancelMsg(o) \in Message
           /\ OrderMsg(o).kind = "order" /\ OrderMsg(o).order = o
           /\ CancelMsg(o).kind = "cancel" /\ CancelMsg(o).order = o
  BY DEF OrderMsg, CancelMsg, Message

\* A message is the order or the cancel of its order.
LEMMA MessageCases ==
    ASSUME NEW m \in Message
    PROVE  /\ m.order \in OrderIds
           /\ m.kind = "order" => m = OrderMsg(m.order)
           /\ m.kind = "cancel" => m = CancelMsg(m.order)
           /\ m.kind \in {"order", "cancel"}
  BY DEF OrderMsg, CancelMsg, Message

\* A sequence with one more message.
LEMMA InAppend ==
    ASSUME NEW s \in Seq(Message), NEW m \in Message
    PROVE  /\ Append(s, m) \in Seq(Message)
           /\ \A x : In(x, Append(s, m)) <=> In(x, s) \/ x = m
           /\ Single(s) /\ (m.kind = "order" => ~In(m, s)) => Single(Append(s, m))
<1>1. /\ Append(s, m) \in Seq(Message) /\ Len(Append(s, m)) = Len(s) + 1 /\ Len(s) \in Nat
      /\ \A i \in 1..Len(s) : Append(s, m)[i] = s[i]
      /\ Append(s, m)[Len(s) + 1] = m
  OBVIOUS
<1>2. ASSUME NEW x  PROVE In(x, Append(s, m)) <=> In(x, s) \/ x = m
  <2>1. ASSUME In(x, Append(s, m)), ~In(x, s)  PROVE x = m
    BY <1>1, <2>1 DEF In
  <2>2. ASSUME In(x, s)  PROVE In(x, Append(s, m))
    <3>1. PICK i \in 1..Len(s) : s[i] = x
      BY <2>2 DEF In
    <3> QED  BY <1>1, <3>1 DEF In
  <2>3. ASSUME x = m  PROVE In(x, Append(s, m))
    <3>1. Len(s) + 1 \in 1..Len(Append(s, m))
      BY <1>1
    <3> QED  BY <1>1, <2>3, <3>1 DEF In
  <2> QED  BY <2>1, <2>2, <2>3
<1>3. ASSUME Single(s), m.kind = "order" => ~In(m, s)  PROVE Single(Append(s, m))
  BY <1>1, <1>3 DEF Single, In
<1> QED  BY <1>1, <1>2, <1>3

\* A part of a sequence, and the sequence without its head.
LEMMA InPart ==
    ASSUME NEW s \in Seq(Message), NEW n \in 0..Len(s)
    PROVE  /\ SubSeq(s, 1, n) \in Seq(Message) /\ SubSeq(s, n + 1, Len(s)) \in Seq(Message)
           /\ \A x : In(x, SubSeq(s, 1, n)) \/ In(x, SubSeq(s, n + 1, Len(s))) => In(x, s)
           /\ Single(s) => /\ Single(SubSeq(s, 1, n)) /\ Single(SubSeq(s, n + 1, Len(s)))
                           /\ \A x : x.kind = "order" =>
                                 ~(In(x, SubSeq(s, 1, n)) /\ In(x, SubSeq(s, n + 1, Len(s))))
<1>1. PICK a, b : a = SubSeq(s, 1, n) /\ b = SubSeq(s, n + 1, Len(s))
  OBVIOUS
<1>2. /\ a \in Seq(Message) /\ b \in Seq(Message) /\ Len(a) = n /\ Len(b) = Len(s) - n
      /\ Len(s) \in Nat /\ n \in Nat /\ n <= Len(s)
      /\ \A i \in 1..n : a[i] = s[i]
      /\ \A i \in 1..(Len(s) - n) : b[i] = s[n + i]
  BY <1>1
<1>3. \A x : In(x, a) \/ In(x, b) => In(x, s)
  <2>1. ASSUME NEW x, In(x, a)  PROVE In(x, s)
    BY <1>2, <2>1 DEF In
  <2>2. ASSUME NEW x, In(x, b)  PROVE In(x, s)
    <3>1. PICK i \in 1..(Len(s) - n) : b[i] = x
      BY <1>2, <2>2 DEF In
    <3>2. n + i \in 1..Len(s) /\ s[n + i] = x
      BY <1>2, <3>1
    <3> QED  BY <3>2 DEF In
  <2> QED  BY <2>1, <2>2
<1>4. ASSUME Single(s)
      PROVE  /\ Single(a) /\ Single(b)
             /\ \A x : x.kind = "order" => ~(In(x, a) /\ In(x, b))
  <2>1. Single(a)
    <3> SUFFICES ASSUME NEW i \in 1..Len(a), NEW j \in 1..Len(a), a[i].kind = "order", a[i] = a[j]
                 PROVE  i = j
      BY DEF Single
    <3>1. i \in 1..Len(s) /\ j \in 1..Len(s) /\ s[i] = a[i] /\ s[j] = a[j]
      BY <1>2
    <3> QED  BY <1>4, <3>1 DEF Single
  <2>2. Single(b)
    <3> SUFFICES ASSUME NEW i \in 1..Len(b), NEW j \in 1..Len(b), b[i].kind = "order", b[i] = b[j]
                 PROVE  i = j
      BY DEF Single
    <3>1. n + i \in 1..Len(s) /\ n + j \in 1..Len(s) /\ s[n + i] = b[i] /\ s[n + j] = b[j]
      BY <1>2
    <3>2. n + i = n + j
      BY <1>4, <3>1 DEF Single
    <3> QED  BY <1>2, <3>2
  <2>3. ASSUME NEW x, x.kind = "order", In(x, a), In(x, b)  PROVE FALSE
    <3>1. PICK i \in 1..n : s[i] = x
      BY <1>2, <2>3 DEF In
    <3>2. PICK j \in 1..(Len(s) - n) : b[j] = x
      BY <1>2, <2>3 DEF In
    <3>3. i \in 1..Len(s) /\ n + j \in 1..Len(s) /\ s[n + j] = x /\ i # n + j
      BY <1>2, <3>1, <3>2
    <3> QED  BY <1>4, <2>3, <3>1, <3>3 DEF Single
  <2> QED  BY <2>1, <2>2, <2>3
<1> QED  BY <1>1, <1>2, <1>3, <1>4

(***************************************************************************)
(* The gateway's steps.                                                    *)
(***************************************************************************)

\* A message more in the subscription, of an order that is nowhere yet or of
\* one whose client knows its id.
LEMMA SendInv ==
    ASSUME ServiceInv, NEW o \in OrderIds, NEW m \in {OrderMsg(o), CancelMsg(o)},
           inbox' = Append(inbox, m),
           client' \in [OrderIds -> Told], cancel' \in [OrderIds -> Told],
           \A x \in OrderIds \ {o} : client'[x] = client[x],
           m = OrderMsg(o) => client[o] = "new" /\ client'[o] = "sent",
           m = CancelMsg(o) => client[o] = "ok" /\ client'[o] = "ok",
           UNCHANGED <<loopVars, ubs, logVars, validated, verdict, stranded, flushFailed, faults>>
    PROVE  ServiceInv'
<1> USE DEF loopVars, logVars
<1>1. /\ inbox \in Seq(Message) /\ m \in Message
      /\ \A x \in OrderIds : OrderMsg(x) # CancelMsg(o) /\ CancelMsg(x) # OrderMsg(o)
      /\ \A x \in OrderIds \ {o} : OrderMsg(x) # OrderMsg(o) /\ CancelMsg(x) # CancelMsg(o)
  <2>1. inbox \in Seq(Message)
    BY DEF ServiceInv, ServiceTypeOK
  <2>2. m \in Message
    BY Messages
  <2>3. ASSUME NEW x \in OrderIds
        PROVE  /\ OrderMsg(x) # CancelMsg(o) /\ CancelMsg(x) # OrderMsg(o)
               /\ x # o => OrderMsg(x) # OrderMsg(o) /\ CancelMsg(x) # CancelMsg(o)
    BY Messages
  <2> QED  BY <2>1, <2>2, <2>3
<1>2. /\ inbox' \in Seq(Message)
      /\ \A x : In(x, inbox') <=> In(x, inbox) \/ x = m
      /\ Single(inbox) /\ (m.kind = "order" => ~In(m, inbox)) => Single(inbox')
  BY <1>1, InAppend
<1>3. ServiceTypeOK' /\ LoopInv' /\ LogInv' /\ CancelFollowsOrder'
  BY <1>2 DEF ServiceInv, ServiceTypeOK, LoopInv, LogInv, Passed, CancelFollowsOrder
<1>4. Single(inbox)' /\ Single(batch)'
  <2>1. m.kind = "order" => m = OrderMsg(o) /\ ~In(m, inbox)
    BY Messages DEF ServiceInv, OnceInv, Travels
  <2>2. Single(inbox')
    BY <1>2, <2>1 DEF ServiceInv, OnceInv
  <2>3. Single(batch')
    BY DEF ServiceInv, OnceInv
  <2> QED  BY <2>2, <2>3 DEF Single
<1>5. ASSUME NEW x \in OrderIds  PROVE Travels(x)'
  <2>0. Travels(x)
    BY DEF ServiceInv, OnceInv
  <2>1. /\ In(OrderMsg(x), inbox)' <=> In(OrderMsg(x), inbox) \/ (x = o /\ m = OrderMsg(o))
        /\ In(CancelMsg(x), inbox)' <=> In(CancelMsg(x), inbox) \/ (x = o /\ m = CancelMsg(o))
    <3>1. /\ In(OrderMsg(x), inbox') <=> In(OrderMsg(x), inbox) \/ OrderMsg(x) = m
          /\ In(CancelMsg(x), inbox') <=> In(CancelMsg(x), inbox) \/ CancelMsg(x) = m
      BY <1>2
    <3> QED  BY <1>1, <3>1 DEF In, OrderMsg, CancelMsg
  <2>2. /\ In(OrderMsg(x), batch)' <=> In(OrderMsg(x), batch)
        /\ In(CancelMsg(x), batch)' <=> In(CancelMsg(x), batch)
        /\ In(CancelMsg(x), validated)' <=> In(CancelMsg(x), validated)
        /\ InResults(OrderMsg(x))' <=> InResults(OrderMsg(x))
    BY DEF In, InResults, OrderMsg, CancelMsg
  <2>3. client'[x] = client[x] \/ x = o
    OBVIOUS
  <2> QED  BY <2>0, <2>1, <2>2, <2>3 DEF Travels
<1> QED  BY <1>3, <1>4, <1>5 DEF ServiceInv, OnceInv

\* create_order, cancel_order and a client that is told of an error.
LEMMA ClientInv ==
    ASSUME ServiceInv, NEW o \in OrderIds, create_order(o) \/ cancel_order(o) \/ TimesOut(o)
    PROVE  ServiceInv'
<1>0. client \in [OrderIds -> Told] /\ cancel \in [OrderIds -> Told]
  BY DEF ServiceInv, ServiceTypeOK
<1>1. CASE create_order(o)
  <2>1. inbox' = Append(inbox, OrderMsg(o))
    BY <1>1 DEF create_order, Sends, OrderMsg
  <2>2. /\ client[o] = "new" /\ client'[o] = "sent" /\ client' \in [OrderIds -> Told]
        /\ cancel' \in [OrderIds -> Told]
        /\ \A x \in OrderIds \ {o} : client'[x] = client[x]
        /\ UNCHANGED <<loopVars, ubs, logVars, validated, verdict, stranded, flushFailed, faults>>
    BY <1>0, <1>1 DEF create_order, Told
  <2>3. OrderMsg(o) # CancelMsg(o)
    BY Messages
  <2> QED  BY <2>1, <2>2, <2>3, SendInv
<1>2. CASE cancel_order(o)
  <2>1. inbox' = Append(inbox, CancelMsg(o))
    BY <1>2 DEF cancel_order, Sends, CancelMsg
  <2>2. /\ client[o] = "ok" /\ client' = client /\ client' \in [OrderIds -> Told]
        /\ cancel' \in [OrderIds -> Told]
        /\ UNCHANGED <<loopVars, ubs, logVars, validated, verdict, stranded, flushFailed, faults>>
    BY <1>0, <1>2 DEF cancel_order, Told
  <2>3. OrderMsg(o) # CancelMsg(o)
    BY Messages
  <2> QED  BY <2>1, <2>2, <2>3, SendInv
<1>3. CASE TimesOut(o)
  <2> USE DEF loopVars, logVars
  <2>1. /\ client' \in [OrderIds -> Told] /\ cancel' \in [OrderIds -> Told]
        /\ \A x \in OrderIds : client'[x] = client[x] \/ (client'[x] = "error" /\ client[x] = "sent")
        /\ UNCHANGED <<inbox, phase, batch, results, ubs, image, disk, cursor, validated, verdict,
                       stranded, flushFailed, faults>>
    BY <1>0, <1>3 DEF TimesOut, Told
  <2>2. ServiceTypeOK' /\ LoopInv' /\ LogInv' /\ CancelFollowsOrder' /\ Single(inbox)' /\ Single(batch)'
    BY <2>1 DEF ServiceInv, ServiceTypeOK, LoopInv, LogInv, Passed, CancelFollowsOrder,
                OnceInv, Single
  <2>3. ASSUME NEW x \in OrderIds  PROVE Travels(x)'
    BY <2>1 DEF ServiceInv, OnceInv, Travels, In, InResults, OrderMsg, CancelMsg
  <2> QED  BY <2>2, <2>3 DEF ServiceInv, OnceInv
<1> QED  BY <1>1, <1>2, <1>3

(***************************************************************************)
(* The loop's steps.                                                       *)
(***************************************************************************)

\* poll moves messages from the subscription to the batch.
LEMMA CollectInv ==
    ASSUME ServiceInv, Collect
    PROVE  ServiceInv'
<1> USE DEF clientVars, logVars
<1>1. PICK n \in Nat : n = Min({Len(inbox), PollLimit}) /\ n > 0 /\ n \in 0..Len(inbox)
  <2>1. Len(inbox) \in Nat /\ PollLimit \in Nat
    BY ServiceAssumption DEF ServiceInv, ServiceTypeOK
  <2>2. Min({Len(inbox), PollLimit}) = IF Len(inbox) <= PollLimit THEN Len(inbox) ELSE PollLimit
    BY <2>1, MinOfTwo
  <2> QED  BY <2>1, <2>2 DEF Collect
<1>2. /\ phase = "poll" /\ phase' = "validate"
      /\ batch' = SubSeq(inbox, 1, n) /\ inbox' = SubSeq(inbox, n + 1, Len(inbox))
      /\ UNCHANGED <<client, cancel, results, ubs, image, disk, cursor, validated, verdict,
                     stranded, flushFailed, faults>>
  BY <1>1 DEF Collect
<1>3. inbox \in Seq(Message) /\ results = <<>> /\ batch = <<>> /\ Single(inbox)
  BY <1>2 DEF ServiceInv, ServiceTypeOK, LoopInv, OnceInv
<1>4. /\ batch' \in Seq(Message) /\ inbox' \in Seq(Message)
      /\ \A x : In(x, batch') \/ In(x, inbox') => In(x, inbox)
      /\ Single(batch') /\ Single(inbox')
      /\ \A x : x.kind = "order" => ~(In(x, batch') /\ In(x, inbox'))
  BY <1>1, <1>2, <1>3, InPart
<1>5. batch' # <<>>
  <2>1. Len(batch') = n
    BY <1>1, <1>2, <1>3
  <2> QED  BY <1>1, <2>1
<1>6. ServiceTypeOK' /\ LoopInv' /\ LogInv' /\ CancelFollowsOrder'
  <2>1. LogInv'
    BY <1>2, <1>3 DEF ServiceInv, LogInv, Passed
  <2>2. ServiceTypeOK' /\ LoopInv' /\ CancelFollowsOrder'
    BY <1>2, <1>4, <1>5 DEF ServiceInv, ServiceTypeOK, LoopInv, CancelFollowsOrder
  <2> QED  BY <2>1, <2>2
<1>7. ASSUME NEW x \in OrderIds  PROVE Travels(x)'
  <2>0. Travels(x) /\ OrderMsg(x).kind = "order"
    BY Messages DEF ServiceInv, OnceInv
  <2>1. /\ In(OrderMsg(x), inbox)' <=> In(OrderMsg(x), inbox')
        /\ In(CancelMsg(x), inbox)' <=> In(CancelMsg(x), inbox')
        /\ In(OrderMsg(x), batch)' <=> In(OrderMsg(x), batch')
        /\ In(CancelMsg(x), batch)' <=> In(CancelMsg(x), batch')
        /\ In(CancelMsg(x), validated)' <=> In(CancelMsg(x), validated)
        /\ ~InResults(OrderMsg(x))'
    BY <1>2, <1>3 DEF In, InResults, OrderMsg, CancelMsg
  <2> QED  BY <1>2, <1>4, <2>0, <2>1 DEF Travels
<1>8. Single(inbox)' /\ Single(batch)'
  BY <1>4 DEF Single
<1> QED  BY <1>6, <1>7, <1>8 DEF ServiceInv, OnceInv

\* What handling the head of the batch does to batch and results.
LEMMA ProcessedFacts ==
    ASSUME ServiceInv, phase = "validate", NEW res \in {"pending", "accept", "reject"},
           Processed(res)
    PROVE  /\ batch # <<>> /\ Head(batch) \in Message /\ In(Head(batch), batch)
           /\ batch' \in Seq(Message) /\ results' \in Seq(Result)
           /\ phase' \in {"flush", "validate"}
           /\ phase' = "flush" => batch' = <<>>
           /\ phase' = "validate" => batch' # <<>>
           /\ results' # <<>>
           /\ Len(results') = Len(results) + 1
           /\ \A i \in 1..Len(results) : results'[i] = results[i]
           /\ results'[Len(results) + 1] = [msg |-> Head(batch), res |-> res]
           /\ \A x : In(x, batch') => In(x, batch)
           /\ \A x : InResults(x)' <=> InResults(x) \/ x = Head(batch)
           /\ Single(batch')
           /\ Head(batch).kind = "order" => ~In(Head(batch), batch')
<1>0. batch # <<>> /\ batch \in Seq(Message) /\ results \in Seq(Result) /\ Single(batch)
  BY DEF ServiceInv, LoopInv, ServiceTypeOK, OnceInv
<1>1. /\ batch' = Tail(batch) /\ results' = Append(results, [msg |-> Head(batch), res |-> res])
      /\ phase' = IF Len(batch) = 1 THEN "flush" ELSE "validate"
  BY DEF Processed
<1>2. /\ Head(batch) \in Message /\ Head(batch) = batch[1] /\ Len(batch) \in Nat /\ Len(batch) >= 1
      /\ batch' \in Seq(Message) /\ Len(batch') = Len(batch) - 1
      /\ \A i \in 1..Len(batch') : batch'[i] = batch[i + 1]
  BY <1>0, <1>1
<1>3. [msg |-> Head(batch), res |-> res] \in Result
  BY <1>2 DEF Result
<1>4. /\ results' \in Seq(Result) /\ results' # <<>> /\ Len(results') = Len(results) + 1
      /\ Len(results) \in Nat
      /\ \A i \in 1..Len(results) : results'[i] = results[i]
      /\ results'[Len(results) + 1] = [msg |-> Head(batch), res |-> res]
  BY SMTT(30), <1>0, <1>1, <1>3
<1>5. In(Head(batch), batch)
  <2>1. 1 \in 1..Len(batch)
    BY <1>2
  <2> QED  BY <1>2, <2>1 DEF In
<1>6. /\ phase' \in {"flush", "validate"}
      /\ phase' = "flush" => batch' = <<>>
      /\ phase' = "validate" => batch' # <<>>
  BY <1>1, <1>2
<1>7. \A x : In(x, batch') => In(x, batch)
  <2> SUFFICES ASSUME NEW x, NEW i \in 1..Len(batch'), batch'[i] = x
               PROVE  In(x, batch)
    BY DEF In
  <2>1. i + 1 \in 1..Len(batch) /\ batch[i + 1] = x
    BY <1>2
  <2> QED  BY <2>1 DEF In
<1>8. \A x : InResults(x)' <=> InResults(x) \/ x = Head(batch)
  <2>1. ASSUME NEW x, NEW i \in 1..Len(results'), results'[i].msg = x, ~InResults(x)
        PROVE  x = Head(batch)
    BY <1>4, <2>1 DEF InResults
  <2>2. ASSUME NEW x, InResults(x)  PROVE \E i \in 1..Len(results') : results'[i].msg = x
    BY <1>4, <2>2 DEF InResults
  <2>3. \E i \in 1..Len(results') : results'[i].msg = Head(batch)
    <3>1. Len(results) + 1 \in 1..Len(results')
      BY <1>4
    <3> QED  BY <1>4, <3>1
  <2> QED  BY <2>1, <2>2, <2>3 DEF InResults
<1>9. Single(batch') /\ (Head(batch).kind = "order" => ~In(Head(batch), batch'))
  <2>1. ASSUME NEW i \in 1..Len(batch'), NEW j \in 1..Len(batch'),
               batch'[i].kind = "order", batch'[i] = batch'[j]
        PROVE  i = j
    <3>1. /\ i + 1 \in 1..Len(batch) /\ j + 1 \in 1..Len(batch)
          /\ batch[i + 1] = batch'[i] /\ batch[j + 1] = batch'[j] /\ i \in Int /\ j \in Int
      BY <1>2
    <3>2. i + 1 = j + 1
      BY <1>0, <2>1, <3>1 DEF Single
    <3> QED  BY <3>1, <3>2
  <2>2. ASSUME NEW i \in 1..Len(batch'), batch'[i] = Head(batch), Head(batch).kind = "order"
        PROVE  FALSE
    <3>1. /\ i + 1 \in 1..Len(batch) /\ 1 \in 1..Len(batch) /\ batch[i + 1] = batch[1]
          /\ batch[1].kind = "order" /\ i + 1 # 1
      BY <1>2, <2>2
    <3> QED  BY <1>0, <3>1 DEF Single
  <2> QED  BY <2>1, <2>2 DEF Single, In
<1> QED  BY <1>0, <1>2, <1>4, <1>5, <1>6, <1>7, <1>8, <1>9

\* Handling a message moves it on, and a cancel may come to the topic.
LEMMA ProcessedOnce ==
    ASSUME ServiceInv, phase = "validate", NEW res \in {"pending", "accept", "reject"},
           Processed(res), UNCHANGED <<client, inbox>>,
           \A x \in OrderIds : In(CancelMsg(x), validated') =>
                                  In(CancelMsg(x), validated) \/ Head(batch) = CancelMsg(x)
    PROVE  OnceInv'
<1>1. Single(inbox)' /\ Single(batch)'
  BY ProcessedFacts DEF ServiceInv, OnceInv, Single
<1>2. ASSUME NEW x \in OrderIds  PROVE Travels(x)'
  <2>1. Travels(x) /\ OrderMsg(x).kind = "order"
    BY Messages DEF ServiceInv, OnceInv
  <2>2. /\ In(OrderMsg(x), inbox)' <=> In(OrderMsg(x), inbox)
        /\ In(CancelMsg(x), inbox)' <=> In(CancelMsg(x), inbox)
        /\ In(OrderMsg(x), batch)' <=> In(OrderMsg(x), batch')
        /\ In(CancelMsg(x), batch)' <=> In(CancelMsg(x), batch')
        /\ In(CancelMsg(x), validated)' <=> In(CancelMsg(x), validated')
    BY DEF In, OrderMsg, CancelMsg
  <2>3. InResults(OrderMsg(x))' <=> InResults(OrderMsg(x)) \/ OrderMsg(x) = Head(batch)
    <3>1. PICK m : m = OrderMsg(x)
      OBVIOUS
    <3>2. InResults(m)' <=> InResults(m) \/ m = Head(batch)
      BY ProcessedFacts
    <3>3. (OrderMsg(x))' = OrderMsg(x)
      BY DEF OrderMsg
    <3> QED  BY <3>1, <3>2, <3>3 DEF InResults
  <2>4. /\ In(Head(batch), batch)
        /\ In(OrderMsg(x), batch') => In(OrderMsg(x), batch)
        /\ In(CancelMsg(x), batch') => In(CancelMsg(x), batch)
        /\ Head(batch).kind = "order" => ~In(Head(batch), batch')
    BY ProcessedFacts
  <2>5. client'[x] = client[x]
    OBVIOUS
  <2>6. In(CancelMsg(x), validated') => In(CancelMsg(x), validated) \/ In(CancelMsg(x), batch)
    BY <2>4
  <2> QED  BY <2>1, <2>2, <2>3, <2>4, <2>5, <2>6 DEF Travels
<1> QED  BY <1>1, <1>2 DEF OnceInv

\* MmapWal::append, with room left, keeps what the cursor has passed.
LEMMA AppendedFacts ==
    ASSUME ServiceTypeOK, ~LogFull, NEW o \in OrderIds
    PROVE  /\ Appended(o) \in Seq(OrderIds) /\ Len(Appended(o)) <= LogSlots
           /\ cursor + 1 \in 0..Len(Appended(o)) /\ Appended(o)[cursor + 1] = o
           /\ \A k \in 1..cursor : Appended(o)[k] = image[k]
<1>1. /\ image \in Seq(OrderIds) /\ Len(image) \in Nat /\ Len(image) <= LogSlots /\ LogSlots \in Nat
      /\ cursor \in Nat /\ cursor <= Len(image) /\ cursor # LogSlots
  BY ServiceAssumption DEF ServiceTypeOK, LogFull
<1>2. PICK n \in Nat : n = Max({Len(image), cursor + 1})
  BY <1>1, MaxOfTwo
<1>3. n = (IF Len(image) >= cursor + 1 THEN Len(image) ELSE cursor + 1)
  BY <1>1, <1>2, MaxOfTwo
<1>4. Appended(o) = [i \in 1..n |-> IF i = cursor + 1 THEN o ELSE image[i]]
  BY <1>2 DEF Appended
<1>5. \A i \in 1..n : i # cursor + 1 => i \in 1..Len(image)
  BY <1>1, <1>3
<1>6. Appended(o) \in Seq(OrderIds) /\ Len(Appended(o)) = n
  <2>1. \A i \in 1..n : (IF i = cursor + 1 THEN o ELSE image[i]) \in OrderIds
    BY <1>1, <1>5
  <2> QED  BY <1>4, <2>1
<1> QED  BY <1>1, <1>3, <1>4, <1>6

\* handle_order_no_flush: the order is rejected, or in the log and pending.
LEMMA HandleOrderInv ==
    ASSUME ServiceInv, handle_order_no_flush
    PROVE  ServiceInv'
<1> USE DEF clientVars
<1>0. /\ phase = "validate" /\ Head(batch).kind = "order"
      /\ UNCHANGED <<client, cancel, inbox, disk, validated, verdict, flushFailed, faults>>
  BY DEF handle_order_no_flush
<1>1. PICK res \in {"pending", "reject"} :
         /\ Processed(res)
         /\ res = "pending" => ~LogFull /\ image' = Appended(Head(batch).order) /\ cursor' = cursor + 1
         /\ res = "reject" => UNCHANGED <<image, cursor>>
  <2>1. CASE image' = image /\ cursor' = cursor /\ Processed("reject")
    BY <2>1
  <2>2. CASE Processed("pending") /\ ~LogFull /\ image' = Appended(Head(batch).order) /\ cursor' = cursor + 1
    BY <2>2
  <2> QED  BY <2>1, <2>2 DEF handle_order_no_flush
<1>2. PICK o \in OrderIds : o = Head(batch).order /\ Head(batch) = OrderMsg(o)
  BY <1>0, <1>1, ProcessedFacts, MessageCases
<1>3. ubs' \in [Users -> Balance]
  <2>1. Order[o].user \in Users /\ Order[o].cost \in Nat /\ ubs \in [Users -> Balance]
    BY ServiceAssumption DEF ServiceInv, ServiceTypeOK
  <2>2. lock(ubs[Order[o].user], Order[o].cost).bal \in Balance
    BY <2>1, BalanceOps
  <2> QED  BY <1>2, <2>1, <2>2 DEF handle_order_no_flush
<1>4. /\ image' \in Seq(OrderIds) /\ Len(image') <= LogSlots /\ cursor' \in 0..Len(image')
      /\ \A x : Passed(x, image, cursor) => Passed(x, image', cursor')
      /\ res = "pending" => Passed(o, image', cursor')
  <2>1. CASE res = "reject"
    BY <1>1, <2>1 DEF ServiceInv, ServiceTypeOK
  <2>2. CASE res = "pending"
    <3>1. image' = Appended(o) /\ cursor' = cursor + 1 /\ ~LogFull /\ ServiceTypeOK /\ cursor \in Nat
      BY <1>1, <1>2, <2>2 DEF ServiceInv, ServiceTypeOK
    <3>2. /\ image' \in Seq(OrderIds) /\ Len(image') <= LogSlots /\ cursor' \in 0..Len(image')
          /\ image'[cursor + 1] = o /\ \A k \in 1..cursor : image'[k] = image[k]
      BY <3>1, AppendedFacts
    <3>3. cursor + 1 \in 1..cursor' /\ \A k \in 1..cursor : k \in 1..cursor'
      BY <3>1
    <3> QED  BY <3>2, <3>3 DEF Passed
  <2> QED  BY <2>1, <2>2
<1>5. ServiceTypeOK' /\ LoopInv'
  <2>1. stranded' \subseteq OrderIds
    BY <1>2 DEF handle_order_no_flush, ServiceInv, ServiceTypeOK
  <2> QED  BY <1>0, <1>1, <1>3, <1>4, <2>1, ProcessedFacts DEF ServiceInv, ServiceTypeOK, LoopInv
<1>6. LogInv'
  <2>1. ASSUME NEW i \in 1..Len(results'), results'[i].res = "pending"
        PROVE  results'[i].msg.kind = "order" /\ Passed(results'[i].msg.order, image', cursor')
    <3>1. CASE i \in 1..Len(results)
      BY <1>0, <1>1, <1>4, <2>1, <3>1, ProcessedFacts DEF ServiceInv, LogInv
    <3>2. CASE i = Len(results) + 1
      <4>1. results'[i] = [msg |-> Head(batch), res |-> res]
        BY <1>0, <1>1, <3>2, ProcessedFacts
      <4> QED  BY <1>0, <1>2, <1>4, <2>1, <4>1
    <3>3. Len(results) \in Nat
      BY DEF ServiceInv, ServiceTypeOK
    <3> QED  BY <1>0, <1>1, <3>1, <3>2, <3>3, ProcessedFacts
  <2>2. ASSUME NEW x \in OrderIds, verdict[x] = "accept"
        PROVE  Passed(x, image', cursor') /\ (flushFailed \/ x \in Range(disk))
    BY <1>4, <2>2 DEF ServiceInv, LogInv
  <2>3. Len(disk) <= LogSlots /\ phase' \notin {"forward", "respond"}
    BY <1>0, <1>1, ProcessedFacts DEF ServiceInv, LogInv
  <2> QED  BY <1>0, <2>1, <2>2, <2>3 DEF LogInv, Passed
<1>7. OnceInv'
  BY <1>0, <1>1, ProcessedOnce
<1>8. CancelFollowsOrder'
  BY <1>0 DEF ServiceInv, CancelFollowsOrder
<1> QED  BY <1>5, <1>6, <1>7, <1>8 DEF ServiceInv

\* handle_cancel: a cancel comes to the topic behind its order.
LEMMA HandleCancelInv ==
    ASSUME ServiceInv, handle_cancel
    PROVE  ServiceInv'
<1> USE DEF clientVars, logVars
<1>0. /\ phase = "validate" /\ Head(batch).kind = "cancel" /\ Processed("accept")
      /\ validated' \in {validated, Append(validated, Head(batch))}
      /\ UNCHANGED <<client, cancel, inbox, ubs, image, disk, cursor, verdict, stranded, flushFailed, faults>>
  BY DEF handle_cancel
<1>1. Head(batch) \in Message /\ validated \in Seq(Message)
  BY <1>0, ProcessedFacts DEF ServiceInv, ServiceTypeOK
<1>2. /\ validated' \in Seq(Message)
      /\ \A x : In(x, validated') => In(x, validated) \/ x = Head(batch)
  BY <1>0, <1>1, InAppend
<1>3. ServiceTypeOK' /\ LoopInv'
  BY <1>0, <1>2, ProcessedFacts DEF ServiceInv, ServiceTypeOK, LoopInv
<1>4. LogInv'
  <2>1. ASSUME NEW i \in 1..Len(results'), results'[i].res = "pending"
        PROVE  results'[i].msg.kind = "order" /\ Passed(results'[i].msg.order, image, cursor)
    <3>1. Len(results) \in Nat
      BY DEF ServiceInv, ServiceTypeOK
    <3>2. i \in 1..Len(results) \/ i = Len(results) + 1
      BY <1>0, <3>1, ProcessedFacts
    <3>3. i # Len(results) + 1
      BY <1>0, <2>1, ProcessedFacts
    <3> QED  BY <1>0, <2>1, <3>2, <3>3, ProcessedFacts DEF ServiceInv, LogInv
  <2>2. Len(disk) <= LogSlots /\ phase' \notin {"forward", "respond"}
    BY <1>0, ProcessedFacts DEF ServiceInv, LogInv
  <2> QED  BY <1>0, <2>1, <2>2 DEF ServiceInv, LogInv, Passed
<1>5. OnceInv'
  BY <1>0, <1>2, ProcessedOnce
<1>6. CancelFollowsOrder'
  <2>1. CASE validated' = validated
    BY <2>1 DEF ServiceInv, CancelFollowsOrder
  <2>2. CASE validated' = Append(validated, Head(batch))
    <3> SUFFICES ASSUME NEW i \in DOMAIN validated', NEW j \in DOMAIN validated',
                        validated'[i].kind = "cancel",
                        validated'[j] = [validated'[i] EXCEPT !.kind = "order"]
                 PROVE  j < i
      BY DEF CancelFollowsOrder
    <3>1. PICK n \in Nat : n = Len(validated) /\ DOMAIN validated = 1..n /\ DOMAIN validated' = 1..(n + 1)
      <4>1. Len(validated) \in Nat /\ DOMAIN validated = 1..Len(validated)
        BY <1>1
      <4>2. Len(validated') = Len(validated) + 1
        BY <1>1, <2>2
      <4>3. DOMAIN validated' = 1..Len(validated')
        BY <1>2
      <4> QED  BY <4>1, <4>2, <4>3
    <3>2. validated'[n + 1] = Head(batch) /\ \A k \in 1..n : validated'[k] = validated[k]
      BY <1>1, <2>2, <3>1
    <3>3. validated'[j].kind = "order"
      BY <1>1, <1>2, <3>1 DEF Message
    <3>4. j \in 1..n
      <4>1. j # n + 1
        BY <1>0, <3>2, <3>3
      <4> QED  BY <3>1, <4>1
    <3>5. CASE i = n + 1
      BY <3>1, <3>4, <3>5
    <3>6. CASE i \in 1..n
      BY <3>1, <3>2, <3>4, <3>6 DEF ServiceInv, CancelFollowsOrder
    <3> QED  BY <3>1, <3>5, <3>6
  <2> QED  BY <1>0, <2>1, <2>2
<1> QED  BY <1>3, <1>4, <1>5, <1>6 DEF ServiceInv

\* The flush, whether it fails or not.
LEMMA FlushInv ==
    ASSUME ServiceInv, FlushBatch \/ FlushBatchFails
    PROVE  ServiceInv'
<1> USE DEF clientVars, logVars
<1>0. /\ phase = "flush" /\ phase' = "forward"
      /\ UNCHANGED <<client, cancel, inbox, batch, results, ubs, image, cursor, validated, verdict,
                     stranded>>
      /\ disk' \in {image, disk} /\ faults' \in 0..MaxFaults /\ flushFailed' \in BOOLEAN
  <2>1. faults \in Nat /\ MaxFaults \in Nat /\ faults <= MaxFaults /\ flushFailed \in BOOLEAN
    BY ServiceAssumption DEF ServiceInv, ServiceTypeOK
  <2>2. CASE FlushBatch
    BY <2>1, <2>2 DEF FlushBatch
  <2>3. CASE FlushBatchFails
    BY <2>1, <2>3 DEF FlushBatchFails
  <2> QED  BY <2>2, <2>3
<1>1. ServiceTypeOK' /\ LoopInv'
  BY <1>0 DEF ServiceInv, ServiceTypeOK, LoopInv
<1>2. /\ image \in Seq(OrderIds) /\ cursor \in 0..Len(image)
      /\ \A o : Passed(o, image, cursor) => o \in Range(image)
  <2>1. image \in Seq(OrderIds) /\ cursor \in 0..Len(image)
    BY DEF ServiceInv, ServiceTypeOK
  <2> QED  BY <2>1 DEF Passed, Range
<1>3. \/ flushFailed'
      \/ /\ flushFailed' = flushFailed
         /\ \/ disk' = image
            \/ disk' = disk /\ \A i \in 1..Len(results) : results[i].res # "pending"
  <2>1. DOMAIN results = 1..Len(results)
    BY DEF ServiceInv, ServiceTypeOK
  <2>2. CASE FlushBatch
    BY <2>1, <2>2 DEF FlushBatch, HasPending
  <2>3. CASE FlushBatchFails
    BY <2>3 DEF FlushBatchFails
  <2> QED  BY <2>2, <2>3
<1>4. LogInv'
  <2>1. Len(disk') <= LogSlots
    BY <1>0 DEF ServiceInv, ServiceTypeOK, LogInv
  <2>2. ASSUME NEW o \in OrderIds, verdict[o] = "accept"
        PROVE  Passed(o, image, cursor) /\ (flushFailed' \/ o \in Range(disk'))
    <3>1. Passed(o, image, cursor) /\ (flushFailed \/ o \in Range(disk))
      BY <2>2 DEF ServiceInv, LogInv
    <3>2. o \in Range(image)
      BY <1>2, <3>1
    <3> QED  BY <1>3, <3>1, <3>2
  <2>3. ASSUME NEW i \in 1..Len(results), results[i].res = "pending"
        PROVE  /\ results[i].msg.kind = "order" /\ Passed(results[i].msg.order, image, cursor)
               /\ flushFailed' \/ results[i].msg.order \in Range(disk')
    <3>1. results[i].msg.kind = "order" /\ Passed(results[i].msg.order, image, cursor)
      BY <2>3 DEF ServiceInv, LogInv
    <3>2. results[i].msg.order \in Range(image)
      BY <1>2, <3>1
    <3> QED  BY <1>3, <2>3, <3>1, <3>2
  <2> QED  BY <1>0, <2>1, <2>2, <2>3 DEF LogInv, Passed
<1>5. Single(inbox)' /\ Single(batch)' /\ CancelFollowsOrder'
  BY <1>0 DEF ServiceInv, OnceInv, Single, CancelFollowsOrder
<1>6. ASSUME NEW x \in OrderIds  PROVE Travels(x)'
  BY <1>0 DEF ServiceInv, OnceInv, Travels, In, InResults, OrderMsg, CancelMsg
<1> QED  BY <1>1, <1>4, <1>5, <1>6 DEF ServiceInv, OnceInv

\* Where the elements of two sequences are when one follows the other.
LEMMA ConcatElements ==
    ASSUME NEW M, NEW s \in Seq(M), NEW t \in Seq(M)
    PROVE  /\ s \o t \in Seq(M) /\ Len(s \o t) = Len(s) + Len(t) /\ Len(s) \in Nat
           /\ \A i \in 1..Len(s) : (s \o t)[i] = s[i]
           /\ \A i \in 1..Len(t) : (s \o t)[Len(s) + i] = t[i]
           /\ \A i \in 1..Len(s \o t) : i \notin 1..Len(s) =>
                 i - Len(s) \in 1..Len(t) /\ (s \o t)[i] = t[i - Len(s)]
<1>1. s \o t \in Seq(M) /\ Len(s \o t) = Len(s) + Len(t) /\ Len(s) \in Nat /\ Len(t) \in Nat
  OBVIOUS
<1>2. \A i \in 1..Len(s) : (s \o t)[i] = s[i]
  OBVIOUS
<1>3. ASSUME NEW i \in 1..Len(s \o t), i \notin 1..Len(s)
      PROVE  i - Len(s) \in 1..Len(t) /\ (s \o t)[i] = t[i - Len(s)]
  BY <1>1, <1>3
<1>4. ASSUME NEW i \in 1..Len(t)  PROVE (s \o t)[Len(s) + i] = t[i]
  <2>1. /\ Len(s) + i \in 1..Len(s \o t) /\ Len(s) + i \notin 1..Len(s)
        /\ (Len(s) + i) - Len(s) = i
    BY <1>1
  <2> QED  BY <1>3, <2>1
<1> QED  BY <1>1, <1>2, <1>3, <1>4

\* Phase 3 of process_batch: what is forwarded and accepted was pending, and
\* nobody could cancel it yet.
LEMMA ForwardInv ==
    ASSUME ServiceInv, forward_to_kafka
    PROVE  ServiceInv'
<1> USE DEF clientVars, logVars
<1> DEFINE Of(res) == {r.msg.order : r \in {q \in Range(results) :
                                              q.msg.kind = "order" /\ q.res = res}}
           pending == {i \in DOMAIN results : results[i].res = "pending"}
<1>0. /\ phase = "forward" /\ phase' = "respond"
      /\ UNCHANGED <<client, cancel, inbox, batch, results, ubs, image, disk, cursor, stranded,
                     flushFailed, faults>>
      /\ verdict' = [o \in OrderIds |-> IF o \in Of("pending") THEN "accept"
                                        ELSE IF o \in Of("reject") THEN "reject"
                                        ELSE verdict[o]]
  BY DEF forward_to_kafka
<1>1. PICK n \in 0..Len(results) : \E sent \in [1..n -> pending] :
              validated' = validated \o [i \in 1..n |-> results[sent[i]].msg]
  BY DEF forward_to_kafka
<1>2. PICK sent \in [1..n -> pending] :
              validated' = validated \o [i \in 1..n |-> results[sent[i]].msg]
  BY <1>1
<1>3. /\ results \in Seq(Result) /\ DOMAIN results = 1..Len(results) /\ Len(results) \in Nat
      /\ validated \in Seq(Message) /\ n \in Nat
      /\ verdict \in [OrderIds -> {"none", "accept", "reject"}]
  BY DEF ServiceInv, ServiceTypeOK
<1>4. PICK more : more = [i \in 1..n |-> results[sent[i]].msg]
  OBVIOUS
<1>5. \A i \in pending : /\ i \in 1..Len(results) /\ results[i] \in Result
                         /\ results[i].msg \in Message
                         /\ results[i].msg.kind = "order"
                         /\ Passed(results[i].msg.order, image, cursor)
                         /\ flushFailed \/ results[i].msg.order \in Range(disk)
  <2> SUFFICES ASSUME NEW i \in pending
               PROVE  /\ i \in 1..Len(results) /\ results[i] \in Result
                      /\ results[i].msg \in Message
                      /\ results[i].msg.kind = "order"
                      /\ Passed(results[i].msg.order, image, cursor)
                      /\ flushFailed \/ results[i].msg.order \in Range(disk)
    OBVIOUS
  <2>1. i \in 1..Len(results) /\ results[i] \in Result /\ results[i].res = "pending"
    BY <1>3
  <2>2. results[i].msg \in Message
    BY <2>1 DEF Result
  <2> HIDE DEF pending
  <2>3. /\ results[i].msg.kind = "order" /\ Passed(results[i].msg.order, image, cursor)
        /\ flushFailed \/ results[i].msg.order \in Range(disk)
    BY <1>0, <2>1 DEF ServiceInv, LogInv
  <2> QED  BY <2>1, <2>2, <2>3
<1>6. /\ more \in Seq(Message) /\ Len(more) = n
      /\ \A i \in 1..n : more[i].kind = "order" /\ InResults(more[i])
  <2> HIDE DEF pending
  <2>1. \A i \in 1..n : sent[i] \in pending
    BY <1>2
  <2>2. \A i \in 1..n : results[sent[i]].msg \in Message /\ results[sent[i]].msg.kind = "order"
                        /\ InResults(results[sent[i]].msg)
    BY <1>5, <2>1 DEF InResults
  <2>3. more \in [1..n -> Message] /\ \A i \in 1..n : more[i] = results[sent[i]].msg
    BY <1>4, <2>2
  <2>4. more \in Seq(Message) /\ Len(more) = n
    BY <1>3, <2>3
  <2> QED  BY <2>2, <2>3, <2>4
<1>7. /\ validated' \in Seq(Message) /\ Len(validated') = Len(validated) + n /\ Len(validated) \in Nat
      /\ \A i \in 1..Len(validated) : validated'[i] = validated[i]
      /\ \A i \in 1..n : validated'[Len(validated) + i] = more[i]
      /\ \A i \in 1..Len(validated') : i \notin 1..Len(validated) =>
            i - Len(validated) \in 1..n /\ validated'[i] = more[i - Len(validated)]
  <2> HIDE DEF pending
  <2>1. validated' = validated \o more
    BY <1>2, <1>4
  <2>2. validated \in Seq(Message) /\ more \in Seq(Message) /\ Len(more) = n
    BY <1>3, <1>6
  <2>3. /\ validated \o more \in Seq(Message)
        /\ Len(validated \o more) = Len(validated) + n /\ Len(validated) \in Nat
    BY <2>2, ConcatElements
  <2>4. /\ \A i \in 1..Len(validated) : (validated \o more)[i] = validated[i]
        /\ \A i \in 1..n : (validated \o more)[Len(validated) + i] = more[i]
    BY <2>2, ConcatElements
  <2>5. \A i \in 1..Len(validated \o more) : i \notin 1..Len(validated) =>
            i - Len(validated) \in 1..n /\ (validated \o more)[i] = more[i - Len(validated)]
    BY <2>2, ConcatElements
  <2> QED  BY <2>1, <2>3, <2>4, <2>5
<1> HIDE DEF pending
<1>8. \A i \in 1..Len(validated') : validated'[i].kind = "cancel" =>
          i \in 1..Len(validated) /\ validated'[i] = validated[i]
  BY <1>6, <1>7
<1>9. \A x \in OrderIds : In(CancelMsg(x), validated') => In(CancelMsg(x), validated)
  <2> SUFFICES ASSUME NEW x \in OrderIds, NEW i \in 1..Len(validated'), validated'[i] = CancelMsg(x)
               PROVE  In(CancelMsg(x), validated)
    BY DEF In
  <2>1. i \in 1..Len(validated) /\ validated[i] = CancelMsg(x)
    BY <1>8, Messages
  <2> QED  BY <2>1 DEF In
<1>10. ServiceTypeOK' /\ LoopInv'
  <2>1. verdict' \in [OrderIds -> {"none", "accept", "reject"}]
    BY <1>0, <1>3
  <2> QED  BY <1>0, <1>7, <2>1 DEF ServiceInv, ServiceTypeOK, LoopInv
<1>11. LogInv'
  <2>1. ASSUME NEW o \in OrderIds, verdict'[o] = "accept"
        PROVE  Passed(o, image, cursor) /\ (flushFailed \/ o \in Range(disk))
    <3>1. CASE o \in Of("pending")
      <4>1. PICK r \in Range(results) : r.res = "pending" /\ r.msg.order = o
        BY <3>1
      <4>2. PICK i \in DOMAIN results : results[i] = r
        BY <4>1 DEF Range
      <4>3. i \in pending
        BY <4>1, <4>2 DEF pending
      <4> QED  BY <1>5, <4>1, <4>2, <4>3
    <3>2. CASE o \notin Of("pending")
      <4>1. verdict[o] = "accept"
        BY <1>0, <2>1, <3>2
      <4> QED  BY <4>1 DEF ServiceInv, LogInv
    <3> QED  BY <3>1, <3>2
  <2>2. ASSUME NEW i \in 1..Len(results), results[i].res = "pending"
        PROVE  /\ results[i].msg.kind = "order" /\ Passed(results[i].msg.order, image, cursor)
               /\ flushFailed \/ results[i].msg.order \in Range(disk)
    BY <1>3, <1>5, <2>2 DEF pending
  <2>3. Len(disk) <= LogSlots
    BY DEF ServiceInv, LogInv
  <2> HIDE DEF Of
  <2> QED  BY <1>0, <2>1, <2>2, <2>3 DEF LogInv, Passed
<1> HIDE DEF Of
<1>12. Single(inbox)' /\ Single(batch)'
  BY <1>0 DEF ServiceInv, OnceInv, Single
<1>13. ASSUME NEW x \in OrderIds  PROVE Travels(x)'
  <2>1. Travels(x)
    BY DEF ServiceInv, OnceInv
  <2>2. In(CancelMsg(x), validated)' => In(CancelMsg(x), validated)
    BY <1>9 DEF In, CancelMsg
  <2>3. /\ In(OrderMsg(x), inbox)' <=> In(OrderMsg(x), inbox)
        /\ In(CancelMsg(x), inbox)' <=> In(CancelMsg(x), inbox)
        /\ In(OrderMsg(x), batch)' <=> In(OrderMsg(x), batch)
        /\ In(CancelMsg(x), batch)' <=> In(CancelMsg(x), batch)
        /\ InResults(OrderMsg(x))' <=> InResults(OrderMsg(x))
    BY <1>0 DEF In, InResults, OrderMsg, CancelMsg
  <2> QED  BY <1>0, <2>1, <2>2, <2>3 DEF Travels
<1>14. CancelFollowsOrder'
  <2> SUFFICES ASSUME NEW i \in DOMAIN validated', NEW j \in DOMAIN validated',
                      validated'[i].kind = "cancel",
                      validated'[j] = [validated'[i] EXCEPT !.kind = "order"]
               PROVE  j < i
    BY DEF CancelFollowsOrder
  <2>1. DOMAIN validated' = 1..Len(validated') /\ DOMAIN validated = 1..Len(validated)
    BY <1>3, <1>7
  <2>2. i \in 1..Len(validated) /\ validated'[i] = validated[i] /\ validated[i] \in Message
    BY <1>3, <1>8, <2>1
  <2>3. CASE j \in 1..Len(validated)
    BY <1>7, <2>1, <2>2, <2>3 DEF ServiceInv, CancelFollowsOrder
  <2>4. CASE j \notin 1..Len(validated)
    <3>1. PICK x \in OrderIds : x = validated[i].order /\ validated[i] = CancelMsg(x)
      BY <2>2, MessageCases
    <3>2. validated'[j] = OrderMsg(x)
      BY <2>2, <3>1 DEF OrderMsg, CancelMsg
    <3>3. InResults(OrderMsg(x))
      BY <1>6, <1>7, <2>1, <2>4, <3>2
    <3>4. client[x] = "ok"
      BY <2>2, <3>1 DEF ServiceInv, OnceInv, Travels, In
    <3>5. FALSE
      BY <1>0, <3>3, <3>4 DEF ServiceInv, OnceInv, Travels
    <3> QED  BY <3>5
  <2> QED  BY <2>3, <2>4
<1> QED  BY <1>10, <1>11, <1>12, <1>13, <1>14 DEF ServiceInv, OnceInv

\* Phase 3 of the loop: an answer tells the client of an order that has passed.
LEMMA RespondInv ==
    ASSUME ServiceInv, Respond
    PROVE  ServiceInv'
<1> USE DEF clientVars, logVars
<1>0. /\ phase = "respond" /\ results # <<>> /\ results \in Seq(Result) /\ batch = <<>>
      /\ results' = Tail(results) /\ phase' = IF Len(results) = 1 THEN "poll" ELSE "respond"
      /\ UNCHANGED <<inbox, batch, ubs, image, disk, cursor, validated, verdict, stranded, flushFailed, faults>>
      /\ client \in [OrderIds -> Told] /\ cancel \in [OrderIds -> Told]
  BY DEF Respond, ServiceInv, ServiceTypeOK, LoopInv
<1>1. /\ results' \in Seq(Result) /\ Len(results) \in Nat /\ Len(results) >= 1
      /\ Len(results') = Len(results) - 1
      /\ \A i \in 1..Len(results') : i + 1 \in 1..Len(results) /\ results'[i] = results[i + 1]
      /\ Head(results) = results[1] /\ results[1] \in Result
      /\ phase' = "poll" => results' = <<>>
      /\ phase' # "poll" => results' # <<>>
  <2>1. /\ results' \in Seq(Result) /\ Len(results) \in Nat /\ Len(results) >= 1
        /\ Len(results') = Len(results) - 1 /\ Head(results) = results[1] /\ results[1] \in Result
        /\ \A i \in 1..Len(results') : results'[i] = results[i + 1]
    BY <1>0
  <2>2. \A i \in 1..Len(results') : i + 1 \in 1..Len(results)
    BY <2>1
  <2>3. phase' = "poll" => results' = <<>>
    BY <1>0, <2>1
  <2>4. phase' # "poll" => results' # <<>>
    <3>1. phase' # "poll" => Len(results') # 0
      BY <1>0, <2>1
    <3> QED  BY <3>1
  <2> QED  BY <2>1, <2>2, <2>3, <2>4
<1>2. PICK m \in Message : m = Head(results).msg /\ InResults(m)
  <2>1. results[1].msg \in Message /\ 1 \in 1..Len(results)
    BY <1>1 DEF Result
  <2> QED  BY <1>1, <2>1 DEF InResults
<1>3. m.kind \in {"order", "cancel"} /\ m.order \in OrderIds /\ (m.kind = "order" => m = OrderMsg(m.order))
  BY MessageCases
<1>4. /\ client' \in [OrderIds -> Told] /\ cancel' \in [OrderIds -> Told]
      /\ \A x \in OrderIds : \/ client'[x] = client[x]
                             \/ client[x] = "sent" /\ client'[x] = "ok" /\ m = OrderMsg(x)
  BY <1>0, <1>2, <1>3 DEF Respond, Hears, Told
<1>5. ServiceTypeOK' /\ LoopInv' /\ CancelFollowsOrder'
  BY <1>0, <1>1, <1>4 DEF ServiceInv, ServiceTypeOK, LoopInv, CancelFollowsOrder
<1>6. LogInv'
  <2>1. ASSUME NEW i \in 1..Len(results'), results'[i].res = "pending"
        PROVE  /\ results'[i].msg.kind = "order" /\ Passed(results'[i].msg.order, image, cursor)
               /\ flushFailed \/ results'[i].msg.order \in Range(disk)
    <3>1. PICK k \in 1..Len(results) : results'[i] = results[k]
      BY <1>1
    <3>2. results[k].res = "pending" /\ phase \in {"forward", "respond"}
      BY <1>0, <2>1, <3>1
    <3>3. /\ results[k].msg.kind = "order" /\ Passed(results[k].msg.order, image, cursor)
          /\ flushFailed \/ results[k].msg.order \in Range(disk)
      BY <3>2 DEF ServiceInv, LogInv
    <3> QED  BY <3>1, <3>3
  <2> QED  BY <1>0, <2>1 DEF ServiceInv, LogInv, Passed
<1>7. Single(inbox)' /\ Single(batch)'
  BY <1>0 DEF ServiceInv, OnceInv, Single
<1>8. ASSUME NEW x \in OrderIds  PROVE Travels(x)'
  <2>1. Travels(x)
    BY DEF ServiceInv, OnceInv
  <2>2. InResults(OrderMsg(x))' => InResults(OrderMsg(x)) /\ phase' = "respond"
    <3>1. (OrderMsg(x))' = OrderMsg(x)
      BY DEF OrderMsg
    <3>2. ASSUME NEW i \in 1..Len(results'), results'[i].msg = OrderMsg(x)
          PROVE  InResults(OrderMsg(x)) /\ phase' = "respond"
      <4>1. i + 1 \in 1..Len(results) /\ results[i + 1].msg = OrderMsg(x)
        BY <1>1, <3>2
      <4>2. Len(results') # 0
        BY <1>1
      <4> QED  BY <1>0, <1>1, <4>1, <4>2 DEF InResults
    <3> QED  BY <3>1, <3>2 DEF InResults
  <2>3. /\ In(OrderMsg(x), inbox)' <=> In(OrderMsg(x), inbox)
        /\ In(CancelMsg(x), inbox)' <=> In(CancelMsg(x), inbox)
        /\ In(OrderMsg(x), batch)' <=> In(OrderMsg(x), batch)
        /\ In(CancelMsg(x), batch)' <=> In(CancelMsg(x), batch)
        /\ In(CancelMsg(x), validated)' <=> In(CancelMsg(x), validated)
    BY <1>0 DEF In, OrderMsg, CancelMsg
  <2>4. client'[x] = client[x] \/ (client[x] = "sent" /\ client'[x] = "ok" /\ InResults(OrderMsg(x)))
    BY <1>2, <1>4
  <2> QED  BY <2>1, <2>2, <2>3, <2>4 DEF Travels
<1> QED  BY <1>5, <1>6, <1>7, <1>8 DEF ServiceInv, OnceInv

\* A restart loses the messages and starts the log over.
LEMMA RestartInv ==
    ASSUME ServiceInv, NEW l \in {image, disk}, Restarts(l)
    PROVE  ServiceInv'
<1> USE DEF clientVars
<1>0. /\ phase' = "poll" /\ batch' = <<>> /\ results' = <<>> /\ inbox' = <<>>
      /\ ubs' = Seeded /\ image' = l /\ disk' = l /\ cursor' = 0
      /\ verdict' = [o \in OrderIds |-> "none"] /\ stranded' = {} /\ flushFailed' = FALSE
      /\ faults < MaxFaults /\ faults' = faults + 1
      /\ UNCHANGED <<client, cancel, validated>>
  BY DEF Restarts, find_cursor
<1>1. ServiceTypeOK'
  <2>1. MaxU64 \in Nat /\ Seed \in 0..MaxU64 /\ MaxFaults \in Nat /\ faults \in 0..MaxFaults
    BY AccountsAssumption, ServiceAssumption DEF ServiceInv, ServiceTypeOK
  <2>2. ubs' \in [Users -> Balance]
    BY <1>0, <2>1 DEF Seeded, Balance
  <2>3. l \in Seq(OrderIds) /\ Len(l) <= LogSlots /\ Len(l) \in Nat
    BY DEF ServiceInv, ServiceTypeOK, LogInv
  <2>4. cursor' \in 0..Len(image') /\ faults' \in 0..MaxFaults
    BY <1>0, <2>1, <2>3
  <2>5. verdict' \in [OrderIds -> {"none", "accept", "reject"}] /\ flushFailed' \in BOOLEAN
    BY <1>0
  <2> QED  BY <1>0, <2>2, <2>3, <2>4, <2>5 DEF ServiceInv, ServiceTypeOK
<1>2. LoopInv' /\ LogInv'
  BY <1>0 DEF ServiceInv, ServiceTypeOK, LogInv, LoopInv
<1>3. Single(inbox)' /\ Single(batch)' /\ CancelFollowsOrder'
  BY <1>0 DEF ServiceInv, Single, CancelFollowsOrder
<1>4. ASSUME NEW x \in OrderIds  PROVE Travels(x)'
  <2>1. Travels(x)
    BY DEF ServiceInv, OnceInv
  <2>2. /\ ~In(OrderMsg(x), inbox)' /\ ~In(CancelMsg(x), inbox)' /\ ~In(OrderMsg(x), batch)'
        /\ ~In(CancelMsg(x), batch)' /\ ~InResults(OrderMsg(x))'
        /\ In(CancelMsg(x), validated)' <=> In(CancelMsg(x), validated)
    BY <1>0 DEF In, InResults, CancelMsg
  <2> QED  BY <1>0, <2>1, <2>2 DEF Travels
<1> QED  BY <1>1, <1>2, <1>3, <1>4 DEF ServiceInv, OnceInv

\* Every step of the service keeps its invariant.
LEMMA ServiceInvNext ==
    ASSUME ServiceInv, ServiceNext
    PROVE  ServiceInv'
  BY ClientInv, CollectInv, HandleOrderInv, HandleCancelInv, FlushInv, ForwardInv, RespondInv
     DEF ServiceNext, LoopNext

\* What the invariant says of the log.
LEMMA ServiceSafe ==
    ASSUME ServiceInv
    PROVE  AcceptedIsLogged /\ CancelFollowsOrder
<1>1. image \in Seq(OrderIds) /\ cursor \in 0..Len(image)
  BY DEF ServiceInv, ServiceTypeOK
<1>2. ASSUME NEW o, Passed(o, image, cursor)  PROVE o \in Range(SubSeq(image, 1, cursor))
  <2>1. PICK k \in 1..cursor : image[k] = o
    BY <1>2 DEF Passed
  <2>2. k \in DOMAIN SubSeq(image, 1, cursor) /\ SubSeq(image, 1, cursor)[k] = o
    BY <1>1, <2>1
  <2> QED  BY <2>2 DEF Range
<1> QED  BY <1>2 DEF ServiceInv, LogInv, AcceptedIsLogged

-----------------------------------------------------------------------------
(***************************************************************************)
(* The money: sums over users and requests.                                *)
(***************************************************************************)

\* The types the sums rest on.
MoneyTypeOK ==
    /\ funding \in Balance /\ ubs \in [Users -> Balance]
    /\ handler \in [TransferIds -> Stages]
    /\ fate \in [TransferIds -> {"none", "applied", "refused"}]

\* Terms and sums are numbers; no part is greater than the whole.
LEMMA MoneyTypes ==
    ASSUME MoneyTypeOK
    PROVE  /\ \A t \in TransferIds : /\ Amount[t] \in Nat \ {0} /\ Amount[t] = Transfer[t].amount
                                     /\ Transfer[t].user \in Users
                                     /\ GainedBy[t] = Gained(t) /\ GainedBy[t] \in Int
                                     /\ GainedBy[t] <= Amount[t]
                                     /\ ReservedBy[t] = Reserved(t) /\ ReservedBy[t] \in Nat
                                     /\ ReservedBy[t] <= Amount[t]
           /\ \A u \in Users : /\ Worth[u] = ubs[u].avail + ubs[u].frozen /\ Worth[u] \in Nat
                               /\ ubs[u] \in Balance
                               /\ ubs[u].avail \in 0..MaxU64 /\ ubs[u].frozen \in 0..MaxU64
           /\ funding.avail \in 0..MaxU64 /\ funding.frozen \in 0..MaxU64
           /\ SumFunctionOnSet(Worth, Users) \in Nat
           /\ SumFunctionOnSet(Amount, TransferIds) \in Nat
           /\ SumFunctionOnSet(GainedBy, TransferIds) \in Int
           /\ SumFunctionOnSet(ReservedBy, TransferIds) \in Nat
           /\ \A u \in Users : Worth[u] <= SumFunctionOnSet(Worth, Users)
           /\ \A t \in TransferIds : ReservedBy[t] <= SumFunctionOnSet(ReservedBy, TransferIds)
           /\ FundingStart \in Nat /\ Seed * Cardinality(Users) \in Nat /\ MaxU64 \in Nat
<1>1. IsFiniteSet(Users) /\ IsFiniteSet(TransferIds) /\ MaxU64 \in Nat /\ FundingStart \in Nat
  BY FundsAssumption, AccountsAssumption
<1>2. \A t \in TransferIds : /\ Amount[t] \in Nat \ {0} /\ Amount[t] = Transfer[t].amount
                             /\ Transfer[t].user \in Users
  BY FundsAssumption DEF Amount
<1>3. ASSUME NEW t \in TransferIds
      PROVE  /\ GainedBy[t] = Gained(t) /\ GainedBy[t] \in Int /\ GainedBy[t] <= Amount[t]
             /\ ReservedBy[t] = Reserved(t) /\ ReservedBy[t] \in Nat /\ ReservedBy[t] <= Amount[t]
  <2>1. GainedBy[t] = Gained(t) /\ ReservedBy[t] = Reserved(t)
    BY DEF GainedBy, ReservedBy
  <2>2. PICK a \in Nat : a = Amount[t]
    BY <1>2
  <2> QED  BY <2>1, <2>2 DEF Gained, Reserved
<1>4. /\ \A u \in Users : /\ Worth[u] = ubs[u].avail + ubs[u].frozen /\ Worth[u] \in Nat
                          /\ ubs[u] \in Balance
                          /\ ubs[u].avail \in 0..MaxU64 /\ ubs[u].frozen \in 0..MaxU64
      /\ funding.avail \in 0..MaxU64 /\ funding.frozen \in 0..MaxU64
  BY <1>1 DEF MoneyTypeOK, Worth, Balance
<1>5. /\ SumFunctionOnSet(Worth, Users) \in Nat
      /\ \A u \in Users : Worth[u] <= SumFunctionOnSet(Worth, Users)
  BY <1>1, <1>4, SumBounds
<1>6. SumFunctionOnSet(Amount, TransferIds) \in Nat
  BY <1>1, <1>2, SumBounds
<1>7. SumFunctionOnSet(GainedBy, TransferIds) \in Int
  BY <1>1, <1>3, SumInt
<1>8. /\ SumFunctionOnSet(ReservedBy, TransferIds) \in Nat
      /\ \A t \in TransferIds : ReservedBy[t] <= SumFunctionOnSet(ReservedBy, TransferIds)
  BY <1>1, <1>3, SumBounds
<1>9. Seed * Cardinality(Users) \in Nat
  <2>1. Seed \in Nat /\ Cardinality(Users) \in Nat
    BY <1>1, ServiceAssumption, FS_CardinalityType
  <2> QED  BY <2>1
<1> QED  BY <1>1, <1>2, <1>3, <1>4, <1>5, <1>6, <1>7, <1>8, <1>9

\* All that can be spent, and one request more, fits in a u64, if the request
\* has not added anything yet; so does what is locked.
LEMMA SupplyBound ==
    ASSUME MoneyTypeOK, MoneyInv, SupplyFits, ~restarted, NEW t \in TransferIds
    PROVE  /\ Gained(t) <= 0 => funding.avail + SumFunctionOnSet(Worth, Users) + Amount[t] <= MaxU64
           /\ Reserved(t) = 0 => funding.frozen + Amount[t] <= MaxU64
<1> DEFINE f == [x \in TransferIds |-> IF x = t THEN 0 ELSE Amount[x]]
<1>1. IsFiniteSet(TransferIds)
  BY FundsAssumption
<1>2. \A x \in TransferIds : f[x] \in Int /\ Amount[x] \in Int /\ GainedBy[x] \in Int /\ ReservedBy[x] \in Int
  BY MoneyTypes
<1>3. SumFunctionOnSet(f, TransferIds) = SumFunctionOnSet(Amount, TransferIds) + (f[t] - Amount[t])
  <2>1. \A x \in TransferIds : x # t => f[x] = Amount[x]
    OBVIOUS
  <2> HIDE DEF f
  <2> QED  BY <1>1, <1>2, <2>1, SumChange
<1>4. f[t] = 0
  OBVIOUS
<1>5. Gained(t) <= 0 => SumFunctionOnSet(GainedBy, TransferIds) <= SumFunctionOnSet(f, TransferIds)
  <2>1. Gained(t) <= 0 => \A x \in TransferIds : GainedBy[x] <= f[x]
    BY MoneyTypes
  <2> HIDE DEF f
  <2> QED  BY <1>1, <1>2, <2>1, SumMono
<1>6. Reserved(t) = 0 => SumFunctionOnSet(ReservedBy, TransferIds) <= SumFunctionOnSet(f, TransferIds)
  <2>1. Reserved(t) = 0 => \A x \in TransferIds : ReservedBy[x] <= f[x]
    BY MoneyTypes
  <2> HIDE DEF f
  <2> QED  BY <1>1, <1>2, <2>1, SumMono
<1>7. PICK A \in Nat, G \in Int, R \in Nat, W \in Nat, s \in Nat, a \in Nat :
         /\ A = SumFunctionOnSet(Amount, TransferIds) /\ G = SumFunctionOnSet(GainedBy, TransferIds)
         /\ R = SumFunctionOnSet(ReservedBy, TransferIds) /\ W = SumFunctionOnSet(Worth, Users)
         /\ s = Seed * Cardinality(Users) /\ a = Amount[t]
  BY MoneyTypes
<1>8. /\ funding.avail + W = FundingStart + s + G /\ funding.frozen = R
      /\ FundingStart + s + A <= MaxU64
  BY <1>7 DEF MoneyInv, SupplyFits
<1>9. SumFunctionOnSet(f, TransferIds) = A - a
  <2> HIDE DEF f
  <2> QED  BY <1>3, <1>4, <1>7
<1>10. (Gained(t) <= 0 => G <= A - a) /\ (Reserved(t) = 0 => R <= A - a)
  <2> HIDE DEF f
  <2> QED  BY <1>5, <1>6, <1>7, <1>9
<1>11. FundingStart \in Nat /\ MaxU64 \in Nat /\ funding.avail \in Int
  BY MoneyTypes
<1> HIDE DEF f
<1> QED  BY <1>7, <1>8, <1>10, <1>11

\* All that can be spent fits in a u64.
LEMMA TotalBound ==
    ASSUME MoneyTypeOK, MoneyInv, SupplyFits, ~restarted
    PROVE  funding.avail + SumFunctionOnSet(Worth, Users) <= MaxU64
<1>1. IsFiniteSet(TransferIds) /\ \A x \in TransferIds : /\ Amount[x] \in Int /\ GainedBy[x] \in Int
                                                         /\ GainedBy[x] <= Amount[x]
  BY FundsAssumption, MoneyTypes
<1>2. SumFunctionOnSet(GainedBy, TransferIds) <= SumFunctionOnSet(Amount, TransferIds)
  BY <1>1, SumMono
<1>3. PICK A \in Nat, G \in Int, W \in Nat, s \in Nat :
         /\ A = SumFunctionOnSet(Amount, TransferIds) /\ G = SumFunctionOnSet(GainedBy, TransferIds)
         /\ W = SumFunctionOnSet(Worth, Users) /\ s = Seed * Cardinality(Users)
  BY MoneyTypes
<1>4. funding.avail + W = FundingStart + s + G /\ FundingStart + s + A <= MaxU64
  BY <1>3 DEF MoneyInv, SupplyFits
<1>5. FundingStart \in Nat /\ MaxU64 \in Nat /\ funding.avail \in Int /\ G <= A
  BY <1>2, <1>3, MoneyTypes
<1> QED  BY <1>3, <1>4, <1>5

\* A step for one request changes the sums by what it changes for it.
LEMMA RequestChange ==
    ASSUME MoneyTypeOK, MoneyTypeOK', NEW t \in TransferIds,
           \A x \in TransferIds : x # t => handler'[x] = handler[x] /\ fate'[x] = fate[x]
    PROVE  /\ SumFunctionOnSet(GainedBy, TransferIds)'
                = SumFunctionOnSet(GainedBy, TransferIds) + (Gained(t)' - Gained(t))
           /\ SumFunctionOnSet(ReservedBy, TransferIds)'
                = SumFunctionOnSet(ReservedBy, TransferIds) + (Reserved(t)' - Reserved(t))
<1>1. PICK g, r : g = GainedBy' /\ r = ReservedBy'
  OBVIOUS
<1>2. ASSUME NEW x \in TransferIds
      PROVE  /\ g[x] = Gained(x)' /\ r[x] = Reserved(x)' /\ g[x] \in Int /\ r[x] \in Int
             /\ GainedBy[x] = Gained(x) /\ ReservedBy[x] = Reserved(x)
             /\ GainedBy[x] \in Int /\ ReservedBy[x] \in Int
             /\ x # t => g[x] = GainedBy[x] /\ r[x] = ReservedBy[x]
  <2>1. PICK a \in Nat : a = Amount[x]
    BY MoneyTypes
  <2>2. Gained(x)' \in Int /\ Reserved(x)' \in Int
    BY <2>1 DEF Gained, Reserved, Amount
  <2>3. x # t => Gained(x)' = Gained(x) /\ Reserved(x)' = Reserved(x)
    BY DEF Gained, Reserved, Amount
  <2>4. g[x] = Gained(x)' /\ r[x] = Reserved(x)'
    BY <1>1 DEF GainedBy, ReservedBy
  <2> QED  BY <2>2, <2>3, <2>4, MoneyTypes
<1>3. IsFiniteSet(TransferIds)
  BY FundsAssumption
<1>4. SumFunctionOnSet(g, TransferIds) = SumFunctionOnSet(GainedBy, TransferIds) + (g[t] - GainedBy[t])
  BY <1>2, <1>3, SumChange
<1>5. SumFunctionOnSet(r, TransferIds) = SumFunctionOnSet(ReservedBy, TransferIds) + (r[t] - ReservedBy[t])
  BY <1>2, <1>3, SumChange
<1>6. /\ SumFunctionOnSet(GainedBy, TransferIds)' = SumFunctionOnSet(g, TransferIds)
      /\ SumFunctionOnSet(ReservedBy, TransferIds)' = SumFunctionOnSet(r, TransferIds)
  BY <1>1 DEF TransferIds
<1> QED  BY <1>2, <1>4, <1>5, <1>6

\* A step on one user's balance changes the sum by what it changes there.
LEMMA WorthChange ==
    ASSUME MoneyTypeOK, MoneyTypeOK', NEW u \in Users,
           \A x \in Users : x # u => ubs'[x] = ubs[x]
    PROVE  SumFunctionOnSet(Worth, Users)'
             = SumFunctionOnSet(Worth, Users)
               + ((ubs'[u].avail + ubs'[u].frozen) - (ubs[u].avail + ubs[u].frozen))
<1>1. PICK w : w = Worth'
  OBVIOUS
<1>2. ASSUME NEW x \in Users
      PROVE  /\ w[x] = ubs'[x].avail + ubs'[x].frozen /\ w[x] \in Int
             /\ Worth[x] = ubs[x].avail + ubs[x].frozen /\ Worth[x] \in Int
             /\ x # u => w[x] = Worth[x]
  <2>1. w[x] = ubs'[x].avail + ubs'[x].frozen
    BY <1>1 DEF Worth
  <2>2. ubs'[x].avail \in Int /\ ubs'[x].frozen \in Int
    BY AccountsAssumption DEF MoneyTypeOK, Balance
  <2> QED  BY <2>1, <2>2, MoneyTypes
<1>3. IsFiniteSet(Users)
  BY FundsAssumption
<1>4. SumFunctionOnSet(w, Users) = SumFunctionOnSet(Worth, Users) + (w[u] - Worth[u])
  BY <1>2, <1>3, SumChange
<1>5. SumFunctionOnSet(Worth, Users)' = SumFunctionOnSet(w, Users)
  BY <1>1
<1> QED  BY <1>2, <1>4, <1>5

\* A step that touches neither balances nor requests.
LEMMA MoneyFrame ==
    ASSUME MoneyInv, UNCHANGED <<funding, ubs, handler, fate, restarted>>
    PROVE  MoneyInv'
<1>1. GainedBy' = GainedBy /\ ReservedBy' = ReservedBy /\ Worth' = Worth
  BY DEF GainedBy, ReservedBy, Worth, Gained, Reserved, Amount, TransferIds
<1>2. SupplyFits' = SupplyFits
  BY DEF SupplyFits, Amount, TransferIds
<1> QED  BY <1>1, <1>2 DEF MoneyInv, TransferIds

\* The equations after a step, from what it changed.
LEMMA MoneyStep ==
    ASSUME MoneyTypeOK, MoneyTypeOK', MoneyInv, restarted' = restarted,
           NEW dF \in Int, NEW dR \in Int, NEW dW \in Int, NEW dG \in Int, NEW dV \in Int,
           SupplyFits /\ ~restarted =>
              /\ funding'.avail = funding.avail + dF /\ funding'.frozen = funding.frozen + dR
              /\ SumFunctionOnSet(Worth, Users)' = SumFunctionOnSet(Worth, Users) + dW
              /\ SumFunctionOnSet(GainedBy, TransferIds)'
                   = SumFunctionOnSet(GainedBy, TransferIds) + dG
              /\ SumFunctionOnSet(ReservedBy, TransferIds)'
                   = SumFunctionOnSet(ReservedBy, TransferIds) + dV
              /\ dF + dW = dG /\ dR = dV
    PROVE  MoneyInv'
<1>1. SupplyFits' = SupplyFits
  BY DEF SupplyFits, Amount, TransferIds
<1> SUFFICES ASSUME SupplyFits, ~restarted
             PROVE  /\ (funding.avail + SumFunctionOnSet(Worth, Users)
                         = FundingStart + Seed * Cardinality(Users)
                           + SumFunctionOnSet(GainedBy, TransferIds))'
                    /\ (funding.frozen = SumFunctionOnSet(ReservedBy, TransferIds))'
  BY <1>1 DEF MoneyInv
<1>2. PICK G \in Int, R \in Nat, W \in Nat, s \in Nat, a \in Int, b \in Int :
         /\ G = SumFunctionOnSet(GainedBy, TransferIds)
         /\ R = SumFunctionOnSet(ReservedBy, TransferIds) /\ W = SumFunctionOnSet(Worth, Users)
         /\ s = Seed * Cardinality(Users) /\ a = funding.avail /\ b = funding.frozen
  <2>1. /\ SumFunctionOnSet(GainedBy, TransferIds) \in Int
        /\ SumFunctionOnSet(ReservedBy, TransferIds) \in Nat /\ SumFunctionOnSet(Worth, Users) \in Nat
        /\ Seed * Cardinality(Users) \in Nat
    BY MoneyTypes
  <2>2. funding.avail \in Int /\ funding.frozen \in Int
    BY AccountsAssumption DEF MoneyTypeOK, Balance
  <2> QED  BY <2>1, <2>2, Zenon
<1>3. a + W = FundingStart + s + G /\ b = R /\ FundingStart \in Nat
  BY <1>2, MoneyTypes DEF MoneyInv
<1>4. /\ (a + dF) + (W + dW) = FundingStart + s + (G + dG) /\ b + dR = R + dV
  BY <1>2, <1>3
<1>5. /\ funding'.avail = a + dF /\ SumFunctionOnSet(Worth, Users)' = W + dW
      /\ SumFunctionOnSet(GainedBy, TransferIds)' = G + dG
      /\ funding'.frozen = b + dR /\ SumFunctionOnSet(ReservedBy, TransferIds)' = R + dV
  BY <1>2
<1>6. (Seed * Cardinality(Users))' = s
  BY <1>2
<1> QED  BY <1>4, <1>5, <1>6

-----------------------------------------------------------------------------
(***************************************************************************)
(* The gateway's transfer handlers.                                        *)
(***************************************************************************)

\* The gateway's and the consumers' part of TypeOK.
FundsTypeOK ==
    /\ funding \in Balance
    /\ handler \in [TransferIds -> Stages]
    /\ nextSeq \in [TransferIds -> Nat]
    /\ \A t \in TransferIds : current[t].avail \in Int /\ current[t].from \in 0..Len(events)
    /\ ops \in Seq(TransferIds) /\ opsPos \in 0..Len(ops) /\ opsCommitted \in 0..opsPos
    /\ fate \in [TransferIds -> {"none", "applied", "refused"}]
    /\ events \in Seq([user : Users, seq : Nat, avail : 0..MaxU64])
    /\ evPos \in 0..Len(events) /\ evCommitted \in 0..evPos
    /\ Range(writer) \subseteq 1..evPos /\ Len(writer) <= WriterCapacity
    /\ \A u \in Users : DOMAIN rows[u] \subseteq Nat /\ latest[u] \in 0..Len(events)
    /\ restarted \in BOOLEAN /\ lost \in 0..MaxLost /\ now \in 0..MaxNow

\* TypeOK in two parts.
LEMMA TypeParts == TypeOK <=> ServiceTypeOK /\ FundsTypeOK
  BY DEF TypeOK, FundsTypeOK

\* What the invariant says of types and of the requests' terms.
LEMMA Facts ==
    ASSUME IndInv
    PROVE  /\ ServiceInv /\ FundsTypeOK /\ OpsInv /\ TableInv /\ MoneyInv /\ MoneyTypeOK
           /\ MaxLost \in Nat /\ MaxNow \in Nat /\ MaxU64 \in Nat /\ WriterCapacity \in Nat \ {0}
<1>1. ServiceInv /\ ServiceTypeOK /\ FundsTypeOK /\ OpsInv /\ TableInv /\ MoneyInv
  BY TypeParts DEF IndInv, ServiceInv
<1>2. MoneyTypeOK
  BY <1>1 DEF ServiceTypeOK, FundsTypeOK, MoneyTypeOK
<1> QED  BY <1>1, <1>2, FundsAssumption, AccountsAssumption

\* Putting the invariant together again.
LEMMA Parts ==
    ASSUME ServiceInv', FundsTypeOK', OpsInv', TableInv', MoneyInv'
    PROVE  IndInv'
  BY TypeParts DEF IndInv, ServiceInv, TypeOK, FundsTypeOK

\* A step that leaves the table, the events and the writer alone.
LEMMA TableFrame ==
    ASSUME TableInv, UNCHANGED <<rows, latest, current, writer, events, now>>,
           \A t \in TransferIds : handler'[t] = "withdraw" => handler[t] = "withdraw"
    PROVE  TableInv'
<1>1. EventsInv'
  BY DEF TableInv, EventsInv
<1>2. \A u \in Users : RowsInv(u)'
  BY DEF TableInv, RowsInv
<1> QED  BY <1>1, <1>2 DEF TableInv

\* A step that leaves the topic of the operations and their fate alone.
LEMMA OpsFrame ==
    ASSUME OpsInv, NEW t \in TransferIds, NEW s \in Stages,
           UNCHANGED <<ops, opsPos, fate, restarted>>,
           handler \in [TransferIds -> Stages], handler' = [handler EXCEPT ![t] = s],
           \/ handler[t] = "new" /\ s \in {"locked", "refused"} /\ Transfer[t].dir = "in"
           \/ /\ handler[t] \in {"published", "withdraw", "append", "credit"}
              /\ s \in {"withdraw", "append", "credit", "done"}
              /\ Transfer[t].dir = "out" \/ s = "done"
    PROVE  OpsInv'
<1>1. \A x \in TransferIds : handler'[x] = IF x = t THEN s ELSE handler[x]
  OBVIOUS
<1>2. ASSUME NEW i \in 1..Len(ops)  PROVE handler'[ops[i]] \notin {"new", "locked", "refused"}
  <2>1. handler[ops[i]] \notin {"new", "locked", "refused"}
    BY DEF OpsInv
  <2> QED  BY <2>1
<1>3. ASSUME NEW x \in TransferIds
      PROVE  /\ handler'[x] \in {"published", "withdraw", "append", "credit", "done"} =>
                   \E i \in 1..Len(ops) : ops[i] = x
             /\ Transfer[x].dir = "in" => handler'[x] \notin {"withdraw", "append", "credit"}
             /\ Transfer[x].dir = "out" => handler'[x] \notin {"locked", "refused"}
  BY <1>1 DEF OpsInv
<1> QED  BY <1>2, <1>3 DEF OpsInv

\* No request moves but t's, and it is neither locked nor done with.
LEMMA StageMoney ==
    ASSUME MoneyTypeOK, MoneyInv, NEW t \in TransferIds, NEW s \in Stages,
           UNCHANGED <<funding, ubs, fate, restarted>>,
           handler' = [handler EXCEPT ![t] = s],
           \/ Transfer[t].dir = "out" /\ handler[t] # "done" /\ s # "done"
           \/ handler[t] = "locked" /\ s \in {"published", "failed"}
    PROVE  MoneyInv'
<1>1. /\ \A x \in TransferIds : handler'[x] = IF x = t THEN s ELSE handler[x]
      /\ handler' \in [TransferIds -> Stages]
  BY DEF MoneyTypeOK
<1>2. ASSUME NEW x \in TransferIds  PROVE Gained(x)' = Gained(x) /\ Reserved(x)' = Reserved(x)
  BY <1>1 DEF Gained, Reserved, Amount
<1>3. GainedBy' = GainedBy /\ ReservedBy' = ReservedBy /\ Worth' = Worth
  BY <1>2 DEF GainedBy, ReservedBy, Worth, TransferIds
<1>4. SupplyFits' = SupplyFits
  BY DEF SupplyFits, Amount, TransferIds
<1> QED  BY <1>3, <1>4 DEF MoneyInv, TransferIds

\* A step of the gateway leaves the service alone.
LEMMA GatewayFrame ==
    ASSUME IndInv, UNCHANGED serviceVars
    PROVE  ServiceInv' /\ ubs' = ubs
  BY ServiceFrame, Facts DEF serviceVars, ServiceInv, ServiceTypeOK

\* transfer_in locks the funds, or refuses.
LEMMA LockInv ==
    ASSUME IndInv, NEW t \in TransferIds, LockFunding(t), UNCHANGED serviceVars
    PROVE  IndInv'
<1> USE DEF settleVars, consumerVars
<1>1. PICK n \in Nat, s \in {"locked", "refused"} :
         /\ n = Transfer[t].amount /\ n = Amount[t]
         /\ s = (IF lock(funding, n).res = "ok" THEN "locked" ELSE "refused")
  BY FundsAssumption DEF Amount
<1>2. /\ handler[t] = "new" /\ Transfer[t].dir = "in"
      /\ funding' = lock(funding, n).bal /\ handler' = [handler EXCEPT ![t] = s]
      /\ UNCHANGED <<nextSeq, current, ops, opsPos, opsCommitted, fate, restarted, events, evPos,
                     evCommitted, writer, latest, rows, lost, now>>
  BY <1>1 DEF LockFunding, Goes
<1>3. funding \in Balance /\ lock(funding, n).bal \in Balance /\ s \in Stages
  BY <1>1, BalanceOps, Facts DEF FundsTypeOK, Stages, Ended
<1>4. FundsTypeOK' /\ MoneyTypeOK'
  <2>1. handler' \in [TransferIds -> Stages] /\ funding' \in Balance
    BY <1>2, <1>3, Facts DEF FundsTypeOK
  <2>2. FundsTypeOK'
    BY <1>2, <2>1, Facts DEF FundsTypeOK
  <2> QED  BY <1>2, <2>1, <2>2, Facts, GatewayFrame DEF FundsTypeOK, MoneyTypeOK
<1>5. OpsInv'
  BY <1>1, <1>2, <1>3, OpsFrame, Facts DEF FundsTypeOK
<1>6. TableInv'
  BY <1>1, <1>2, TableFrame, Facts DEF FundsTypeOK
<1>7. MoneyInv'
  <2>0. handler \in [TransferIds -> Stages] /\ MoneyTypeOK /\ MoneyInv
    BY Facts DEF MoneyTypeOK
  <2>1. \A x \in TransferIds : x # t => handler'[x] = handler[x] /\ fate'[x] = fate[x]
    BY <1>2, <2>0
  <2>2. handler'[t] = s
    BY <1>2, <2>0
  <2>3. PICK d \in Int : d = IF s = "locked" THEN n ELSE 0
    OBVIOUS
  <2>4. Gained(t)' - Gained(t) = 0 - d /\ Reserved(t)' - Reserved(t) = d /\ Reserved(t) = 0
    <3>1. PICK g \in Int : g = IF fate[t] = "applied" THEN Amount[t] ELSE 0
      BY <1>1
    <3>2. Gained(t) = g - 0 /\ Reserved(t) = 0
      BY <1>2, <3>1 DEF Gained, Reserved
    <3>3. Gained(t)' = g - d /\ Reserved(t)' = d
      BY <1>1, <1>2, <2>2, <2>3, <3>1 DEF Gained, Reserved, Amount
    <3> QED  BY <2>3, <3>1, <3>2, <3>3
  <2>5. ASSUME SupplyFits, ~restarted
        PROVE  funding'.avail = funding.avail + (0 - d) /\ funding'.frozen = funding.frozen + d
    <3>1. funding.frozen + n <= MaxU64
      BY <1>1, <2>0, <2>4, <2>5, SupplyBound
    <3>2. funding.avail \in Int /\ funding.frozen \in Int
      BY <2>0, MoneyTypes
    <3>3. CASE lock(funding, n).res = "ok"
      BY <1>1, <1>2, <1>3, <2>3, <3>2, <3>3, BalanceOps
    <3>4. CASE lock(funding, n).res # "ok"
      <4>1. funding' = funding
        BY <1>2, <1>3, <3>1, <3>4, BalanceOps
      <4> QED  BY <1>1, <2>3, <3>2, <3>4, <4>1
    <3> QED  BY <3>3, <3>4
  <2>6. SumFunctionOnSet(Worth, Users)' = SumFunctionOnSet(Worth, Users) + 0
    <3>1. Worth' = Worth
      BY GatewayFrame DEF Worth
    <3>2. SumFunctionOnSet(Worth, Users) \in Int
      BY <2>0, MoneyTypes
    <3> QED  BY <3>1, <3>2
  <2>7. /\ SumFunctionOnSet(GainedBy, TransferIds)' = SumFunctionOnSet(GainedBy, TransferIds) + (0 - d)
        /\ SumFunctionOnSet(ReservedBy, TransferIds)' = SumFunctionOnSet(ReservedBy, TransferIds) + d
    BY <1>4, <2>0, <2>1, <2>4, RequestChange
  <2>8. PICK e \in Int : e = 0 - d
    OBVIOUS
  <2>9. e + 0 = e /\ d = d /\ 0 \in Int
    OBVIOUS
  <2>10. restarted' = restarted
    BY <1>2
  <2> QED  BY <1>4, <2>0, <2>5, <2>6, <2>7, <2>8, <2>9, <2>10, MoneyStep
<1> QED  BY <1>4, <1>5, <1>6, <1>7, GatewayFrame, Parts

\* A request is published, or the handler ends with an error.
LEMMA PublishInv ==
    ASSUME IndInv, NEW t \in TransferIds, PublishIn(t) \/ PublishOut(t), UNCHANGED serviceVars
    PROVE  IndInv'
<1> USE DEF settleVars
<1>1. /\ \/ Transfer[t].dir = "in" /\ handler[t] = "locked"
         \/ Transfer[t].dir = "out" /\ handler[t] = "new"
      /\ UNCHANGED <<funding, nextSeq, current, opsPos, opsCommitted, fate, restarted, events, evPos,
                     evCommitted, writer, latest, rows, now>>
      /\ Publishes(t)
  BY DEF PublishIn, PublishOut, Publishes
<1>2. PICK s \in {"published", "failed"} :
         /\ handler' = [handler EXCEPT ![t] = s]
         /\ ops' = Append(ops, t) \/ (s = "failed" /\ ops' = ops)
  BY <1>1 DEF Publishes, Goes
<1>3. lost' \in 0..MaxLost
  BY <1>1, Facts DEF Publishes, Works, Fails, FundsTypeOK
<1>4. s \in Stages /\ handler \in [TransferIds -> Stages] /\ ops \in Seq(TransferIds) /\ Len(ops) \in Nat
  BY Facts DEF FundsTypeOK, Stages, Ended
<1>5. /\ handler' \in [TransferIds -> Stages]
      /\ \A x \in TransferIds : handler'[x] = IF x = t THEN s ELSE handler[x]
  BY <1>2, <1>4
<1>6. ops' \in Seq(TransferIds) /\ Len(ops') \in Nat /\ Len(ops') >= Len(ops)
  BY <1>2, <1>4
<1>7. FundsTypeOK' /\ MoneyTypeOK'
  <2>1. FundsTypeOK'
    <3>1. opsPos' \in 0..Len(ops') /\ opsCommitted' \in 0..opsPos'
      BY <1>1, <1>4, <1>6, Facts DEF FundsTypeOK
    <3> QED  BY <1>1, <1>3, <1>5, <1>6, <3>1, Facts DEF FundsTypeOK
  <2> QED  BY <1>1, <1>5, <2>1, Facts, GatewayFrame DEF MoneyTypeOK
<1>8. OpsInv'
  <2>0. OpsInv /\ opsPos \in 0..Len(ops)
    BY Facts DEF FundsTypeOK
  <2>1. \A i \in 1..Len(ops) : ops[i] # t /\ ops[i] \in TransferIds
    BY <1>1, <1>4, <2>0 DEF OpsInv
  <2>2. /\ \A i \in 1..Len(ops) : i \in 1..Len(ops') /\ ops'[i] = ops[i]
        /\ \A i \in 1..Len(ops') : i \in 1..Len(ops) \/ ops'[i] = t
        /\ \A i, j \in 1..Len(ops') : i \notin 1..Len(ops) /\ j \notin 1..Len(ops) => i = j
        /\ s = "published" => \E i \in 1..Len(ops') : ops'[i] = t
        /\ \A i \in 1..opsPos : i \in 1..Len(ops)
    <3>1. CASE ops' = ops /\ s = "failed"
      BY <1>4, <2>0, <3>1
    <3>2. CASE ops' = Append(ops, t)
      <4>1. /\ Len(ops') = Len(ops) + 1 /\ ops'[Len(ops) + 1] = t
            /\ \A i \in 1..Len(ops) : ops'[i] = ops[i]
        BY <1>4, <3>2
      <4>2. Len(ops) + 1 \in 1..Len(ops')
        BY <1>4, <4>1
      <4> QED  BY <1>4, <2>0, <4>1, <4>2
    <3> QED  BY <1>2, <3>1, <3>2
  <2>3. \A i, j \in 1..Len(ops') : ops'[i] = ops'[j] => i = j
    BY <2>0, <2>1, <2>2 DEF OpsInv
  <2>4. \A i \in 1..Len(ops') : handler'[ops'[i]] \notin {"new", "locked", "refused"}
    BY <1>5, <2>0, <2>1, <2>2 DEF OpsInv
  <2>5. ASSUME NEW x \in TransferIds
        PROVE  /\ handler'[x] \in {"published", "withdraw", "append", "credit", "done"} =>
                     \E i \in 1..Len(ops') : ops'[i] = x
               /\ Transfer[x].dir = "in" => handler'[x] \notin {"withdraw", "append", "credit"}
               /\ Transfer[x].dir = "out" => handler'[x] \notin {"locked", "refused"}
               /\ fate[x] = "refused" => Transfer[x].dir = "out"
               /\ ~restarted /\ fate[x] # "none" => \E i \in 1..opsPos : ops'[i] = x
    <3>1. x = t => handler'[x] = s
      BY <1>5
    <3>2. CASE x = t
      BY <2>0, <2>2, <3>1, <3>2 DEF OpsInv
    <3>3. CASE x # t
      BY <1>5, <2>0, <2>2, <3>3 DEF OpsInv
    <3> QED  BY <3>2, <3>3
  <2>6. ~restarted => \A i \in 1..opsPos : fate[ops'[i]] # "none"
    BY <2>0, <2>2 DEF OpsInv
  <2> QED  BY <1>1, <2>3, <2>4, <2>5, <2>6 DEF OpsInv
<1>9. TableInv'
  BY <1>1, <1>5, TableFrame, Facts
<1>10. MoneyInv'
  BY <1>1, <1>2, <1>4, StageMoney, Facts, GatewayFrame
<1> QED  BY <1>7, <1>8, <1>9, <1>10, GatewayFrame, Parts

\* transfer_in takes what it had locked; transfer_out credits the account.
LEMMA SettleInv ==
    ASSUME IndInv, NEW t \in TransferIds, SpendFunding(t) \/ CreditFunding(t), UNCHANGED serviceVars
    PROVE  IndInv'
<1> USE DEF settleVars, consumerVars
<1>1. PICK n \in Nat : n = Transfer[t].amount /\ n = Amount[t]
  BY FundsAssumption DEF Amount
<1>2. /\ handler' = [handler EXCEPT ![t] = "done"]
      /\ \/ /\ handler[t] = "published" /\ Transfer[t].dir = "in"
            /\ funding' = spend_frozen(funding, n).bal
         \/ /\ handler[t] = "credit" /\ Transfer[t].dir # "in"
            /\ funding' = deposit(funding, n).bal
      /\ UNCHANGED <<nextSeq, current, ops, opsPos, opsCommitted, fate, restarted, events, evPos,
                     evCommitted, writer, latest, rows, lost, now>>
  BY <1>1, Facts DEF SpendFunding, CreditFunding, Goes, OpsInv
<1>3. /\ funding \in Balance /\ funding' \in Balance /\ "done" \in Stages
      /\ handler \in [TransferIds -> Stages] /\ MoneyTypeOK /\ MoneyInv
  BY SMTT(30), <1>1, <1>2, BalanceOps, Facts DEF FundsTypeOK, Stages, Ended
<1>4. /\ handler' \in [TransferIds -> Stages] /\ handler'[t] = "done"
      /\ \A x \in TransferIds : x # t => handler'[x] = handler[x]
  BY <1>2, <1>3
<1>5. FundsTypeOK' /\ MoneyTypeOK'
  <2>1. FundsTypeOK'
    BY <1>2, <1>3, <1>4, Facts DEF FundsTypeOK
  <2> QED  BY <1>2, <1>3, <1>4, <2>1, Facts, GatewayFrame DEF MoneyTypeOK
<1>6. OpsInv'
  BY <1>2, <1>3, OpsFrame, Facts
<1>7. TableInv'
  <2>1. \A x \in TransferIds : handler'[x] = "withdraw" => handler[x] = "withdraw"
    BY <1>4
  <2> QED  BY <1>2, <2>1, TableFrame, Facts
<1>8. MoneyInv'
  <2>1. \A x \in TransferIds : x # t => handler'[x] = handler[x] /\ fate'[x] = fate[x]
    BY <1>2, <1>4
  <2>2. PICK dG \in Int, dV \in Int : dG = (IF Transfer[t].dir = "in" THEN 0 ELSE n)
                                      /\ dV = (IF Transfer[t].dir = "in" THEN 0 - n ELSE 0)
    OBVIOUS
  <2>3. /\ Gained(t)' - Gained(t) = dG /\ Reserved(t)' - Reserved(t) = dV
        /\ Transfer[t].dir = "in" => Reserved(t) = n
        /\ Transfer[t].dir # "in" => Gained(t) <= 0
    <3>1. PICK g \in {0, n} : g = IF fate[t] = "applied" THEN Amount[t] ELSE 0
      BY <1>1
    <3>2. /\ Gained(t) = (IF Transfer[t].dir = "in" THEN g - n ELSE 0 - g)
          /\ Reserved(t) = (IF Transfer[t].dir = "in" THEN n ELSE 0)
      BY <1>1, <1>2, <3>1 DEF Gained, Reserved
    <3>3. /\ Gained(t)' = (IF Transfer[t].dir = "in" THEN g - n ELSE n - g)
          /\ Reserved(t)' = 0
      BY <1>1, <1>2, <1>4, <3>1 DEF Gained, Reserved, Amount
    <3>4. g \in Nat
      BY <3>1
    <3>5. CASE Transfer[t].dir = "in"
      BY <2>2, <3>2, <3>3, <3>4, <3>5
    <3>6. CASE Transfer[t].dir # "in"
      <4>1. Gained(t) = 0 - g /\ Reserved(t) = 0 /\ Gained(t)' = n - g /\ Reserved(t)' = 0
        BY <3>2, <3>3, <3>6
      <4>2. dG = n /\ dV = 0
        BY <2>2, <3>6
      <4> QED  BY <3>4, <3>6, <4>1, <4>2
    <3> QED  BY <3>5, <3>6
  <2>4. ASSUME SupplyFits, ~restarted
        PROVE  funding'.avail = funding.avail + dG /\ funding'.frozen = funding.frozen + dV
    <3>0. funding.avail \in Int /\ funding.frozen \in Int /\ MaxU64 \in Int
      BY <1>3, MoneyTypes
    <3>1. CASE Transfer[t].dir = "in"
      <4>1. funding.frozen >= n
        <5>1. PICK R \in Nat : R = SumFunctionOnSet(ReservedBy, TransferIds) /\ n <= R
          BY <1>3, <2>3, <3>1, MoneyTypes
        <5> QED  BY <1>3, <2>4, <5>1 DEF MoneyInv
      <4> QED  BY <1>2, <1>3, <2>2, <3>0, <3>1, <4>1, BalanceOps
    <3>2. CASE Transfer[t].dir # "in"
      <4>1. funding.avail + n <= MaxU64
        <5>1. funding.avail + SumFunctionOnSet(Worth, Users) + Amount[t] <= MaxU64
          BY <1>3, <2>3, <2>4, <3>2, SupplyBound
        <5>2. PICK W \in Nat : W = SumFunctionOnSet(Worth, Users)
          BY <1>3, MoneyTypes
        <5> QED  BY <1>1, <3>0, <5>1, <5>2
      <4> QED  BY <1>2, <1>3, <2>2, <3>0, <3>2, <4>1, BalanceOps
    <3> QED  BY <3>1, <3>2
  <2>5. SumFunctionOnSet(Worth, Users)' = SumFunctionOnSet(Worth, Users) + 0
    <3>1. Worth' = Worth
      BY GatewayFrame DEF Worth
    <3>2. SumFunctionOnSet(Worth, Users) \in Int
      BY <1>3, MoneyTypes
    <3> QED  BY <3>1, <3>2
  <2>6. /\ SumFunctionOnSet(GainedBy, TransferIds)' = SumFunctionOnSet(GainedBy, TransferIds) + dG
        /\ SumFunctionOnSet(ReservedBy, TransferIds)' = SumFunctionOnSet(ReservedBy, TransferIds) + dV
    BY <1>3, <1>5, <2>1, <2>3, RequestChange
  <2>7. dG + 0 = dG /\ 0 \in Int /\ restarted' = restarted
    BY <1>2
  <2> QED  BY <1>3, <1>5, <2>4, <2>5, <2>6, <2>7, MoneyStep
<1> QED  BY <1>5, <1>6, <1>7, <1>8, GatewayFrame, Parts

\* What get_current_balance finds.
LEMMA NewestFacts ==
    ASSUME IndInv, NEW u \in Users, DOMAIN rows[u] # {}
    PROVE  /\ Newest(u) \in DOMAIN rows[u] /\ Newest(u) \in Nat
           /\ rows[u][Newest(u)].avail \in Int
           /\ rows[u][Newest(u)].from \in 0..Len(events)
<1>1. RowsInv(u) /\ DOMAIN rows[u] \subseteq Nat /\ latest[u] \in 0..Len(events) /\ Len(events) \in Nat
  BY Facts DEF TableInv, FundsTypeOK
<1>2. Newest(u) \in DOMAIN rows[u]
  <2>1. IsFiniteSet(DOMAIN rows[u]) /\ \A x \in DOMAIN rows[u] : x \in Int
    BY <1>1 DEF RowsInv
  <2> QED  BY <2>1, MaxFacts DEF Newest
<1>3. rows[u][Newest(u)].from = 0 \/ rows[u][Newest(u)].from \in 1..latest[u]
  BY <1>1, <1>2 DEF RowsInv, Other
<1> QED  BY <1>1, <1>2, <1>3 DEF RowsInv

\* transfer_out reads the table.
LEMMA ReadInv ==
    ASSUME IndInv, NEW t \in TransferIds, ReadSeq(t) \/ WithdrawReads(t), UNCHANGED serviceVars
    PROVE  IndInv'
<1> USE DEF settleVars, consumerVars
<1>0. PICK u \in Users : u = Transfer[t].user
  BY FundsAssumption
<1>1. /\ handler[t] \in {"published", "withdraw"} /\ Transfer[t].dir = "out"
      /\ UNCHANGED <<funding, ops, opsPos, opsCommitted, fate, restarted, events, evPos,
                     evCommitted, writer, latest, rows, now>>
  <2>1. handler[t] = "withdraw" => Transfer[t].dir = "out"
    BY Facts, FundsAssumption DEF OpsInv
  <2> QED  BY <2>1 DEF ReadSeq, WithdrawReads
<1>2. PICK s \in {"withdraw", "append", "credit"} :
         /\ handler' = [handler EXCEPT ![t] = s]
         /\ s = "withdraw" => DOMAIN rows[u] # {} /\ UNCHANGED current
         /\ \/ UNCHANGED nextSeq
            \/ DOMAIN rows[u] # {} /\ nextSeq' = [nextSeq EXCEPT ![t] = Newest(u) + 1]
         /\ \/ UNCHANGED current
            \/ DOMAIN rows[u] # {} /\ current' = [current EXCEPT ![t] = rows[u][Newest(u)]]
         /\ lost' \in {lost, lost + 1} /\ (lost' # lost => lost < MaxLost)
  <2>1. CASE ReadSeq(t)
    BY <1>0, <2>1 DEF ReadSeq, Goes, Works, Fails
  <2>2. CASE WithdrawReads(t)
    <3>1. DOMAIN rows[u] # {}
      BY <1>0, <2>2, Facts DEF WithdrawReads, TableInv
    <3> QED  BY <1>0, <2>2, <3>1 DEF WithdrawReads, Goes, Works, Fails
  <2> QED  BY <2>1, <2>2
<1>3. /\ s \in Stages /\ handler \in [TransferIds -> Stages] /\ FundsTypeOK
      /\ current = [x \in TransferIds |-> current[x]]
  BY Facts DEF FundsTypeOK, TableInv, Stages
<1>4. /\ handler' \in [TransferIds -> Stages]
      /\ \A x \in TransferIds : handler'[x] = IF x = t THEN s ELSE handler[x]
  BY <1>2, <1>3
<1>5. nextSeq' \in [TransferIds -> Nat]
  <2>1. CASE UNCHANGED nextSeq
    BY <1>3, <2>1 DEF FundsTypeOK
  <2>2. CASE DOMAIN rows[u] # {} /\ nextSeq' = [nextSeq EXCEPT ![t] = Newest(u) + 1]
    <3>1. Newest(u) + 1 \in Nat
      BY <2>2, NewestFacts
    <3> QED  BY <1>3, <2>2, <3>1 DEF FundsTypeOK
  <2> QED  BY <1>2, <2>1, <2>2
<1>6. /\ current' = [x \in TransferIds |-> current'[x]]
      /\ \A x \in TransferIds : current'[x].avail \in Int /\ current'[x].from \in 0..Len(events)
  <2>1. CASE UNCHANGED current
    BY <1>3, <2>1 DEF FundsTypeOK
  <2>2. CASE DOMAIN rows[u] # {} /\ current' = [current EXCEPT ![t] = rows[u][Newest(u)]]
    <3>1. rows[u][Newest(u)].avail \in Int /\ rows[u][Newest(u)].from \in 0..Len(events)
      BY <2>2, NewestFacts
    <3>2. DOMAIN current = TransferIds
      BY <1>3
    <3>3. \A x \in TransferIds : current'[x] = IF x = t THEN rows[u][Newest(u)] ELSE current[x]
      BY <2>2, <3>2
    <3>4. current' = [x \in TransferIds |-> current'[x]]
      BY <2>2, <3>2
    <3> QED  BY <1>3, <3>1, <3>3, <3>4 DEF FundsTypeOK
  <2> QED  BY <1>2, <2>1, <2>2
<1>7. FundsTypeOK' /\ MoneyTypeOK'
  <2>1. lost' \in 0..MaxLost
    BY <1>2, <1>3, Facts DEF FundsTypeOK
  <2>2. FundsTypeOK'
    BY <1>1, <1>3, <1>4, <1>5, <1>6, <2>1 DEF FundsTypeOK
  <2> QED  BY <1>1, <1>4, <2>2, Facts, GatewayFrame DEF MoneyTypeOK
<1>8. OpsInv'
  BY <1>1, <1>2, <1>3, OpsFrame, Facts
<1>9. TableInv'
  <2>1. TableInv
    BY Facts
  <2>2. EventsInv' /\ \A x \in Users : RowsInv(x)'
    BY <1>1, <2>1 DEF TableInv, EventsInv, RowsInv
  <2>3. \A x \in TransferIds : handler'[x] = "withdraw" => DOMAIN rows[Transfer[x].user] # {}
    BY <1>0, <1>2, <1>4, <2>1 DEF TableInv
  <2> QED  BY <1>1, <1>6, <2>1, <2>2, <2>3 DEF TableInv
<1>10. MoneyInv'
  BY <1>1, <1>2, <1>3, StageMoney, Facts, GatewayFrame
<1> QED  BY <1>7, <1>8, <1>9, <1>10, GatewayFrame, Parts

\* transfer_out appends its row, or does not.
LEMMA AppendInv ==
    ASSUME IndInv, NEW t \in TransferIds, WithdrawAppends(t), UNCHANGED serviceVars
    PROVE  IndInv'
<1> USE DEF settleVars, consumerVars
<1>0. PICK u \in Users : u = Transfer[t].user
  BY FundsAssumption
<1>1. /\ handler[t] = "append" /\ Transfer[t].dir = "out"
      /\ handler' = [handler EXCEPT ![t] = "credit"]
      /\ UNCHANGED <<funding, nextSeq, current, ops, opsPos, opsCommitted, fate, restarted, events,
                     evPos, evCommitted, writer, latest, now>>
  BY Facts, FundsAssumption DEF WithdrawAppends, Goes, OpsInv
<1>2. PICK n \in Nat, a \in Int :
         /\ \/ UNCHANGED rows
            \/ rows' = [rows EXCEPT ![u] = Over(rows[u], [s \in {n} |-> [avail |-> a, from |-> Other]])]
         /\ lost' \in {lost, lost + 1} /\ (lost' # lost => lost < MaxLost)
  <2>1. nextSeq[t] \in Nat /\ current[t].avail - Transfer[t].amount \in Int
    BY SMTT(30), Facts, FundsAssumption DEF FundsTypeOK
  <2>2. /\ \/ UNCHANGED rows
           \/ rows' = AppendRow(u, nextSeq[t], current[t].avail - Transfer[t].amount)
        /\ lost' \in {lost, lost + 1} /\ (lost' # lost => lost < MaxLost)
    BY <1>0 DEF WithdrawAppends, Works, Fails
  <2> QED  BY <2>1, <2>2 DEF AppendRow
<1>3. /\ "credit" \in Stages /\ handler \in [TransferIds -> Stages] /\ FundsTypeOK /\ TableInv
      /\ rows = [x \in Users |-> rows[x]]
  BY Facts DEF FundsTypeOK, TableInv, Stages
<1>4. /\ handler' \in [TransferIds -> Stages]
      /\ \A x \in TransferIds : handler'[x] = IF x = t THEN "credit" ELSE handler[x]
  BY <1>1, <1>3
<1>5. /\ rows' = [x \in Users |-> rows'[x]]
      /\ \A x \in Users : /\ DOMAIN rows'[x] \in {DOMAIN rows[x], DOMAIN rows[x] \cup {n}}
                          /\ \A s \in DOMAIN rows'[x] :
                                IF s \in DOMAIN rows[x] THEN rows'[x][s] = rows[x][s]
                                ELSE rows'[x][s] = [avail |-> a, from |-> Other]
  <2>1. CASE UNCHANGED rows
    BY <1>3, <2>1
  <2>2. CASE rows' = [rows EXCEPT ![u] = Over(rows[u], [s \in {n} |-> [avail |-> a, from |-> Other]])]
    <3>1. PICK r : r = Over(rows[u], [s \in {n} |-> [avail |-> a, from |-> Other]])
      OBVIOUS
    <3>2. /\ DOMAIN r = DOMAIN rows[u] \cup {n}
          /\ \A s \in DOMAIN r : r[s] = IF s \in DOMAIN rows[u] THEN rows[u][s]
                                        ELSE [avail |-> a, from |-> Other]
      BY <3>1 DEF Over
    <3>3. DOMAIN rows = Users
      BY <1>3
    <3>4. rows' = [rows EXCEPT ![u] = r]
      BY <2>2, <3>1
    <3>5. rows' = [x \in Users |-> rows'[x]] /\ \A x \in Users : rows'[x] = IF x = u THEN r ELSE rows[x]
      BY <3>3, <3>4
    <3> QED  BY <3>2, <3>5
  <2> QED  BY <1>2, <2>1, <2>2
<1>6. ASSUME NEW x \in Users  PROVE DOMAIN rows'[x] \subseteq Nat /\ RowsInv(x)'
  <2>1. RowsInv(x) /\ DOMAIN rows[x] \subseteq Nat
    BY <1>3 DEF TableInv, FundsTypeOK
  <2>2. IsFiniteSet(DOMAIN rows'[x])
    <3>1. PICK D : D = DOMAIN rows[x] /\ IsFiniteSet(D)
      BY <2>1 DEF RowsInv
    <3>2. IsFiniteSet(D \cup {n})
      BY <3>1, FS_AddElement
    <3> QED  BY <1>5, <3>1, <3>2
  <2>3. \A s \in DOMAIN rows'[x] :
          /\ rows'[x][s].avail \in Int
          /\ rows'[x][s].from # Other =>
                rows'[x][s].from \in 1..latest[x] /\ events[rows'[x][s].from].seq = s
    <3> TAKE s \in DOMAIN rows'[x]
    <3>1. IF s \in DOMAIN rows[x] THEN rows'[x][s] = rows[x][s]
          ELSE rows'[x][s] = [avail |-> a, from |-> Other]
      BY <1>5
    <3> QED  BY <2>1, <3>1 DEF RowsInv
  <2>4. latest[x] > 0 => /\ events[latest[x]].seq \in DOMAIN rows'[x]
                         /\ rows'[x][events[latest[x]].seq].from # Other
    BY <1>5, <2>1 DEF RowsInv
  <2>5. DOMAIN rows'[x] \subseteq Nat
    <3>1. DOMAIN rows'[x] \in {DOMAIN rows[x], DOMAIN rows[x] \cup {n}}
      BY <1>5
    <3> QED  BY <2>1, <3>1
  <2> QED  BY <1>1, <2>2, <2>3, <2>4, <2>5 DEF RowsInv
<1>7. FundsTypeOK' /\ MoneyTypeOK'
  <2>1. lost' \in 0..MaxLost
    BY SMTT(30), <1>2, <1>3, Facts DEF FundsTypeOK
  <2>2. FundsTypeOK'
    BY <1>1, <1>3, <1>4, <1>6, <2>1 DEF FundsTypeOK
  <2> QED  BY <1>1, <1>4, <2>2, Facts, GatewayFrame DEF MoneyTypeOK
<1>8. OpsInv'
  BY <1>1, <1>3, OpsFrame, Facts
<1>9. TableInv'
  <2>1. EventsInv'
    BY <1>1, <1>3 DEF TableInv, EventsInv
  <2>2. \A x \in TransferIds : handler'[x] = "withdraw" => DOMAIN rows'[Transfer[x].user] # {}
    <3>1. \A x \in TransferIds : handler'[x] = "withdraw" => DOMAIN rows[Transfer[x].user] # {}
      BY <1>4, <1>3 DEF TableInv
    <3>2. \A x \in TransferIds : Transfer[x].user \in Users
      BY FundsAssumption
    <3> QED  BY <1>5, <3>1, <3>2
  <2> QED  BY <1>1, <1>3, <1>5, <1>6, <2>1, <2>2 DEF TableInv
<1>10. MoneyInv'
  BY <1>1, <1>3, StageMoney, Facts, GatewayFrame
<1> QED  BY <1>7, <1>8, <1>9, <1>10, GatewayFrame, Parts

\* Every step of a transfer handler.
LEMMA HandlerInv ==
    ASSUME IndInv, NEW t \in TransferIds, Handler(t)
    PROVE  IndInv'
<1>1. UNCHANGED serviceVars
  BY DEF Handler
<1> QED  BY <1>1, LockInv, PublishInv, SettleInv, ReadInv, AppendInv DEF Handler

-----------------------------------------------------------------------------
(***************************************************************************)
(* The service's own steps.                                                *)
(***************************************************************************)

\* A step that leaves requests, topics and table alone.
LEMMA FundsFrame ==
    ASSUME IndInv, UNCHANGED <<funding, handler, nextSeq, current, ops, fate, events, evPos,
                               evCommitted, writer, latest, rows, lost, now>>,
           opsPos' \in 0..Len(ops), opsCommitted' \in 0..opsPos', restarted' \in BOOLEAN,
           restarted' \/ (opsPos' = opsPos /\ restarted' = restarted)
    PROVE  FundsTypeOK' /\ OpsInv' /\ TableInv'
<1>1. FundsTypeOK'
  BY Facts DEF FundsTypeOK
<1>2. OpsInv'
  BY Facts DEF OpsInv
<1>3. TableInv'
  BY TableFrame, Facts
<1> QED  BY <1>1, <1>2, <1>3

\* Locking the funds of an order moves them from one part to the other.
LEMMA OrderMoney ==
    ASSUME IndInv, handle_order_no_flush, MoneyTypeOK', UNCHANGED <<funding, handler, fate, restarted>>
    PROVE  MoneyInv'
<1>0. MoneyTypeOK /\ MoneyInv /\ ubs \in [Users -> Balance]
  BY Facts DEF MoneyTypeOK
<1>1. PICK o \in OrderIds : o = Head(batch).order
  <2>1. batch \in Seq(Message) /\ batch # <<>>
    BY Facts DEF ServiceInv, ServiceTypeOK, LoopInv, handle_order_no_flush
  <2>2. Head(batch) \in Message
    BY <2>1
  <2> QED  BY <2>2 DEF Message
<1>2. PICK u \in Users, n \in Nat : u = Order[o].user /\ n = Order[o].cost
  BY ServiceAssumption
<1>3. ubs' = [ubs EXCEPT ![u] = lock(ubs[u], n).bal] \/ ubs' = ubs
  BY <1>1, <1>2 DEF handle_order_no_flush
<1>4. CASE ubs' = ubs
  BY <1>0, <1>4, MoneyFrame
<1>5. CASE ubs' = [ubs EXCEPT ![u] = lock(ubs[u], n).bal]
  <2>1. ubs'[u] = lock(ubs[u], n).bal /\ \A x \in Users : x # u => ubs'[x] = ubs[x]
    BY <1>0, <1>5
  <2>2. ASSUME SupplyFits, ~restarted
        PROVE  (ubs'[u].avail + ubs'[u].frozen) - (ubs[u].avail + ubs[u].frozen) = 0
    <3>1. /\ ubs[u] \in Balance /\ ubs[u].avail \in 0..MaxU64 /\ ubs[u].frozen \in 0..MaxU64
          /\ MaxU64 \in Nat
      BY <1>0, MoneyTypes
    <3>2. ubs[u].avail + ubs[u].frozen <= MaxU64
      <4>1. PICK W \in Nat, w \in Nat : /\ W = SumFunctionOnSet(Worth, Users) /\ w = Worth[u]
                                        /\ w <= W
        BY <1>0, MoneyTypes
      <4>2. funding.avail \in Nat /\ w = ubs[u].avail + ubs[u].frozen
        BY <1>0, <4>1, MoneyTypes
      <4>3. funding.avail + W <= MaxU64
        BY <1>0, <2>2, <4>1, TotalBound
      <4> QED  BY <3>1, <4>1, <4>2, <4>3
    <3>3. CASE lock(ubs[u], n).res = "ok"
      <4>1. ubs'[u].avail = ubs[u].avail - n /\ ubs'[u].frozen = ubs[u].frozen + n
        BY <2>1, <3>1, <3>3, BalanceOps
      <4> QED  BY <3>1, <4>1
    <3>4. CASE lock(ubs[u], n).res # "ok"
      <4>1. CASE ubs[u].avail < n
        <5>1. lock(ubs[u], n).bal = ubs[u]
          BY <4>1 DEF lock, Err
        <5> QED  BY <2>1, <3>1, <5>1
      <4>2. CASE ubs[u].avail >= n
        <5>1. ubs[u].frozen + n <= MaxU64
          BY <3>1, <3>2, <4>2
        <5>2. lock(ubs[u], n).bal = ubs[u]
          BY <3>1, <3>4, <5>1, BalanceOps
        <5> QED  BY <2>1, <3>1, <5>2
      <4> QED  BY <3>1, <4>1, <4>2
    <3> QED  BY <3>3, <3>4
  <2>3. SupplyFits /\ ~restarted =>
           SumFunctionOnSet(Worth, Users)' = SumFunctionOnSet(Worth, Users) + 0
    BY <1>0, <2>1, <2>2, WorthChange
  <2>4. GainedBy' = GainedBy /\ ReservedBy' = ReservedBy
    BY DEF GainedBy, ReservedBy, Gained, Reserved, Amount, TransferIds
  <2>5. /\ SumFunctionOnSet(GainedBy, TransferIds)' = SumFunctionOnSet(GainedBy, TransferIds) + 0
        /\ SumFunctionOnSet(ReservedBy, TransferIds)' = SumFunctionOnSet(ReservedBy, TransferIds) + 0
        /\ funding'.avail = funding.avail + 0 /\ funding'.frozen = funding.frozen + 0
    <3>1. PICK G \in Int, R \in Int : G = SumFunctionOnSet(GainedBy, TransferIds)
                                      /\ R = SumFunctionOnSet(ReservedBy, TransferIds)
      BY <1>0, MoneyTypes
    <3>2. /\ SumFunctionOnSet(GainedBy, TransferIds)' = G
          /\ SumFunctionOnSet(ReservedBy, TransferIds)' = R
      BY <2>4, <3>1 DEF TransferIds
    <3> QED  BY <1>0, <3>1, <3>2, MoneyTypes
  <2>6. 0 \in Int /\ 0 + 0 = 0
    OBVIOUS
  <2> QED  BY <1>0, <2>3, <2>5, <2>6, MoneyStep
<1> QED  BY <1>3, <1>4, <1>5

\* Every step of the service on its own.
LEMMA ServiceStepInv ==
    ASSUME IndInv, ServiceNext, UNCHANGED fundsVars
    PROVE  IndInv'
<1>1. ServiceInv'
  BY ServiceInvNext, Facts
<1>2. /\ UNCHANGED <<funding, handler, nextSeq, current, ops, opsPos, opsCommitted, fate, restarted,
                     events, evPos, evCommitted, writer, latest, rows, lost, now>>
  BY DEF fundsVars, gatewayVars, consumerVars, settleVars
<1>3. FundsTypeOK' /\ OpsInv' /\ TableInv'
  BY <1>2, FundsFrame, Facts DEF FundsTypeOK
<1>4. MoneyTypeOK'
  BY <1>1, <1>3 DEF ServiceInv, ServiceTypeOK, FundsTypeOK, MoneyTypeOK
<1>5. ubs' = ubs \/ handle_order_no_flush
  BY DEF ServiceNext, LoopNext, create_order, cancel_order, TimesOut, Collect, handle_cancel,
         FlushBatch, FlushBatchFails, forward_to_kafka, Respond
<1>6. MoneyInv'
  BY <1>2, <1>4, <1>5, OrderMoney, MoneyFrame, Facts
<1> QED  BY <1>1, <1>3, <1>6, Parts

-----------------------------------------------------------------------------
(***************************************************************************)
(* Phase 4 of UBSCore's loop.                                              *)
(***************************************************************************)

\* One more event at the end keeps the table right.
LEMMA EventAdded ==
    ASSUME IndInv, UNCHANGED <<rows, latest, current, writer, handler, now>>,
           NEW e \in [user : Users, seq : Nat, avail : 0..MaxU64], e.seq = now,
           events' = events \/ events' = Append(events, e)
    PROVE  /\ TableInv' /\ events' \in Seq([user : Users, seq : Nat, avail : 0..MaxU64])
           /\ Len(events) \in Nat /\ Len(events') \in Nat /\ Len(events) <= Len(events')
<1>1. /\ TableInv /\ events \in Seq([user : Users, seq : Nat, avail : 0..MaxU64])
      /\ now \in Nat /\ \A u \in Users : latest[u] \in 0..Len(events)
  BY Facts DEF FundsTypeOK
<1>2. /\ events' \in Seq([user : Users, seq : Nat, avail : 0..MaxU64])
      /\ Len(events) \in Nat /\ Len(events') \in Nat /\ Len(events) <= Len(events')
      /\ \A i \in 1..Len(events) : events'[i] = events[i] /\ events[i].seq \in Nat
      /\ \A i \in 1..Len(events') : i \in 1..Len(events) \/ (i = Len(events) + 1 /\ events'[i] = e)
  <2>1. \A i \in 1..Len(events) : events[i].seq \in Nat
    <3>1. \A i \in 1..Len(events) : events[i] \in [user : Users, seq : Nat, avail : 0..MaxU64]
      BY <1>1, ElementOfSeq
    <3> QED  BY <3>1
  <2>2. CASE events' = events
    BY <1>1, <2>1, <2>2
  <2>3. CASE events' = Append(events, e)
    BY <1>1, <2>1, <2>3
  <2> QED  BY <2>2, <2>3
<1>3. EventsInv'
  <2>1. ASSUME NEW i \in 1..Len(events')  PROVE events'[i].seq <= now
    <3>1. \A k \in 1..Len(events) : events[k].seq <= now
      BY <1>1 DEF TableInv, EventsInv
    <3>2. CASE i \in 1..Len(events)
      BY <1>2, <3>1, <3>2
    <3>3. CASE i = Len(events) + 1 /\ events'[i] = e
      BY <1>1, <3>3
    <3> QED  BY <1>2, <3>2, <3>3
  <2>2. ASSUME NEW i \in 1..Len(events'), NEW j \in 1..Len(events'), i <= j
        PROVE  events'[i].seq <= events'[j].seq
    <3>1. CASE j \in 1..Len(events)
      <4>1. i \in 1..Len(events)
        BY <1>2, <2>2, <3>1
      <4> QED  BY <1>1, <1>2, <2>2, <3>1, <4>1 DEF TableInv, EventsInv
    <3>2. CASE j = Len(events) + 1 /\ events'[j] = e
      BY <2>1, <3>2
    <3> QED  BY <1>2, <3>1, <3>2
  <2>3. now > EngineSeq /\ \A i \in 1..Len(events') : events'[i].seq > EngineSeq
    BY <1>1, <1>2 DEF TableInv, EventsInv
  <2> QED  BY <2>1, <2>2, <2>3 DEF EventsInv
<1>4. ASSUME NEW u \in Users  PROVE RowsInv(u)'
  <2>1. RowsInv(u) /\ latest[u] \in 0..Len(events)
    BY <1>1 DEF TableInv
  <2>2. \A i \in 1..latest[u] : events'[i] = events[i]
    BY <1>2, <2>1
  <2>3. latest[u] > 0 => latest[u] \in 1..latest[u]
    BY <1>2, <2>1
  <2> QED  BY <2>1, <2>2, <2>3 DEF RowsInv
<1> QED  BY <1>1, <1>2, <1>3, <1>4 DEF TableInv

\* What UBSCore does with a request.
LEMMA AppliedFacts ==
    ASSUME IndInv, NEW t \in TransferIds, NEW u \in Users, u = Transfer[t].user,
           NEW n \in Nat, n = Transfer[t].amount
    PROVE  /\ Applied(t).bal \in Balance /\ Applied(t).bal.frozen = ubs[u].frozen
           /\ Transfer[t].dir = "in" =>
                 /\ Applied(t).res = "ok"
                 /\ ubs[u].avail + n <= MaxU64 => Applied(t).bal.avail = ubs[u].avail + n
           /\ Transfer[t].dir = "out" =>
                 /\ Applied(t).res = "ok" => Applied(t).bal.avail = ubs[u].avail - n
                 /\ Applied(t).res # "ok" => Applied(t).bal.avail = ubs[u].avail
<1>1. PICK b \in Balance : b = ubs[u]
  BY Facts DEF MoneyTypeOK
<1>2. Transfer[t].dir \in {"in", "out"}
  BY FundsAssumption
<1>3. CASE Transfer[t].dir = "in"
  <2>1. Applied(t) = Ok(deposit(b, n).bal)
    BY <1>1, <1>3 DEF Applied
  <2>2. Applied(t).res = "ok" /\ Applied(t).bal = deposit(b, n).bal
    BY <2>1 DEF Ok
  <2> QED  BY <1>1, <1>3, <2>2, BalanceOps
<1>4. CASE Transfer[t].dir = "out"
  <2>1. Applied(t) = withdraw(b, n)
    BY <1>1, <1>4 DEF Applied
  <2> QED  BY <1>1, <1>4, <2>1, BalanceOps
<1> QED  BY <1>2, <1>3, <1>4

\* UBSCore treats the next request and publishes its event, or loses it.
LEMMA ConsumeInv ==
    ASSUME IndInv, ConsumeOperation
    PROVE  IndInv'
<1> USE DEF gatewayVars, clientVars, loopVars, logVars
<1>0. /\ ops \in Seq(TransferIds) /\ Len(ops) \in Nat /\ opsPos \in 0..Len(ops) /\ opsPos < Len(ops)
      /\ opsPos + 1 \in 1..Len(ops) /\ opsCommitted \in 0..opsPos
      /\ FundsTypeOK /\ OpsInv /\ MoneyInv /\ MoneyTypeOK
  <2>1. FundsTypeOK /\ OpsInv /\ MoneyInv /\ MoneyTypeOK /\ opsPos < Len(ops)
    BY Facts DEF ConsumeOperation
  <2>2. ops \in Seq(TransferIds) /\ opsPos \in 0..Len(ops) /\ opsCommitted \in 0..opsPos
    BY <2>1 DEF FundsTypeOK
  <2>3. Len(ops) \in Nat
    BY <2>2
  <2>4. opsPos + 1 \in 1..Len(ops)
    BY <2>1, <2>2, <2>3
  <2> QED  BY <2>1, <2>2, <2>3, <2>4
<1>1. PICK t \in TransferIds : t = ops[opsPos + 1]
  BY <1>0
<1>2. PICK u \in Users, n \in Nat : u = Transfer[t].user /\ n = Transfer[t].amount /\ n = Amount[t]
  BY FundsAssumption DEF Amount
<1>3. PICK f \in {"applied", "refused"} :
         /\ f = (IF Applied(t).res = "ok" THEN "applied" ELSE "refused")
         /\ fate' = [fate EXCEPT ![t] = f]
  BY <1>1 DEF ConsumeOperation
<1>4. /\ opsPos' = opsPos + 1 /\ ubs' = [ubs EXCEPT ![u] = Applied(t).bal]
      /\ events' = events \/ events' = Append(events, Event(t))
      /\ lost' \in {lost, lost + 1} /\ (lost' # lost => lost < MaxLost)
      /\ UNCHANGED <<funding, handler, nextSeq, current, ops, opsCommitted, restarted, evPos,
                     evCommitted, writer, latest, rows, now>>
  BY <1>1, <1>2 DEF ConsumeOperation, Works, Fails
<1>5. /\ Applied(t).bal \in Balance /\ ubs \in [Users -> Balance]
      /\ f = "refused" => Transfer[t].dir = "out"
      /\ Transfer[t].dir \in {"in", "out"}
  BY <1>2, <1>3, <1>0, AppliedFacts, FundsAssumption DEF MoneyTypeOK
<1>6. /\ ubs' \in [Users -> Balance] /\ ubs'[u] = Applied(t).bal
      /\ \A x \in Users : x # u => ubs'[x] = ubs[x]
  BY <1>4, <1>5
<1>7. ServiceInv'
  <2>1. UNCHANGED <<clientVars, inbox, loopVars, logVars, validated, verdict, stranded, flushFailed, faults>>
    BY DEF ConsumeOperation
  <2> QED  BY <1>6, <2>1, ServiceFrame, Facts
<1>8. /\ fate \in [TransferIds -> {"none", "applied", "refused"}]
      /\ fate' \in [TransferIds -> {"none", "applied", "refused"}] /\ fate'[t] = f
      /\ \A x \in TransferIds : x # t => fate'[x] = fate[x]
  <2>1. fate \in [TransferIds -> {"none", "applied", "refused"}]
    BY <1>0 DEF FundsTypeOK
  <2> QED  BY <1>3, <2>1
<1>9. /\ TableInv' /\ events' \in Seq([user : Users, seq : Nat, avail : 0..MaxU64])
      /\ Len(events) \in Nat /\ Len(events') \in Nat /\ Len(events) <= Len(events')
  <2>1. now \in Nat /\ MaxU64 \in Nat
    BY <1>0, Facts DEF FundsTypeOK
  <2>2. Event(t) \in [user : Users, seq : Nat, avail : 0..MaxU64] /\ Event(t).seq = now
    BY <1>2, <1>5, <2>1 DEF Event, EventSeq, Balance
  <2> QED  BY <1>4, <2>2, EventAdded
<1>10. FundsTypeOK' /\ MoneyTypeOK'
  <2>1. opsPos' \in 0..Len(ops') /\ opsCommitted' \in 0..opsPos' /\ lost' \in 0..MaxLost
    BY SMTT(30), <1>0, <1>4, Facts DEF FundsTypeOK
  <2>2. /\ \A x \in TransferIds : current'[x].avail \in Int /\ current'[x].from \in 0..Len(events')
        /\ evPos' \in 0..Len(events') /\ evCommitted' \in 0..evPos'
        /\ \A x \in Users : DOMAIN rows'[x] \subseteq Nat /\ latest'[x] \in 0..Len(events')
    <3>1. /\ \A x \in TransferIds : current[x].avail \in Int /\ current[x].from \in 0..Len(events)
          /\ evPos \in 0..Len(events) /\ evCommitted \in 0..evPos
          /\ \A x \in Users : DOMAIN rows[x] \subseteq Nat /\ latest[x] \in 0..Len(events)
      BY <1>0 DEF FundsTypeOK
    <3>2. 0..Len(events) \subseteq 0..Len(events')
      BY <1>9
    <3>3. UNCHANGED <<current, evPos, evCommitted, rows, latest>>
      BY <1>4
    <3> QED  BY <3>1, <3>2, <3>3
  <2>3. FundsTypeOK'
    BY <1>0, <1>4, <1>8, <1>9, <2>1, <2>2 DEF FundsTypeOK
  <2> QED  BY <1>0, <1>4, <1>6, <1>8, <2>3 DEF MoneyTypeOK
<1>11. OpsInv'
  <2>1. \A i \in 1..opsPos' : i \in 1..opsPos \/ i = opsPos + 1
    BY <1>0, <1>4
  <2>2. \A i \in 1..opsPos : i \in 1..opsPos' /\ i \in 1..Len(ops) /\ ops[i] \in TransferIds
    BY <1>0, <1>4
  <2>3. opsPos + 1 \in 1..opsPos'
    BY <1>0, <1>4
  <2>4. ASSUME NEW x \in TransferIds
        PROVE  /\ fate'[x] = "refused" => Transfer[x].dir = "out"
               /\ ~restarted /\ fate'[x] # "none" => \E i \in 1..opsPos' : ops[i] = x
    BY <1>0, <1>1, <1>5, <1>8, <2>2, <2>3 DEF OpsInv
  <2>5. ASSUME ~restarted, NEW i \in 1..opsPos'  PROVE fate'[ops[i]] # "none"
    <3>1. CASE i \in 1..opsPos
      <4>1. fate[ops[i]] # "none" /\ ops[i] \in TransferIds
        BY <1>0, <2>2, <2>5, <3>1 DEF OpsInv
      <4> QED  BY <1>8, <4>1
    <3>2. CASE i = opsPos + 1
      BY <1>1, <1>8, <3>2
    <3> QED  BY <2>1, <3>1, <3>2
  <2>6. UNCHANGED <<ops, handler, restarted>>
    BY <1>4
  <2>7. /\ \A i, j \in 1..Len(ops) : ops[i] = ops[j] => i = j
        /\ \A i \in 1..Len(ops) : handler[ops[i]] \notin {"new", "locked", "refused"}
        /\ \A x \in TransferIds :
              /\ handler[x] \in {"published", "withdraw", "append", "credit", "done"} =>
                    \E i \in 1..Len(ops) : ops[i] = x
              /\ Transfer[x].dir = "in" => handler[x] \notin {"withdraw", "append", "credit"}
              /\ Transfer[x].dir = "out" => handler[x] \notin {"locked", "refused"}
    BY <1>0 DEF OpsInv
  <2> QED  BY <2>4, <2>5, <2>6, <2>7 DEF OpsInv
<1>12. MoneyInv'
  <2>1. \A x \in TransferIds : x # t => handler'[x] = handler[x] /\ fate'[x] = fate[x]
    BY <1>4, <1>8
  <2>2. ~restarted => fate[t] = "none"
    <3> SUFFICES ASSUME ~restarted, fate[t] # "none"  PROVE FALSE
      OBVIOUS
    <3>1. PICK i \in 1..opsPos : ops[i] = t
      BY <1>0 DEF OpsInv
    <3>2. i \in 1..Len(ops) /\ i # opsPos + 1
      BY <1>0
    <3> QED  BY <1>0, <1>1, <3>1, <3>2 DEF OpsInv
  <2>3. PICK dG \in Int : dG = IF f = "refused" THEN 0
                               ELSE IF Transfer[t].dir = "in" THEN n ELSE 0 - n
    OBVIOUS
  <2>4. ~restarted => /\ Gained(t)' - Gained(t) = dG /\ Reserved(t)' - Reserved(t) = 0
                      /\ Transfer[t].dir = "in" => Gained(t) <= 0
    <3> SUFFICES ASSUME ~restarted
                 PROVE  /\ Gained(t)' - Gained(t) = dG /\ Reserved(t)' - Reserved(t) = 0
                        /\ Transfer[t].dir = "in" => Gained(t) <= 0
      OBVIOUS
    <3>1. PICK h \in {0, n}, k \in {0, n} :
             /\ h = IF handler[t] \in {"locked", "published", "failed", "done"} THEN Amount[t] ELSE 0
             /\ k = IF handler[t] = "done" THEN Amount[t] ELSE 0
      BY <1>2
    <3>2. Gained(t) = IF Transfer[t].dir = "in" THEN 0 - h ELSE k - 0
      BY <2>2, <3>1 DEF Gained
    <3>3. Gained(t)' = IF Transfer[t].dir = "in" THEN n - h ELSE k - (IF f = "applied" THEN n ELSE 0)
      BY <1>2, <1>4, <1>5, <1>8, <3>1 DEF Gained, Amount
    <3>4. Reserved(t)' = Reserved(t) /\ Reserved(t) \in Int
      <4>1. Reserved(t) \in Int
        BY <1>0, MoneyTypes
      <4> QED  BY <1>4, <4>1 DEF Reserved, Amount
    <3> QED  BY <1>5, <2>3, <3>1, <3>2, <3>3, <3>4
  <2>5. ASSUME SupplyFits, ~restarted
        PROVE  (ubs'[u].avail + ubs'[u].frozen) - (ubs[u].avail + ubs[u].frozen) = dG
    <3>1. /\ ubs[u].avail \in 0..MaxU64 /\ ubs[u].frozen \in 0..MaxU64 /\ MaxU64 \in Nat
          /\ ubs'[u].frozen = ubs[u].frozen
      <4>1. Applied(t).bal.frozen = ubs[u].frozen
        BY <1>2, AppliedFacts
      <4> QED  BY <1>0, <1>6, <4>1, MoneyTypes
    <3>2. CASE Transfer[t].dir = "in"
      <4>1. ubs[u].avail + n <= MaxU64
        <5>1. funding.avail + SumFunctionOnSet(Worth, Users) + Amount[t] <= MaxU64
          BY <1>0, <2>4, <2>5, <3>2, SupplyBound
        <5>2. PICK W \in Nat, w \in Nat : /\ W = SumFunctionOnSet(Worth, Users) /\ w = Worth[u]
                                          /\ w <= W
          BY <1>0, MoneyTypes
        <5>3. funding.avail \in Nat /\ w = ubs[u].avail + ubs[u].frozen
          BY <1>0, <5>2, MoneyTypes
        <5>4. funding.avail + W + n <= MaxU64
          BY <1>2, <5>1, <5>2
        <5> QED  BY <3>1, <5>2, <5>3, <5>4
      <4>2. ubs'[u].avail = ubs[u].avail + n /\ f = "applied"
        BY <1>2, <1>3, <1>6, <3>2, <4>1, AppliedFacts
      <4> QED  BY <2>3, <3>1, <3>2, <4>2
    <3>3. CASE Transfer[t].dir = "out"
      <4>1. ubs'[u].avail = IF f = "refused" THEN ubs[u].avail ELSE ubs[u].avail - n
        BY ZenonT(30), <1>2, <1>3, <1>6, <3>3, AppliedFacts
      <4> QED  BY <2>3, <3>1, <3>3, <4>1
    <3> QED  BY <1>5, <3>2, <3>3
  <2>6. SupplyFits /\ ~restarted =>
           SumFunctionOnSet(Worth, Users)' = SumFunctionOnSet(Worth, Users) + dG
    BY <1>0, <1>6, <1>10, <2>5, WorthChange
  <2>7. ~restarted =>
          /\ SumFunctionOnSet(GainedBy, TransferIds)' = SumFunctionOnSet(GainedBy, TransferIds) + dG
          /\ SumFunctionOnSet(ReservedBy, TransferIds)' = SumFunctionOnSet(ReservedBy, TransferIds) + 0
    BY <1>0, <1>10, <2>1, <2>4, RequestChange
  <2>8. /\ 0 + dG = dG /\ 0 \in Int /\ restarted' = restarted
        /\ funding'.avail = funding.avail + 0 /\ funding'.frozen = funding.frozen + 0
    BY <1>0, <1>4, MoneyTypes
  <2> QED  BY <1>0, <1>10, <2>6, <2>7, <2>8, MoneyStep
<1> QED  BY <1>7, <1>9, <1>10, <1>11, <1>12, Parts

\* The consumer's offset is committed.
LEMMA CommitInv ==
    ASSUME IndInv, CommitOperations
    PROVE  IndInv'
<1>1. /\ UNCHANGED serviceVars /\ opsCommitted' = opsPos
      /\ UNCHANGED <<funding, handler, nextSeq, current, ops, opsPos, fate, restarted, events, evPos,
                     evCommitted, writer, latest, rows, lost, now>>
  BY DEF CommitOperations, gatewayVars, settleVars
<1>2. opsPos' \in 0..Len(ops) /\ opsCommitted' \in 0..opsPos' /\ restarted' \in BOOLEAN
  BY <1>1, Facts DEF FundsTypeOK
<1>3. FundsTypeOK' /\ OpsInv' /\ TableInv'
  BY <1>1, <1>2, FundsFrame
<1>4. MoneyInv'
  BY <1>1, MoneyFrame, GatewayFrame, Facts
<1> QED  BY <1>1, <1>3, <1>4, GatewayFrame, Parts

\* UBSCore is restarted and reads again from the committed offset.
LEMMA UbsRestartInv ==
    ASSUME IndInv, UbsRestarts
    PROVE  IndInv'
<1>1. /\ opsPos' = opsCommitted /\ restarted'
      /\ UNCHANGED <<funding, handler, nextSeq, current, ops, opsCommitted, fate, events, evPos,
                     evCommitted, writer, latest, rows, lost, now>>
  BY DEF UbsRestarts, gatewayVars, settleVars
<1>2. ServiceInv'
  BY RestartInv, Facts DEF UbsRestarts, ProcessEnds, PowerLoss
<1>3. opsPos' \in 0..Len(ops) /\ opsCommitted' \in 0..opsPos' /\ restarted' \in BOOLEAN
  <2>1. opsPos \in 0..Len(ops) /\ opsCommitted \in 0..opsPos /\ Len(ops) \in Nat
    BY Facts DEF FundsTypeOK
  <2>2. restarted' = TRUE
    BY DEF UbsRestarts
  <2> QED  BY <1>1, <2>1, <2>2
<1>4. FundsTypeOK' /\ OpsInv' /\ TableInv'
  BY <1>1, <1>3, FundsFrame
<1>5. MoneyInv'
  BY <1>1 DEF MoneyInv
<1> QED  BY <1>2, <1>4, <1>5, Parts

-----------------------------------------------------------------------------
(***************************************************************************)
(* The settlement service.                                                 *)
(***************************************************************************)

\* A step of the settlement service, or of the clock, that leaves the table
\* alone.
LEMMA SettleFrame ==
    ASSUME IndInv, UNCHANGED serviceVars,
           UNCHANGED <<funding, handler, nextSeq, current, ops, opsPos, opsCommitted, fate, restarted,
                       events, rows, latest>>,
           writer' \in Seq(Nat), evPos' \in 0..Len(events), evCommitted' \in 0..evPos',
           Range(writer') \subseteq 1..evPos', Len(writer') <= WriterCapacity,
           lost' \in 0..MaxLost, now' \in 0..MaxNow, now' >= now
    PROVE  IndInv'
<1>1. FundsTypeOK'
  BY Facts DEF FundsTypeOK
<1>2. OpsInv'
  BY Facts DEF OpsInv
<1>3. TableInv'
  <2>1. TableInv /\ FundsTypeOK
    BY Facts
  <2>2. EventsInv'
    <3>1. \A i \in 1..Len(events) : events[i].seq \in Nat /\ events[i].seq <= now
      <4>1. \A i \in 1..Len(events) : events[i] \in [user : Users, seq : Nat, avail : 0..MaxU64]
        BY <2>1, ElementOfSeq DEF FundsTypeOK
      <4> QED  BY <2>1, <4>1 DEF TableInv, EventsInv
    <3>2. now \in Nat /\ now' \in Nat
      BY <2>1, Facts DEF FundsTypeOK
    <3>3. \A i \in 1..Len(events) : events[i].seq <= now'
      BY <3>1, <3>2
    <3>4. now' > EngineSeq
      BY <2>1, <3>2 DEF TableInv, EventsInv, EngineSeq
    <3> QED  BY <2>1, <3>3, <3>4 DEF TableInv, EventsInv, EngineSeq
  <2>3. \A u \in Users : RowsInv(u)'
    BY <2>1 DEF TableInv, RowsInv
  <2> QED  BY <2>1, <2>2, <2>3 DEF TableInv
<1>4. MoneyInv'
  BY MoneyFrame, GatewayFrame, Facts
<1> QED  BY <1>1, <1>2, <1>3, <1>4, GatewayFrame, Parts

\* The settlement service's steps but the write, and the clock's.
LEMMA SettlementInv ==
    ASSUME IndInv, ConsumeEvent \/ CommitEvents \/ SettlementRestarts \/ Tick
    PROVE  IndInv'
<1> USE DEF gatewayVars, consumerVars, settleVars
<1>1. /\ writer \in Seq(Nat) /\ Len(writer) \in Nat /\ Range(writer) \subseteq 1..evPos
      /\ Len(writer) <= WriterCapacity /\ Len(events) \in Nat /\ WriterCapacity \in Nat \ {0}
      /\ evPos \in 0..Len(events) /\ evCommitted \in 0..evPos
      /\ lost \in 0..MaxLost /\ MaxLost \in Nat /\ now \in 0..MaxNow /\ MaxNow \in Nat
  BY Facts DEF FundsTypeOK, TableInv
<1>2. CASE ConsumeEvent
  <2>1. /\ evPos < Len(events) /\ evPos' = evPos + 1
        /\ \/ Len(writer) < WriterCapacity /\ writer' = Append(writer, evPos + 1)
           \/ writer' = writer
        /\ UNCHANGED serviceVars
        /\ UNCHANGED <<funding, handler, nextSeq, current, ops, opsPos, opsCommitted, fate,
                       restarted, events, rows, latest, evCommitted, lost, now>>
    BY <1>2 DEF ConsumeEvent
  <2>2. evPos' \in 0..Len(events) /\ evCommitted' \in 0..evPos' /\ evPos + 1 \in Nat
    BY <1>1, <2>1
  <2>3. writer' \in Seq(Nat) /\ Range(writer') \subseteq 1..evPos' /\ Len(writer') <= WriterCapacity
    <3>1. \A i \in 1..Len(writer) : writer[i] \in 1..evPos'
      <4>1. \A i \in 1..Len(writer) : writer[i] \in Range(writer)
        BY <1>1 DEF Range
      <4> QED  BY <1>1, <2>1, <4>1
    <3>2. CASE writer' = writer
      BY <1>1, <3>1, <3>2 DEF Range
    <3>3. CASE Len(writer) < WriterCapacity /\ writer' = Append(writer, evPos + 1)
      <4>1. /\ writer' \in Seq(Nat) /\ Len(writer') = Len(writer) + 1 /\ DOMAIN writer' = 1..(Len(writer) + 1)
            /\ writer'[Len(writer) + 1] = evPos + 1
            /\ \A i \in 1..Len(writer) : writer'[i] = writer[i]
        BY <1>1, <2>2, <3>3
      <4>2. evPos + 1 \in 1..evPos'
        BY <1>1, <2>1
      <4>3. \A i \in 1..(Len(writer) + 1) : writer'[i] \in 1..evPos'
        BY SMTT(30), <1>1, <3>1, <4>1, <4>2
      <4>4. Range(writer') \subseteq 1..evPos'
        BY <4>1, <4>3 DEF Range
      <4> QED  BY <1>1, <3>3, <4>1, <4>4
    <3> QED  BY <2>1, <3>2, <3>3
  <2>4. lost' \in 0..MaxLost /\ now' \in 0..MaxNow /\ now' >= now
    BY <1>1, <2>1
  <2> QED  BY <2>1, <2>2, <2>3, <2>4, SettleFrame
<1>3. CASE CommitEvents
  <2>1. /\ UNCHANGED serviceVars /\ evCommitted' = evPos
        /\ UNCHANGED <<funding, handler, nextSeq, current, ops, opsPos, opsCommitted, fate,
                       restarted, events, rows, latest, evPos, writer, lost, now>>
    BY <1>3 DEF CommitEvents
  <2>2. /\ evCommitted' \in 0..evPos' /\ evPos' \in 0..Len(events) /\ now' >= now
        /\ lost' \in 0..MaxLost /\ now' \in 0..MaxNow
    BY <1>1, <2>1
  <2>3. writer' \in Seq(Nat) /\ Range(writer') \subseteq 1..evPos' /\ Len(writer') <= WriterCapacity
    BY <1>1, <2>1
  <2> QED  BY <2>1, <2>2, <2>3, SettleFrame
<1>4. CASE SettlementRestarts
  <2>1. /\ UNCHANGED serviceVars /\ evPos' = evCommitted /\ writer' = <<>>
        /\ lost < MaxLost /\ lost' = lost + 1
        /\ UNCHANGED <<funding, handler, nextSeq, current, ops, opsPos, opsCommitted, fate,
                       restarted, events, rows, latest, evCommitted, now>>
    BY <1>4 DEF SettlementRestarts, Fails
  <2>2. /\ evCommitted' \in 0..evPos' /\ evPos' \in 0..Len(events) /\ now' >= now
        /\ lost' \in 0..MaxLost /\ now' \in 0..MaxNow
    BY <1>1, <2>1
  <2>3. writer' \in Seq(Nat) /\ Range(writer') \subseteq 1..evPos' /\ Len(writer') <= WriterCapacity
    BY <1>1, <2>1 DEF Range
  <2> QED  BY <2>1, <2>2, <2>3, SettleFrame
<1>5. CASE Tick
  <2>1. /\ UNCHANGED serviceVars /\ now < MaxNow /\ now' = now + 1
        /\ UNCHANGED <<funding, handler, nextSeq, current, ops, opsPos, opsCommitted, fate,
                       restarted, events, rows, latest, evPos, evCommitted, writer, lost>>
    BY <1>5 DEF Tick
  <2>2. /\ evCommitted' \in 0..evPos' /\ evPos' \in 0..Len(events) /\ now' >= now
        /\ lost' \in 0..MaxLost /\ now' \in 0..MaxNow
    BY <1>1, <2>1
  <2>3. writer' \in Seq(Nat) /\ Range(writer') \subseteq 1..evPos' /\ Len(writer') <= WriterCapacity
    BY <1>1, <2>1
  <2> QED  BY <2>1, <2>2, <2>3, SettleFrame
<1> QED  BY <1>2, <1>3, <1>4, <1>5

\* new is a table of the user u that follows the events up to top
Upserted(new, top, u) ==
    /\ DOMAIN rows[u] \subseteq DOMAIN new /\ DOMAIN new \subseteq Nat
    /\ IsFiniteSet(DOMAIN new)
    /\ top \in 0..Len(events) /\ top >= latest[u]
    /\ \A s \in DOMAIN new :
          /\ new[s].avail \in Int
          /\ new[s].from # Other => new[s].from \in 1..top /\ events[new[s].from].seq = s
    /\ top > 0 => /\ events[top].seq \in DOMAIN new
                  /\ new[events[top].seq].from # Other

\* A longer interval holds a shorter one.
LEMMA IntervalGrows ==
    ASSUME NEW a \in Nat, NEW b \in Nat, a <= b
    PROVE  1..a \subseteq 1..b
  OBVIOUS

\* The rows of a batch, for one user: each is the row of its last event.
LEMMA BatchFacts ==
    ASSUME IndInv, NEW W, W \subseteq 1..Len(events), NEW u \in Users,
           NEW new, new = UpsertBatch(W)[u],
           NEW top, top = Max({latest[u]} \cup {i \in W : events[i].user = u})
    PROVE  Upserted(new, top, u)
<1> DEFINE mine == {i \in W : events[i].user = u}
           Of(s) == {i \in W : events[i].user = u /\ events[i].seq = s}
           Avails(s) == {events[i].avail : i \in Of(s)}
           Seqs == {events[i].seq : i \in mine}
           ins == [s \in Seqs |-> [avail |-> Max(Avails(s)), from |-> Max(Of(s))]]
<1>1. /\ RowsInv(u) /\ EventsInv /\ DOMAIN rows[u] \subseteq Nat /\ latest[u] \in 0..Len(events)
      /\ Len(events) \in Nat /\ now \in Nat /\ MaxU64 \in Nat
  BY Facts DEF TableInv, FundsTypeOK
<1>2. \A i \in W : events[i].seq \in 0..now /\ events[i].avail \in 0..MaxU64
  <2>1. \A i \in 1..Len(events) : events[i] \in [user : Users, seq : Nat, avail : 0..MaxU64]
    BY Facts, ElementOfSeq DEF FundsTypeOK
  <2> QED  BY <1>1, <2>1 DEF EventsInv
<1>3. new = Over(ins, rows[u])
  BY DEF UpsertBatch
<1>4. /\ DOMAIN new = Seqs \cup DOMAIN rows[u]
      /\ \A s \in DOMAIN new : new[s] = IF s \in Seqs THEN ins[s] ELSE rows[u][s]
  <2>1. DOMAIN ins = Seqs
    OBVIOUS
  <2> HIDE DEF ins, Seqs
  <2> QED  BY <1>3, <2>1 DEF Over
<1>5. IsFiniteSet(W) /\ IsFiniteSet(mine)
  <2>1. IsFiniteSet(1..Len(events))
    BY <1>1, FS_Interval
  <2>2. W \in SUBSET (1..Len(events)) /\ mine \in SUBSET (1..Len(events))
    OBVIOUS
  <2> HIDE DEF mine
  <2> QED  BY <2>1, <2>2, FS_Subset
<1>6. IsFiniteSet(Seqs) /\ Seqs \subseteq Nat
  <2>1. IsFiniteSet(0..now)
    BY <1>1, FS_Interval
  <2>2. Seqs \in SUBSET (0..now) /\ 0..now \subseteq Nat
    BY <1>1, <1>2
  <2> HIDE DEF Seqs
  <2> QED  BY <2>1, <2>2, FS_Subset
<1>7. /\ top \in {latest[u]} \cup mine /\ top \in 0..Len(events) /\ top >= latest[u]
      /\ \A i \in mine : top >= i
  <2>1. IsFiniteSet({latest[u]} \cup mine)
    <3>1. IsFiniteSet(mine \cup {latest[u]}) /\ mine \cup {latest[u]} = {latest[u]} \cup mine
      <4> HIDE DEF mine
      <4> QED  BY <1>5, FS_AddElement
    <3> QED  BY <3>1
  <2>2. \A x \in {latest[u]} \cup mine : x \in 0..Len(events) /\ x \in Int
    <3>1. mine \subseteq 1..Len(events)
      OBVIOUS
    <3> HIDE DEF mine
    <3> QED  BY <1>1, <3>1
  <2> HIDE DEF mine
  <2>4. top = Max({latest[u]} \cup mine)
    BY DEF mine
  <2>3. top \in {latest[u]} \cup mine /\ \A y \in {latest[u]} \cup mine : top >= y
    <3>1. PICK M : M = {latest[u]} \cup mine
      OBVIOUS
    <3>2. Max(M) \in M /\ \A y \in M : Max(M) >= y
      BY <2>1, <2>2, <3>1, MaxFacts
    <3> QED  BY <2>4, <3>1, <3>2
  <2> QED  BY <2>2, <2>3
<1>8. ASSUME NEW s \in Seqs
      PROVE  /\ ins[s].avail \in Int /\ ins[s].from \in 1..top /\ events[ins[s].from].seq = s
             /\ ins[s].from # Other
  <2>1. Of(s) # {} /\ Of(s) \in SUBSET (1..Len(events)) /\ Of(s) \subseteq mine
    OBVIOUS
  <2>2. IsFiniteSet(Of(s)) /\ IsFiniteSet(Avails(s)) /\ Avails(s) # {} /\ Avails(s) \subseteq Int
    <3>1. IsFiniteSet(1..Len(events)) /\ IsFiniteSet(0..MaxU64) /\ 0..MaxU64 \subseteq Int
      <4>1. Len(events) \in Int /\ MaxU64 \in Int /\ 0 \in Int /\ 1 \in Int
        BY <1>1
      <4>2. IsFiniteSet(1..Len(events)) /\ IsFiniteSet(0..MaxU64)
        BY <4>1, FS_Interval, Zenon
      <4> QED  BY <4>1, <4>2
    <3>2. Avails(s) \in SUBSET (0..MaxU64) /\ Avails(s) # {}
      BY <1>2, <2>1
    <3>3. PICK O, A : O = Of(s) /\ A = Avails(s)
      OBVIOUS
    <3>4. IsFiniteSet(O) /\ IsFiniteSet(A)
      <4> HIDE DEF Of, Avails
      <4> QED  BY <2>1, <3>1, <3>2, <3>3, FS_Subset
    <3> HIDE DEF Of, Avails
    <3> QED  BY <3>1, <3>2, <3>3, <3>4
  <2>3. PICK O, A : O = Of(s) /\ A = Avails(s)
    OBVIOUS
  <2>4. Max(O) \in O
    <3>1. \A x \in O : x \in Int
      BY <2>1, <2>3
    <3> HIDE DEF Of, Avails
    <3> QED  BY <2>1, <2>2, <2>3, <3>1, MaxFacts
  <2>5. Max(A) \in A
    <3> HIDE DEF Of, Avails
    <3> QED  BY <2>2, <2>3, MaxFacts
  <2>6. ins[s].avail = Max(A) /\ ins[s].from = Max(O)
    BY <2>3
  <2>7. Max(A) \in Int
    <3> HIDE DEF Of, Avails
    <3> QED  BY <2>2, <2>3, <2>5
  <2>8. Max(O) \in W /\ events[Max(O)].seq = s /\ Max(O) \in mine
    BY <2>3, <2>4
  <2>9. Max(O) \in 1..top /\ Max(O) # 0
    <3>1. Max(O) \in 1..Len(events) /\ top >= Max(O)
      BY <1>7, <2>8
    <3> QED  BY <1>1, <1>7, <3>1
  <2> HIDE DEF ins
  <2> QED  BY <2>6, <2>7, <2>8, <2>9 DEF Other
<1>9. top \in mine => events[top].seq \in Seqs
  <2> QED  OBVIOUS
<1> HIDE DEF mine, Of, Avails, Seqs, ins
<1>10. DOMAIN rows[u] \subseteq DOMAIN new /\ DOMAIN new \subseteq Nat /\ IsFiniteSet(DOMAIN new)
  <2>1. PICK D : D = DOMAIN rows[u] /\ IsFiniteSet(D)
    BY <1>1 DEF RowsInv
  <2>2. IsFiniteSet(Seqs \cup D)
    BY <1>6, <2>1, FS_Union
  <2> QED  BY <1>1, <1>4, <1>6, <2>1, <2>2
<1>11. ASSUME NEW s \in DOMAIN new
       PROVE  /\ new[s].avail \in Int
              /\ new[s].from # Other => new[s].from \in 1..top /\ events[new[s].from].seq = s
              /\ s \in DOMAIN rows[u] /\ rows[u][s].from # Other => new[s].from # Other
  <2>1. CASE s \in Seqs
    BY <1>4, <1>8, <2>1
  <2>2. CASE s \notin Seqs
    <3>1. new[s] = rows[u][s] /\ s \in DOMAIN rows[u]
      BY <1>4, <2>2
    <3>2. 1..latest[u] \subseteq 1..top
      <4>1. latest[u] \in Nat /\ top \in Nat /\ latest[u] <= top
        BY <1>1, <1>7
      <4> QED  BY <4>1, IntervalGrows, Zenon
    <3> QED  BY <1>1, <3>1, <3>2 DEF RowsInv
  <2> QED  BY <2>1, <2>2
<1>12. ASSUME top > 0
       PROVE  events[top].seq \in DOMAIN new /\ new[events[top].seq].from # Other
  <2>1. CASE top \in mine
    BY <1>4, <1>8, <1>9, <2>1
  <2>2. CASE top = latest[u]
    <3>1. events[top].seq \in DOMAIN rows[u] /\ rows[u][events[top].seq].from # Other
      BY <1>1, <1>12, <2>2 DEF RowsInv
    <3> QED  BY <1>10, <1>11, <3>1
  <2> QED  BY <1>7, <2>1, <2>2
<1> QED  BY <1>7, <1>10, <1>11, <1>12 DEF Upserted

\* The balance writer writes its batch, or fails.
LEMMA WriteInv ==
    ASSUME IndInv, WriteRows
    PROVE  IndInv'
<1> USE DEF gatewayVars, consumerVars
<1>1. /\ UNCHANGED serviceVars /\ writer' = <<>>
      /\ UNCHANGED <<funding, handler, nextSeq, current, ops, opsPos, opsCommitted, fate,
                     restarted, events, evPos, evCommitted, now>>
  BY DEF WriteRows
<1>2. PICK W : W = Range(writer)
  OBVIOUS
<1>3. /\ writer' \in Seq(Nat) /\ Range(writer') \subseteq 1..evPos' /\ Len(writer') <= WriterCapacity
      /\ W \subseteq 1..Len(events)
  <2>1. /\ WriterCapacity \in Nat /\ evPos \in 0..Len(events) /\ Len(events) \in Nat
        /\ Range(writer) \subseteq 1..evPos
    BY Facts DEF FundsTypeOK
  <2>2. Range(writer') = {} /\ Len(writer') = 0 /\ writer' \in Seq(Nat)
    BY <1>1 DEF Range
  <2> QED  BY <1>2, <2>1, <2>2
<1>4. CASE Fails /\ UNCHANGED <<rows, latest>>
  <2>1. /\ evPos' \in 0..Len(events) /\ evCommitted' \in 0..evPos' /\ lost' \in 0..MaxLost
        /\ now' \in 0..MaxNow /\ now' >= now
    BY <1>1, <1>4, Facts DEF FundsTypeOK, Fails
  <2> QED  BY <1>1, <1>3, <1>4, <2>1, SettleFrame
<1>5. CASE /\ UNCHANGED lost /\ rows' = UpsertBatch(W)
           /\ latest' = [u \in Users |-> Max({latest[u]} \cup {i \in W : events[i].user = u})]
  <2>0. FundsTypeOK /\ OpsInv /\ TableInv
    BY Facts
  <2>1. ASSUME NEW u \in Users
        PROVE  /\ DOMAIN rows[u] \subseteq DOMAIN rows'[u] /\ DOMAIN rows'[u] \subseteq Nat
               /\ latest'[u] \in 0..Len(events) /\ RowsInv(u)'
    <3>1. latest'[u] = Max({latest[u]} \cup {i \in W : events[i].user = u})
      BY <1>5
    <3>2. /\ DOMAIN rows[u] \subseteq DOMAIN rows'[u] /\ DOMAIN rows'[u] \subseteq Nat
          /\ IsFiniteSet(DOMAIN rows'[u])
          /\ latest'[u] \in 0..Len(events)
          /\ \A s \in DOMAIN rows'[u] :
                /\ rows'[u][s].avail \in Int
                /\ rows'[u][s].from # Other =>
                      rows'[u][s].from \in 1..latest'[u] /\ events[rows'[u][s].from].seq = s
          /\ latest'[u] > 0 => /\ events[latest'[u]].seq \in DOMAIN rows'[u]
                               /\ rows'[u][events[latest'[u]].seq].from # Other
      <4>1. PICK new, top : new = UpsertBatch(W)[u] /\ top = Max({latest[u]} \cup {i \in W : events[i].user = u})
        OBVIOUS
      <4>2. rows'[u] = new /\ latest'[u] = top
        BY <1>5, <3>1, <4>1
      <4>3. Upserted(new, top, u)
        <5>1. W \subseteq 1..Len(events)
          BY <1>3
        <5> QED  BY <4>1, <5>1, BatchFacts, Zenon
      <4> QED  BY <4>2, <4>3, Zenon DEF Upserted
    <3> QED  BY <1>1, <3>2 DEF RowsInv
  <2>2. rows' = [u \in Users |-> rows'[u]] /\ latest' \in [Users -> Nat]
    <3>1. rows' = [u \in Users |-> rows'[u]]
      BY <1>5 DEF UpsertBatch
    <3>2. \A u \in Users : latest'[u] \in Nat
      BY <2>0, <2>1 DEF FundsTypeOK
    <3> QED  BY <1>5, <3>1, <3>2
  <2>3. FundsTypeOK'
    BY <1>1, <1>3, <1>5, <2>0, <2>1 DEF FundsTypeOK
  <2>4. OpsInv'
    BY <1>1, <2>0 DEF OpsInv
  <2>5. TableInv'
    <3>1. EventsInv'
      BY <1>1, <2>0 DEF TableInv, EventsInv
    <3>2. \A t \in TransferIds : handler'[t] = "withdraw" => DOMAIN rows'[Transfer[t].user] # {}
      <4>1. \A t \in TransferIds : Transfer[t].user \in Users
        BY FundsAssumption
      <4>2. \A t \in TransferIds : handler'[t] = "withdraw" => DOMAIN rows[Transfer[t].user] # {}
        BY <1>1, <2>0 DEF TableInv
      <4> QED  BY <2>1, <4>1, <4>2
    <3> QED  BY <1>1, <1>3, <2>0, <2>1, <2>2, <3>1, <3>2 DEF TableInv
  <2>6. MoneyInv'
    BY <1>1, MoneyFrame, GatewayFrame, Facts
  <2> QED  BY <1>1, <2>3, <2>4, <2>5, <2>6, GatewayFrame, Parts
<1> QED  BY <1>2, <1>4, <1>5 DEF WriteRows, Works

\* A row of the engine's is none of UBSCore's, and takes the place of none.
LEMMA EngineRowInv ==
    ASSUME IndInv, WriteEngineRow
    PROVE  IndInv'
<1> USE DEF gatewayVars, consumerVars, settleVars
<1>0. /\ UNCHANGED serviceVars
      /\ UNCHANGED <<funding, handler, nextSeq, current, ops, opsPos, opsCommitted, fate,
                     restarted, events, evPos, evCommitted, writer, latest, lost, now>>
  BY DEF WriteEngineRow
<1>1. FundsTypeOK /\ OpsInv /\ TableInv
  BY Facts
<1>2. PICK u \in Users, n \in Int :
         rows' = [rows EXCEPT ![u] =
                    Over([s \in {EngineSeq} |-> [avail |-> n, from |-> Other]], @)]
  <2>1. PICK i \in DOMAIN validated :
           \E n \in {-1 - Order[validated[i].order].cost} \cup {-1 : j \in OthersThan(i)} :
              rows' = [rows EXCEPT ![Order[validated[i].order].user] =
                         Over([s \in {EngineSeq} |-> [avail |-> n, from |-> Other]], @)]
    BY DEF WriteEngineRow
  <2>2. validated[i].order \in OrderIds
    <3>1. validated[i] \in Message
      BY Facts DEF ServiceInv, ServiceTypeOK
    <3> QED  BY <3>1, MessageCases
  <2>3. Order[validated[i].order].user \in Users /\ Order[validated[i].order].cost \in Nat
    BY <2>2, ServiceAssumption
  <2>4. \A n \in {-1 - Order[validated[i].order].cost} \cup {-1 : j \in OthersThan(i)} : n \in Int
    BY <2>3
  <2> QED  BY <2>1, <2>3, <2>4
<1>3. PICK old, new : old = rows[u] /\ new = rows'[u]
  OBVIOUS
<1>4. /\ rows = [x \in Users |-> rows[x]] /\ rows' = [x \in Users |-> rows'[x]]
      /\ \A x \in Users : x # u => rows'[x] = rows[x]
      /\ new = Over([s \in {EngineSeq} |-> [avail |-> n, from |-> Other]], old)
  BY <1>1, <1>2, <1>3 DEF TableInv
<1>5. /\ DOMAIN new = {EngineSeq} \cup DOMAIN old
      /\ \A s \in DOMAIN new : new[s] = IF s = EngineSeq THEN [avail |-> n, from |-> Other]
                                         ELSE old[s]
  BY <1>4 DEF Over
<1>6. IsFiniteSet(DOMAIN old) /\ DOMAIN old \subseteq Nat /\ RowsInv(u) /\ EventsInv
  BY <1>1, <1>3 DEF TableInv, RowsInv, FundsTypeOK
<1>7. IsFiniteSet(DOMAIN new) /\ DOMAIN new \subseteq Nat
  <2>1. PICK D : D = DOMAIN old /\ IsFiniteSet(D)
    BY <1>6
  <2>2. IsFiniteSet(D \cup {EngineSeq}) /\ DOMAIN new = D \cup {EngineSeq}
    BY <1>5, <2>1, FS_AddElement
  <2> QED  BY <1>5, <1>6, <2>1, <2>2 DEF EngineSeq
<1>8. RowsInv(u)'
  <2>1. ASSUME NEW s \in DOMAIN new
        PROVE  /\ new[s].avail \in Int
               /\ new[s].from # Other => new[s].from \in 1..latest[u] /\ events[new[s].from].seq = s
    <3>1. CASE s = EngineSeq
      BY <1>2, <1>5, <3>1
    <3>2. CASE s # EngineSeq
      BY <1>3, <1>5, <1>6, <3>2 DEF RowsInv
    <3> QED  BY <3>1, <3>2
  <2>2. ASSUME latest[u] > 0
        PROVE  events[latest[u]].seq \in DOMAIN new /\ new[events[latest[u]].seq].from # Other
    <3>1. events[latest[u]].seq \in DOMAIN old /\ old[events[latest[u]].seq].from # Other
      BY <1>3, <1>6, <2>2 DEF RowsInv
    <3>2. events[latest[u]].seq # EngineSeq
      <4>1. latest[u] \in 1..Len(events)
        BY <1>1, <2>2 DEF FundsTypeOK
      <4>2. events[latest[u]].seq > EngineSeq
        BY <1>6, <4>1 DEF EventsInv
      <4> QED  BY <4>2 DEF EngineSeq
    <3> QED  BY <1>5, <3>1, <3>2
  <2> QED  BY <1>0, <1>3, <1>7, <2>1, <2>2 DEF RowsInv
<1>9. ASSUME NEW x \in Users, x # u  PROVE RowsInv(x)' /\ DOMAIN rows'[x] \subseteq Nat
  <2>1. rows'[x] = rows[x] /\ RowsInv(x) /\ DOMAIN rows[x] \subseteq Nat
    BY <1>1, <1>4, <1>9 DEF TableInv, FundsTypeOK
  <2> QED  BY <1>0, <2>1 DEF RowsInv
<1>10. FundsTypeOK'
  <2>1. \A x \in Users : DOMAIN rows'[x] \subseteq Nat
    BY <1>3, <1>7, <1>9
  <2> QED  BY <1>0, <1>1, <2>1 DEF FundsTypeOK
<1>11. OpsInv'
  BY <1>0, <1>1 DEF OpsInv
<1>12. TableInv'
  <2>1. EventsInv'
    BY <1>0, <1>6 DEF EventsInv, EngineSeq
  <2>2. ASSUME NEW t \in TransferIds, handler'[t] = "withdraw"
        PROVE  DOMAIN rows'[Transfer[t].user] # {}
    <3>1. Transfer[t].user \in Users /\ DOMAIN rows[Transfer[t].user] # {}
      BY <1>0, <1>1, <2>2, FundsAssumption DEF TableInv
    <3> QED  BY <1>3, <1>4, <1>5, <3>1
  <2> QED  BY <1>0, <1>1, <1>4, <1>8, <1>9, <2>1, <2>2 DEF TableInv
<1>13. MoneyInv'
  BY <1>0, MoneyFrame, GatewayFrame, Facts
<1> QED  BY <1>0, <1>10, <1>11, <1>12, <1>13, GatewayFrame, Parts

-----------------------------------------------------------------------------
(***************************************************************************)
(* The invariant and what follows from it.                                 *)
(***************************************************************************)

\* The system starts in the invariant.
LEMMA IndInvInit ==
    ASSUME Init
    PROVE  IndInv
<1>0. /\ MaxU64 \in Nat /\ FundingStart \in 0..MaxU64 /\ Seed \in 0..MaxU64
      /\ WriterCapacity \in Nat /\ MaxLost \in Nat
      /\ MaxNow \in Nat /\ Launch \in 1..MaxNow /\ IsFiniteSet(Users) /\ IsFiniteSet(TransferIds)
      /\ \A t \in TransferIds : Transfer[t].user \in Users
  <2>1. Cardinality(TransferIds) \in Nat
    BY FundsAssumption, FS_CardinalityType
  <2>2. MaxNow \in Nat /\ MaxLost \in Nat /\ MaxNow > Cardinality(TransferIds)
    BY FundsAssumption
  <2>3. Launch \in 1..MaxNow
    BY <2>1, <2>2 DEF Launch
  <2> QED  BY <2>2, <2>3, AccountsAssumption, ServiceAssumption, FundsAssumption
<1>1. ServiceInv /\ ServiceTypeOK
  BY ServiceInvInit DEF Init, ServiceInv
<1>2. FundsTypeOK
  <2>1. /\ funding = [avail |-> FundingStart, frozen |-> 0] /\ handler = [t \in TransferIds |-> "new"]
        /\ nextSeq = [t \in TransferIds |-> 0] /\ current = [t \in TransferIds |-> NoRow]
        /\ ops = <<>> /\ opsPos = 0 /\ opsCommitted = 0 /\ events = <<>> /\ evPos = 0
        /\ evCommitted = 0 /\ writer = <<>> /\ rows = [u \in Users |-> <<>>]
        /\ latest = [u \in Users |-> 0] /\ lost = 0 /\ now = Launch
        /\ fate = [t \in TransferIds |-> "none"]
    BY DEF Init, FundsInit
  <2>2. restarted \in BOOLEAN
    BY DEF Init, FundsInit
  <2>3. funding \in Balance /\ handler \in [TransferIds -> Stages] /\ nextSeq \in [TransferIds -> Nat]
    BY <1>0, <2>1 DEF Balance, Stages, Start
  <2>4. \A t \in TransferIds : current[t].avail \in Int /\ current[t].from \in 0..Len(events)
    BY <2>1 DEF NoRow
  <2>5. /\ ops \in Seq(TransferIds) /\ opsPos \in 0..Len(ops) /\ opsCommitted \in 0..opsPos
        /\ fate \in [TransferIds -> {"none", "applied", "refused"}]
        /\ events \in Seq([user : Users, seq : Nat, avail : 0..MaxU64])
        /\ evPos \in 0..Len(events) /\ evCommitted \in 0..evPos
    BY <2>1
  <2>6. Range(writer) \subseteq 1..evPos /\ Len(writer) <= WriterCapacity
    BY <1>0, <2>1 DEF Range
  <2>7. \A u \in Users : DOMAIN rows[u] \subseteq Nat /\ latest[u] \in 0..Len(events)
    BY <2>1
  <2>8. lost \in 0..MaxLost /\ now \in 0..MaxNow
    BY <1>0, <2>1
  <2> QED  BY <2>2, <2>3, <2>4, <2>5, <2>6, <2>7, <2>8 DEF FundsTypeOK
<1>3. OpsInv
  BY DEF Init, FundsInit, OpsInv
<1>4. TableInv
  <2>1. /\ rows = [u \in Users |-> <<>>] /\ latest = [u \in Users |-> 0] /\ events = <<>>
        /\ current = [t \in TransferIds |-> NoRow] /\ writer = <<>>
        /\ now = Launch /\ \A t \in TransferIds : handler[t] = "new"
    BY DEF Init, FundsInit
  <2>2. EventsInv
    BY <1>0, <2>1 DEF EventsInv, EngineSeq
  <2>3. \A u \in Users : RowsInv(u)
    <3>1. \A u \in Users : DOMAIN rows[u] = {} /\ latest[u] = 0
      BY <2>1
    <3> QED  BY <3>1, FS_EmptySet DEF RowsInv
  <2>4. /\ rows = [u \in Users |-> rows[u]] /\ latest \in [Users -> Nat]
        /\ current = [t \in TransferIds |-> current[t]] /\ writer \in Seq(Nat)
    BY <2>1
  <2> QED  BY <2>1, <2>2, <2>3, <2>4 DEF TableInv
<1>5. MoneyInv
  <2>1. MoneyTypeOK
    BY <1>1, <1>2 DEF ServiceTypeOK, FundsTypeOK, MoneyTypeOK
  <2>2. \A t \in TransferIds : GainedBy[t] = 0 /\ ReservedBy[t] = 0
    <3> TAKE t \in TransferIds
    <3>1. Gained(t) = 0 - 0 /\ Reserved(t) = 0
      BY DEF Init, FundsInit, Gained, Reserved
    <3> QED  BY <2>1, <3>1, MoneyTypes
  <2>3. SumFunctionOnSet(GainedBy, TransferIds) = 0 /\ SumFunctionOnSet(ReservedBy, TransferIds) = 0
    BY <1>0, <2>2, SumZero
  <2>4. \A u \in Users : Worth[u] = Seed
    <3>1. \A u \in Users : ubs[u].avail = Seed /\ ubs[u].frozen = 0
      BY DEF Init, ServiceInit, Seeded
    <3> QED  BY <1>0, <2>1, <3>1, MoneyTypes
  <2>5. SumFunctionOnSet(Worth, Users) = Seed * Cardinality(Users)
    BY <1>0, <2>4, SumConst
  <2>6. funding.avail = FundingStart /\ funding.frozen = 0
    BY DEF Init, FundsInit
  <2>7. PICK s \in Nat : s = Seed * Cardinality(Users)
    BY <2>1, MoneyTypes
  <2> QED  BY <1>0, <2>3, <2>5, <2>6, <2>7 DEF MoneyInv
<1> QED  BY <1>1, <1>2, <1>3, <1>4, <1>5, TypeParts DEF IndInv

\* A step that changes nothing.
LEMMA StutterInv ==
    ASSUME IndInv, UNCHANGED vars
    PROVE  IndInv'
<1>1. /\ UNCHANGED serviceVars
      /\ UNCHANGED <<funding, handler, nextSeq, current, ops, opsPos, opsCommitted, fate, restarted,
                     events, evPos, evCommitted, writer, latest, rows, lost, now>>
  BY DEF vars, fundsVars, gatewayVars, consumerVars, settleVars
<1>2. FundsTypeOK' /\ OpsInv' /\ TableInv'
  BY <1>1, FundsFrame, Facts DEF FundsTypeOK
<1>3. MoneyInv'
  BY <1>1, MoneyFrame, GatewayFrame, Facts
<1> QED  BY <1>1, <1>2, <1>3, GatewayFrame, Parts

\* Every step keeps the invariant.
LEMMA IndInvNext ==
    ASSUME IndInv, [Next]_vars
    PROVE  IndInv'
  BY HandlerInv, ServiceStepInv, ConsumeInv, CommitInv, UbsRestartInv, SettlementInv, WriteInv,
     EngineRowInv, StutterInv DEF Next

\* The inductive invariant: the loop processes what it collected, what is
\* pending is in the log, an order travels once, a request is published at
\* most once, the table follows the events, and the money adds up.
THEOREM FundsInvHolds == Spec => []IndInv
<1>1. Init => IndInv
  BY IndInvInit
<1>2. IndInv /\ [Next]_vars => IndInv'
  BY IndInvNext
<1> QED  BY <1>1, <1>2, PTL DEF Spec

\* Every variable keeps its type: no balance leaves the u64, the log never
\* outgrows its file nor the events the writer's channel, no consumer is ahead
\* of its topic.
THEOREM TypeCorrect == Spec => []TypeOK
<1>1. IndInv => TypeOK
  BY DEF IndInv
<1> QED  BY <1>1, FundsInvHolds, PTL

\* process_batch: what was accepted in this life is in the log, and on the
\* disk unless a flush failed.
THEOREM AcceptedAreLogged == Spec => []AcceptedIsLogged
<1>1. IndInv => AcceptedIsLogged
  BY ServiceSafe DEF IndInv
<1> QED  BY <1>1, FundsInvHolds, PTL

\* No cancel is before its order in validated_orders, though process_batch
\* forwards a batch's cancels first.
THEOREM CancelAfterOrder == Spec => []CancelFollowsOrder
<1>1. IndInv => CancelFollowsOrder
  BY DEF IndInv, ServiceInv
<1> QED  BY <1>1, FundsInvHolds, PTL

\* The row get_current_balance returns, whoever made it, is not older than the
\* last operation that was recorded; if it is of UBSCore's, it is of that
\* operation's millisecond.
THEOREM TableInOrder == Spec => []LedgerInOrder
<1>1. ASSUME IndInv  PROVE LedgerInOrder
  <2> SUFFICES ASSUME NEW u \in Users, latest[u] > 0
               PROVE  /\ Newest(u) >= events[latest[u]].seq
                      /\ rows[u][Newest(u)].from # Other => Newest(u) = events[latest[u]].seq
    BY DEF LedgerInOrder
  <2>1. /\ RowsInv(u) /\ EventsInv /\ DOMAIN rows[u] \subseteq Nat /\ latest[u] \in 0..Len(events)
        /\ Len(events) \in Nat
    BY SMTT(30), <1>1, Facts DEF TableInv, FundsTypeOK
  <2>2. PICK D, top : D = DOMAIN rows[u] /\ top = events[latest[u]].seq
    OBVIOUS
  <2>3. top \in D /\ IsFiniteSet(D) /\ \A x \in D : x \in Int
    BY <2>1, <2>2 DEF RowsInv
  <2>4. Max(D) \in D /\ \A y \in D : Max(D) >= y
    BY <2>3, MaxFacts
  <2>5. Newest(u) = Max(D) /\ Newest(u) >= top
    BY <2>2, <2>3, <2>4 DEF Newest
  <2>6. ASSUME rows[u][Newest(u)].from # Other  PROVE Newest(u) <= top
    <3>1. PICK i \in 1..latest[u] : events[i].seq = Newest(u)
      BY <2>1, <2>2, <2>4, <2>5, <2>6 DEF RowsInv
    <3>2. i \in 1..Len(events) /\ latest[u] \in 1..Len(events) /\ i <= latest[u]
      BY <2>1
    <3> QED  BY <2>1, <2>2, <3>1, <3>2 DEF EventsInv
  <2> QED  BY <2>2, <2>3, <2>4, <2>5, <2>6
<1>2. IndInv => LedgerInOrder
  BY <1>1
<1> QED  BY <1>2, FundsInvHolds, PTL

-----------------------------------------------------------------------------
(***************************************************************************)
(* What is frozen in UBSCore is what is held for orders: those that were   *)
(* accepted, those that are pending, and those that the log refused.       *)
(***************************************************************************)

Pending(o) ==
    \E i \in 1..Len(results) : results[i].res = "pending" /\ results[i].msg = OrderMsg(o)

\* the order has not been validated
Waits(o) == client[o] = "new" \/ In(OrderMsg(o), inbox) \/ In(OrderMsg(o), batch)

Held(o) == verdict[o] = "accept" \/ o \in stranded \/ Pending(o)

\* no order is held before it was validated, or for two reasons that last
HeldRight(o) ==
    /\ Waits(o) => verdict[o] # "accept" /\ o \notin stranded
    /\ InResults(OrderMsg(o)) /\ phase # "respond" => verdict[o] # "accept"
    /\ Pending(o) /\ phase = "respond" => verdict[o] = "accept"
    /\ verdict[o] = "accept" \/ Pending(o) => o \notin stranded

HeldBy == [o \in OrderIds |-> IF Held(o) THEN Order[o].cost ELSE 0]
Frozen == [u \in Users |-> ubs[u].frozen]

HeldInv ==
    /\ \A o \in OrderIds : HeldRight(o)
    /\ SumFunctionOnSet(Frozen, Users) = SumFunctionOnSet(HeldBy, OrderIds)

\* What a pending result is in the results.
LEMMA PendingFacts ==
    ASSUME NEW o \in OrderIds, Pending(o)
    PROVE  InResults(OrderMsg(o))
  BY DEF Pending, InResults

\* A step after which the same orders are held, and the same funds frozen.
SameHeld == \A o \in OrderIds : HeldRight(o)' /\ (Held(o)' <=> Held(o))

\* Such a step keeps the equation.
LEMMA HeldStep ==
    ASSUME HeldInv, SameHeld, Frozen' = Frozen
    PROVE  HeldInv'
<1>1. HeldBy' = HeldBy
  BY DEF SameHeld, HeldBy, OrderIds
<1> QED  BY <1>1 DEF HeldInv, SameHeld, OrderIds

\* A step that leaves the service's order path alone.
LEMMA HeldFrame ==
    ASSUME HeldInv, UNCHANGED <<client, inbox, phase, batch, results, verdict, stranded>>,
           Frozen' = Frozen
    PROVE  HeldInv'
<1>1. SameHeld
  BY DEF SameHeld, HeldInv, HeldRight, Held, Waits, Pending, In, InResults, OrderMsg
<1> QED  BY <1>1, HeldStep

\* A step that moves an order on without a verdict.
LEMMA HoldsKept ==
    ASSUME NEW x \in OrderIds, HeldRight(x), Waits(x)' => Waits(x), Pending(x)' <=> Pending(x),
           InResults(OrderMsg(x))' => InResults(OrderMsg(x)),
           phase = "respond" <=> phase' = "respond",
           verdict' = verdict, stranded' = stranded
    PROVE  HeldRight(x)' /\ (Held(x)' <=> Held(x))
  BY DEF HeldRight, Held

\* The clients' steps and poll.
LEMMA HeldClient ==
    ASSUME ServiceInv, HeldInv,
           Collect \/ \E o \in OrderIds : create_order(o) \/ cancel_order(o) \/ TimesOut(o)
    PROVE  HeldInv'
<1> USE DEF clientVars, loopVars, logVars
<1>1. UNCHANGED <<results, ubs, verdict, stranded>> /\ (phase = "respond" <=> phase' = "respond")
  BY DEF Collect, create_order, cancel_order, TimesOut
<1>2. ASSUME NEW x \in OrderIds  PROVE Waits(x)' => Waits(x)
  <2>0. /\ OrderMsg(x) \in Message /\ inbox \in Seq(Message) /\ (OrderMsg(x))' = OrderMsg(x)
        /\ client \in [OrderIds -> Told]
    BY Messages DEF ServiceInv, ServiceTypeOK, OrderMsg
  <2>1. CASE Collect
    <3>1. PICK n \in Nat : n = Min({Len(inbox), PollLimit}) /\ n > 0 /\ n \in 0..Len(inbox)
      <4>1. Len(inbox) \in Nat /\ PollLimit \in Nat
        BY ServiceAssumption DEF ServiceInv, ServiceTypeOK
      <4>2. Min({Len(inbox), PollLimit}) = IF Len(inbox) <= PollLimit THEN Len(inbox) ELSE PollLimit
        BY <4>1, MinOfTwo
      <4> QED  BY <2>1, <4>1, <4>2 DEF Collect
    <3>2. /\ batch' = SubSeq(inbox, 1, n) /\ inbox' = SubSeq(inbox, n + 1, Len(inbox))
          /\ UNCHANGED client
      BY <2>1, <3>1 DEF Collect
    <3>3. Single(inbox)
      BY DEF ServiceInv, OnceInv
    <3>4. \A y : In(y, batch') \/ In(y, inbox') => In(y, inbox)
      BY <2>0, <3>1, <3>2, <3>3, InPart
    <3>5. In(OrderMsg(x), batch') \/ In(OrderMsg(x), inbox') => In(OrderMsg(x), inbox)
      BY <3>4
    <3> QED  BY <2>0, <3>2, <3>5 DEF Waits, In
  <2>2. ASSUME NEW o \in OrderIds, create_order(o)  PROVE Waits(x)' => Waits(x)
    <3>1. inbox' = Append(inbox, OrderMsg(o)) /\ client[o] = "new" /\ UNCHANGED batch
          /\ client'[x] \in {client[x], "sent"}
      BY <2>0, <2>2 DEF create_order, Sends, OrderMsg
    <3>2. OrderMsg(o) \in Message /\ OrderMsg(o).order = o /\ OrderMsg(x).order = x
      BY Messages
    <3>3. In(OrderMsg(x), inbox') => In(OrderMsg(x), inbox) \/ x = o
      BY <2>0, <3>1, <3>2, InAppend
    <3> QED  BY <2>0, <3>1, <3>3 DEF Waits, In
  <2>3. ASSUME NEW o \in OrderIds, cancel_order(o)  PROVE Waits(x)' => Waits(x)
    <3>1. inbox' = Append(inbox, CancelMsg(o)) /\ UNCHANGED <<client, batch>>
      BY <2>3 DEF cancel_order, Sends, CancelMsg
    <3>2. CancelMsg(o) \in Message /\ CancelMsg(o) # OrderMsg(x)
      BY Messages
    <3>3. In(OrderMsg(x), inbox') => In(OrderMsg(x), inbox)
      BY <2>0, <3>1, <3>2, InAppend
    <3> QED  BY <2>0, <3>1, <3>3 DEF Waits, In
  <2>4. ASSUME NEW o \in OrderIds, TimesOut(o)  PROVE Waits(x)' => Waits(x)
    <3>1. UNCHANGED <<inbox, batch>> /\ client'[x] \in {client[x], "error"}
      BY <2>0, <2>4 DEF TimesOut
    <3> QED  BY <2>0, <3>1 DEF Waits, In
  <2> QED  BY <2>1, <2>2, <2>3, <2>4
<1>3. ASSUME NEW x \in OrderIds  PROVE HeldRight(x)' /\ (Held(x)' <=> Held(x))
  <2>1. HeldRight(x) /\ (Pending(x)' <=> Pending(x))
        /\ (InResults(OrderMsg(x))' => InResults(OrderMsg(x)))
    BY <1>1 DEF HeldInv, Pending, InResults, OrderMsg
  <2> QED  BY <1>1, <1>2, <2>1, HoldsKept
<1>4. Frozen' = Frozen
  BY <1>1 DEF Frozen
<1> QED  BY <1>3, <1>4, HeldStep DEF SameHeld

\* What handling the head of the batch does to an order.
LEMMA ProcessedHeld ==
    ASSUME ServiceInv, phase = "validate", NEW res \in {"pending", "accept", "reject"},
           Processed(res), UNCHANGED <<client, inbox>>, NEW x \in OrderIds
    PROVE  /\ Waits(x)' => Waits(x)
           /\ Head(batch) = OrderMsg(x) => Waits(x) /\ ~Waits(x)' /\ ~InResults(OrderMsg(x))
           /\ InResults(OrderMsg(x))' => InResults(OrderMsg(x)) \/ Head(batch) = OrderMsg(x)
           /\ Pending(x)' <=> Pending(x) \/ (Head(batch) = OrderMsg(x) /\ res = "pending")
           /\ phase' # "respond"
<1>0. (OrderMsg(x))' = OrderMsg(x) /\ OrderMsg(x).kind = "order" /\ Travels(x)
  BY Messages DEF OrderMsg, ServiceInv, OnceInv
<1>1. In(OrderMsg(x), batch') => In(OrderMsg(x), batch)
  BY ProcessedFacts
<1>2. Waits(x)' => Waits(x)
  BY <1>0, <1>1 DEF Waits, In
<1>3. ASSUME Head(batch) = OrderMsg(x)
      PROVE  Waits(x) /\ ~Waits(x)' /\ ~InResults(OrderMsg(x))
  <2>1. In(OrderMsg(x), batch) /\ ~In(OrderMsg(x), batch')
    BY <1>0, <1>3, ProcessedFacts
  <2>2. ~InResults(OrderMsg(x)) /\ ~In(OrderMsg(x), inbox) /\ client[x] # "new"
    BY <1>0, <2>1 DEF Travels
  <2> QED  BY <1>0, <2>1, <2>2 DEF Waits, In
<1>4. InResults(OrderMsg(x))' => InResults(OrderMsg(x)) \/ Head(batch) = OrderMsg(x)
  <2>1. PICK m : m = OrderMsg(x)
    OBVIOUS
  <2>2. InResults(m)' <=> InResults(m) \/ m = Head(batch)
    BY ProcessedFacts
  <2> QED  BY <1>0, <2>1, <2>2 DEF InResults
<1>5. Pending(x)' <=> Pending(x) \/ (Head(batch) = OrderMsg(x) /\ res = "pending")
  <2>0. /\ Len(results) \in Nat /\ Len(results') = Len(results) + 1
        /\ \A i \in 1..Len(results) : results'[i] = results[i]
        /\ results'[Len(results) + 1] = [msg |-> Head(batch), res |-> res]
    BY ProcessedFacts DEF ServiceInv, ServiceTypeOK
  <2>1. PICK n \in Nat : n = Len(results) /\ Len(results') = n + 1
    BY <2>0
  <2>2. Pending(x)' <=> \E i \in 1..(n + 1) : results'[i].res = "pending" /\ results'[i].msg = OrderMsg(x)
    BY <1>0, <2>1 DEF Pending
  <2>3. 1..(n + 1) = (1..n) \cup {n + 1}
    BY <2>1
  <2>4. results'[n + 1].res = res /\ results'[n + 1].msg = Head(batch)
    BY <2>0, <2>1
  <2>5. Pending(x) <=> \E i \in 1..n : results'[i].res = "pending" /\ results'[i].msg = OrderMsg(x)
    BY <2>0, <2>1 DEF Pending
  <2> QED  BY <2>2, <2>3, <2>4, <2>5
<1>6. phase' # "respond"
  BY ProcessedFacts
<1> QED  BY <1>2, <1>3, <1>4, <1>5, <1>6

\* A cancel is handled, and the flush: no order's funds move.
LEMMA HeldCancelFlush ==
    ASSUME ServiceInv, HeldInv, handle_cancel \/ FlushBatch \/ FlushBatchFails
    PROVE  HeldInv'
<1> USE DEF clientVars, loopVars, logVars
<1>1. UNCHANGED <<client, inbox, ubs, verdict, stranded>>
  BY DEF handle_cancel, FlushBatch, FlushBatchFails
<1>2. ASSUME NEW x \in OrderIds  PROVE HeldRight(x)' /\ (Held(x)' <=> Held(x))
  <2>0. HeldRight(x)
    BY DEF HeldInv
  <2>1. CASE handle_cancel
    <3>1. phase = "validate" /\ Head(batch).kind = "cancel" /\ Processed("accept")
      BY <2>1 DEF handle_cancel
    <3>2. Head(batch) # OrderMsg(x)
      BY <3>1, Messages
    <3>3. /\ Waits(x)' => Waits(x)
          /\ InResults(OrderMsg(x))' => InResults(OrderMsg(x))
          /\ Pending(x)' <=> Pending(x)
          /\ phase' # "respond"
      BY <1>1, <3>1, <3>2, ProcessedHeld
    <3> QED  BY <1>1, <2>0, <3>1, <3>3, HoldsKept
  <2>2. CASE FlushBatch \/ FlushBatchFails
    <3>1. UNCHANGED <<batch, results>> /\ phase = "flush" /\ phase' = "forward"
      BY <2>2 DEF FlushBatch, FlushBatchFails
    <3>2. /\ Waits(x)' => Waits(x)
          /\ InResults(OrderMsg(x))' => InResults(OrderMsg(x))
          /\ Pending(x)' <=> Pending(x)
      BY <1>1, <3>1 DEF Waits, In, InResults, Pending, OrderMsg
    <3> QED  BY <1>1, <2>0, <3>1, <3>2, HoldsKept
  <2> QED  BY <2>1, <2>2
<1>3. Frozen' = Frozen
  BY <1>1 DEF Frozen
<1> QED  BY <1>2, <1>3, HeldStep DEF SameHeld

\* forward_to_kafka: what was pending is accepted.
LEMMA HeldForward ==
    ASSUME ServiceInv, HeldInv, forward_to_kafka
    PROVE  HeldInv'
<1> USE DEF clientVars, logVars
<1> DEFINE Of(res) == {r.msg.order : r \in {q \in Range(results) :
                                              q.msg.kind = "order" /\ q.res = res}}
<1>0. /\ phase = "forward" /\ phase' = "respond"
      /\ UNCHANGED <<client, inbox, batch, results, ubs, stranded>>
      /\ verdict' = [o \in OrderIds |-> IF o \in Of("pending") THEN "accept"
                                        ELSE IF o \in Of("reject") THEN "reject"
                                        ELSE verdict[o]]
  BY DEF forward_to_kafka
<1>1. results \in Seq(Result) /\ DOMAIN results = 1..Len(results)
  BY DEF ServiceInv, ServiceTypeOK
<1>2. ASSUME NEW x \in OrderIds  PROVE HeldRight(x)' /\ (Held(x)' <=> Held(x))
  <2>0. HeldRight(x) /\ Travels(x) /\ (OrderMsg(x))' = OrderMsg(x)
    BY DEF HeldInv, ServiceInv, OnceInv, OrderMsg
  <2>1. ASSUME NEW res, x \in Of(res)  PROVE \E i \in 1..Len(results) :
                                               results[i].res = res /\ results[i].msg = OrderMsg(x)
    <3>1. PICK i \in 1..Len(results) : /\ results[i].msg.kind = "order" /\ results[i].res = res
                                       /\ results[i].msg.order = x
      BY <1>1, <2>1 DEF Range
    <3>2. results[i].msg \in Message
      <4>1. results[i] \in Result
        BY <1>1
      <4> QED  BY <4>1 DEF Result
    <3> QED  BY <3>1, <3>2, MessageCases
  <2>2. x \in Of("pending") <=> Pending(x)
    <3>1. ASSUME Pending(x)  PROVE x \in Of("pending")
      <4>1. PICK i \in 1..Len(results) : results[i].res = "pending" /\ results[i].msg = OrderMsg(x)
        BY <3>1 DEF Pending
      <4>2. results[i].msg.kind = "order" /\ results[i].msg.order = x /\ results[i] \in Range(results)
        BY <1>1, <4>1, Messages DEF Range
      <4> QED  BY <4>1, <4>2
    <3> QED  BY <2>1, <3>1 DEF Pending
  <2>3. x \in Of("reject") => InResults(OrderMsg(x))
    BY <2>1 DEF InResults
  <2>4. verdict'[x] = IF x \in Of("pending") THEN "accept"
                      ELSE IF x \in Of("reject") THEN "reject" ELSE verdict[x]
    BY <1>0
  <2> HIDE DEF Of
  <2>5. verdict'[x] = "accept" <=> Pending(x) \/ verdict[x] = "accept"
    BY <1>0, <2>0, <2>2, <2>3, <2>4 DEF HeldRight
  <2>6. (Pending(x)' <=> Pending(x)) /\ (Waits(x)' <=> Waits(x))
    BY <1>0, <2>0 DEF Pending, Waits, In
  <2>7. Waits(x) => ~Pending(x)
    BY <2>0, PendingFacts DEF Travels, Waits
  <2> QED  BY <1>0, <2>0, <2>5, <2>6, <2>7 DEF HeldRight, Held
<1>3. Frozen' = Frozen
  BY <1>0 DEF Frozen
<1> QED  BY <1>2, <1>3, HeldStep DEF SameHeld

\* An answer: what it was about has its verdict.
LEMMA HeldRespond ==
    ASSUME ServiceInv, HeldInv, Respond
    PROVE  HeldInv'
<1> USE DEF clientVars, logVars
<1>0. /\ phase = "respond" /\ results # <<>> /\ results \in Seq(Result)
      /\ results' = Tail(results) /\ phase' = IF Len(results) = 1 THEN "poll" ELSE "respond"
      /\ UNCHANGED <<inbox, batch, ubs, verdict, stranded>>
      /\ client \in [OrderIds -> Told]
  BY DEF Respond, ServiceInv, ServiceTypeOK, LoopInv
<1>1. /\ Len(results) \in Nat /\ Len(results) >= 1 /\ Len(results') = Len(results) - 1
      /\ \A i \in 1..Len(results') : results'[i] = results[i + 1]
  BY <1>0
<1>2. \A i \in 1..Len(results') : i + 1 \in 1..Len(results)
  BY <1>1
<1>3. ASSUME NEW x \in OrderIds  PROVE HeldRight(x)' /\ (Held(x)' <=> Held(x))
  <2>0. HeldRight(x) /\ (OrderMsg(x))' = OrderMsg(x)
    BY DEF HeldInv, OrderMsg
  <2>1. client'[x] \in {client[x], "ok"}
    BY <1>0 DEF Respond, Hears
  <2>2. Waits(x)' => Waits(x)
    BY <1>0, <2>0, <2>1 DEF Waits, In
  <2>3. Pending(x)' => Pending(x)
    BY <1>1, <1>2, <2>0 DEF Pending
  <2>4. InResults(OrderMsg(x))' => phase' = "respond"
    <3>1. InResults(OrderMsg(x))' => Len(results') # 0
      BY <1>1 DEF InResults
    <3> QED  BY <1>0, <1>1, <3>1
  <2> QED  BY <1>0, <2>0, <2>2, <2>3, <2>4 DEF HeldRight, Held
<1>4. Frozen' = Frozen
  BY <1>0 DEF Frozen
<1> QED  BY <1>3, <1>4, HeldStep DEF SameHeld

\* The terms of the two sums are numbers.
LEMMA HeldTypes ==
    ASSUME ServiceInv
    PROVE  /\ IsFiniteSet(Users) /\ IsFiniteSet(OrderIds)
           /\ \A u \in Users : Frozen[u] = ubs[u].frozen /\ Frozen[u] \in Int /\ ubs[u] \in Balance
           /\ \A o \in OrderIds : /\ HeldBy[o] = IF Held(o) THEN Order[o].cost ELSE 0
                                  /\ HeldBy[o] \in Int /\ Order[o].cost \in Nat /\ Order[o].user \in Users
<1>1. IsFiniteSet(Users) /\ IsFiniteSet(OrderIds) /\ MaxU64 \in Nat
  BY FundsAssumption, AccountsAssumption
<1>2. \A u \in Users : Frozen[u] = ubs[u].frozen /\ Frozen[u] \in Int /\ ubs[u] \in Balance
  BY <1>1 DEF ServiceInv, ServiceTypeOK, Frozen, Balance
<1>3. \A o \in OrderIds : Order[o].cost \in Nat /\ Order[o].user \in Users
  BY ServiceAssumption
<1>4. \A o \in OrderIds : /\ HeldBy[o] = IF Held(o) THEN Order[o].cost ELSE 0
                          /\ HeldBy[o] \in Int
  BY <1>3 DEF HeldBy
<1> QED  BY <1>1, <1>2, <1>3, <1>4

\* handle_order_no_flush: the funds it freezes are held for the order, which is
\* pending, or refused by the log.
LEMMA HeldOrder ==
    ASSUME ServiceInv, ServiceInv', HeldInv, handle_order_no_flush
    PROVE  HeldInv'
<1> USE DEF clientVars
<1>0. /\ phase = "validate" /\ Head(batch).kind = "order"
      /\ UNCHANGED <<client, inbox, verdict>>
  BY DEF handle_order_no_flush
<1>1. batch # <<>> /\ batch \in Seq(Message)
  BY <1>0 DEF ServiceInv, ServiceTypeOK, LoopInv
<1>2. PICK o \in OrderIds : o = Head(batch).order /\ Head(batch) = OrderMsg(o)
  <2>1. Head(batch) \in Message
    BY <1>1
  <2> QED  BY <1>0, <2>1, MessageCases
<1>3. PICK u \in Users, n \in Nat : u = Order[o].user /\ n = Order[o].cost
  BY HeldTypes
<1>4. PICK ok \in BOOLEAN : ok = (Registered /\ lock(ubs[u], n).res = "ok")
  BY ServiceAssumption
<1>5. PICK res \in {"pending", "reject"} :
         /\ Processed(res)
         /\ res = "pending" <=> ok /\ ~LogFull
         /\ stranded' = IF ok /\ LogFull THEN stranded \cup {o} ELSE stranded
  <2>1. CASE ok /\ ~LogFull
    <3>1. Processed("pending") /\ stranded' = stranded
      BY <1>2, <1>3, <1>4, <2>1 DEF handle_order_no_flush
    <3> QED  BY <2>1, <3>1
  <2>2. CASE ~(ok /\ ~LogFull)
    <3>1. Processed("reject")
      BY <1>2, <1>3, <1>4, <2>2 DEF handle_order_no_flush
    <3>2. stranded' = IF ok /\ LogFull THEN stranded \cup {o} ELSE stranded
      BY <1>2, <1>3, <1>4 DEF handle_order_no_flush
    <3> QED  BY <2>2, <3>1, <3>2
  <2> QED  BY <2>1, <2>2
<1>6. ASSUME NEW x \in OrderIds
      PROVE  /\ HeldRight(x)'
             /\ x # o => (Held(x)' <=> Held(x))
             /\ x = o => ~Held(x) /\ (Held(x)' <=> ok)
  <2>0. HeldRight(x) /\ (x # o => Head(batch) # OrderMsg(x))
    BY <1>2, Messages DEF HeldInv
  <2>1. /\ Waits(x)' => Waits(x)
        /\ Head(batch) = OrderMsg(x) => Waits(x) /\ ~Waits(x)' /\ ~InResults(OrderMsg(x))
        /\ InResults(OrderMsg(x))' => InResults(OrderMsg(x)) \/ Head(batch) = OrderMsg(x)
        /\ Pending(x)' <=> Pending(x) \/ (Head(batch) = OrderMsg(x) /\ res = "pending")
        /\ phase' # "respond"
    BY <1>0, <1>5, ProcessedHeld
  <2>2. CASE x # o
    <3>1. x \in stranded' <=> x \in stranded
      BY <1>5, <2>2
    <3> QED  BY <1>0, <2>0, <2>1, <2>2, <3>1 DEF HeldRight, Held
  <2>3. CASE x = o
    <3>1. ~Pending(x) /\ verdict[x] # "accept" /\ x \notin stranded
      BY <1>2, <2>0, <2>1, <2>3, PendingFacts DEF HeldRight
    <3>2. (x \in stranded' <=> ok /\ LogFull) /\ (Pending(x)' <=> ok /\ ~LogFull)
      BY <1>2, <1>5, <2>1, <2>3, <3>1
    <3>3. ~Waits(x)' /\ verdict'[x] # "accept"
      BY <1>0, <1>2, <2>1, <2>3, <3>1
    <3> QED  BY <2>1, <2>3, <3>1, <3>2, <3>3 DEF HeldRight, Held
  <2> QED  BY <2>2, <2>3
<1>7. PICK f, g : f = Frozen' /\ g = HeldBy'
  OBVIOUS
<1>8. PICK d \in Int : d = IF ok THEN n ELSE 0
  OBVIOUS
<1>9. ASSUME NEW x \in Users
      PROVE  /\ Frozen[x] \in Int /\ f[x] \in Int /\ f[x] = IF x = u THEN Frozen[x] + d ELSE Frozen[x]
  <2>0. /\ Frozen[x] = ubs[x].frozen /\ Frozen[x] \in Int /\ ubs[x] \in Balance /\ ubs[u] \in Balance
        /\ f[x] = ubs'[x].frozen
    BY <1>7, HeldTypes DEF Frozen
  <2>1. ubs' = IF Registered THEN [ubs EXCEPT ![u] = lock(ubs[u], n).bal] ELSE ubs
    BY <1>2, <1>3 DEF handle_order_no_flush
  <2>2. ubs \in [Users -> Balance]
    BY DEF ServiceInv, ServiceTypeOK
  <2>3. CASE ubs' = ubs /\ ~ok
    BY <1>8, <2>0, <2>3
  <2>4. CASE ubs' = [ubs EXCEPT ![u] = lock(ubs[u], n).bal] /\ (ok <=> lock(ubs[u], n).res = "ok")
    <3>1. ubs'[x] = IF x = u THEN lock(ubs[u], n).bal ELSE ubs[x]
      BY <2>2, <2>4
    <3>2. lock(ubs[u], n).bal.frozen = ubs[u].frozen + d
      BY <1>8, <2>0, <2>4, LockFrozen
    <3> QED  BY <1>8, <2>0, <3>1, <3>2
  <2>5. Registered => (ok <=> lock(ubs[u], n).res = "ok")
    BY <1>4
  <2>6. ~Registered => ~ok
    BY <1>4
  <2> QED  BY <2>1, <2>3, <2>4, <2>5, <2>6
<1>10. ASSUME NEW x \in OrderIds
       PROVE  /\ HeldBy[x] \in Int /\ g[x] \in Int /\ (x # o => g[x] = HeldBy[x])
              /\ (x = o => g[x] = HeldBy[x] + d)
  <2>0. /\ HeldBy[x] = IF Held(x) THEN Order[x].cost ELSE 0
        /\ HeldBy[x] \in Int /\ Order[x].cost \in Nat
    BY HeldTypes
  <2>1. g[x] = IF Held(x)' THEN Order[x].cost ELSE 0
    BY <1>7 DEF HeldBy, OrderIds
  <2> QED  BY <1>3, <1>6, <1>8, <2>0, <2>1
<1>11. IsFiniteSet(Users) /\ IsFiniteSet(OrderIds)
  BY HeldTypes
<1>12. SumFunctionOnSet(f, Users) = SumFunctionOnSet(Frozen, Users) + (f[u] - Frozen[u])
  BY <1>9, <1>11, SumChange
<1>13. SumFunctionOnSet(g, OrderIds) = SumFunctionOnSet(HeldBy, OrderIds) + (g[o] - HeldBy[o])
  BY <1>10, <1>11, SumChange
<1>14. f[u] - Frozen[u] = d /\ g[o] - HeldBy[o] = d
  BY <1>9, <1>10
<1>15. SumFunctionOnSet(Frozen, Users)' = SumFunctionOnSet(f, Users)
       /\ SumFunctionOnSet(HeldBy, OrderIds)' = SumFunctionOnSet(g, OrderIds)
  BY <1>7 DEF OrderIds
<1> QED  BY <1>6, <1>12, <1>13, <1>14, <1>15 DEF HeldInv, OrderIds

\* Nothing is held or frozen at the start of a life.
LEMMA HeldAtStart ==
    ASSUME ServiceInv, results = <<>>, stranded = {}, verdict = [o \in OrderIds |-> "none"],
           ubs = Seeded
    PROVE  HeldInv
<1>1. ASSUME NEW o \in OrderIds  PROVE HeldRight(o) /\ ~Held(o)
  <2>1. ~Pending(o) /\ ~InResults(OrderMsg(o)) /\ verdict[o] = "none"
    BY DEF Pending, InResults
  <2> QED  BY <2>1 DEF HeldRight, Held
<1>2. \A o \in OrderIds : HeldBy[o] = 0
  BY <1>1, HeldTypes
<1>3. \A u \in Users : Frozen[u] = 0
  BY DEF Frozen, Seeded
<1>4. SumFunctionOnSet(HeldBy, OrderIds) = 0
  BY <1>2, HeldTypes, SumZero
<1>5. SumFunctionOnSet(Frozen, Users) = 0
  BY <1>3, HeldTypes, SumZero
<1> QED  BY <1>1, <1>4, <1>5 DEF HeldInv

\* Every step of the system.
LEMMA HeldNext ==
    ASSUME IndInv, IndInv', HeldInv, [Next]_vars
    PROVE  HeldInv'
<1>0. ServiceInv /\ ServiceInv'
  BY DEF IndInv
<1>1. CASE ServiceNext
  BY <1>0, <1>1, HeldClient, HeldOrder, HeldCancelFlush, HeldForward, HeldRespond
     DEF ServiceNext, LoopNext
<1>2. CASE UNCHANGED serviceVars
  <2>1. UNCHANGED <<client, inbox, phase, batch, results, ubs, verdict, stranded>>
    BY <1>2 DEF serviceVars, clientVars, loopVars
  <2>2. Frozen' = Frozen
    BY <2>1 DEF Frozen
  <2> QED  BY <2>1, <2>2, HeldFrame
<1>3. CASE ConsumeOperation
  <2>1. UNCHANGED <<client, inbox, phase, batch, results, verdict, stranded>>
    BY <1>3 DEF ConsumeOperation, clientVars, loopVars
  <2>2. PICK t \in TransferIds : ubs' = [ubs EXCEPT ![Transfer[t].user] = Applied(t).bal]
    <3>1. /\ ops \in Seq(TransferIds) /\ opsPos \in 0..Len(ops) /\ opsPos < Len(ops)
          /\ ubs' = [ubs EXCEPT ![Transfer[ops[opsPos + 1]].user] = Applied(ops[opsPos + 1]).bal]
      BY <1>3, Facts DEF FundsTypeOK, ConsumeOperation
    <3>2. ops[opsPos + 1] \in TransferIds
      BY <3>1
    <3> QED  BY <3>1, <3>2
  <2>3. PICK u \in Users, n \in Nat : u = Transfer[t].user /\ n = Transfer[t].amount
    BY FundsAssumption
  <2>4. Applied(t).bal.frozen = ubs[u].frozen
    BY <2>3, AppliedFacts
  <2>5. ubs \in [Users -> Balance]
    BY <1>0 DEF ServiceInv, ServiceTypeOK
  <2>6. \A x \in Users : ubs'[x].frozen = ubs[x].frozen
    BY <2>2, <2>3, <2>4, <2>5
  <2>7. Frozen' = Frozen
    BY <2>6 DEF Frozen
  <2> QED  BY <2>1, <2>7, HeldFrame
<1>4. CASE UbsRestarts
  <2>1. (results = <<>> /\ stranded = {} /\ verdict = [o \in OrderIds |-> "none"] /\ ubs = Seeded)'
    BY <1>4 DEF UbsRestarts, ProcessEnds, PowerLoss, Restarts, OrderIds, Seeded
  <2> QED  BY <1>0, <2>1, HeldAtStart, PTL
<1>5. \/ ServiceNext \/ UNCHANGED serviceVars \/ ConsumeOperation \/ UbsRestarts
  BY DEF Next, Handler, CommitOperations, ConsumeEvent, CommitEvents, WriteRows, WriteEngineRow,
         SettlementRestarts, Tick, vars
<1> QED  BY <1>1, <1>2, <1>3, <1>4, <1>5

\* What is frozen in UBSCore is what is held for orders.
THEOREM FrozenIsHeld == Spec => []HeldInv
<1>1. ASSUME Init  PROVE HeldInv
  <2>1. ServiceInv
    BY <1>1, IndInvInit DEF IndInv
  <2> QED  BY <1>1, <2>1, HeldAtStart DEF Init, ServiceInit
<1>2. Init => HeldInv
  BY <1>1
<1>3. IndInv /\ IndInv' /\ HeldInv /\ [Next]_vars => HeldInv'
  BY HeldNext
<1> QED  BY <1>2, <1>3, FundsInvHolds, PTL DEF Spec

\* What a request added, once its handler has ended and UBSCore has treated
\* all that was published.
LEMMA GainedAtRest ==
    ASSUME IndInv, ~restarted, opsPos = Len(ops), NEW t \in TransferIds,
           handler[t] \in Start \cup Ended
    PROVE  /\ Transfer[t].dir = "in" =>
                 Gained(t) = IF handler[t] = "failed" /\ fate[t] = "none" THEN 0 - Amount[t] ELSE 0
           /\ Transfer[t].dir = "out" =>
                 Gained(t) = IF handler[t] = "done" /\ fate[t] = "refused" THEN Amount[t]
                             ELSE IF handler[t] = "failed" /\ fate[t] = "applied" THEN 0 - Amount[t]
                             ELSE 0
<1>1. /\ OpsInv /\ Amount[t] \in Nat /\ handler[t] \in {"new", "refused", "failed", "done"}
      /\ fate[t] \in {"none", "applied", "refused"}
  BY Facts, MoneyTypes DEF Start, Ended, FundsTypeOK
<1>2. /\ handler[t] \in {"new", "refused"} => fate[t] = "none"
      /\ handler[t] = "done" => fate[t] # "none"
      /\ fate[t] = "refused" => Transfer[t].dir = "out"
      /\ Transfer[t].dir = "out" => handler[t] # "refused"
  BY <1>1 DEF OpsInv
<1>3. PICK a \in Nat : a = Amount[t]
  BY <1>1
<1>4. CASE Transfer[t].dir = "in"
  BY <1>1, <1>2, <1>3, <1>4 DEF Gained
<1>5. CASE Transfer[t].dir = "out"
  BY <1>1, <1>2, <1>3, <1>5 DEF Gained
<1> QED  BY <1>4, <1>5

\* Between two batches, what is spendable in UBSCore is what is there less what
\* is held for the orders accepted and for those the log refused.
LEMMA AvailAtRest ==
    ASSUME IndInv, HeldInv, Idle, NEW A, A = [u \in Users |-> ubs[u].avail],
           NEW C, C = [o \in OrderIds |-> Order[o].cost]
    PROVE  /\ SumFunctionOnSet(A, Users) + SumFunctionOnSet(C, {o \in OrderIds : verdict[o] = "accept"})
                + SumFunctionOnSet(C, stranded) = SumFunctionOnSet(Worth, Users)
           /\ SumFunctionOnSet(A, Users) \in Int /\ SumFunctionOnSet(C, stranded) \in Int
           /\ SumFunctionOnSet(C, {o \in OrderIds : verdict[o] = "accept"}) \in Int
<1>0. ServiceInv /\ MoneyTypeOK
  BY Facts
<1>1. IsFiniteSet(Users) /\ IsFiniteSet(OrderIds)
  BY <1>0, HeldTypes
<1>2. PICK P, Q, p, q : /\ P = {o \in OrderIds : verdict[o] = "accept"} /\ Q = stranded
                        /\ p = [o \in OrderIds |-> IF o \in P THEN C[o] ELSE 0]
                        /\ q = [o \in OrderIds |-> IF o \in Q THEN C[o] ELSE 0]
  OBVIOUS
<1>3. P \in SUBSET OrderIds /\ Q \in SUBSET OrderIds
  BY <1>0, <1>2 DEF ServiceInv, ServiceTypeOK
<1>4. ASSUME NEW o \in OrderIds
      PROVE  /\ C[o] \in Int /\ p[o] \in Int /\ q[o] \in Int
             /\ p[o] = (IF o \in P THEN C[o] ELSE 0) /\ q[o] = (IF o \in Q THEN C[o] ELSE 0)
             /\ HeldBy[o] = p[o] + q[o]
  <2>1. /\ HeldBy[o] = (IF Held(o) THEN Order[o].cost ELSE 0) /\ Order[o].cost \in Nat
        /\ C[o] = Order[o].cost
    BY <1>0, HeldTypes
  <2>2. p[o] = (IF o \in P THEN C[o] ELSE 0) /\ q[o] = (IF o \in Q THEN C[o] ELSE 0)
    BY <1>2
  <2>3. ~Pending(o) /\ HeldRight(o)
    <3>1. results = <<>>
      BY <1>0 DEF Idle, ServiceInv, LoopInv
    <3> QED  BY <3>1 DEF Pending, HeldInv
  <2>4. (Held(o) <=> o \in P \/ o \in Q) /\ ~(o \in P /\ o \in Q)
    BY <1>2, <2>3 DEF Held, HeldRight
  <2> QED  BY <2>1, <2>2, <2>4
<1>5. /\ SumFunctionOnSet(p, OrderIds) = SumFunctionOnSet(C, P)
      /\ SumFunctionOnSet(q, OrderIds) = SumFunctionOnSet(C, Q)
  BY <1>1, <1>3, <1>4, SumOfPart
<1>6. SumFunctionOnSet(HeldBy, OrderIds) = SumFunctionOnSet(p, OrderIds) + SumFunctionOnSet(q, OrderIds)
  BY <1>1, <1>4, SumAdd
<1>7. \A u \in Users : A[u] \in Int /\ Frozen[u] \in Int /\ Worth[u] = A[u] + Frozen[u]
  BY <1>0, MoneyTypes, HeldTypes
<1>8. SumFunctionOnSet(Worth, Users) = SumFunctionOnSet(A, Users) + SumFunctionOnSet(Frozen, Users)
  BY <1>1, <1>7, SumAdd
<1>9. /\ SumFunctionOnSet(A, Users) \in Int /\ SumFunctionOnSet(p, OrderIds) \in Int
      /\ SumFunctionOnSet(q, OrderIds) \in Int
  BY <1>1, <1>4, <1>7, SumInt
<1>10. SumFunctionOnSet(Frozen, Users) = SumFunctionOnSet(HeldBy, OrderIds)
  BY DEF HeldInv
<1> QED  BY <1>2, <1>5, <1>6, <1>8, <1>9, <1>10

\* The money equation at rest.
LEMMA RestAccounted ==
    ASSUME IndInv, HeldInv, SupplyFits
    PROVE  MoneyAccounted
<1> DEFINE Which(dir, stage, f) == {t \in TransferIds : /\ Transfer[t].dir = dir
                                                        /\ handler[t] = stage /\ fate[t] = f}
           At(P) == [t \in TransferIds |-> IF t \in P THEN Amount[t] ELSE 0]
           Avail == [u \in Users |-> ubs[u].avail]
           Costs == [o \in OrderIds |-> Order[o].cost]
           accepted == {o \in OrderIds : verdict[o] = "accept"}
<1> SUFFICES ASSUME \A t \in TransferIds : handler[t] \in Start \cup Ended,
                    Idle, opsPos = Len(ops), ~restarted
             PROVE  (funding.avail + SumFunctionOnSet(Avail, Users))
                      + SumFunctionOnSet(Costs, accepted) + SumFunctionOnSet(Costs, stranded)
                      + SumFunctionOnSet(Amount, Which("in", "failed", "none"))
                      + SumFunctionOnSet(Amount, Which("out", "failed", "applied"))
                    = FundingStart + Seed * Cardinality(Users)
                      + SumFunctionOnSet(Amount, Which("out", "done", "refused"))
  BY DEF MoneyAccounted, Amount
<1>0. PICK k \in Int, c \in Int, d \in Int :
         /\ k = SumFunctionOnSet(Avail, Users) /\ c = SumFunctionOnSet(Costs, accepted)
         /\ d = SumFunctionOnSet(Costs, stranded) /\ k + c + d = SumFunctionOnSet(Worth, Users)
  BY AvailAtRest
<1> HIDE DEF Avail, Costs, accepted
<1>1. PICK P, Q, R, p, q, r, h :
         /\ P = Which("out", "done", "refused") /\ Q = Which("in", "failed", "none")
         /\ R = Which("out", "failed", "applied")
         /\ p = At(P) /\ q = At(Q) /\ r = At(R)
         /\ h = [t \in TransferIds |-> GainedBy[t] + q[t]]
  OBVIOUS
<1>2. /\ P \in SUBSET TransferIds /\ Q \in SUBSET TransferIds /\ R \in SUBSET TransferIds
      /\ IsFiniteSet(TransferIds)
  BY <1>1, FundsAssumption
<1>3. ASSUME NEW t \in TransferIds
      PROVE  /\ Amount[t] \in Int /\ GainedBy[t] \in Int
             /\ p[t] = (IF t \in P THEN Amount[t] ELSE 0) /\ p[t] \in Int
             /\ q[t] = (IF t \in Q THEN Amount[t] ELSE 0) /\ q[t] \in Int
             /\ r[t] = (IF t \in R THEN Amount[t] ELSE 0) /\ r[t] \in Int
             /\ h[t] = GainedBy[t] + q[t] /\ h[t] \in Int
  <2>1. Amount[t] \in Int /\ GainedBy[t] \in Int
    BY Facts, MoneyTypes
  <2> QED  BY <1>1, <2>1
<1>4. ASSUME NEW t \in TransferIds  PROVE p[t] = h[t] + r[t]
  <2>1. PICK a \in Int, g \in Int : a = Amount[t] /\ g = GainedBy[t] /\ g = Gained(t)
    BY Facts, MoneyTypes
  <2>2. Transfer[t].dir \in {"in", "out"}
    BY FundsAssumption
  <2>3. /\ t \in P <=> Transfer[t].dir = "out" /\ handler[t] = "done" /\ fate[t] = "refused"
        /\ t \in Q <=> Transfer[t].dir = "in" /\ handler[t] = "failed" /\ fate[t] = "none"
        /\ t \in R <=> Transfer[t].dir = "out" /\ handler[t] = "failed" /\ fate[t] = "applied"
    BY <1>1
  <2>4. /\ Transfer[t].dir = "in" => g = IF t \in Q THEN 0 - a ELSE 0
        /\ Transfer[t].dir = "out" => g = IF t \in P THEN a ELSE IF t \in R THEN 0 - a ELSE 0
    <3>1. handler[t] \in Start \cup Ended
      OBVIOUS
    <3> QED  BY <2>1, <2>3, <3>1, GainedAtRest
  <2>5. /\ t \in P => t \notin Q /\ t \notin R
        /\ Transfer[t].dir = "in" => t \notin P /\ t \notin R
        /\ Transfer[t].dir = "out" => t \notin Q
    BY <2>3
  <2>6. /\ p[t] = (IF t \in P THEN a ELSE 0) /\ q[t] = (IF t \in Q THEN a ELSE 0)
        /\ r[t] = (IF t \in R THEN a ELSE 0) /\ h[t] = g + q[t]
    BY <1>3, <2>1
  <2> HIDE DEF Which, At
  <2> QED  BY <2>1, <2>2, <2>4, <2>5, <2>6
<1> HIDE DEF Which, At
<1>5. /\ SumFunctionOnSet(p, TransferIds) = SumFunctionOnSet(Amount, P)
      /\ SumFunctionOnSet(q, TransferIds) = SumFunctionOnSet(Amount, Q)
      /\ SumFunctionOnSet(r, TransferIds) = SumFunctionOnSet(Amount, R)
  BY <1>2, <1>3, SumOfPart
<1>6. SumFunctionOnSet(h, TransferIds)
        = SumFunctionOnSet(GainedBy, TransferIds) + SumFunctionOnSet(q, TransferIds)
  BY <1>2, <1>3, SumAdd
<1>7. SumFunctionOnSet(p, TransferIds) = SumFunctionOnSet(h, TransferIds) + SumFunctionOnSet(r, TransferIds)
  BY ZenonT(30), <1>2, <1>3, <1>4, SumAdd
<1>8. PICK G \in Int, W \in Int, s \in Int, x \in Int, y \in Int, z \in Int, v \in Int :
         /\ G = SumFunctionOnSet(GainedBy, TransferIds) /\ W = SumFunctionOnSet(Worth, Users)
         /\ s = Seed * Cardinality(Users)
         /\ x = SumFunctionOnSet(p, TransferIds) /\ y = SumFunctionOnSet(q, TransferIds)
         /\ z = SumFunctionOnSet(r, TransferIds) /\ v = funding.avail
  <2>1. /\ SumFunctionOnSet(p, TransferIds) \in Int /\ SumFunctionOnSet(q, TransferIds) \in Int
        /\ SumFunctionOnSet(r, TransferIds) \in Int
    BY <1>2, <1>3, SumInt
  <2>2. /\ SumFunctionOnSet(GainedBy, TransferIds) \in Int /\ SumFunctionOnSet(Worth, Users) \in Int
        /\ Seed * Cardinality(Users) \in Int /\ funding.avail \in Int
    BY Facts, MoneyTypes
  <2> QED  BY <2>1, <2>2, Zenon
<1>9. v + W = FundingStart + s + G /\ FundingStart \in Int
  BY <1>8, Facts, MoneyTypes DEF MoneyInv
<1>10. x = G + y + z
  BY <1>6, <1>7, <1>8
<1>11. (v + k) + c + d + y + z = FundingStart + s + x
  <2>1. k + c + d = W
    BY <1>0, <1>8
  <2>2. /\ v \in Int /\ k \in Int /\ c \in Int /\ d \in Int /\ W \in Int /\ y \in Int
        /\ z \in Int /\ s \in Int /\ G \in Int /\ x \in Int
    BY <1>0, <1>8
  <2> HIDE DEF Which, At, Avail, Costs, accepted
  <2> QED  BY <1>9, <1>10, <2>1, <2>2
<1> QED  BY <1>0, <1>1, <1>5, <1>8, <1>11

\* transfer_in and transfer_out: if all the money there is and all that is
\* moved fits in a u64, what can be spent is out by exactly the four known gaps.
THEOREM MoneyIsAccounted ==
    ASSUME SupplyFits
    PROVE  Spec => []MoneyAccounted
<1>1. IndInv /\ HeldInv => MoneyAccounted
  BY RestAccounted
<1> QED  BY <1>1, FundsInvHolds, FrozenIsHeld, PTL
=============================================================================
