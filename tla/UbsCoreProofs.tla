--------------------------- MODULE UbsCoreProofs ---------------------------
(***************************************************************************)
(* Proofs about UbsCore, for any number of users and orders, any capacity  *)
(* of the cache, the buffer and the queue, and any number of faults: an    *)
(* accepted order is on disk, the deduplication guard forgets only what    *)
(* its watermark covers, open orders are covered by frozen funds, and no   *)
(* money appears or vanishes.                                              *)
(***************************************************************************)
EXTENDS UbsCore, SumTheorems, SequenceTheorems, TLAPS

(***************************************************************************)
(* The types these proofs need; balances play no part in them.             *)
(***************************************************************************)
Typed ==
    /\ cache \in Seq(OrderIds)
    /\ minTs \in Nat
    /\ {buffer, file, queue} \subseteq Seq(OrderIds)
    /\ pc \in {"idle", "flush", "queue"}
    /\ pc # "idle" => order \in OrderIds
    /\ seen \subseteq OrderIds
    /\ accepted \in Seq(Seq(OrderIds))
    /\ accepted # <<>>

(***************************************************************************)
(* Where the order at work is: in the buffer once it is appended, in the   *)
(* file once it is flushed.                                                *)
(***************************************************************************)
AtWorkIsLogged ==
    /\ pc = "flush" => order \in Range(buffer)
    /\ pc = "queue" => order \in Range(file)

IndInv == Typed /\ AtWorkIsLogged /\ AcceptedIsOnDisk /\ ForgottenAreOld

-----------------------------------------------------------------------------
(***************************************************************************)
(* Sequences.                                                              *)
(***************************************************************************)

\* What an appended sequence ranges over.
LEMMA RangeAppend ==
    ASSUME NEW S, NEW s \in Seq(S), NEW e \in S
    PROVE  Range(Append(s, e)) = Range(s) \cup {e}
  <1>1. DOMAIN s = 1..Len(s) /\ DOMAIN Append(s, e) = 1..(Len(s) + 1) /\ Len(s) \in Nat
    OBVIOUS
  <1>2. /\ \A i \in 1..Len(s) : Append(s, e)[i] = s[i]
        /\ Append(s, e)[Len(s) + 1] = e
    OBVIOUS
  <1>3. 1..(Len(s) + 1) = 1..Len(s) \cup {Len(s) + 1}
    BY <1>1
  <1>4. QED
    BY <1>1, <1>2, <1>3, Zenon DEF Range

\* A concatenation, as the flush makes one, ranges over both parts.
LEMMA RangeConcat ==
    ASSUME NEW S, NEW s \in Seq(S), NEW t \in Seq(S)
    PROVE  Range(s \o t) = Range(s) \cup Range(t)
  <1>1. ASSUME NEW i \in DOMAIN t
        PROVE  t[i] \in Range(s \o t)
    <2>1. Len(s) + i \in DOMAIN (s \o t) /\ (s \o t)[Len(s) + i] = t[i]
      OBVIOUS
    <2>2. QED
      BY <2>1 DEF Range
  <1>2. ASSUME NEW i \in DOMAIN s
        PROVE  s[i] \in Range(s \o t)
    <2>1. i \in DOMAIN (s \o t) /\ (s \o t)[i] = s[i]
      OBVIOUS
    <2>2. QED
      BY <2>1 DEF Range
  <1>3. ASSUME NEW i \in DOMAIN (s \o t)
        PROVE  (s \o t)[i] \in Range(s) \cup Range(t)
    <2>1. CASE i <= Len(s)
      BY <2>1 DEF Range
    <2>2. CASE i > Len(s)
      <3>1. i - Len(s) \in DOMAIN t /\ (s \o t)[i] = t[i - Len(s)]
        BY <2>2
      <3>2. QED
        BY <3>1 DEF Range
    <2>3. QED
      BY <2>1, <2>2
  <1>4. QED
    BY <1>1, <1>2, <1>3 DEF Range

\* The empty buffer of a new process ranges over nothing.
LEMMA RangeEmpty == Range(<<>>) = {}
  BY DEF Range

\* What the publisher leaves in the queue was in the queue.
LEMMA RangeTail ==
    ASSUME NEW S, NEW s \in Seq(S), s # <<>>
    PROVE  Tail(s) \in Seq(S) /\ Range(Tail(s)) \subseteq Range(s)
  <1>1. Tail(s) \in Seq(S)
    OBVIOUS
  <1>2. \A i \in DOMAIN Tail(s) : i + 1 \in DOMAIN s /\ Tail(s)[i] = s[i + 1]
    OBVIOUS
  <1>3. QED
    BY <1>1, <1>2 DEF Range

\* The front of a sequence lacks at most its last element.
LEMMA RangeFront ==
    ASSUME NEW S, NEW s \in Seq(S), s # <<>>
    PROVE  /\ Front(s) \in Seq(S)
           /\ Last(s) \in S
           /\ Range(s) \subseteq Range(Front(s)) \cup {Last(s)}
  <1>1. Len(s) \in Nat /\ Len(s) > 0
    OBVIOUS
  <1>2. Front(s) \in Seq(S) /\ Last(s) \in S
    BY <1>1 DEF Front, Last
  <1>3. \A i \in DOMAIN s : \/ i = Len(s)
                            \/ i \in DOMAIN Front(s) /\ Front(s)[i] = s[i]
    BY <1>1 DEF Front
  <1>4. QED
    BY <1>2, <1>3 DEF Range, Last

\* The larger of two numbers bounds both.
LEMMA MaxOfTwo ==
    ASSUME NEW m \in Nat, NEW n \in Nat
    PROVE  Max({m, n}) \in Nat /\ Max({m, n}) >= m /\ Max({m, n}) >= n
  <1>1. \E x \in {m, n} : \A y \in {m, n} : x >= y
    OBVIOUS
  <1>2. QED
    BY <1>1 DEF Max

-----------------------------------------------------------------------------
(***************************************************************************)
(* Steps.                                                                  *)
(***************************************************************************)

\* check_and_record keeps the guard's promise, full cache or not.
LEMMA RecordKeeps ==
    ASSUME Typed, ForgottenAreOld, NEW o \in OrderIds, PassesGuard(o)
    PROVE  /\ cache' \in Seq(OrderIds)
           /\ minTs' \in Nat
           /\ seen' \subseteq OrderIds
           /\ ForgottenAreOld'
  <1>1. Order[o].ts \in Nat /\ \A q \in OrderIds : Order[q].ts \in Nat
    BY UbsAssumption
  <1>2. CASE Full
    <2>1. Len(cache) > 0 /\ cache # <<>>
      BY SMTT(30), <1>2, UbsAssumption DEF Full, Typed
    <2>2. /\ Front(cache) \in Seq(OrderIds)
          /\ Last(cache) \in OrderIds
          /\ Range(cache) \subseteq Range(Front(cache)) \cup {Last(cache)}
      BY <2>1, RangeFront DEF Typed
    <2>3. cache' = Append(Front(cache), o) /\ minTs' = Max({minTs, Order[Last(cache)].ts})
      BY <1>2 DEF PassesGuard, Record
    <2>4. minTs' \in Nat /\ minTs' >= minTs /\ minTs' >= Order[Last(cache)].ts
      BY <1>1, <2>2, <2>3, MaxOfTwo DEF Typed
    <2>5. Range(cache') = Range(Front(cache)) \cup {o}
      BY <2>2, <2>3, RangeAppend
    <2>6. seen' = seen \cup {o}
      BY DEF PassesGuard
    <2>7. ASSUME NEW q \in seen' \ Range(cache')
          PROVE  Order[q].ts <= minTs'
      <3>1. q \in seen /\ q \in OrderIds /\ (q \notin Range(cache) \/ q = Last(cache))
        BY <2>2, <2>5, <2>6 DEF Typed
      <3>2. CASE q \notin Range(cache)
        <4>1. Order[q].ts <= minTs
          BY <3>1, <3>2 DEF ForgottenAreOld
        <4>2. QED
          BY <4>1, <1>1, <2>4, <3>1 DEF Typed
      <3>3. CASE q = Last(cache)
        BY <3>3, <2>4, <1>1, <2>2
      <3>4. QED
        BY <3>1, <3>2, <3>3
    <2>8. ForgottenAreOld'
      BY <2>7 DEF ForgottenAreOld
    <2>9. cache' \in Seq(OrderIds) /\ seen' \subseteq OrderIds
      BY <2>2, <2>3, <2>6 DEF Typed
    <2>10. QED
      BY <2>4, <2>8, <2>9
  <1>3. CASE ~Full
    <2>1. cache' = Append(cache, o) /\ minTs' = minTs /\ seen' = seen \cup {o}
      BY <1>3 DEF PassesGuard, Record
    <2>2. Range(cache') = Range(cache) \cup {o}
      BY <2>1, RangeAppend DEF Typed
    <2>3. QED
      BY <2>1, <2>2 DEF Typed, ForgottenAreOld
  <1>4. QED
    BY <1>2, <1>3

\* A step that leaves the log's file, or adds the buffer to it, and the queue
\* and the accepted orders alone, keeps accepted orders on disk.
LEMMA FileGrows ==
    ASSUME Typed, AcceptedIsOnDisk,
           file' = file \/ file' = file \o buffer,
           UNCHANGED <<queue, accepted>>
    PROVE  file' \in Seq(OrderIds) /\ Range(file) \subseteq Range(file') /\ AcceptedIsOnDisk'
  <1>1. file \in Seq(OrderIds) /\ buffer \in Seq(OrderIds)
    BY DEF Typed
  <1>2. file' \in Seq(OrderIds)
    <2>1. file \o buffer \in Seq(OrderIds)
      BY <1>1
    <2>2. QED
      BY <1>1, <2>1
  <1>3. Range(file) \subseteq Range(file')
    <2>1. CASE file' = file
      BY <2>1
    <2>2. CASE file' = file \o buffer
      BY <2>2, <1>1, RangeConcat
    <2>3. QED
      BY <2>1, <2>2
  <1>4. QED
    BY <1>2, <1>3 DEF AcceptedIsOnDisk

\* Nothing is accepted when the process starts.
LEMMA InitEstablishes == Init => IndInv
  <1>1. SUFFICES ASSUME Init PROVE IndInv
    OBVIOUS
  <1>2. accepted = <<<<>>>> /\ file = <<>> /\ queue = <<>> /\ seen = {} /\ pc = "idle"
    BY <1>1 DEF Init
  <1>3. Typed
    <2>1. <<>> \in Seq(OrderIds) /\ accepted \in Seq(Seq(OrderIds)) /\ accepted # <<>>
      BY <1>2
    <2>2. QED
      BY <1>1, <2>1 DEF Init, Typed
  <1>4. AcceptedIsOnDisk
    BY <1>2, RangeEmpty DEF AcceptedIsOnDisk
  <1>5. QED
    BY <1>2, <1>3, <1>4 DEF IndInv, AtWorkIsLogged, ForgottenAreOld

\* An order at the guard: RefusedByCore, Validated and RefusedByLog.
LEMMA OrderKeeps ==
    ASSUME IndInv, NEW o \in OrderIds,
           RefusedByCore(o) \/ Validated(o) \/ RefusedByLog(o)
    PROVE  IndInv'
  <1>1. PassesGuard(o) /\ pc = "idle"
    BY DEF RefusedByCore, Validated, RefusedByLog, PassesGuard, Arrives
  <1>2. /\ cache' \in Seq(OrderIds) /\ minTs' \in Nat /\ seen' \subseteq OrderIds
        /\ ForgottenAreOld'
    BY <1>1, RecordKeeps DEF IndInv
  <1>3. UNCHANGED <<queue, accepted>> /\ (file' = file \/ file' = file \o buffer)
    BY DEF RefusedByCore, Validated, RefusedByLog, walVars
  <1>4. file' \in Seq(OrderIds) /\ AcceptedIsOnDisk'
    BY <1>3, FileGrows DEF IndInv
  <1>5. CASE Validated(o)
    <2>1. order' = o /\ pc' = "flush" /\ (buffer' = Append(buffer, o) \/ buffer' = <<o>>)
      BY <1>5 DEF Validated
    <2>2. buffer \in Seq(OrderIds) /\ queue \in Seq(OrderIds)
      BY DEF IndInv, Typed
    <2>3. buffer' \in Seq(OrderIds) /\ o \in Range(buffer')
      <3>1. CASE buffer' = Append(buffer, o)
        BY <3>1, <2>2, RangeAppend
      <3>2. CASE buffer' = <<o>>
        BY <3>2 DEF Range
      <3>3. QED
        BY <2>1, <3>1, <3>2
    <2>4. Typed'
      BY <1>2, <1>3, <1>4, <2>1, <2>2, <2>3 DEF IndInv, Typed
    <2>5. AtWorkIsLogged'
      BY <2>1, <2>3 DEF AtWorkIsLogged
    <2>6. QED
      BY <1>2, <1>4, <2>4, <2>5 DEF IndInv
  <1>6. CASE RefusedByCore(o) \/ RefusedByLog(o)
    <2>1. UNCHANGED <<buffer, file, order, pc>>
      BY <1>6 DEF RefusedByCore, RefusedByLog, walVars
    <2>2. Typed'
      BY <1>2, <1>3, <2>1 DEF IndInv, Typed
    <2>3. AtWorkIsLogged'
      BY <1>1, <2>1 DEF AtWorkIsLogged
    <2>4. QED
      BY <1>2, <1>4, <2>2, <2>3 DEF IndInv
  <1>7. QED
    BY <1>5, <1>6

\* A flush moves the order at work from the buffer to the file.
LEMMA FlushKeeps ==
    ASSUME IndInv, Flush
    PROVE  IndInv'
  <1>1. /\ pc = "flush" /\ pc' = "queue"
        /\ file' = file \o buffer /\ buffer' = <<>>
        /\ UNCHANGED <<cache, minTs, order, queue, seen, accepted>>
    BY DEF Flush, Flushes, coreVars
  <1>2. file' \in Seq(OrderIds) /\ AcceptedIsOnDisk'
    BY <1>1, FileGrows DEF IndInv
  <1>3. order' \in Range(file')
    <2>1. order \in Range(buffer)
      BY <1>1 DEF IndInv, AtWorkIsLogged
    <2>2. QED
      BY <1>1, <2>1, RangeConcat DEF IndInv, Typed
  <1>4. Typed'
    BY <1>1, <1>2 DEF IndInv, Typed
  <1>5. AtWorkIsLogged'
    BY <1>1, <1>3 DEF AtWorkIsLogged
  <1>6. ForgottenAreOld'
    BY <1>1 DEF IndInv, ForgottenAreOld
  <1>7. QED
    BY <1>2, <1>4, <1>5, <1>6 DEF IndInv

\* An order is accepted, and queued or dropped, after it is in the file.
LEMMA AcceptKeeps ==
    ASSUME IndInv, Accept
    PROVE  IndInv'
  <1>1. /\ pc = "queue" /\ pc' = "idle"
        /\ queue' = queue \/ queue' = Append(queue, order)
        /\ accepted' = [accepted EXCEPT ![Len(accepted)] = Append(@, order)]
        /\ UNCHANGED <<cache, minTs, buffer, file, seen>>
    BY DEF Accept, coreVars, walVars
  <1>2. order \in OrderIds /\ order \in Range(file)
    BY <1>1 DEF IndInv, Typed, AtWorkIsLogged
  <1>3. /\ queue \in Seq(OrderIds) /\ accepted \in Seq(Seq(OrderIds)) /\ accepted # <<>>
        /\ Len(accepted) \in DOMAIN accepted
    BY DEF IndInv, Typed
  <1>4. queue' \in Seq(OrderIds) /\ Range(queue') \subseteq Range(queue) \cup {order}
    <2>1. Append(queue, order) \in Seq(OrderIds)
      BY <1>2, <1>3
    <2>2. Range(Append(queue, order)) = Range(queue) \cup {order}
      BY <1>2, <1>3, RangeAppend
    <2>3. QED
      BY <1>1, <1>3, <2>1, <2>2
  <1>5. accepted' \in Seq(Seq(OrderIds)) /\ accepted' # <<>> /\ DOMAIN accepted' = DOMAIN accepted
    BY <1>1, <1>2, <1>3
  <1>6. ASSUME NEW i \in DOMAIN accepted'
        PROVE  Range(accepted'[i]) \subseteq Range(accepted[i]) \cup {order}
    <2>1. accepted[i] \in Seq(OrderIds) /\ i \in DOMAIN accepted
      BY <1>3, <1>5
    <2>2. accepted'[i] = accepted[i] \/ accepted'[i] = Append(accepted[i], order)
      BY <1>1, <2>1
    <2>3. QED
      BY ZenonT(30), <1>2, <2>1, <2>2, RangeAppend
  <1>7. AcceptedIsOnDisk'
    BY <1>1, <1>2, <1>4, <1>5, <1>6 DEF IndInv, AcceptedIsOnDisk
  <1>8. Typed'
    BY <1>1, <1>4, <1>5 DEF IndInv, Typed
  <1>9. QED
    BY <1>1, <1>7, <1>8 DEF IndInv, AtWorkIsLogged, ForgottenAreOld

\* A new process accepts nothing yet and finds the file as it was.
LEMMA RestartKeeps ==
    ASSUME IndInv, Restart
    PROVE  IndInv'
  <1>1. /\ pc' = "idle" /\ file' = file /\ buffer' = <<>> /\ queue' = <<>>
        /\ cache' = <<>> /\ minTs' = 0 /\ seen' = {}
        /\ accepted' = Append(accepted, <<>>)
    BY DEF Restart, Opened
  <1>2. accepted \in Seq(Seq(OrderIds)) /\ <<>> \in Seq(OrderIds)
    BY DEF IndInv, Typed
  <1>3. accepted' \in Seq(Seq(OrderIds)) /\ accepted' # <<>>
    BY <1>1, <1>2
  <1>4. \A i \in DOMAIN accepted' :
           accepted'[i] = <<>> \/ (i \in DOMAIN accepted /\ accepted'[i] = accepted[i])
    <2>1. \A i \in DOMAIN accepted' : i = Len(accepted) + 1 \/ i \in DOMAIN accepted
      BY <1>1, <1>2
    <2>2. accepted'[Len(accepted) + 1] = <<>> /\ \A i \in DOMAIN accepted : accepted'[i] = accepted[i]
      BY <1>1, <1>2
    <2>3. QED
      BY <2>1, <2>2
  <1>5. AcceptedIsOnDisk'
    BY <1>1, <1>4, RangeEmpty DEF IndInv, AcceptedIsOnDisk
  <1>6. Typed'
    BY <1>1, <1>3 DEF IndInv, Typed
  <1>7. QED
    BY <1>1, <1>5, <1>6 DEF IndInv, AtWorkIsLogged, ForgottenAreOld

\* The actions that touch neither guard, log nor accepted orders.
LEMMA OthersKeep ==
    ASSUME IndInv,
           UNCHANGED <<cache, minTs, buffer, file, seen, accepted>>,
           UNCHANGED <<order, pc>> \/ pc' = "idle",
           UNCHANGED queue \/ (queue # <<>> /\ queue' = Tail(queue))
    PROVE  IndInv'
  <1>1. queue' \in Seq(OrderIds) /\ Range(queue') \subseteq Range(queue)
    BY RangeTail DEF IndInv, Typed
  <1>2. Typed'
    BY <1>1 DEF IndInv, Typed
  <1>3. AtWorkIsLogged' /\ ForgottenAreOld'
    BY DEF IndInv, AtWorkIsLogged, ForgottenAreOld
  <1>4. AcceptedIsOnDisk'
    BY <1>1 DEF IndInv, AcceptedIsOnDisk
  <1>5. QED
    BY <1>2, <1>3, <1>4 DEF IndInv

\* Every step of UBSCore keeps the inductive invariant.
LEMMA NextKeeps == IndInv /\ [Next]_vars => IndInv'
  <1>1. SUFFICES ASSUME IndInv, [Next]_vars PROVE IndInv'
    OBVIOUS
  <1>2. ASSUME NEW u, NEW a, NEW n,
               Deposit(u, a, n) \/ Withdraw(u, a, n) \/ apply_balance_delta(u, a, n)
        PROVE  IndInv'
    <2>1. UNCHANGED <<cache, minTs, buffer, file, seen, accepted, order, pc, queue>>
      BY <1>2 DEF Deposit, Withdraw, apply_balance_delta, walVars
    <2>2. QED
      BY <1>1, <2>1, OthersKeep
  <1>2b. ASSUME NEW b, NEW s, Unlock(b) \/ settle_trade(b, s)
         PROVE  IndInv'
    <2>1. UNCHANGED <<cache, minTs, buffer, file, seen, accepted, order, pc, queue>>
      BY <1>2b DEF Unlock, settle_trade, walVars
    <2>2. QED
      BY <1>1, <2>1, OthersKeep
  <1>3. ASSUME NEW o \in OrderIds,
               RefusedByGuard(o) \/ RefusedByCore(o) \/ Validated(o) \/ RefusedByLog(o)
        PROVE  IndInv'
    <2>1. CASE RefusedByGuard(o)
      BY <1>1, <2>1, OthersKeep DEF RefusedByGuard, coreVars, walVars
    <2>2. CASE RefusedByCore(o) \/ Validated(o) \/ RefusedByLog(o)
      BY <1>1, <2>2, OrderKeeps
    <2>3. QED
      BY <1>3, <2>1, <2>2
  <1>4. CASE Flush
    BY <1>1, <1>4, FlushKeeps
  <1>5. CASE FlushFails
    BY <1>1, <1>5, OthersKeep DEF FlushFails, coreVars, walVars
  <1>6. CASE Accept
    BY <1>1, <1>6, AcceptKeeps
  <1>7. CASE PublisherTakes
    BY <1>1, <1>7, OthersKeep DEF PublisherTakes, coreVars, walVars
  <1>8. CASE Restart
    BY <1>1, <1>8, RestartKeeps
  <1>9. CASE Tick
    BY <1>1, <1>9, OthersKeep DEF Tick, coreVars, walVars
  <1>10. CASE UNCHANGED vars
    BY <1>1, <1>10, OthersKeep DEF vars, coreVars, walVars
  <1>11. QED
    BY <1>1, <1>2, <1>3, <1>4, <1>5, <1>6, <1>7, <1>8, <1>9, <1>10, <1>2b DEF Next

-----------------------------------------------------------------------------
\* The inductive invariant holds in every reachable state of UBSCore with its
\* log: process_order_durable's order is in the buffer before the flush and in
\* the file after it.
THEOREM UbsIndInvHolds == Spec => []IndInv
  BY InitEstablishes, NextKeeps, PTL DEF Spec

\* process_order_durable: an order for which it returned Ok, or that reached
\* the publisher, is in the log file, across refused flushes and restarts.
THEOREM DurableBeforeOk == Spec => []AcceptedIsOnDisk
  <1>1. IndInv => AcceptedIsOnDisk
    BY DEF IndInv
  <1>2. QED
    BY <1>1, UbsIndInvHolds, PTL

\* DeduplicationGuard: an id that was recorded and evicted is no younger than
\* min_allowed_ts, whatever the capacity of the cache.
THEOREM WatermarkCovers == Spec => []ForgottenAreOld
  <1>1. IndInv => ForgottenAreOld
    BY DEF IndInv
  <1>2. QED
    BY <1>1, UbsIndInvHolds, PTL

-----------------------------------------------------------------------------
(***************************************************************************)
(* Money: every balance fits in a u64, open orders are covered and no      *)
(* money appears or vanishes.  The inductive invariant adds what the       *)
(* interval between lock_funds and Ok needs: the funds of the order at     *)
(* work are frozen though it is not accepted yet, and an order got so far  *)
(* only because its cost did not saturate.                                 *)
(***************************************************************************)

\* the type of a table of balances
Tables == [Users -> [AssetIds -> Nat]]

Funded ==
    /\ accounts \subseteq Users
    /\ avail \in Tables /\ frozen \in Tables /\ debt \in Tables
    /\ net \in [AssetIds -> Int] /\ wraps \in [AssetIds -> 0..MaxWraps]
    /\ closed \in [OrderIds -> Nat]

Within ==
    /\ Len(cache) <= CacheSize /\ Len(buffer) <= BufferSize /\ Len(queue) <= QueueSize
    /\ order \in OrderIds \cup {NoOrder}
    /\ now \in 0..MaxNow /\ sent \in 0..MaxSent /\ faults \in 0..MaxFaults

\* what the order at work has frozen, of u's asset a
AtWork(u, a) == IF pc # "idle" /\ order \in LockedBy(u, a) THEN Cost(order) ELSE 0

Balanced ==
    \A a \in AssetIds : /\ Supply(a) <= MaxU64
                        /\ Debts(a) <= MaxDebt
                        /\ Supply(a) - Debts(a) = Booked(a)

Covered == \A u \in Users, a \in AssetIds : Owed(u, a) + AtWork(u, a) <= frozen[u][a]

Counted ==
    /\ \A o \in OrderIds : /\ closed[o] <= TimesAccepted(o)
                           /\ TimesAccepted(o) > 0 => Cost(o) = Value(o)
    /\ pc # "idle" => Cost(order) = Value(order)
    /\ Len(accepted[Len(accepted)]) + (IF pc = "idle" THEN 0 ELSE 1) <= sent

\* a step books n in asset a and nothing in the other
Books(a, n) == \A b \in AssetIds : Booked(b)' = Booked(b) + (IF b = a THEN n ELSE 0)

MoneyInv == Funded /\ Within /\ Balanced /\ Covered /\ Counted

\* The bounds of the run's counters are numbers.
LEMMA BoundsNat == MaxSent \in Nat /\ MaxFaults \in Nat /\ MaxNow \in Nat
  BY UbsAssumption

\* The smaller of two numbers is one of them and bounded by both.
LEMMA MinOfTwo ==
    ASSUME NEW m \in Int, NEW n \in Int
    PROVE  Min({m, n}) = IF m <= n THEN m ELSE n
  <1>1. \E x \in {m, n} : \A y \in {m, n} : x <= y
    OBVIOUS
  <1>2. QED
    BY <1>1 DEF Min

\* The larger of a number and zero.
LEMMA MaxWithZero ==
    ASSUME NEW n \in Int
    PROVE  Max({n, 0}) = IF n >= 0 THEN n ELSE 0
  <1>1. \E x \in {n, 0} : \A y \in {n, 0} : x >= y
    OBVIOUS
  <1>2. QED
    BY <1>1 DEF Max

\* An order's cost and value are naturals; a cost below u64::MAX is the value.
LEMMA CostFacts ==
    ASSUME NEW o \in OrderIds
    PROVE  /\ Cost(o) \in Nat /\ Value(o) \in Nat
           /\ Cost(o) # MaxU64 => Cost(o) = Value(o)
           /\ LockAsset(o) \in AssetIds /\ Order[o].user \in Users
  <1>1. /\ Order[o].price \in Nat /\ Order[o].qty \in Nat /\ MaxU64 \in Nat
        /\ Order[o].user \in Users
    BY UbsAssumption
  <1>2. PICK v \in Nat : v = Order[o].price * Order[o].qty
    BY <1>1
  <1>3. Min({v, MaxU64}) = IF v <= MaxU64 THEN v ELSE MaxU64
    BY <1>1, MinOfTwo
  <1>4. QED
    BY <1>1, <1>2, <1>3 DEF Cost, Value, LockAsset, AssetIds

\* t2 is t1 with n more in one entry
Moves(t1, t2, u, a, n) ==
    \A v \in Users, b \in AssetIds : t2[v][b] = t1[v][b] + (IF v = u /\ b = a THEN n ELSE 0)

\* Shift changes one entry, and what stays a balance is a table of balances.
LEMMA ShiftMoves ==
    ASSUME NEW table \in [Users -> [AssetIds -> Int]], NEW u \in Users, NEW a \in AssetIds,
           NEW n \in Int
    PROVE  /\ Shift(table, u, a, n) \in [Users -> [AssetIds -> Int]]
           /\ Moves(table, Shift(table, u, a, n), u, a, n)
           /\ table \in Tables /\ table[u][a] + n >= 0 => Shift(table, u, a, n) \in Tables
  BY DEF Shift, Moves, Tables

\* One entry moves the total of its asset by as much, and no other total.
LEMMA TotalChange ==
    ASSUME NEW t1 \in [Users -> [AssetIds -> Int]], NEW t2 \in [Users -> [AssetIds -> Int]],
           NEW u \in Users, NEW a \in AssetIds, NEW n \in Int, Moves(t1, t2, u, a, n),
           NEW b \in AssetIds
    PROVE  /\ Total(t1, b) \in Int
           /\ Total(t2, b) = Total(t1, b) + (IF b = a THEN n ELSE 0)
  <1> DEFINE f == [v \in Users |-> t1[v][b]]
             g == [v \in Users |-> t2[v][b]]
  <1>1. IsFiniteSet(Users)
    BY UbsAssumption
  <1>2. \A v \in Users : f[v] \in Int /\ g[v] \in Int /\ (v # u => g[v] = f[v])
    BY DEF Moves
  <1>3. g[u] - f[u] = IF b = a THEN n ELSE 0
    BY DEF Moves
  <1>4. Total(t1, b) = SumFunctionOnSet(f, Users) /\ Total(t2, b) = SumFunctionOnSet(g, Users)
    BY DEF Total
  <1> HIDE DEF f, g
  <1>5. SumFunctionOnSet(g, Users) = SumFunctionOnSet(f, Users) + (g[u] - f[u])
    BY <1>1, <1>2, SumChange
  <1>6. SumFunctionOnSet(f, Users) \in Int
    BY <1>1, <1>2, SumInt
  <1>7. QED
    BY <1>3, <1>4, <1>5, <1>6

\* The same, for any two tables.
LEMMA TotalMoves ==
    \A a \in AssetIds : \A t1, t2 \in [Users -> [AssetIds -> Int]] :
       \A u \in Users, x \in AssetIds, n \in Int :
          Moves(t1, t2, u, x, n) => /\ Total(t1, a) \in Int
                                   /\ Total(t2, a) = Total(t1, a) + (IF a = x THEN n ELSE 0)
  <1>1. SUFFICES ASSUME NEW a \in AssetIds, NEW t1 \in [Users -> [AssetIds -> Int]],
                        NEW t2 \in [Users -> [AssetIds -> Int]], NEW u \in Users,
                        NEW x \in AssetIds, NEW n \in Int, Moves(t1, t2, u, x, n)
                 PROVE  /\ Total(t1, a) \in Int
                        /\ Total(t2, a) = Total(t1, a) + (IF a = x THEN n ELSE 0)
    OBVIOUS
  <1>2. QED
    BY <1>1, TotalChange

\* A total of balances is a natural that bounds each of them.
LEMMA TotalBounds ==
    ASSUME NEW table \in Tables, NEW a \in AssetIds
    PROVE  Total(table, a) \in Nat /\ \A u \in Users : table[u][a] <= Total(table, a)
  <1> DEFINE f == [v \in Users |-> table[v][a]]
  <1>1. IsFiniteSet(Users) /\ \A v \in Users : f[v] \in Nat
    BY UbsAssumption DEF Tables
  <1>2. Total(table, a) = SumFunctionOnSet(f, Users) /\ \A v \in Users : f[v] = table[v][a]
    BY DEF Total
  <1> HIDE DEF f
  <1>3. SumFunctionOnSet(f, Users) \in Nat /\ \A v \in Users : f[v] <= SumFunctionOnSet(f, Users)
    BY <1>1, SumBounds
  <1>4. QED
    BY <1>2, <1>3

\* what u's orders that lock asset a owe, from how often each is open
OwedFor(open, u, a) == SumFunctionOnSet([o \in OrderIds |-> open[o] * Value(o)], LockedBy(u, a))

OpenCount == [o \in OrderIds |-> StillOpen(o)]

\* after is open with k more of o
Bumps(open, after, o, k) ==
    \A q \in OrderIds : after[q] = open[q] + (IF q = o THEN k ELSE 0)

\* One more or one fewer open order changes what its user owes by its value.
LEMMA OwedChange ==
    ASSUME NEW open \in [OrderIds -> Int], NEW after \in [OrderIds -> Int],
           NEW o \in OrderIds, NEW k \in {1, -1}, Bumps(open, after, o, k),
           NEW u, NEW a
    PROVE  /\ OwedFor(open, u, a) \in Int
           /\ OwedFor(after, u, a)
                 = OwedFor(open, u, a) + (IF o \in LockedBy(u, a) THEN k * Value(o) ELSE 0)
  <1> DEFINE f == [q \in OrderIds |-> open[q] * Value(q)]
             g == [q \in OrderIds |-> after[q] * Value(q)]
             S == LockedBy(u, a)
  <1>1. IsFiniteSet(S) /\ S \subseteq OrderIds
    BY UbsAssumption, FS_Subset DEF LockedBy
  <1>2. \A q \in OrderIds : Value(q) \in Int
    BY CostFacts
  <1>3. \A q \in OrderIds : f[q] \in Int /\ g[q] \in Int /\ (q # o => g[q] = f[q])
    BY <1>2 DEF Bumps
  <1>4. g[o] - f[o] = k * Value(o)
    <2>1. PICK v \in Int : v = Value(o)
      BY <1>2
    <2>2. f[o] = open[o] * v /\ g[o] = (open[o] + k) * v
      BY <2>1 DEF Bumps
    <2>3. QED
      BY <2>1, <2>2
  <1>5. OwedFor(open, u, a) = SumFunctionOnSet(f, S) /\ OwedFor(after, u, a) = SumFunctionOnSet(g, S)
    BY DEF OwedFor
  <1> HIDE DEF f, g, S
  <1>6. SumFunctionOnSet(f, S) \in Int
    BY <1>1, <1>3, SumInt
  <1>7. CASE o \in S
    <2>1. SumFunctionOnSet(g, S) = SumFunctionOnSet(f, S) + (g[o] - f[o])
      BY <1>1, <1>3, <1>7, SumChange
    <2>2. QED
      BY <1>4, <1>5, <1>6, <1>7, <2>1 DEF S
  <1>8. CASE o \notin S
    <2>1. SumFunctionOnSet(f, S) = SumFunctionOnSet(g, S)
      BY <1>1, <1>3, <1>8, SumEqual
    <2>2. QED
      BY <1>5, <1>6, <1>8, <2>1 DEF S
  <1>9. QED
    BY <1>7, <1>8

\* No open orders, nothing owed.
LEMMA OwedNothing ==
    ASSUME NEW open, \A o \in OrderIds : open[o] = 0, NEW u, NEW a
    PROVE  OwedFor(open, u, a) = 0
  <1> DEFINE f == [q \in OrderIds |-> open[q] * Value(q)]
             S == LockedBy(u, a)
  <1>1. IsFiniteSet(S) /\ S \subseteq OrderIds
    BY UbsAssumption, FS_Subset DEF LockedBy
  <1>2. \A q \in OrderIds : Value(q) \in Int
    BY CostFacts
  <1>3. \A q \in S : f[q] = 0
    BY <1>1, <1>2
  <1>4. OwedFor(open, u, a) = SumFunctionOnSet(f, S)
    BY DEF OwedFor
  <1> HIDE DEF f, S
  <1>5. QED
    BY <1>1, <1>3, <1>4, SumZero

\* how often e is in s
Occurrences(s, e) == Cardinality({i \in DOMAIN s : s[i] = e})

\* The occurrences in a sequence are no more than its length, and an append
\* adds one of what it appends.
LEMMA OccurrencesFacts ==
    ASSUME NEW S, NEW s \in Seq(S), NEW e
    PROVE  /\ Occurrences(s, e) \in Nat
           /\ Occurrences(s, e) <= Len(s)
           /\ \A d \in S : Occurrences(Append(s, d), e)
                              = Occurrences(s, e) + (IF d = e THEN 1 ELSE 0)
  <1> DEFINE I == {i \in DOMAIN s : s[i] = e}
  <1>1. Len(s) \in Nat /\ DOMAIN s = 1..Len(s)
    OBVIOUS
  <1>2. IsFiniteSet(1..Len(s)) /\ Cardinality(1..Len(s)) = Len(s)
    <2>1. \A m, n \in Int : /\ IsFiniteSet(m..n)
                            /\ Cardinality(m..n) = IF m > n THEN 0 ELSE n - m + 1
      BY FS_Interval
    <2>2. IsFiniteSet(1..Len(s)) /\ Cardinality(1..Len(s)) = IF 1 > Len(s) THEN 0 ELSE Len(s) - 1 + 1
      BY <1>1, <2>1
    <2>3. QED
      BY <1>1, <2>2
  <1>3. IsFiniteSet(I) /\ Cardinality(I) \in Nat /\ Cardinality(I) <= Len(s)
    <2>1. I \in SUBSET (1..Len(s))
      BY <1>1
    <2>2. IsFiniteSet(I) /\ Cardinality(I) <= Cardinality(1..Len(s))
      BY <1>2, <2>1, FS_Subset
    <2>3. QED
      BY <1>2, <2>2, FS_CardinalityType
  <1>4. ASSUME NEW d \in S
        PROVE  Occurrences(Append(s, d), e) = Cardinality(I) + (IF d = e THEN 1 ELSE 0)
    <2> DEFINE J == {i \in DOMAIN Append(s, d) : Append(s, d)[i] = e}
    <2>1. /\ DOMAIN Append(s, d) = 1..(Len(s) + 1)
          /\ \A i \in 1..Len(s) : Append(s, d)[i] = s[i]
          /\ Append(s, d)[Len(s) + 1] = d
      OBVIOUS
    <2>2. 1..(Len(s) + 1) = 1..Len(s) \cup {Len(s) + 1} /\ Len(s) + 1 \notin 1..Len(s)
      BY <1>1
    <2>3. J = IF d = e THEN I \cup {Len(s) + 1} ELSE I
      BY <1>1, <2>1, <2>2
    <2>4. Len(s) + 1 \notin I
      BY <1>1, <2>2
    <2>5. Occurrences(Append(s, d), e) = Cardinality(J)
      BY DEF Occurrences
    <2> HIDE DEF I, J
    <2>6. CASE d = e
      <3>1. Cardinality(I \cup {Len(s) + 1}) = Cardinality(I) + 1
        BY <1>3, <2>4, FS_AddElement
      <3>2. QED
        BY <2>3, <2>5, <2>6, <3>1
    <2>7. CASE d # e
      BY <1>3, <2>3, <2>5, <2>7
    <2>8. QED
      BY <2>6, <2>7
  <1>5. Occurrences(s, e) = Cardinality(I)
    BY DEF Occurrences
  <1>6. QED
    BY <1>3, <1>4, <1>5

\* How often each order is open, and what its user owes for it.
LEMMA OpenFacts ==
    ASSUME IndInv, Funded
    PROVE  /\ OpenCount \in [OrderIds -> Int]
           /\ \A o \in OrderIds : TimesAccepted(o) \in Nat /\ OpenCount[o] = TimesAccepted(o) - closed[o]
           /\ \A u, a : Owed(u, a) = OwedFor(OpenCount, u, a)
  <1> DEFINE last == accepted[Len(accepted)]
  <1>1. last \in Seq(OrderIds)
    BY DEF IndInv, Typed
  <1>2. \A o \in OrderIds : TimesAccepted(o) = Occurrences(last, o)
    BY DEF TimesAccepted, Occurrences
  <1> HIDE DEF last
  <1>3. \A o \in OrderIds : TimesAccepted(o) \in Nat
    BY <1>1, <1>2, OccurrencesFacts
  <1>4. OpenCount \in [OrderIds -> Int]
    BY <1>3 DEF OpenCount, StillOpen, Funded
  <1>5. \A u, a : Owed(u, a) = OwedFor(OpenCount, u, a)
    BY DEF Owed, OwedFor, OpenCount
  <1>6. QED
    BY <1>3, <1>4, <1>5 DEF OpenCount, StillOpen

\* The same after a step.
LEMMA OpenFactsNext ==
    ASSUME IndInv', Funded'
    PROVE  /\ OpenCount' \in [OrderIds -> Int]
           /\ \A o \in OrderIds : /\ TimesAccepted(o)' \in Nat
                                  /\ OpenCount'[o] = TimesAccepted(o)' - closed'[o]
           /\ \A u, a : Owed(u, a)' = OwedFor(OpenCount', u, a)
  <1> DEFINE last == accepted'[Len(accepted')]
  <1>1. last \in Seq(OrderIds)
    BY DEF IndInv, Typed
  <1>2. \A o \in OrderIds : TimesAccepted(o)' = Occurrences(last, o)
    BY DEF TimesAccepted, Occurrences
  <1> HIDE DEF last
  <1>3. \A o \in OrderIds : TimesAccepted(o)' \in Nat
    BY <1>1, <1>2, OccurrencesFacts
  <1>4. OpenCount' \in [OrderIds -> Int]
    BY <1>3 DEF OpenCount, StillOpen, Funded
  <1>5. \A u, a : Owed(u, a)' = OwedFor(OpenCount', u, a)
    BY DEF Owed, OwedFor, OpenCount
  <1>6. QED
    BY <1>3, <1>4, <1>5 DEF OpenCount, StillOpen

\* What a user owes is a number.
LEMMA OwedInt ==
    ASSUME IndInv, Funded, NEW u, NEW a
    PROVE  Owed(u, a) \in Int
  <1>1. \A q \in LockedBy(u, a) : [o \in OrderIds |-> StillOpen(o) * Value(o)][q] \in Int
    BY OpenFacts, CostFacts DEF LockedBy, OpenCount
  <1>2. IsFiniteSet(LockedBy(u, a))
    BY UbsAssumption, FS_Subset DEF LockedBy
  <1>3. QED
    BY <1>1, <1>2, SumInt DEF Owed

\* Steps that neither accept nor close an order and leave the order at work
\* alone, or drop it, while nothing frozen is released.
LEMMA CoverStays ==
    ASSUME MoneyInv, IndInv, Funded', IndInv',
           UNCHANGED <<accepted, closed>>, sent' \in Nat, sent' >= sent,
           UNCHANGED <<order, pc>> \/ pc' = "idle",
           \A u \in Users, a \in AssetIds : frozen'[u][a] >= frozen[u][a]
    PROVE  Covered' /\ Counted'
  <1>1. \A o \in OrderIds : TimesAccepted(o)' = TimesAccepted(o)
    BY DEF TimesAccepted
  <1>2. OpenCount' = OpenCount
    BY DEF OpenCount, StillOpen, TimesAccepted
  <1>3. \A u, a : Owed(u, a)' = Owed(u, a)
    BY <1>2, OpenFacts, OpenFactsNext DEF MoneyInv
  <1>4. ASSUME NEW u \in Users, NEW a \in AssetIds
        PROVE  (Owed(u, a) + AtWork(u, a) <= frozen[u][a])'
    <2>1. Owed(u, a) + AtWork(u, a) <= frozen[u][a]
      BY DEF MoneyInv, Covered
    <2>2. AtWork(u, a) \in Nat /\ Owed(u, a) \in Int
      <3>1. \A o \in OrderIds : Cost(o) \in Nat
        BY CostFacts
      <3>2. Owed(u, a) \in Int
        BY OwedInt DEF MoneyInv
      <3>3. QED
        BY <3>1, <3>2 DEF AtWork, LockedBy
    <2>3. AtWork(u, a)' = AtWork(u, a) \/ AtWork(u, a)' = 0
      BY DEF AtWork, LockedBy, LockAsset, Cost, OrderIds
    <2>4. frozen[u][a] \in Nat /\ frozen'[u][a] \in Nat /\ frozen'[u][a] >= frozen[u][a]
      BY DEF MoneyInv, Funded, Tables
    <2>5. QED
      BY <1>3, <2>1, <2>2, <2>3, <2>4
  <1>5. Covered'
    BY <1>4 DEF Covered
  <1>6. Counted'
    <2>1. Len(accepted[Len(accepted)]) \in Nat
      BY DEF IndInv, Typed
    <2>2. sent \in Nat /\ sent' >= sent
      BY DEF MoneyInv, Within
    <2>3. Len(accepted[Len(accepted)]) + (IF pc = "idle" THEN 0 ELSE 1) <= sent
      BY DEF MoneyInv, Counted
    <2>4. (Len(accepted[Len(accepted)]) + (IF pc = "idle" THEN 0 ELSE 1) <= sent)'
      <3>1. PICK n \in Nat : n = Len(accepted[Len(accepted)])
        BY <2>1
      <3>2. n + (IF pc = "idle" THEN 0 ELSE 1) <= sent
        BY <2>3, <3>1
      <3>3. n + (IF pc' = "idle" THEN 0 ELSE 1) <= sent'
        BY <2>2, <3>2
      <3>4. QED
        BY <3>1, <3>3
    <2>5. \A o \in OrderIds : /\ closed'[o] <= TimesAccepted(o)'
                              /\ TimesAccepted(o)' > 0 => Cost(o) = Value(o)
      BY <1>1 DEF MoneyInv, Counted
    <2>6. pc' # "idle" => Cost(order') = Value(order')
      BY DEF MoneyInv, Counted
    <2>7. QED
      BY <2>4, <2>5, <2>6 DEF Counted, Cost, Value
  <1>7. QED
    BY <1>5, <1>6

\* The totals after a step are the totals of the tables after it.
LEMMA TotalsNext ==
    ASSUME NEW a \in AssetIds
    PROVE  /\ Supply(a)' = Total(avail', a) + Total(frozen', a)
           /\ Debts(a)' = Total(debt', a)
  BY DEF Supply, Debts, Total

\* what n more of asset a in one account do to the totals
Gains(t1, t2, a, n) ==
    \A b \in AssetIds : /\ Total(t1, b) \in Int
                         /\ Total(t2, b) = Total(t1, b) + (IF b = a THEN n ELSE 0)

\* One account's change is the total's.
LEMMA MovesGain ==
    ASSUME NEW t1 \in [Users -> [AssetIds -> Int]], NEW t2 \in [Users -> [AssetIds -> Int]],
           NEW u \in Users, NEW a \in AssetIds, NEW n \in Int, Moves(t1, t2, u, a, n)
    PROVE  Gains(t1, t2, a, n)
  BY TotalChange DEF Gains

\* What is booked is a number, and a step that books nothing leaves it.
LEMMA BookedInt ==
    ASSUME Funded, NEW a \in AssetIds
    PROVE  /\ Booked(a) \in Int
           /\ UNCHANGED <<net, wraps>> => Booked(a)' = Booked(a)
  <1>1. net[a] \in Int /\ wraps[a] \in Int /\ MaxU64 + 1 \in Int
    BY UbsAssumption DEF Funded
  <1>2. wraps[a] * (MaxU64 + 1) \in Int
    BY <1>1
  <1>3. QED
    BY <1>1, <1>2 DEF Booked

\* A step that changes one user's balance in one asset keeps the books when the
\* asset's bounds hold after it and its net flow is booked.
LEMMA BalancedMoves ==
    ASSUME Funded, Balanced, Funded',
           NEW u \in Users, NEW a \in AssetIds,
           NEW x \in Int, NEW y \in Int, NEW z \in Int,
           Moves(avail, avail', u, a, x), Moves(frozen, frozen', u, a, y),
           Moves(debt, debt', u, a, z),
           Books(a, x + y - z),
           Supply(a) + x + y <= MaxU64, Debts(a) + z <= MaxDebt
    PROVE  Balanced'
  <1>1. /\ avail \in Tables /\ frozen \in Tables /\ debt \in Tables
        /\ avail' \in Tables /\ frozen' \in Tables /\ debt' \in Tables
    BY DEF Funded
  <1>2. SUFFICES ASSUME NEW b \in AssetIds
                 PROVE  /\ Supply(b)' <= MaxU64 /\ Debts(b)' <= MaxDebt
                        /\ Supply(b)' - Debts(b)' = Booked(b)'
    BY DEF Balanced
  <1>3. Tables \subseteq [Users -> [AssetIds -> Int]]
    BY DEF Tables
  <1>4. /\ Total(avail, b) \in Int /\ Total(frozen, b) \in Int /\ Total(debt, b) \in Int
        /\ Total(avail', b) = Total(avail, b) + (IF b = a THEN x ELSE 0)
        /\ Total(frozen', b) = Total(frozen, b) + (IF b = a THEN y ELSE 0)
        /\ Total(debt', b) = Total(debt, b) + (IF b = a THEN z ELSE 0)
    <2>1. /\ avail \in [Users -> [AssetIds -> Int]] /\ avail' \in [Users -> [AssetIds -> Int]]
          /\ frozen \in [Users -> [AssetIds -> Int]] /\ frozen' \in [Users -> [AssetIds -> Int]]
          /\ debt \in [Users -> [AssetIds -> Int]] /\ debt' \in [Users -> [AssetIds -> Int]]
      BY <1>1, <1>3
    <2>2. Gains(avail, avail', a, x) /\ Gains(frozen, frozen', a, y) /\ Gains(debt, debt', a, z)
      BY <2>1, MovesGain
    <2>3. QED
      BY <2>2 DEF Gains
  <1>5. /\ Supply(b) <= MaxU64 /\ Debts(b) <= MaxDebt /\ Supply(b) - Debts(b) = Booked(b)
        /\ Booked(b) \in Int /\ Booked(b)' = Booked(b) + (IF b = a THEN x + y - z ELSE 0)
    BY BookedInt DEF Balanced, Books
  <1>6. /\ Supply(b) = Total(avail, b) + Total(frozen, b) /\ Debts(b) = Total(debt, b)
        /\ Supply(b)' = Total(avail', b) + Total(frozen', b) /\ Debts(b)' = Total(debt', b)
    BY TotalsNext DEF Supply, Debts
  <1>7. MaxU64 \in Int /\ MaxDebt \in Int
    BY UbsAssumption
  <1>8. CASE b = a
    BY <1>4, <1>5, <1>6, <1>7, <1>8
  <1>9. CASE b # a
    BY <1>4, <1>5, <1>6, <1>7, <1>9
  <1>10. QED
    BY <1>8, <1>9

\* A table that does not change.
LEMMA NoMove ==
    ASSUME NEW table \in Tables, NEW u \in Users, NEW a \in AssetIds
    PROVE  Moves(table, table, u, a, 0)
  BY DEF Moves, Tables

\* A balance never exceeds the supply, nor a debt all debts.
LEMMA BalancesFit ==
    ASSUME Funded, Balanced, NEW u \in Users, NEW a \in AssetIds
    PROVE  /\ avail[u][a] \in Nat /\ frozen[u][a] \in Nat /\ debt[u][a] \in Nat
           /\ Supply(a) \in Nat /\ Debts(a) \in Nat
           /\ avail[u][a] <= Supply(a) /\ frozen[u][a] <= Supply(a) /\ debt[u][a] <= Debts(a)
           /\ Supply(a) <= MaxU64 /\ Debts(a) <= MaxDebt
  <1>1. /\ Total(avail, a) \in Nat /\ Total(frozen, a) \in Nat /\ Total(debt, a) \in Nat
        /\ avail[u][a] <= Total(avail, a) /\ frozen[u][a] <= Total(frozen, a)
        /\ debt[u][a] <= Total(debt, a)
    BY TotalBounds DEF Funded
  <1>2. avail[u][a] \in Nat /\ frozen[u][a] \in Nat /\ debt[u][a] \in Nat
    BY DEF Funded, Tables
  <1>3. Supply(a) <= MaxU64 /\ Debts(a) <= MaxDebt
    BY DEF Balanced
  <1>4. QED
    BY <1>1, <1>2, <1>3 DEF Supply, Debts

\* A step that books n in one asset, with no balance beyond an i64.
LEMMA BookedMoves ==
    ASSUME Funded, NEW a \in AssetIds, NEW n \in Int,
           net' = [net EXCEPT ![a] = @ + n], wraps' = wraps
    PROVE  net' \in [AssetIds -> Int] /\ wraps' \in [AssetIds -> 0..MaxWraps] /\ Books(a, n)
  <1>1. /\ net \in [AssetIds -> Int] /\ wraps \in [AssetIds -> 0..MaxWraps] /\ MaxU64 + 1 \in Int
        /\ net' \in [AssetIds -> Int]
    BY UbsAssumption DEF Funded
  <1>2. ASSUME NEW b \in AssetIds
        PROVE  Booked(b)' = Booked(b) + (IF b = a THEN n ELSE 0)
    <2>1. PICK w \in Int : w = wraps[b] * (MaxU64 + 1)
      BY <1>1
    <2>2. Booked(b) = net[b] - w /\ Booked(b)' = net'[b] - w
      BY <2>1 DEF Booked
    <2>3. net'[b] = net[b] + (IF b = a THEN n ELSE 0) /\ net[b] \in Int
      BY <1>1
    <2>4. QED
      BY <2>1, <2>2, <2>3
  <1>3. QED
    BY <1>1, <1>2 DEF Books

\* on_deposit, on_withdraw and apply_balance_delta: they leave locks and orders
\* alone, and book what they add and take.
LEMMA BalanceMoney ==
    ASSUME MoneyInv, IndInv, IndInv', NEW u \in Users, NEW a \in AssetIds,
           NEW x \in Int, NEW z \in Int,
           accounts' \subseteq Users,
           avail' = Shift(avail, u, a, x), debt' = Shift(debt, u, a, z),
           net' \in [AssetIds -> Int], wraps' \in [AssetIds -> 0..MaxWraps],
           Books(a, x - z),
           avail[u][a] + x >= 0, debt[u][a] + z >= 0,
           Supply(a) + x <= MaxU64, Debts(a) + z <= MaxDebt,
           UNCHANGED <<frozen, closed, cache, buffer, order, pc, queue, now, accepted, sent, faults>>
    PROVE  MoneyInv'
  <1>1. /\ avail \in Tables /\ frozen \in Tables /\ debt \in Tables /\ net \in [AssetIds -> Int]
        /\ avail \in [Users -> [AssetIds -> Int]] /\ debt \in [Users -> [AssetIds -> Int]]
    BY DEF MoneyInv, Funded, Tables
  <1>2. /\ avail' \in Tables /\ Moves(avail, avail', u, a, x)
        /\ debt' \in Tables /\ Moves(debt, debt', u, a, z)
    BY <1>1, ShiftMoves
  <1>3. Moves(frozen, frozen', u, a, 0)
    BY <1>1, NoMove
  <1>4. Funded'
    BY <1>1, <1>2 DEF MoneyInv, Funded
  <1>5. Books(a, x + 0 - z)
    BY x + 0 - z = x - z
  <1>6. Balanced'
    <2>1. Supply(a) \in Int /\ Debts(a) \in Int
      BY BalancesFit DEF MoneyInv
    <2>2. Supply(a) + x + 0 <= MaxU64
      BY <2>1
    <2>3. QED
      BY <1>2, <1>3, <1>4, <1>5, <2>2, BalancedMoves, 0 \in Int DEF MoneyInv
  <1>7. \A v \in Users, b \in AssetIds : frozen'[v][b] >= frozen[v][b]
    BY <1>1 DEF Tables
  <1>8. Covered' /\ Counted'
    <2>1. sent' \in Nat /\ sent' >= sent
      BY DEF MoneyInv, Within
    <2>2. QED
      BY <1>4, <1>7, <2>1, CoverStays
  <1>9. Within'
    BY DEF MoneyInv, Within
  <1>10. QED
    BY <1>4, <1>6, <1>8, <1>9 DEF MoneyInv

\* on_deposit pays the debt first.
LEMMA DepositMoney ==
    ASSUME MoneyInv, IndInv, IndInv', NEW u \in Users, NEW a \in AssetIds,
           NEW n \in 1..(MaxU64 - Supply(a)), Deposit(u, a, n)
    PROVE  MoneyInv'
  <1>1. /\ avail[u][a] \in Nat /\ debt[u][a] \in Nat /\ Supply(a) \in Nat /\ Debts(a) \in Nat
        /\ debt[u][a] <= Debts(a) /\ Debts(a) <= MaxDebt /\ Supply(a) <= MaxU64
    BY BalancesFit DEF MoneyInv
  <1>2. MaxU64 \in Nat /\ MaxDebt \in Nat /\ n \in Nat /\ Supply(a) + n <= MaxU64
    BY <1>1, UbsAssumption
  <1>3. PICK p \in Nat : p = Min({n, debt[u][a]}) /\ p <= n /\ p <= debt[u][a]
    BY <1>1, <1>2, MinOfTwo
  <1>4. /\ avail' = Shift(avail, u, a, n - p) /\ debt' = Shift(debt, u, a, -p)
        /\ net' = [net EXCEPT ![a] = @ + n] /\ wraps' = wraps
        /\ accounts' = accounts \/ accounts' = accounts \cup {u}
        /\ UNCHANGED <<frozen, closed, cache, buffer, order, pc, queue, now, accepted, sent, faults>>
    BY <1>3 DEF Deposit, pay_debt, walVars
  <1>5. (n - p) - (-p) = n /\ n - p \in Int /\ -p \in Int /\ accounts' \subseteq Users
    BY <1>2, <1>3, <1>4 DEF MoneyInv, Funded
  <1>6. /\ avail[u][a] + (n - p) >= 0 /\ debt[u][a] + (-p) >= 0
        /\ Supply(a) + (n - p) <= MaxU64 /\ Debts(a) + (-p) <= MaxDebt
    BY <1>1, <1>2, <1>3
  <1>7. net' \in [AssetIds -> Int] /\ wraps' \in [AssetIds -> 0..MaxWraps] /\ Books(a, (n - p) - (-p))
    <2>1. n \in Int /\ Funded
      BY <1>2 DEF MoneyInv
    <2>2. net' \in [AssetIds -> Int] /\ wraps' \in [AssetIds -> 0..MaxWraps] /\ Books(a, n)
      BY <1>4, <2>1, BookedMoves
    <2>3. QED
      BY <1>5, <2>2
  <1>8. QED
    BY <1>4, <1>5, <1>6, <1>7, BalanceMoney

\* on_withdraw takes from available only.
LEMMA WithdrawMoney ==
    ASSUME MoneyInv, IndInv, IndInv', NEW u \in Users, NEW a \in AssetIds,
           NEW n \in 1..MaxU64, Withdraw(u, a, n)
    PROVE  MoneyInv'
  <1>1. /\ avail[u][a] \in Nat /\ debt[u][a] \in Nat /\ Supply(a) \in Nat /\ Debts(a) \in Nat
        /\ Debts(a) <= MaxDebt /\ Supply(a) <= MaxU64
    BY BalancesFit DEF MoneyInv
  <1>2. MaxU64 \in Nat /\ MaxDebt \in Nat /\ n \in Nat
    BY UbsAssumption
  <1>3. /\ avail[u][a] >= n /\ avail' = Shift(avail, u, a, -n)
        /\ net' = [net EXCEPT ![a] = @ - n]
        /\ UNCHANGED <<accounts, frozen, debt, wraps, closed, cache, buffer, order, pc, queue, now,
                       accepted, sent, faults>>
    BY DEF Withdraw, walVars
  <1>4. debt' = Shift(debt, u, a, 0)
    BY <1>3 DEF Shift, MoneyInv, Funded, Tables
  <1>5. net' \in [AssetIds -> Int] /\ wraps' \in [AssetIds -> 0..MaxWraps] /\ Books(a, (-n) - 0)
    <2>1. net[a] - n = net[a] + (-n) /\ (-n) - 0 = -n /\ -n \in Int
      BY <1>2 DEF MoneyInv, Funded
    <2>2. net' = [net EXCEPT ![a] = @ + (-n)]
      BY <1>3, <2>1
    <2>3. QED
      BY <1>3, <2>1, <2>2, BookedMoves DEF MoneyInv
  <1>6. /\ -n \in Int /\ avail[u][a] + (-n) >= 0 /\ debt[u][a] + 0 >= 0
        /\ Supply(a) + (-n) <= MaxU64 /\ Debts(a) + 0 <= MaxDebt /\ accounts' \subseteq Users
    BY <1>1, <1>2, <1>3 DEF MoneyInv, Funded
  <1>7. QED
    BY <1>3, <1>4, <1>5, <1>6, BalanceMoney, 0 \in Int

\* A cast to an i64 leaves a number or takes 2^64 from it.
LEMMA CastFacts ==
    ASSUME NEW n \in Int
    PROVE  AsI64(n) = n \/ AsI64(n) = n - (MaxU64 + 1)
  <1>1. PICK m : m = MaxU64 \div 2
    OBVIOUS
  <1>2. AsI64(n) = IF n > m THEN n - (MaxU64 + 1) ELSE n
    BY <1>1 DEF AsI64
  <1>3. QED
    BY <1>2

\* apply_balance_delta: what is not covered becomes a debt.
LEMMA DeltaMoney ==
    ASSUME MoneyInv, IndInv, IndInv', NEW u \in Users, NEW a \in AssetIds,
           NEW d \in Int, apply_balance_delta(u, a, d)
    PROVE  MoneyInv'
  <1>1. /\ avail[u][a] \in Nat /\ debt[u][a] \in Nat /\ Supply(a) \in Nat /\ Debts(a) \in Nat
        /\ Debts(a) <= MaxDebt /\ Supply(a) <= MaxU64
    BY BalancesFit DEF MoneyInv
  <1>2. PICK s \in Int, e \in Int, w \in {0, 1} :
           /\ s = avail[u][a] + d /\ e = AsI64(s) /\ w = (IF e = s THEN 0 ELSE 1)
           /\ e = s - w * (MaxU64 + 1) /\ e <= s
    <2>1. MaxU64 \in Nat
      BY UbsAssumption
    <2>2. PICK s \in Int : s = avail[u][a] + d
      BY <1>1
    <2>3. PICK e : e = AsI64(s) /\ (e = s \/ e = s - (MaxU64 + 1))
      BY CastFacts
    <2>4. PICK w : w = IF e = s THEN 0 ELSE 1
      OBVIOUS
    <2>5. e \in Int /\ w \in {0, 1} /\ e = s - w * (MaxU64 + 1) /\ e <= s
      <3>1. CASE e = s
        BY <2>1, <2>4, <3>1
      <3>2. CASE e = s - (MaxU64 + 1)
        BY <2>1, <2>4, <3>2
      <3>3. QED
        BY <2>3, <3>1, <3>2
    <2>6. QED
      BY <2>2, <2>3, <2>4, <2>5
  <1>3. /\ Max({e, 0}) = (IF e >= 0 THEN e ELSE 0)
        /\ Max({-e, 0}) = (IF e >= 0 THEN 0 ELSE -e)
    <2>1. -e \in Int
      BY <1>2
    <2>2. Max({-e, 0}) = (IF -e >= 0 THEN -e ELSE 0)
      BY <2>1, MaxWithZero
    <2>3. QED
      BY <2>2, MaxWithZero
  <1>4. PICK x \in Int : x = (IF e >= 0 THEN e ELSE 0) - avail[u][a]
    BY <1>1
  <1>5. PICK z \in Int : z = IF e >= 0 THEN 0 ELSE -e
    OBVIOUS
  <1>6. /\ Supply(a) + d <= MaxU64 /\ Debts(a) - e <= MaxDebt
        /\ accounts' = accounts \cup {u}
        /\ avail' = [avail EXCEPT ![u][a] = Max({e, 0})]
        /\ debt' = Shift(debt, u, a, Max({-e, 0}))
        /\ net' = [net EXCEPT ![a] = @ + d] /\ wraps' = [wraps EXCEPT ![a] = @ + w]
        /\ wraps[a] + w <= MaxWraps
        /\ UNCHANGED <<frozen, closed, cache, buffer, order, pc, queue, now, accepted, sent, faults>>
    BY <1>2 DEF apply_balance_delta, walVars
  <1>7. avail' = Shift(avail, u, a, x) /\ debt' = Shift(debt, u, a, z)
    <2>1. Max({e, 0}) = avail[u][a] + x
      BY <1>1, <1>3, <1>4
    <2>2. [avail EXCEPT ![u][a] = Max({e, 0})] = [avail EXCEPT ![u][a] = @ + x]
      BY <2>1 DEF MoneyInv, Funded, Tables
    <2>3. QED
      BY <1>3, <1>5, <1>6, <2>2 DEF Shift
  <1>8. net' \in [AssetIds -> Int] /\ wraps' \in [AssetIds -> 0..MaxWraps] /\ Books(a, x - z)
    <2>1. /\ net \in [AssetIds -> Int] /\ wraps \in [AssetIds -> 0..MaxWraps]
          /\ MaxU64 \in Nat /\ MaxWraps \in Nat
      BY UbsAssumption DEF MoneyInv, Funded
    <2>2. net' \in [AssetIds -> Int] /\ wraps' \in [AssetIds -> 0..MaxWraps]
      BY <1>2, <1>6, <2>1
    <2>3. PICK K \in Int : K = MaxU64 + 1
      BY <2>1
    <2>4. x - z = d - w * K
      BY <1>1, <1>2, <1>4, <1>5, <2>3
    <2>5. ASSUME NEW b \in AssetIds
          PROVE  Booked(b)' = Booked(b) + (IF b = a THEN x - z ELSE 0)
      <3>1. /\ Booked(b) = net[b] - wraps[b] * K /\ Booked(b)' = net'[b] - wraps'[b] * K
            /\ net[b] \in Int /\ wraps[b] \in Int
        BY <2>1, <2>3 DEF Booked
      <3>2. CASE b = a
        <4>1. net'[b] = net[b] + d /\ wraps'[b] = wraps[b] + w
          BY <1>6, <2>1, <3>2
        <4>2. CASE w = 0
          BY <2>4, <3>1, <3>2, <4>1, <4>2
        <4>3. CASE w = 1
          <5>1. (wraps[b] + 1) * K = wraps[b] * K + K /\ wraps[b] * K \in Int /\ w * K = K
            BY <3>1, <4>3
          <5>2. QED
            <6>1. wraps'[b] * K = wraps[b] * K + K
              BY <4>1, <4>3, <5>1
            <6>2. PICK p \in Int : p = wraps[b] * K
              BY <5>1
            <6>3. Booked(b) = net[b] - p /\ Booked(b)' = net[b] + d - (p + K) /\ x - z = d - K
              BY <2>4, <3>1, <4>1, <5>1, <6>1, <6>2
            <6>4. QED
              <7>1. net[b] \in Int /\ d \in Int /\ K \in Int /\ p \in Int /\ b = a
                BY <2>3, <3>1, <3>2, <6>2
              <7>2. net[b] + d - (p + K) = (net[b] - p) + (d - K)
                BY <7>1
              <7>3. Booked(b)' = Booked(b) + (x - z)
                BY <6>3, <7>2
              <7>4. QED
                BY <7>1, <7>3
        <4>4. QED
          BY <1>2, <4>2, <4>3
      <3>3. CASE b # a
        <4>1. net'[b] = net[b] /\ wraps'[b] = wraps[b]
          BY <1>6, <2>1, <3>3
        <4>2. wraps[b] * K \in Int
          BY <3>1
        <4>3. QED
          BY <3>1, <3>3, <4>1, <4>2
      <3>4. QED
        BY <3>2, <3>3
    <2>6. QED
      BY <2>2, <2>5 DEF Books
  <1>9. MaxU64 \in Nat /\ MaxDebt \in Nat
    BY UbsAssumption
  <1>10. /\ avail[u][a] + x >= 0 /\ debt[u][a] + z >= 0
         /\ Supply(a) + x <= MaxU64 /\ Debts(a) + z <= MaxDebt
    BY <1>1, <1>2, <1>4, <1>5, <1>6, <1>9
  <1>11. accounts' \subseteq Users
    BY <1>6 DEF MoneyInv, Funded
  <1>12. QED
    BY <1>6, <1>7, <1>8, <1>10, <1>11, BalanceMoney

\* check_and_record keeps the cache within its capacity.
LEMMA CacheFits ==
    ASSUME IndInv, Within, NEW o \in OrderIds, PassesGuard(o)
    PROVE  Len(cache') <= CacheSize /\ sent' \in 0..MaxSent /\ sent' = sent + 1
  <1>1. cache \in Seq(OrderIds) /\ Len(cache) <= CacheSize /\ CacheSize \in Nat \ {0} /\ Len(cache) \in Nat
    BY UbsAssumption DEF IndInv, Typed, Within
  <1>2. sent' \in 0..MaxSent /\ sent' = sent + 1
    BY UbsAssumption DEF PassesGuard, Arrives, Within
  <1>3. CASE Full
    <2>1. cache' = Append(Front(cache), o) /\ Len(cache) > 0
      BY <1>1, <1>3 DEF PassesGuard, Record, Full
    <2>2. Front(cache) \in Seq(OrderIds) /\ Len(Front(cache)) = Len(cache) - 1
      <3>1. Front(cache) \in Seq(OrderIds)
        BY <1>1, <2>1, RangeFront
      <3>2. Front(cache) = [i \in 1..(Len(cache) - 1) |-> cache[i]] /\ Len(cache) - 1 \in Nat
        BY <1>1, <2>1 DEF Front
      <3>3. DOMAIN Front(cache) = 1..(Len(cache) - 1)
        BY <3>2
      <3>4. QED
        BY <3>1, <3>2, <3>3, LenProperties
    <2>3. QED
      BY <1>1, <1>2, <2>1, <2>2
  <1>4. CASE ~Full
    BY <1>1, <1>2, <1>4 DEF PassesGuard, Record, Full
  <1>5. QED
    BY <1>3, <1>4

\* lock_funds moves the cost of an order from available to frozen.
LEMMA LockMoney ==
    ASSUME MoneyInv, IndInv, NEW o \in OrderIds, Lock(o),
           UNCHANGED <<accounts, debt, net, wraps, closed>>
    PROVE  /\ Funded' /\ Balanced'
           /\ Moves(frozen, frozen', Order[o].user, LockAsset(o), Cost(o))
  <1> DEFINE u == Order[o].user
             a == LockAsset(o)
  <1>1. u \in Users /\ a \in AssetIds /\ Cost(o) \in Nat
    BY CostFacts
  <1>2. PICK n \in Nat : n = Cost(o)
    BY <1>1
  <1> HIDE DEF u, a
  <1>3. avail[u][a] >= n /\ avail' = Shift(avail, u, a, -n) /\ frozen' = Shift(frozen, u, a, n)
    <2>1. avail' = [avail EXCEPT ![u][a] = @ - n] /\ frozen' = [frozen EXCEPT ![u][a] = @ + n]
          /\ avail[u][a] >= n
      BY <1>2 DEF Lock, u, a
    <2>2. avail \in Tables
      BY DEF MoneyInv, Funded
    <2>3. [avail EXCEPT ![u][a] = @ - n] = [avail EXCEPT ![u][a] = @ + (-n)]
      <3>1. avail[u][a] - n = avail[u][a] + (-n)
        BY <1>1, <2>2 DEF Tables
      <3>2. QED
        BY <3>1
    <2>4. QED
      BY <2>1, <2>3 DEF Shift
  <1>4. /\ avail \in Tables /\ frozen \in Tables /\ debt \in Tables /\ net \in [AssetIds -> Int]
        /\ avail \in [Users -> [AssetIds -> Int]] /\ frozen \in [Users -> [AssetIds -> Int]]
    BY DEF MoneyInv, Funded, Tables
  <1>5. avail[u][a] \in Nat /\ frozen[u][a] \in Nat /\ -n \in Int
    BY <1>1, <1>4 DEF Tables
  <1>6. avail' \in Tables /\ Moves(avail, avail', u, a, -n)
    <2>1. avail[u][a] + (-n) >= 0
      BY <1>3, <1>5
    <2>2. QED
      BY <1>1, <1>3, <1>4, <1>5, <2>1, ShiftMoves
  <1>7. frozen' \in Tables /\ Moves(frozen, frozen', u, a, n)
    <2>1. frozen[u][a] + n >= 0
      BY <1>5
    <2>2. QED
      BY SMTT(30), <1>1, <1>3, <1>4, <2>1, ShiftMoves
  <1>8. Funded'
    BY <1>4, <1>6, <1>7 DEF MoneyInv, Funded
  <1>9. Balanced'
    <2>1. Moves(debt, debt', u, a, 0)
      BY <1>1, <1>4, NoMove
    <2>2. Books(a, (-n) + n - 0)
      BY <1>1, BookedInt DEF MoneyInv, Books
    <2>3. Supply(a) \in Int /\ Debts(a) \in Int /\ Supply(a) <= MaxU64 /\ Debts(a) <= MaxDebt
      BY <1>1, BalancesFit DEF MoneyInv
    <2>4. Supply(a) + (-n) + n <= MaxU64 /\ Debts(a) + 0 <= MaxDebt
      BY <2>3
    <2>5. QED
      BY <1>1, <1>5, <1>6, <1>7, <1>8, <2>1, <2>2, <2>4, BalancedMoves, 0 \in Int DEF MoneyInv
  <1>10. QED
    BY <1>2, <1>7, <1>8, <1>9 DEF u, a

\* An order that is validated: its funds are frozen while it is at work.
LEMMA ValidatedMoney ==
    ASSUME MoneyInv, IndInv, IndInv', NEW o \in OrderIds, Validated(o)
    PROVE  MoneyInv'
  <1>1. /\ PassesGuard(o) /\ Lock(o) /\ pc = "idle" /\ pc' = "flush" /\ order' = o /\ Cost(o) # MaxU64
        /\ UNCHANGED <<accounts, debt, net, wraps, closed, queue, now, accepted, faults>>
    BY DEF Validated, PassesGuard, Arrives
  <1>2. Funded' /\ Balanced' /\ Moves(frozen, frozen', Order[o].user, LockAsset(o), Cost(o))
    BY <1>1, LockMoney
  <1>3. Len(cache') <= CacheSize /\ sent' \in 0..MaxSent /\ sent' = sent + 1
    BY <1>1, CacheFits DEF MoneyInv
  <1>4. Len(buffer') <= BufferSize
    <2>1. /\ BufferSize \in Nat \ {0} /\ buffer \in Seq(OrderIds)
          /\ \/ Len(buffer) < BufferSize /\ buffer' = Append(buffer, o)
             \/ buffer' = <<o>>
      BY UbsAssumption DEF Validated, IndInv, Typed
    <2>2. Len(Append(buffer, o)) = Len(buffer) + 1 /\ Len(<<o>>) = 1 /\ Len(buffer) \in Nat
      BY <2>1
    <2>3. CASE Len(buffer) < BufferSize /\ buffer' = Append(buffer, o)
      <3>1. Len(buffer') = Len(buffer) + 1
        BY <2>2, <2>3
      <3>2. QED
        BY <2>1, <2>2, <2>3, <3>1
    <2>4. CASE buffer' = <<o>>
      <3>1. Len(buffer') = 1
        BY <2>2, <2>4
      <3>2. QED
        BY <2>1, <3>1
    <2>5. QED
      BY <2>1, <2>3, <2>4
  <1>5. Within'
    BY <1>1, <1>3, <1>4 DEF MoneyInv, Within
  <1>6. OpenCount' = OpenCount /\ \A q \in OrderIds : TimesAccepted(q)' = TimesAccepted(q)
    BY <1>1 DEF OpenCount, StillOpen, TimesAccepted
  <1>7. \A u, a : Owed(u, a)' = Owed(u, a)
    BY <1>2, <1>6, OpenFacts, OpenFactsNext DEF MoneyInv
  <1>8. Covered'
    <2>1. SUFFICES ASSUME NEW u \in Users, NEW a \in AssetIds
                   PROVE  Owed(u, a)' + AtWork(u, a)' <= frozen'[u][a]
      BY DEF Covered
    <2>2. Owed(u, a) + 0 <= frozen[u][a] /\ Owed(u, a) \in Int
      BY <1>1, OwedInt DEF MoneyInv, Covered, AtWork
    <2>3. frozen[u][a] \in Nat /\ Cost(o) \in Nat
      BY CostFacts DEF MoneyInv, Funded, Tables
    <2>4. frozen'[u][a] = frozen[u][a] + (IF u = Order[o].user /\ a = LockAsset(o) THEN Cost(o) ELSE 0)
      BY <1>2 DEF Moves
    <2>5. AtWork(u, a)' = IF u = Order[o].user /\ a = LockAsset(o) THEN Cost(o) ELSE 0
      <3>1. AtWork(u, a)' = IF o \in LockedBy(u, a) THEN Cost(o) ELSE 0
        BY <1>1 DEF AtWork, LockedBy, LockAsset, Cost, OrderIds
      <3>2. QED
        BY <3>1 DEF LockedBy
    <2>6. QED
      BY <1>7, <2>2, <2>3, <2>4, <2>5
  <1>9. Counted'
    <2>1. Cost(o) = Value(o)
      BY <1>1, CostFacts
    <2>2. \A q \in OrderIds : /\ closed'[q] <= TimesAccepted(q)'
                              /\ TimesAccepted(q)' > 0 => Cost(q) = Value(q)
      BY <1>1, <1>6 DEF MoneyInv, Counted
    <2>3. Len(accepted[Len(accepted)]) + 1 <= sent + 1
      <3>1. PICK n \in Nat : n = Len(accepted[Len(accepted)])
        BY DEF IndInv, Typed
      <3>2. n + 0 <= sent /\ sent \in Nat
        BY <1>1, <3>1 DEF MoneyInv, Counted, Within
      <3>3. QED
        BY <3>1, <3>2
    <2>4. (Len(accepted[Len(accepted)]) + (IF pc = "idle" THEN 0 ELSE 1) <= sent)'
      BY <1>1, <1>3, <2>3
    <2>5. (pc # "idle" => Cost(order) = Value(order))'
      BY <1>1, <2>1 DEF Cost, Value
    <2>6. QED
      BY <2>2, <2>4, <2>5 DEF Counted, Cost, Value
  <1>10. QED
    BY <1>2, <1>5, <1>8, <1>9 DEF MoneyInv

\* An order the core or the log refuses leaves at most its lock behind.
LEMMA RefusedMoney ==
    ASSUME MoneyInv, IndInv, IndInv', NEW o \in OrderIds, RefusedByCore(o) \/ RefusedByLog(o)
    PROVE  MoneyInv'
  <1>1. /\ PassesGuard(o)
        /\ UNCHANGED <<accounts, debt, net, wraps, closed, buffer, order, pc, queue, now, accepted>>
        /\ \/ UNCHANGED <<avail, frozen>>
           \/ Lock(o)
        /\ \/ faults' = faults
           \/ faults < MaxFaults /\ faults' = faults + 1
    BY DEF RefusedByCore, RefusedByLog, fundsVars, walVars
  <1>2. Len(cache') <= CacheSize /\ sent' \in 0..MaxSent /\ sent' = sent + 1
    BY <1>1, CacheFits DEF MoneyInv
  <1>3. faults' \in 0..MaxFaults
    BY SMTT(30), <1>1, UbsAssumption DEF MoneyInv, Within
  <1>4. Within'
    BY <1>1, <1>2, <1>3 DEF MoneyInv, Within
  <1>5. /\ Funded' /\ Balanced'
        /\ \A u \in Users, a \in AssetIds : frozen'[u][a] >= frozen[u][a]
    <2>1. CASE UNCHANGED <<avail, frozen>>
      <3>1. Funded'
        BY <1>1, <2>1 DEF MoneyInv, Funded
      <3>2. Balanced'
        BY <1>1, <2>1 DEF MoneyInv, Balanced, Supply, Debts, Total, Booked
      <3>3. QED
        BY <2>1, <3>1, <3>2 DEF MoneyInv, Funded, Tables
    <2>2. CASE Lock(o)
      <3>1. Funded' /\ Balanced' /\ Moves(frozen, frozen', Order[o].user, LockAsset(o), Cost(o))
        BY <1>1, <2>2, LockMoney
      <3>2. Cost(o) \in Nat
        BY CostFacts
      <3>3. \A u \in Users, a \in AssetIds : frozen[u][a] \in Nat
        BY DEF MoneyInv, Funded, Tables
      <3>4. QED
        BY <3>1, <3>2, <3>3 DEF Moves
    <2>3. QED
      BY <1>1, <2>1, <2>2
  <1>6. Covered' /\ Counted'
    <2>1. sent' \in Nat /\ sent' >= sent
      BY <1>2 DEF MoneyInv, Within
    <2>2. QED
      BY <1>1, <1>5, <2>1, CoverStays
  <1>7. QED
    BY <1>4, <1>5, <1>6 DEF MoneyInv

\* An order that is accepted: what was frozen for the order at work is now owed.
LEMMA AcceptMoney ==
    ASSUME MoneyInv, IndInv, IndInv', Accept
    PROVE  MoneyInv'
  <1>1. /\ pc = "queue" /\ pc' = "idle" /\ order' = NoOrder
        /\ queue' = (IF Len(queue) < QueueSize THEN Append(queue, order) ELSE queue)
        /\ accepted' = [accepted EXCEPT ![Len(accepted)] = Append(@, order)]
        /\ UNCHANGED <<accounts, avail, frozen, debt, net, wraps, closed, cache, buffer, now, sent, faults>>
    BY DEF Accept, coreVars, fundsVars, walVars
  <1>2. /\ order \in OrderIds /\ accepted \in Seq(Seq(OrderIds)) /\ queue \in Seq(OrderIds)
        /\ Len(accepted) \in Nat /\ Len(accepted) \in DOMAIN accepted
    BY <1>1 DEF IndInv, Typed
  <1>3. Funded'
    BY <1>1 DEF MoneyInv, Funded
  <1>4. Balanced'
    BY <1>1 DEF MoneyInv, Balanced, Supply, Debts, Total, Booked
  <1>5. Within'
    <2>1. Len(Append(queue, order)) = Len(queue) + 1 /\ Len(queue) \in Nat /\ QueueSize \in Nat
      BY <1>2, UbsAssumption
    <2>2. Len(queue') <= QueueSize
      <3>1. CASE Len(queue) < QueueSize
        <4>1. Len(queue') = Len(queue) + 1
          BY <1>1, <2>1, <3>1
        <4>2. QED
          BY <2>1, <3>1, <4>1
      <3>2. CASE ~(Len(queue) < QueueSize)
        BY <1>1, <3>2 DEF MoneyInv, Within
      <3>3. QED
        BY <3>1, <3>2
    <2>3. QED
      BY <1>1, <2>2 DEF MoneyInv, Within
  <1>6. PICK last \in Seq(OrderIds) : last = accepted[Len(accepted)]
    BY <1>2
  <1>7. accepted'[Len(accepted')] = Append(last, order)
    <2>1. Len(accepted') = Len(accepted)
      BY <1>1, <1>2
    <2>2. QED
      BY <1>1, <1>2, <1>6, <2>1
  <1>8. \A q \in OrderIds : TimesAccepted(q) = Occurrences(last, q)
    BY <1>6 DEF TimesAccepted, Occurrences
  <1>9. \A q \in OrderIds : TimesAccepted(q)' = Occurrences(Append(last, order), q)
    BY <1>7 DEF TimesAccepted, Occurrences
  <1>10. \A q \in OrderIds : /\ TimesAccepted(q) \in Nat
                             /\ TimesAccepted(q)' = TimesAccepted(q) + (IF order = q THEN 1 ELSE 0)
    BY <1>2, <1>6, <1>8, <1>9, OccurrencesFacts
  <1>11. ASSUME NEW q \in OrderIds
         PROVE  OpenCount'[q] = OpenCount[q] + (IF q = order THEN 1 ELSE 0)
    <2>1. OpenCount[q] = TimesAccepted(q) - closed[q] /\ closed[q] \in Nat
      BY OpenFacts DEF MoneyInv, Funded
    <2>2. OpenCount'[q] = TimesAccepted(q)' - closed[q]
      BY <1>1, <1>3, OpenFactsNext
    <2>3. PICK m \in Nat : m = TimesAccepted(q) /\ TimesAccepted(q)' = m + (IF order = q THEN 1 ELSE 0)
      BY <1>10
    <2>4. QED
      BY <2>1, <2>2, <2>3
  <1>12. OpenCount \in [OrderIds -> Int] /\ OpenCount' \in [OrderIds -> Int]
    BY <1>3, OpenFacts, OpenFactsNext DEF MoneyInv
  <1>13. Cost(order) = Value(order)
    BY <1>1 DEF MoneyInv, Counted
  <1>14. Covered'
    <2>1. SUFFICES ASSUME NEW u \in Users, NEW a \in AssetIds
                   PROVE  Owed(u, a)' + AtWork(u, a)' <= frozen'[u][a]
      BY DEF Covered
    <2>2. Owed(u, a) = OwedFor(OpenCount, u, a) /\ Owed(u, a)' = OwedFor(OpenCount', u, a)
      BY <1>3, OpenFacts, OpenFactsNext DEF MoneyInv
    <2>3. /\ OwedFor(OpenCount, u, a) \in Int
          /\ OwedFor(OpenCount', u, a)
                = OwedFor(OpenCount, u, a) + (IF order \in LockedBy(u, a) THEN 1 * Value(order) ELSE 0)
      <3>1. Bumps(OpenCount, OpenCount', order, 1)
        BY <1>11 DEF Bumps
      <3>2. ASSUME NEW open \in [OrderIds -> Int], NEW after \in [OrderIds -> Int],
                   NEW o \in OrderIds, Bumps(open, after, o, 1)
            PROVE  /\ OwedFor(open, u, a) \in Int
                   /\ OwedFor(after, u, a)
                         = OwedFor(open, u, a) + (IF o \in LockedBy(u, a) THEN 1 * Value(o) ELSE 0)
        BY SMTT(30), <3>2, OwedChange
      <3>3. QED
        BY <1>2, <1>12, <3>1, <3>2
    <2>4. Owed(u, a) + (IF order \in LockedBy(u, a) THEN Value(order) ELSE 0) <= frozen[u][a]
      BY <1>1, <1>13 DEF MoneyInv, Covered, AtWork
    <2>5. AtWork(u, a)' = 0 /\ Value(order) \in Nat /\ frozen[u][a] \in Nat
      BY <1>1, <1>2, CostFacts DEF AtWork, MoneyInv, Funded, Tables
    <2>6. QED
      BY <1>1, <2>2, <2>3, <2>4, <2>5
  <1>15. Counted'
    <2>1. ASSUME NEW q \in OrderIds
          PROVE  closed'[q] <= TimesAccepted(q)' /\ (TimesAccepted(q)' > 0 => Cost(q) = Value(q))
      <3>1. closed[q] <= TimesAccepted(q) /\ (TimesAccepted(q) > 0 => Cost(q) = Value(q))
        BY DEF MoneyInv, Counted
      <3>2. closed[q] \in Nat
        BY DEF MoneyInv, Funded
      <3>3. QED
        BY SMTT(30), <1>1, <1>10, <1>13, <3>1, <3>2
    <2>2. Len(accepted'[Len(accepted')]) + 0 <= sent'
      <3>1. Len(last) + 1 <= sent
        BY <1>1, <1>6 DEF MoneyInv, Counted
      <3>2. Len(Append(last, order)) = Len(last) + 1 /\ Len(last) \in Nat
        BY <1>2
      <3>3. Len(accepted'[Len(accepted')]) = Len(last) + 1
        BY <1>7, <3>2
      <3>4. QED
        BY <1>1, <3>1, <3>2, <3>3
    <2>3. QED
      BY <1>1, <2>1, <2>2 DEF Counted, Cost, Value
  <1>16. QED
    BY <1>3, <1>4, <1>5, <1>14, <1>15 DEF MoneyInv

\* A step that closes an open order and releases what it had frozen leaves the
\* others covered.
LEMMA ClosedOnce ==
    ASSUME MoneyInv, IndInv, IndInv', Funded', NEW o \in OrderIds, Open(o), pc = "idle",
           \A u \in Users, a \in AssetIds :
              frozen'[u][a] = frozen[u][a] - (IF o \in LockedBy(u, a) THEN Cost(o) ELSE 0),
           closed' = [closed EXCEPT ![o] = @ + 1],
           UNCHANGED <<order, pc, accepted, sent>>
    PROVE  Covered' /\ Counted'
  <1>1. \A q \in OrderIds : TimesAccepted(q)' = TimesAccepted(q) /\ TimesAccepted(q) \in Nat
    BY OpenFacts DEF TimesAccepted, MoneyInv
  <1>2. closed \in [OrderIds -> Nat]
    BY DEF MoneyInv, Funded
  <1>3. \A q \in OrderIds : OpenCount'[q] = OpenCount[q] + (IF q = o THEN -1 ELSE 0)
    <2>1. \A q \in OrderIds : /\ OpenCount[q] = TimesAccepted(q) - closed[q]
                              /\ OpenCount'[q] = TimesAccepted(q)' - closed'[q]
      BY OpenFacts, OpenFactsNext DEF MoneyInv
    <2>2. QED
      BY <1>1, <1>2, <2>1
  <1>4. OpenCount \in [OrderIds -> Int] /\ OpenCount' \in [OrderIds -> Int]
    BY OpenFacts, OpenFactsNext DEF MoneyInv
  <1>5. TimesAccepted(o) - closed[o] > 0
    BY DEF Open, StillOpen
  <1>6. Cost(o) = Value(o) /\ Value(o) \in Nat
    BY <1>1, <1>2, <1>5, CostFacts DEF MoneyInv, Counted
  <1>7. Covered'
    <2>1. SUFFICES ASSUME NEW u \in Users, NEW a \in AssetIds
                   PROVE  Owed(u, a)' + AtWork(u, a)' <= frozen'[u][a]
      BY DEF Covered
    <2>2. Owed(u, a) = OwedFor(OpenCount, u, a) /\ Owed(u, a)' = OwedFor(OpenCount', u, a)
      BY OpenFacts, OpenFactsNext DEF MoneyInv
    <2>3. /\ OwedFor(OpenCount, u, a) \in Int
          /\ OwedFor(OpenCount', u, a)
                = OwedFor(OpenCount, u, a) + (IF o \in LockedBy(u, a) THEN (-1) * Value(o) ELSE 0)
      <3>1. Bumps(OpenCount, OpenCount', o, -1)
        BY <1>3 DEF Bumps
      <3>2. ASSUME NEW open \in [OrderIds -> Int], NEW after \in [OrderIds -> Int],
                   Bumps(open, after, o, -1)
            PROVE  /\ OwedFor(open, u, a) \in Int
                   /\ OwedFor(after, u, a)
                         = OwedFor(open, u, a) + (IF o \in LockedBy(u, a) THEN (-1) * Value(o) ELSE 0)
        BY <3>2, OwedChange
      <3>3. QED
        BY <1>4, <3>1, <3>2
    <2>4. Owed(u, a) + 0 <= frozen[u][a] /\ frozen[u][a] \in Nat
      BY DEF MoneyInv, Covered, AtWork, Funded, Tables
    <2>5. AtWork(u, a)' = 0
      BY DEF AtWork
    <2>6. frozen'[u][a] = frozen[u][a] - (IF o \in LockedBy(u, a) THEN Value(o) ELSE 0)
      BY <1>6
    <2>7. QED
      BY <1>6, <2>2, <2>3, <2>4, <2>5, <2>6
  <1>8. Counted'
    <2>1. ASSUME NEW q \in OrderIds
          PROVE  closed'[q] <= TimesAccepted(q)' /\ (TimesAccepted(q)' > 0 => Cost(q) = Value(q))
      <3>1. closed[q] <= TimesAccepted(q) /\ (TimesAccepted(q) > 0 => Cost(q) = Value(q))
        BY DEF MoneyInv, Counted
      <3>2. QED
        BY <1>1, <1>2, <1>5, <3>1
    <2>2. Len(accepted[Len(accepted)]) + (IF pc = "idle" THEN 0 ELSE 1) <= sent
      BY DEF MoneyInv, Counted
    <2>3. QED
      BY <2>1, <2>2 DEF Counted, Cost, Value
  <1>9. QED
    BY <1>7, <1>8

\* unlock_funds gives back what an order froze.
LEMMA UnlockMoney ==
    ASSUME MoneyInv, IndInv, IndInv', NEW o \in OrderIds, Unlock(o)
    PROVE  MoneyInv'
  <1> DEFINE u == Order[o].user
             a == LockAsset(o)
  <1>1. u \in Users /\ a \in AssetIds /\ Cost(o) \in Nat
    BY CostFacts
  <1>2. PICK n \in Nat : n = Cost(o)
    BY <1>1
  <1>3. /\ pc = "idle" /\ Open(o) /\ frozen[u][a] >= n
        /\ frozen' = Shift(frozen, u, a, -n) /\ avail' = Shift(avail, u, a, n)
        /\ closed' = [closed EXCEPT ![o] = @ + 1]
        /\ UNCHANGED <<accounts, debt, net, wraps, cache, buffer, order, pc, queue, now, accepted, sent, faults>>
    BY <1>2 DEF Unlock, walVars
  <1> HIDE DEF u, a
  <1>4. /\ avail \in Tables /\ frozen \in Tables /\ debt \in Tables /\ net \in [AssetIds -> Int]
        /\ avail \in [Users -> [AssetIds -> Int]] /\ frozen \in [Users -> [AssetIds -> Int]]
        /\ closed \in [OrderIds -> Nat]
    BY DEF MoneyInv, Funded, Tables
  <1>5. avail[u][a] \in Nat /\ frozen[u][a] \in Nat /\ -n \in Int /\ n \in Int
    BY <1>1, <1>4 DEF Tables
  <1>6. avail' \in Tables /\ Moves(avail, avail', u, a, n)
    <2>1. avail[u][a] + n >= 0
      BY <1>5
    <2>2. QED
      BY <1>1, <1>3, <1>4, <1>5, <2>1, ShiftMoves
  <1>7. frozen' \in Tables /\ Moves(frozen, frozen', u, a, -n)
    <2>1. frozen[u][a] + (-n) >= 0
      BY <1>3, <1>5
    <2>2. QED
      BY <1>1, <1>3, <1>4, <1>5, <2>1, ShiftMoves
  <1>8. Funded'
    BY <1>3, <1>4, <1>6, <1>7 DEF MoneyInv, Funded
  <1>9. Balanced'
    <2>1. Moves(debt, debt', u, a, 0)
      BY <1>1, <1>3, <1>4, NoMove
    <2>2. Books(a, n + (-n) - 0)
      BY <1>1, <1>3, BookedInt DEF MoneyInv, Books
    <2>3. Supply(a) \in Int /\ Debts(a) \in Int /\ Supply(a) <= MaxU64 /\ Debts(a) <= MaxDebt
      BY <1>1, BalancesFit DEF MoneyInv
    <2>4. Supply(a) + n + (-n) <= MaxU64 /\ Debts(a) + 0 <= MaxDebt
      BY <2>3
    <2>5. QED
      BY <1>1, <1>5, <1>6, <1>7, <1>8, <2>1, <2>2, <2>4, BalancedMoves, 0 \in Int DEF MoneyInv
  <1>10. Within'
    BY <1>3 DEF MoneyInv, Within
  <1>11. ASSUME NEW v \in Users, NEW b \in AssetIds
         PROVE  frozen'[v][b] = frozen[v][b] - (IF o \in LockedBy(v, b) THEN Cost(o) ELSE 0)
    <2>1. frozen'[v][b] = frozen[v][b] + (IF v = u /\ b = a THEN -n ELSE 0)
      BY <1>7 DEF Moves
    <2>2. o \in LockedBy(v, b) <=> (v = u /\ b = a)
      BY DEF LockedBy, u, a
    <2>3. frozen[v][b] \in Nat
      BY <1>4 DEF Tables
    <2>4. QED
      BY <1>2, <2>1, <2>2, <2>3
  <1>12. Covered' /\ Counted'
    BY <1>3, <1>8, <1>11, ClosedOnce
  <1>13. QED
    BY <1>8, <1>9, <1>10, <1>12 DEF MoneyInv

\* One open order fewer.
LEMMA OwedDrop ==
    ASSUME NEW open \in [OrderIds -> Int], NEW after \in [OrderIds -> Int],
           NEW o \in OrderIds, Bumps(open, after, o, -1), NEW u, NEW a
    PROVE  /\ OwedFor(open, u, a) \in Int
           /\ OwedFor(after, u, a)
                 = OwedFor(open, u, a) - (IF o \in LockedBy(u, a) THEN Value(o) ELSE 0)
  <1>1. /\ OwedFor(open, u, a) \in Int
        /\ OwedFor(after, u, a)
              = OwedFor(open, u, a) + (IF o \in LockedBy(u, a) THEN (-1) * Value(o) ELSE 0)
    BY OwedChange
  <1>2. Value(o) \in Nat
    BY CostFacts
  <1>3. QED
    BY <1>1, <1>2

\* settle_trade moves the books of two users in two assets.
LEMMA SettleFunds ==
    ASSUME MoneyInv, NEW b \in OrderIds, NEW s \in OrderIds, settle_trade(b, s),
           Cost(b) = Value(b)
    PROVE  /\ Funded' /\ Balanced'
           /\ \A u \in Users, a \in AssetIds :
                 frozen'[u][a] = frozen[u][a] - (IF b \in LockedBy(u, a) THEN Cost(b) ELSE 0)
                                              - (IF s \in LockedBy(u, a) THEN Cost(s) ELSE 0)
  <1> DEFINE buyer == Order[b].user
             seller == Order[s].user
             f1 == Shift(frozen, buyer, "quote", -Cost(b))
  <1>1. /\ Order[b].side = "Buy" /\ Order[s].side = "Sell" /\ Order[b].qty = Order[s].qty
        /\ Order[b].price >= Order[s].price
        /\ frozen[buyer]["quote"] >= Cost(b) /\ frozen[seller]["base"] >= Order[s].qty
        /\ UNCHANGED <<accounts, debt, net, wraps>>
        /\ closed' = [closed EXCEPT ![b] = @ + 1, ![s] = @ + 1]
    BY DEF settle_trade
  <1>2. /\ Order[b].price \in Nat /\ Order[s].price \in Nat /\ Order[s].qty \in Nat
        /\ buyer \in Users /\ seller \in Users
    BY UbsAssumption
  <1>3. PICK q \in Nat, amt \in Nat, c \in Nat :
           /\ q = Order[s].qty /\ amt = Order[s].price * Order[s].qty /\ c = Cost(b)
           /\ amt <= c /\ Cost(s) = q
    <2>1. Order[s].price * Order[s].qty \in Nat /\ Cost(b) = Order[b].price * Order[s].qty
      BY <1>1, <1>2 DEF Value
    <2>2. Order[s].price * Order[s].qty <= Order[b].price * Order[s].qty
      <3>1. \A m, k, n \in Nat : k >= m => m * n <= k * n
        OBVIOUS
      <3>2. QED
        BY <1>1, <1>2, <3>1
    <2>3. Cost(s) = Order[s].qty /\ Cost(b) \in Nat
      BY <1>1, CostFacts DEF Cost
    <2>4. QED
      BY <1>2, <2>1, <2>2, <2>3
  <1>4. PICK r \in Nat : r = c - amt
    BY <1>3
  <1> DEFINE a1 == Shift(avail, buyer, "base", q)
             a2 == Shift(a1, buyer, "quote", r)
  <1>5. frozen' = Shift(f1, seller, "base", -q) /\ avail' = Shift(a2, seller, "quote", amt)
    BY <1>3, <1>4 DEF settle_trade
  <1>6. /\ avail \in Tables /\ frozen \in Tables /\ debt \in Tables /\ net \in [AssetIds -> Int]
        /\ closed \in [OrderIds -> Nat]
    BY DEF MoneyInv, Funded
  <1>7. "base" \in AssetIds /\ "quote" \in AssetIds /\ \A x \in AssetIds : x = "base" \/ x = "quote"
    BY DEF AssetIds
  <1>8. Tables \subseteq [Users -> [AssetIds -> Int]] /\ \A t \in Tables, u \in Users, x \in AssetIds : t[u][x] \in Nat
    BY DEF Tables
  <1>9. /\ -c \in Int /\ -q \in Int /\ c = Cost(b)
        /\ q \in Int /\ r \in Int /\ amt \in Int
    BY <1>3
  <1> HIDE DEF buyer, seller
  <1>10. f1 \in Tables /\ Moves(frozen, f1, buyer, "quote", -c)
    <2>1. frozen \in [Users -> [AssetIds -> Int]] /\ frozen[buyer]["quote"] + (-c) >= 0
      BY <1>1, <1>2, <1>6, <1>7, <1>8, <1>9
    <2>2. QED
      BY <1>2, <1>6, <1>7, <1>9, <2>1, ShiftMoves
  <1>11. a1 \in Tables /\ Moves(avail, a1, buyer, "base", q)
    <2>1. avail \in [Users -> [AssetIds -> Int]] /\ avail[buyer]["base"] + q >= 0
      BY <1>2, <1>6, <1>7, <1>8
    <2>2. QED
      BY <1>2, <1>6, <1>7, <2>1, ShiftMoves
  <1> HIDE DEF a1, f1
  <1>12. a2 \in Tables /\ Moves(a1, a2, buyer, "quote", r)
    <2>1. a1 \in [Users -> [AssetIds -> Int]] /\ a1[buyer]["quote"] + r >= 0
      BY <1>2, <1>7, <1>8, <1>11
    <2>2. QED
      BY <1>2, <1>7, <1>11, <2>1, ShiftMoves
  <1> HIDE DEF a2
  <1>13. avail' \in Tables /\ Moves(a2, avail', seller, "quote", amt)
    <2>1. a2 \in [Users -> [AssetIds -> Int]] /\ a2[seller]["quote"] + amt >= 0
      BY <1>2, <1>7, <1>8, <1>12
    <2>2. QED
      BY <1>2, <1>5, <1>7, <1>12, <2>1, ShiftMoves
  <1>14. frozen' \in Tables /\ Moves(f1, frozen', seller, "base", -q)
    <2>1. f1[seller]["base"] = frozen[seller]["base"] + 0
      BY <1>2, <1>7, <1>10 DEF Moves
    <2>2. f1 \in [Users -> [AssetIds -> Int]] /\ f1[seller]["base"] + (-q) >= 0
      BY <1>1, <1>2, <1>3, <1>6, <1>7, <1>8, <1>9, <1>10, <2>1
    <2>3. QED
      BY <1>2, <1>5, <1>7, <1>9, <1>10, <2>2, ShiftMoves
  <1>15. Funded'
    <2>1. closed' \in [OrderIds -> Nat]
      BY <1>1, <1>6
    <2>2. QED
      BY <1>1, <1>6, <1>13, <1>14, <2>1 DEF MoneyInv, Funded
  <1>16. Balanced'
    <2>1. SUFFICES ASSUME NEW a \in AssetIds
                   PROVE  /\ Supply(a)' <= MaxU64 /\ Debts(a)' <= MaxDebt
                          /\ Supply(a)' - Debts(a)' = Booked(a)'
      BY DEF Balanced
    <2>2. ASSUME NEW t1 \in [Users -> [AssetIds -> Int]], NEW t2 \in [Users -> [AssetIds -> Int]],
                 NEW u \in Users, NEW x \in AssetIds, NEW n \in Int, Moves(t1, t2, u, x, n)
          PROVE  /\ Total(t1, a) \in Int
                 /\ Total(t2, a) = Total(t1, a) + (IF a = x THEN n ELSE 0)
      BY <2>2, TotalMoves
    <2>3. /\ Total(f1, a) = Total(frozen, a) + (IF a = "quote" THEN -c ELSE 0)
          /\ Total(frozen', a) = Total(f1, a) + (IF a = "base" THEN -q ELSE 0)
          /\ Total(frozen, a) \in Int
      <3>1. Total(f1, a) = Total(frozen, a) + (IF a = "quote" THEN -c ELSE 0) /\ Total(frozen, a) \in Int
        BY <1>2, <1>6, <1>7, <1>8, <1>9, <1>10, <2>2
      <3>2. Total(frozen', a) = Total(f1, a) + (IF a = "base" THEN -q ELSE 0)
        BY <1>2, <1>7, <1>8, <1>9, <1>10, <1>14, <2>2
      <3>3. QED
        BY <3>1, <3>2
    <2>4. /\ Total(a1, a) = Total(avail, a) + (IF a = "base" THEN q ELSE 0)
          /\ Total(a2, a) = Total(a1, a) + (IF a = "quote" THEN r ELSE 0)
          /\ Total(avail', a) = Total(a2, a) + (IF a = "quote" THEN amt ELSE 0)
          /\ Total(avail, a) \in Int
      <3>1. Total(a1, a) = Total(avail, a) + (IF a = "base" THEN q ELSE 0) /\ Total(avail, a) \in Int
        BY <1>2, <1>6, <1>7, <1>8, <1>9, <1>11, <2>2
      <3>2. Total(a2, a) = Total(a1, a) + (IF a = "quote" THEN r ELSE 0)
        BY <1>2, <1>7, <1>8, <1>9, <1>11, <1>12, <2>2
      <3>3. Total(avail', a) = Total(a2, a) + (IF a = "quote" THEN amt ELSE 0)
        BY <1>2, <1>7, <1>8, <1>9, <1>12, <1>13, <2>2
      <3>4. QED
        BY <3>1, <3>2, <3>3
    <2>5. Total(avail', a) + Total(frozen', a) = Total(avail, a) + Total(frozen, a)
      <3>1. CASE a = "base"
        BY <3>1, <2>3, <2>4
      <3>2. CASE a = "quote"
        BY <3>2, <1>4, <2>3, <2>4
      <3>3. QED
        BY <1>7, <3>1, <3>2
    <2>6. Debts(a)' = Debts(a)
      BY <1>1 DEF Debts, Total
    <2>7. Supply(a)' = Supply(a)
      BY <2>5, TotalsNext DEF Supply
    <2>8. Booked(a)' = Booked(a)
      BY <1>1, BookedInt DEF MoneyInv
    <2>9. QED
      BY <2>6, <2>7, <2>8 DEF MoneyInv, Balanced
  <1>17. ASSUME NEW u \in Users, NEW a \in AssetIds
         PROVE  frozen'[u][a] = frozen[u][a] - (IF b \in LockedBy(u, a) THEN Cost(b) ELSE 0)
                                             - (IF s \in LockedBy(u, a) THEN Cost(s) ELSE 0)
    <2>1. (b \in LockedBy(u, a) <=> (u = buyer /\ a = "quote")) /\ (s \in LockedBy(u, a) <=> (u = seller /\ a = "base"))
      BY <1>1, <1>7 DEF LockedBy, LockAsset, buyer, seller
    <2>2. f1[u][a] = frozen[u][a] + (IF u = buyer /\ a = "quote" THEN -c ELSE 0)
      BY <1>10 DEF Moves
    <2>3. frozen'[u][a] = f1[u][a] + (IF u = seller /\ a = "base" THEN -q ELSE 0)
      BY <1>14 DEF Moves
    <2>4. frozen[u][a] \in Nat
      BY <1>6, <1>8
    <2>5. QED
      BY <1>3, <2>1, <2>2, <2>3, <2>4
  <1>18. QED
    BY <1>15, <1>16, <1>17

\* settle_trade closes two orders and spends what they froze.
LEMMA SettleMoney ==
    ASSUME MoneyInv, IndInv, IndInv', NEW b \in OrderIds, NEW s \in OrderIds, settle_trade(b, s)
    PROVE  MoneyInv'
  <1>1. /\ pc = "idle" /\ Open(b) /\ Open(s) /\ b # s
        /\ closed' = [closed EXCEPT ![b] = @ + 1, ![s] = @ + 1]
        /\ UNCHANGED <<cache, buffer, order, pc, queue, now, accepted, sent, faults>>
    BY DEF settle_trade, walVars
  <1>2. \A q \in OrderIds : TimesAccepted(q)' = TimesAccepted(q) /\ TimesAccepted(q) \in Nat
    BY <1>1, OpenFacts DEF TimesAccepted, MoneyInv
  <1>3. closed \in [OrderIds -> Nat]
    BY DEF MoneyInv, Funded
  <1>4. TimesAccepted(b) - closed[b] > 0 /\ TimesAccepted(s) - closed[s] > 0
    BY <1>1 DEF Open, StillOpen
  <1>5. Cost(b) = Value(b) /\ Cost(s) = Value(s) /\ Value(b) \in Nat /\ Value(s) \in Nat
    BY <1>2, <1>3, <1>4, CostFacts DEF MoneyInv, Counted
  <1>6. /\ Funded' /\ Balanced'
        /\ \A u \in Users, a \in AssetIds :
              frozen'[u][a] = frozen[u][a] - (IF b \in LockedBy(u, a) THEN Cost(b) ELSE 0)
                                           - (IF s \in LockedBy(u, a) THEN Cost(s) ELSE 0)
    BY <1>5, SettleFunds
  <1>7. Within'
    BY <1>1 DEF MoneyInv, Within
  <1>8. OpenCount \in [OrderIds -> Int] /\ OpenCount' \in [OrderIds -> Int]
    BY <1>6, OpenFacts, OpenFactsNext DEF MoneyInv
  <1> DEFINE mid == [OpenCount EXCEPT ![b] = @ - 1]
  <1>9. mid \in [OrderIds -> Int] /\ Bumps(OpenCount, mid, b, -1)
    BY <1>8 DEF Bumps
  <1>10. Bumps(mid, OpenCount', s, -1)
    <2>1. ASSUME NEW q \in OrderIds
          PROVE  OpenCount'[q] = mid[q] + (IF q = s THEN -1 ELSE 0)
      <3>1. OpenCount[q] = TimesAccepted(q) - closed[q]
        BY OpenFacts DEF MoneyInv
      <3>2. OpenCount'[q] = TimesAccepted(q) - closed'[q]
        BY <1>2, <1>6, OpenFactsNext
      <3>3. closed'[q] = closed[q] + (IF q = b \/ q = s THEN 1 ELSE 0)
        BY <1>1, <1>3
      <3>4. mid[q] = OpenCount[q] + (IF q = b THEN -1 ELSE 0)
        BY <1>9 DEF Bumps
      <3>5. PICK m \in Nat, k \in Nat : m = TimesAccepted(q) /\ k = closed[q]
        BY <1>2, <1>3
      <3>6. QED
        BY <1>1, <3>1, <3>2, <3>3, <3>4, <3>5
    <2>2. QED
      BY <2>1 DEF Bumps
  <1> HIDE DEF mid
  <1>11. Covered'
    <2>1. SUFFICES ASSUME NEW u \in Users, NEW a \in AssetIds
                   PROVE  Owed(u, a)' + AtWork(u, a)' <= frozen'[u][a]
      BY DEF Covered
    <2>2. Owed(u, a) = OwedFor(OpenCount, u, a) /\ Owed(u, a)' = OwedFor(OpenCount', u, a)
      BY <1>6, OpenFacts, OpenFactsNext DEF MoneyInv
    <2>3. ASSUME NEW open \in [OrderIds -> Int], NEW after \in [OrderIds -> Int],
                 NEW o \in OrderIds, Bumps(open, after, o, -1)
          PROVE  /\ OwedFor(open, u, a) \in Int
                 /\ OwedFor(after, u, a)
                       = OwedFor(open, u, a) - (IF o \in LockedBy(u, a) THEN Value(o) ELSE 0)
      BY <2>3, OwedDrop
    <2>4. /\ OwedFor(OpenCount, u, a) \in Int
          /\ OwedFor(mid, u, a)
                = OwedFor(OpenCount, u, a) - (IF b \in LockedBy(u, a) THEN Value(b) ELSE 0)
      BY <1>8, <1>9, <2>3
    <2>5. OwedFor(OpenCount', u, a)
                = OwedFor(mid, u, a) - (IF s \in LockedBy(u, a) THEN Value(s) ELSE 0)
      BY <1>8, <1>9, <1>10, <2>3
    <2>6. Owed(u, a) + 0 <= frozen[u][a] /\ frozen[u][a] \in Nat
      BY <1>1 DEF MoneyInv, Covered, AtWork, Funded, Tables
    <2>7. AtWork(u, a)' = 0
      BY <1>1 DEF AtWork
    <2>8. frozen'[u][a] = frozen[u][a] - (IF b \in LockedBy(u, a) THEN Value(b) ELSE 0)
                                       - (IF s \in LockedBy(u, a) THEN Value(s) ELSE 0)
      BY <1>5, <1>6
    <2>9. QED
      BY <1>5, <2>2, <2>4, <2>5, <2>6, <2>7, <2>8
  <1>12. Counted'
    <2>1. ASSUME NEW q \in OrderIds
          PROVE  closed'[q] <= TimesAccepted(q)' /\ (TimesAccepted(q)' > 0 => Cost(q) = Value(q))
      <3>1. closed[q] <= TimesAccepted(q) /\ (TimesAccepted(q) > 0 => Cost(q) = Value(q))
        BY DEF MoneyInv, Counted
      <3>2. closed'[q] = closed[q] + (IF q = b \/ q = s THEN 1 ELSE 0)
        BY <1>1, <1>3
      <3>3. QED
        BY <1>2, <1>3, <1>4, <3>1, <3>2
    <2>2. Len(accepted[Len(accepted)]) + (IF pc = "idle" THEN 0 ELSE 1) <= sent
      BY DEF MoneyInv, Counted
    <2>3. QED
      BY <1>1, <2>1, <2>2 DEF Counted, Cost, Value
  <1>13. QED
    BY <1>6, <1>7, <1>11, <1>12 DEF MoneyInv

\* A process that starts holds no money.
LEMMA NothingMoney ==
    /\ Nothing \in Tables
    /\ \A a \in AssetIds : Total(Nothing, a) = 0
  <1>1. Nothing \in Tables
    BY DEF Nothing, Tables
  <1>2. ASSUME NEW a \in AssetIds
        PROVE  Total(Nothing, a) = 0
    <2> DEFINE f == [u \in Users |-> Nothing[u][a]]
    <2>1. IsFiniteSet(Users) /\ \A u \in Users : f[u] = 0
      BY UbsAssumption DEF Nothing
    <2>2. Total(Nothing, a) = SumFunctionOnSet(f, Users)
      BY DEF Total
    <2> HIDE DEF f
    <2>3. QED
      BY <2>1, <2>2, SumZero
  <1>3. QED
    BY <1>1, <1>2

\* Nor has it accepted an order.
LEMMA NoneAccepted ==
    ASSUME NEW e
    PROVE  Occurrences(<<>>, e) = 0
  <1>1. {i \in DOMAIN <<>> : <<>>[i] = e} = {}
    OBVIOUS
  <1>2. QED
    BY <1>1, FS_EmptySet, Zenon DEF Occurrences

\* The first process starts with its books in order.
LEMMA InitMoney == Init => MoneyInv
  <1>1. SUFFICES ASSUME Init PROVE MoneyInv
    OBVIOUS
  <1>2. IndInv
    BY <1>1, InitEstablishes
  <1>3. Funded
    <2>1. /\ NoMoney \in [AssetIds -> Int] /\ NoMoney \in [AssetIds -> 0..MaxWraps]
          /\ NoneClosed \in [OrderIds -> Nat]
      BY UbsAssumption DEF NoMoney, NoneClosed
    <2>2. QED
      BY <1>1, <2>1, NothingMoney DEF Init, Funded
  <1>4. Within
    <2>1. cache = <<>> /\ buffer = <<>> /\ queue = <<>> /\ Len(<<>>) = 0
      BY <1>1 DEF Init
    <2>2. Len(cache) <= CacheSize /\ Len(buffer) <= BufferSize /\ Len(queue) <= QueueSize
      BY <2>1, UbsAssumption
    <2>3. QED
      BY <1>1, <2>2, UbsAssumption DEF Init, Within
  <1>5. Balanced
    <2>1. /\ avail = Nothing /\ frozen = Nothing /\ debt = Nothing /\ net = NoMoney /\ wraps = NoMoney
          /\ MaxU64 \in Nat /\ MaxDebt \in Nat
      BY <1>1, UbsAssumption DEF Init
    <2>2. \A a \in AssetIds : Supply(a) = 0 /\ Debts(a) = 0 /\ Booked(a) = 0
      BY <2>1, NothingMoney DEF Supply, Debts, NoMoney, Booked
    <2>3. QED
      BY <2>1, <2>2 DEF Balanced
  <1>6. accepted[Len(accepted)] = <<>> /\ pc = "idle" /\ closed = NoneClosed /\ sent = 0
    BY <1>1 DEF Init
  <1>7. \A o \in OrderIds : TimesAccepted(o) = 0 /\ closed[o] = 0
    BY <1>6, NoneAccepted DEF TimesAccepted, Occurrences, NoneClosed
  <1>8. Covered
    <2>1. SUFFICES ASSUME NEW u \in Users, NEW a \in AssetIds
                   PROVE  Owed(u, a) + AtWork(u, a) <= frozen[u][a]
      BY DEF Covered
    <2>2. \A o \in OrderIds : OpenCount[o] = 0
      BY <1>7 DEF OpenCount, StillOpen
    <2>3. OwedFor(OpenCount, u, a) = 0
      BY <2>2, OwedNothing
    <2>4. Owed(u, a) = 0 /\ AtWork(u, a) = 0 /\ frozen[u][a] \in Nat
      BY <1>2, <1>3, <1>6, <2>3, OpenFacts DEF AtWork, Funded, Tables
    <2>5. QED
      BY <2>4
  <1>9. Counted
    BY <1>6, <1>7 DEF Counted
  <1>10. QED
    BY <1>3, <1>4, <1>5, <1>8, <1>9 DEF MoneyInv

\* The next process starts the same way: nothing reads the log back.
LEMMA RestartMoney ==
    ASSUME MoneyInv, IndInv, IndInv', Restart
    PROVE  MoneyInv'
  <1>1. /\ accounts' = {} /\ avail' = Nothing /\ frozen' = Nothing /\ debt' = Nothing
        /\ net' = NoMoney /\ wraps' = NoMoney /\ closed' = NoneClosed
        /\ cache' = <<>> /\ buffer' = <<>> /\ queue' = <<>> /\ order' = NoOrder /\ pc' = "idle"
        /\ accepted' = Append(accepted, <<>>) /\ faults < MaxFaults /\ faults' = faults + 1
        /\ UNCHANGED <<now, sent>>
    BY DEF Restart
  <1>2. Funded'
    <2>1. /\ NoMoney \in [AssetIds -> Int] /\ NoMoney \in [AssetIds -> 0..MaxWraps]
          /\ NoneClosed \in [OrderIds -> Nat]
      BY UbsAssumption DEF NoMoney, NoneClosed
    <2>2. QED
      BY <1>1, <2>1, NothingMoney DEF Funded
  <1>3. Within'
    <2>1. Len(<<>>) = 0
      OBVIOUS
    <2>2. Len(cache') <= CacheSize /\ Len(buffer') <= BufferSize /\ Len(queue') <= QueueSize
      BY <1>1, <2>1, UbsAssumption
    <2>3. faults' \in 0..MaxFaults
      BY SMTT(30), <1>1, UbsAssumption DEF MoneyInv, Within
    <2>4. QED
      BY <1>1, <2>2, <2>3 DEF MoneyInv, Within
  <1>4. Balanced'
    <2>1. SUFFICES ASSUME NEW a \in AssetIds
                   PROVE  /\ Supply(a)' <= MaxU64 /\ Debts(a)' <= MaxDebt
                          /\ Supply(a)' - Debts(a)' = Booked(a)'
      BY DEF Balanced
    <2>2. Supply(a)' = 0 /\ Debts(a)' = 0
      BY <1>1, NothingMoney, TotalsNext
    <2>3. Booked(a)' = 0 /\ MaxU64 \in Nat /\ MaxDebt \in Nat
      BY SMTT(30), <1>1, UbsAssumption DEF NoMoney, Booked
    <2>4. QED
      BY <2>2, <2>3
  <1>5. accepted'[Len(accepted')] = <<>>
    BY <1>1 DEF IndInv, Typed
  <1>6. \A o \in OrderIds : TimesAccepted(o)' = 0 /\ closed'[o] = 0
    BY <1>1, <1>5, NoneAccepted DEF TimesAccepted, Occurrences, NoneClosed
  <1>7. Covered'
    <2>1. SUFFICES ASSUME NEW u \in Users, NEW a \in AssetIds
                   PROVE  Owed(u, a)' + AtWork(u, a)' <= frozen'[u][a]
      BY DEF Covered
    <2>2. \A o \in OrderIds : OpenCount'[o] = 0
      <3>1. \A o \in OrderIds : OpenCount'[o] = TimesAccepted(o)' - closed'[o]
        BY <1>2, OpenFactsNext
      <3>2. QED
        BY <1>6, <3>1
    <2>3. ASSUME NEW open, \A o \in OrderIds : open[o] = 0
          PROVE  OwedFor(open, u, a) = 0
      BY <2>3, OwedNothing
    <2>4. OwedFor(OpenCount', u, a) = 0
      BY <2>2, <2>3
    <2>5. Owed(u, a)' = 0
      BY <1>2, <2>4, OpenFactsNext
    <2>6. AtWork(u, a)' = 0 /\ frozen'[u][a] \in Nat
      BY <1>1, <1>2 DEF AtWork, Funded, Tables
    <2>7. QED
      BY <2>5, <2>6
  <1>8. Counted'
    <2>1. sent' \in Nat /\ Len(accepted'[Len(accepted')]) = 0
      BY <1>1, <1>5 DEF MoneyInv, Within
    <2>2. QED
      BY <1>1, <1>6, <2>1 DEF Counted
  <1>9. QED
    BY <1>2, <1>3, <1>4, <1>7, <1>8 DEF MoneyInv

\* Steps that touch no balance and no order but the one at work.
LEMMA OthersMoney ==
    ASSUME MoneyInv, IndInv, IndInv',
           UNCHANGED <<accounts, avail, frozen, debt, net, wraps, closed, accepted>>,
           Within', sent' >= sent, UNCHANGED <<order, pc>> \/ pc' = "idle" \/ (order' = order /\ pc = "flush" /\ pc' = "queue")
    PROVE  MoneyInv'
  <1>1. Funded'
    BY DEF MoneyInv, Funded
  <1>2. Balanced'
    BY DEF MoneyInv, Balanced, Supply, Debts, Total, Booked
  <1>3. CASE UNCHANGED <<order, pc>> \/ pc' = "idle"
    <2>1. \A u \in Users, a \in AssetIds : frozen'[u][a] >= frozen[u][a]
      BY DEF MoneyInv, Funded, Tables
    <2>2. sent' \in Nat
      BY DEF Within
    <2>3. Covered' /\ Counted'
      BY <1>1, <1>3, <2>1, <2>2, CoverStays
    <2>4. QED
      BY <1>1, <1>2, <2>3 DEF MoneyInv
  <1>4. CASE order' = order /\ pc = "flush" /\ pc' = "queue"
    <2>1. Covered'
      BY <1>4 DEF MoneyInv, Covered, Owed, StillOpen, TimesAccepted, AtWork, LockedBy, Cost, Value,
                  LockAsset, OrderIds
    <2>2. Counted'
      <3>1. Len(accepted[Len(accepted)]) + 1 <= sent
        BY <1>4 DEF MoneyInv, Counted
      <3>2. PICK n \in Nat : n = Len(accepted[Len(accepted)])
        BY DEF IndInv, Typed
      <3>3. n + 1 <= sent' /\ sent \in Nat
        BY <3>1, <3>2 DEF Within, MoneyInv
      <3>4. (Len(accepted[Len(accepted)]) + (IF pc = "idle" THEN 0 ELSE 1) <= sent)'
        BY <1>4, <3>2, <3>3
      <3>5. \A o \in OrderIds : TimesAccepted(o)' = TimesAccepted(o)
        BY DEF TimesAccepted
      <3>6. \A o \in OrderIds : /\ closed'[o] <= TimesAccepted(o)'
                                /\ TimesAccepted(o)' > 0 => Cost(o) = Value(o)
        BY <3>5 DEF MoneyInv, Counted
      <3>7. Cost(order) = Value(order)
        BY <1>4 DEF MoneyInv, Counted
      <3>8. QED
        BY <1>4, <3>4, <3>6, <3>7 DEF Counted, Cost, Value
    <2>3. QED
      BY <1>1, <1>2, <2>1, <2>2 DEF MoneyInv
  <1>5. QED
    BY <1>3, <1>4

\* Every step of UBSCore keeps the books.
LEMMA NextMoney == IndInv /\ MoneyInv /\ [Next]_vars => MoneyInv'
  <1>1. SUFFICES ASSUME IndInv, MoneyInv, [Next]_vars PROVE MoneyInv'
    OBVIOUS
  <1>2. IndInv'
    BY <1>1, NextKeeps
  <1>3. ASSUME NEW u \in Users, NEW a \in AssetIds, NEW n \in 1..(MaxU64 - Supply(a)), Deposit(u, a, n)
        PROVE  MoneyInv'
    BY <1>1, <1>2, <1>3, DepositMoney
  <1>4. ASSUME NEW u \in Users, NEW a \in AssetIds, NEW n \in 1..MaxU64, Withdraw(u, a, n)
        PROVE  MoneyInv'
    BY <1>1, <1>2, <1>4, WithdrawMoney
  <1>5. ASSUME NEW u \in Users, NEW d \in Deltas, apply_balance_delta(u, d[1], d[2])
        PROVE  MoneyInv'
    <2>1. d[1] \in AssetIds /\ d[2] \in Int
      BY UbsAssumption
    <2>2. QED
      BY <1>1, <1>2, <1>5, <2>1, DeltaMoney
  <1>6. ASSUME NEW o \in OrderIds,
               RefusedByGuard(o) \/ RefusedByCore(o) \/ Validated(o) \/ RefusedByLog(o)
        PROVE  MoneyInv'
    <2>1. CASE RefusedByGuard(o)
      <3>1. /\ UNCHANGED <<accounts, avail, frozen, debt, net, wraps, closed, accepted, order, pc, cache,
                          buffer, queue, now, faults>>
            /\ sent < MaxSent /\ sent' = sent + 1
        BY <2>1 DEF RefusedByGuard, Arrives, coreVars, fundsVars, walVars
      <3>2. sent' \in 0..MaxSent /\ sent' >= sent
        BY <1>1, <3>1, BoundsNat DEF MoneyInv, Within
      <3>3. Within'
        BY <1>1, <3>1, <3>2 DEF MoneyInv, Within
      <3>4. QED
        BY <1>1, <1>2, <3>1, <3>2, <3>3, OthersMoney
    <2>2. CASE RefusedByCore(o) \/ RefusedByLog(o)
      BY <1>1, <1>2, <2>2, RefusedMoney
    <2>3. CASE Validated(o)
      BY <1>1, <1>2, <2>3, ValidatedMoney
    <2>4. QED
      BY <1>6, <2>1, <2>2, <2>3
  <1>7. ASSUME NEW o \in OrderIds, Unlock(o)
        PROVE  MoneyInv'
    BY <1>1, <1>2, <1>7, UnlockMoney
  <1>8. ASSUME NEW b \in OrderIds, NEW s \in OrderIds, settle_trade(b, s)
        PROVE  MoneyInv'
    BY <1>1, <1>2, <1>8, SettleMoney
  <1>9. CASE Flush
    <2>1. /\ UNCHANGED <<accounts, avail, frozen, debt, net, wraps, closed, accepted, order, cache, queue,
                        now, faults, sent>>
          /\ buffer' = <<>> /\ pc = "flush" /\ pc' = "queue"
      BY <1>9 DEF Flush, Flushes, coreVars, fundsVars
    <2>2. Len(buffer') <= BufferSize
      <3>1. Len(<<>>) = 0
        OBVIOUS
      <3>2. QED
        BY <2>1, <3>1, UbsAssumption
    <2>3. Within' /\ sent' >= sent
      BY <1>1, <2>1, <2>2 DEF MoneyInv, Within
    <2>4. QED
      BY <1>1, <1>2, <2>1, <2>3, OthersMoney
  <1>10. CASE FlushFails
    <2>1. /\ UNCHANGED <<accounts, avail, frozen, debt, net, wraps, closed, accepted, cache, buffer, queue,
                        now, sent>>
          /\ order' = NoOrder /\ pc' = "idle" /\ faults < MaxFaults /\ faults' = faults + 1
      BY <1>10 DEF FlushFails, coreVars, fundsVars, walVars
    <2>2. faults' \in 0..MaxFaults /\ sent' >= sent
      BY <1>1, <2>1, BoundsNat DEF MoneyInv, Within
    <2>3. Within'
      BY <1>1, <2>1, <2>2 DEF MoneyInv, Within
    <2>4. QED
      BY <1>1, <1>2, <2>1, <2>2, <2>3, OthersMoney
  <1>11. CASE Accept
    BY <1>1, <1>2, <1>11, AcceptMoney
  <1>12. CASE PublisherTakes
    <2>1. /\ UNCHANGED <<accounts, avail, frozen, debt, net, wraps, closed, accepted, order, pc, cache,
                        buffer, now, faults, sent>>
          /\ queue # <<>> /\ queue' = Tail(queue)
      BY <1>12 DEF PublisherTakes, coreVars, fundsVars, walVars
    <2>2. Len(queue') <= QueueSize
      <3>1. queue \in Seq(OrderIds) /\ Len(queue) <= QueueSize /\ QueueSize \in Nat
        BY <1>1, UbsAssumption DEF IndInv, Typed, MoneyInv, Within
      <3>2. Len(Tail(queue)) = Len(queue) - 1 /\ Len(queue) \in Nat
        BY <2>1, <3>1
      <3>3. QED
        BY <2>1, <3>1, <3>2
    <2>3. Within' /\ sent' >= sent
      BY <1>1, <2>1, <2>2 DEF MoneyInv, Within
    <2>4. QED
      BY <1>1, <1>2, <2>1, <2>3, OthersMoney
  <1>13. CASE Restart
    BY <1>1, <1>2, <1>13, RestartMoney
  <1>14. CASE Tick
    <2>1. /\ UNCHANGED <<accounts, avail, frozen, debt, net, wraps, closed, accepted, order, pc, cache,
                        buffer, queue, faults, sent>>
          /\ now < MaxNow /\ now' = now + 1
      BY <1>14 DEF Tick, coreVars, fundsVars, walVars
    <2>2. now' \in 0..MaxNow /\ sent' >= sent
      BY <1>1, <2>1, BoundsNat DEF MoneyInv, Within
    <2>3. Within'
      BY <1>1, <2>1, <2>2 DEF MoneyInv, Within
    <2>4. QED
      BY <1>1, <1>2, <2>1, <2>2, <2>3, OthersMoney
  <1>15. CASE UNCHANGED vars
    <2>1. UNCHANGED <<accounts, avail, frozen, debt, net, wraps, closed, accepted, order, pc, cache,
                      buffer, queue, now, faults, sent>>
      BY <1>15 DEF vars, coreVars, fundsVars, walVars
    <2>2. Within' /\ sent' >= sent
      BY <1>1, <2>1 DEF MoneyInv, Within
    <2>3. QED
      BY <1>1, <1>2, <2>1, <2>2, OthersMoney
  <1>16. QED
    BY <1>1, <1>3, <1>4, <1>5, <1>6, <1>7, <1>8, <1>9, <1>10, <1>11, <1>12, <1>13, <1>14, <1>15
       DEF Next

\* The books of UBSCore in every reachable state, for any number of users,
\* orders, faults and restarts.
THEOREM MoneyInvHolds == Spec => [](IndInv /\ MoneyInv)
  <1>1. Init => IndInv /\ MoneyInv
    BY InitEstablishes, InitMoney
  <1>2. (IndInv /\ MoneyInv) /\ [Next]_vars => (IndInv /\ MoneyInv)'
    BY NextKeeps, NextMoney
  <1>3. QED
    BY <1>1, <1>2, PTL DEF Spec

\* Every variable keeps its type: no balance of process_order_durable, deposits,
\* debts, unlocks and settlements leaves the range of a u64, and cache, buffer
\* and queue stay within their capacities.
THEOREM TypeCorrect == Spec => []TypeOK
  <1>1. IndInv /\ MoneyInv => TypeOK
    <2>1. SUFFICES ASSUME IndInv, MoneyInv PROVE TypeOK
      OBVIOUS
    <2>2. Funded /\ Within /\ Typed
      BY <2>1 DEF MoneyInv, IndInv
    <2>3. MaxU64 \in Nat /\ MaxDebt \in Nat /\ MaxSent \in Nat
      BY UbsAssumption
    <2>4. \A u \in Users, a \in AssetIds :
             avail[u][a] \in 0..MaxU64 /\ frozen[u][a] \in 0..MaxU64 /\ debt[u][a] \in 0..MaxDebt
      <3>1. SUFFICES ASSUME NEW u \in Users, NEW a \in AssetIds
                     PROVE  avail[u][a] \in 0..MaxU64 /\ frozen[u][a] \in 0..MaxU64
                            /\ debt[u][a] \in 0..MaxDebt
        OBVIOUS
      <3>2. /\ avail[u][a] \in Nat /\ frozen[u][a] \in Nat /\ debt[u][a] \in Nat
            /\ Supply(a) \in Nat /\ Debts(a) \in Nat
            /\ avail[u][a] <= Supply(a) /\ frozen[u][a] <= Supply(a) /\ debt[u][a] <= Debts(a)
            /\ Supply(a) <= MaxU64 /\ Debts(a) <= MaxDebt
        BY <2>1, BalancesFit DEF MoneyInv
      <3>3. QED
        BY <2>3, <3>2
    <2>5. /\ avail \in [Users -> [AssetIds -> 0..MaxU64]] /\ frozen \in [Users -> [AssetIds -> 0..MaxU64]]
          /\ debt \in [Users -> [AssetIds -> 0..MaxDebt]]
      BY <2>2, <2>4 DEF Funded, Tables
    <2>6. closed \in [OrderIds -> 0..MaxSent]
      <3>1. ASSUME NEW o \in OrderIds PROVE closed[o] \in 0..MaxSent
        <4>1. PICK last \in Seq(OrderIds) : last = accepted[Len(accepted)]
          BY <2>2 DEF Typed
        <4>2. TimesAccepted(o) = Occurrences(last, o)
          BY <4>1 DEF TimesAccepted, Occurrences
        <4>3. Occurrences(last, o) \in Nat /\ Occurrences(last, o) <= Len(last) /\ Len(last) \in Nat
          BY <4>1, OccurrencesFacts
        <4>4. Len(last) + (IF pc = "idle" THEN 0 ELSE 1) <= sent /\ closed[o] <= TimesAccepted(o)
          BY <2>1, <4>1 DEF MoneyInv, Counted
        <4>5. closed[o] \in Nat /\ sent \in 0..MaxSent
          BY <2>2 DEF Funded, Within
        <4>6. QED
          BY <2>3, <4>2, <4>3, <4>4, <4>5
      <3>2. QED
        BY <2>2, <3>1 DEF Funded
    <2>7. QED
      BY <2>2, <2>5, <2>6 DEF TypeOK, Typed, Funded, Within
  <1>2. QED
    BY <1>1, MoneyInvHolds, PTL

\* Open orders are covered, and balances less debts are what is booked, money in
\* less out less 2^64 for each balance beyond an i64: whatever is deposited,
\* withdrawn, charged into debt, locked, unlocked and settled, in any order and
\* across faults, for any number of users and orders.
THEOREM OpenOrdersCovered == Spec => []AcceptedIsCovered
  <1>1. IndInv /\ MoneyInv => AcceptedIsCovered
    <2>1. SUFFICES ASSUME IndInv, MoneyInv, NEW a \in AssetIds
                   PROVE  /\ \A u \in Users : Owed(u, a) <= frozen[u][a]
                          /\ Supply(a) - Debts(a) = Booked(a)
      BY DEF AcceptedIsCovered
    <2>2. ASSUME NEW u \in Users PROVE Owed(u, a) <= frozen[u][a]
      <3>1. Owed(u, a) + AtWork(u, a) <= frozen[u][a] /\ frozen[u][a] \in Nat /\ Owed(u, a) \in Int
        BY <2>1, OwedInt DEF MoneyInv, Covered, Funded, Tables
      <3>2. AtWork(u, a) \in Nat
        BY CostFacts DEF AtWork, LockedBy
      <3>3. QED
        BY <3>1, <3>2
    <2>3. QED
      BY <2>1, <2>2 DEF MoneyInv, Balanced
  <1>2. QED
    BY <1>1, MoneyInvHolds, PTL
=============================================================================
