--------------------------- MODULE HistoryProofs ---------------------------
(***************************************************************************)
(* Proofs about the order history, for any orders, batch and channel sizes *)
(* and any number of failed statements and restarts: order_history is      *)
(* never ahead of active_orders, the order history service mirrors the     *)
(* engine when it has caught up, and the settlement service's writers show *)
(* every trade and open order and count none twice, in whatever order the  *)
(* updates of a batch read and write the counters.                         *)
(***************************************************************************)
EXTENDS History, SumTheorems, SequenceTheorems, TLAPS

(***************************************************************************)
(* Flattened sequences.                                                    *)
(***************************************************************************)

\* A function on 1..n is a sequence of that length.
LEMMA FunctionIsSequence ==
    ASSUME NEW S, NEW n \in Nat, NEW f, f \in [1..n -> S]
    PROVE  f \in Seq(S) /\ Len(f) = n /\ DOMAIN f = 1..n
  OBVIOUS

\* g is the recursive function of FlattenSeq
IsFlat(g, ss, n) == g = [i \in 1..n |-> IF i = 1 THEN ss[i] ELSE g[i - 1] \o ss[i]]
Flat(ss, n) == CHOOSE g : IsFlat(g, ss, n)

\* The definition of the community module.
LEMMA FlattenUnfold ==
    ASSUME NEW ss
    PROVE  FlattenSeq(ss) = IF Len(ss) = 0 THEN ss ELSE Flat(ss, Len(ss))[Len(ss)]
  BY DEF FlattenSeq, Flat, IsFlat

\* The recursive function exists, and its values are what it says.
LEMMA FlatFacts ==
    ASSUME NEW ss, NEW n \in Nat
    PROVE  \A i \in 1..n : Flat(ss, n)[i] = IF i = 1 THEN ss[i] ELSE Flat(ss, n)[i - 1] \o ss[i]
  <1> DEFINE Good == {k \in 0..n : \E g : IsFlat(g, ss, k)}
  <1>1. 0 \in Good
    <2>1. IsFlat([i \in 1..0 |-> ss], ss, 0)
      BY DEF IsFlat
    <2>2. QED
      BY <2>1
  <1>2. ASSUME NEW k \in 0..n, k \in Good, k < n
        PROVE  k + 1 \in Good
    <2>1. PICK g : IsFlat(g, ss, k)
      BY <1>2
    <2>2. \A i \in 1..k : g[i] = IF i = 1 THEN ss[i] ELSE g[i - 1] \o ss[i]
      BY <2>1 DEF IsFlat
    <2> DEFINE h == [i \in 1..(k + 1) |-> IF i = k + 1 THEN IF k = 0 THEN ss[1] ELSE g[k] \o ss[k + 1]
                                          ELSE g[i]]
    <2>3. ASSUME NEW i \in 1..(k + 1)
          PROVE  h[i] = IF i = 1 THEN ss[i] ELSE h[i - 1] \o ss[i]
      <3>1. CASE i = k + 1
        <4>1. CASE k = 0
          BY <3>1, <4>1
        <4>2. CASE k # 0
          <5>1. i - 1 \in 1..(k + 1) /\ i - 1 # k + 1 /\ i - 1 = k /\ i # 1
            BY <3>1, <4>2
          <5>2. h[i] = g[k] \o ss[k + 1]
            BY <3>1, <4>2
          <5>3. h[i - 1] = g[k]
            BY <5>1
          <5>4. QED
            BY <3>1, <5>1, <5>2, <5>3
        <4>3. QED
          BY <4>1, <4>2
      <3>2. CASE i # k + 1 /\ i = 1
        <4>1. h[i] = g[i] /\ i \in 1..k
          BY <3>2
        <4>2. QED
          BY <2>2, <3>2, <4>1
      <3>3. CASE i # k + 1 /\ i # 1
        <4>1. h[i] = g[i] /\ h[i - 1] = g[i - 1] /\ i \in 1..k
          BY <3>3
        <4>2. QED
          BY <2>2, <3>3, <4>1
      <3>4. QED
        BY <3>1, <3>2, <3>3
    <2>4. h = [i \in 1..(k + 1) |-> IF i = 1 THEN ss[i] ELSE h[i - 1] \o ss[i]]
      BY <2>3
    <2> HIDE DEF h
    <2>5. IsFlat(h, ss, k + 1)
      BY <2>4 DEF IsFlat
    <2>6. QED
      BY <1>2, <2>5
  <1> HIDE DEF Good
  <1>3. n \in Good
    BY <1>1, <1>2, UpToInduction
  <1>4. IsFlat(Flat(ss, n), ss, n)
    BY <1>3 DEF Good, Flat
  <1>5. QED
    BY <1>4 DEF IsFlat

\* A flattened sequence is the concatenation of its parts, one after the other.
LEMMA FlattenSteps ==
    ASSUME NEW S, NEW ss \in Seq(Seq(S))
    PROVE  \E g \in [0..Len(ss) -> Seq(S)] :
              /\ g[0] = <<>> /\ g[Len(ss)] = FlattenSeq(ss)
              /\ \A i \in 1..Len(ss) : g[i] = g[i - 1] \o ss[i]
  <1> DEFINE n == Len(ss)
             g == [i \in 0..n |-> IF i = 0 THEN <<>> ELSE Flat(ss, n)[i]]
             Good == {i \in 0..n : g[i] \in Seq(S)}
  <1>1. n \in Nat /\ \A i \in 1..n : ss[i] \in Seq(S)
    BY LenProperties, ElementOfSeq
  <1> HIDE DEF n
  <1>2. \A i \in 1..n : Flat(ss, n)[i] = IF i = 1 THEN ss[i] ELSE Flat(ss, n)[i - 1] \o ss[i]
    BY <1>1, FlatFacts
  <1>3. ASSUME NEW i \in 1..n
        PROVE  g[i] = g[i - 1] \o ss[i]
    <2>1. CASE i = 1
      <3>1. g[i] = ss[i] /\ g[i - 1] = <<>>
        BY <1>1, <1>2, <2>1
      <3>2. QED
        BY <1>1, <3>1, ConcatEmptySeq
    <2>2. CASE i # 1
      <3>1. g[i] = Flat(ss, n)[i] /\ g[i - 1] = Flat(ss, n)[i - 1]
        BY <1>1, <2>2
      <3>2. QED
        BY <1>2, <2>2, <3>1
    <2>3. QED
      BY <2>1, <2>2
  <1>4. 0 \in Good
    BY <1>1, EmptySeq
  <1>5. ASSUME NEW i \in 0..n, i \in Good, i < n  PROVE i + 1 \in Good
    <2>1. g[i + 1] = g[i] \o ss[i + 1]
      <3> HIDE DEF g
      <3>1. i + 1 \in 1..n /\ (i + 1) - 1 = i
        BY <1>1, <1>5
      <3>2. QED
        BY <1>3, <3>1
    <2>2. i + 1 \in 0..n /\ ss[i + 1] \in Seq(S)
      BY <1>1, <1>5
    <2>3. QED
      <3> HIDE DEF g
      <3>1. g[i] \in Seq(S)
        BY <1>5
      <3>2. g[i + 1] \in Seq(S)
        BY <2>1, <2>2, <3>1, ConcatProperties
      <3>3. QED
        BY <2>2, <3>2
  <1> HIDE DEF Good
  <1>6. \A i \in 0..n : i \in Good
    BY <1>1, <1>4, <1>5, UpToInduction
  <1>7. g \in [0..n -> Seq(S)]
    BY <1>6 DEF Good
  <1>8. g[0] = <<>>
    BY <1>1
  <1>9. g[n] = FlattenSeq(ss)
    <2>1. CASE n = 0
      <3>1. FlattenSeq(ss) = ss
        BY <2>1, FlattenUnfold DEF n
      <3>2. ss = <<>>
        BY <2>1, EmptySeq DEF n
      <3>3. QED
        BY <1>8, <2>1, <3>1, <3>2
    <2>2. CASE n # 0
      <3>1. FlattenSeq(ss) = Flat(ss, n)[n]
        BY <2>2, FlattenUnfold DEF n
      <3>2. QED
        BY <1>1, <2>2, <3>1
    <2>3. QED
      BY <2>1, <2>2
  <1>10. QED
    <2> HIDE DEF g
    <2>1. QED
      BY <1>3, <1>7, <1>8, <1>9 DEF n

\* A flattened sequence holds what its parts hold.
LEMMA FlattenRange ==
    ASSUME NEW S, NEW ss \in Seq(Seq(S))
    PROVE  /\ FlattenSeq(ss) \in Seq(S)
           /\ \A x : x \in Range(FlattenSeq(ss)) <=> \E i \in 1..Len(ss) : x \in Range(ss[i])
  <1>0. Len(ss) \in Nat /\ \A i \in 1..Len(ss) : ss[i] \in Seq(S)
    BY LenProperties, ElementOfSeq
  <1>1. PICK g \in [0..Len(ss) -> Seq(S)] :
              /\ g[0] = <<>> /\ g[Len(ss)] = FlattenSeq(ss)
              /\ \A i \in 1..Len(ss) : g[i] = g[i - 1] \o ss[i]
    BY FlattenSteps
  <1>2. FlattenSeq(ss) \in Seq(S)
    BY <1>0, <1>1
  <1>3. ASSUME NEW x
        PROVE  x \in Range(FlattenSeq(ss)) <=> \E i \in 1..Len(ss) : x \in Range(ss[i])
    <2> DEFINE Good == {n \in 0..Len(ss) : x \in Range(g[n]) <=> \E i \in 1..n : x \in Range(ss[i])}
    <2>1. 0 \in Good
      <3>1. Range(g[0]) = {}
        BY <1>1 DEF Range
      <3>2. 0 \in 0..Len(ss) /\ 1..0 = {}
        BY <1>0
      <3>3. QED
        BY <3>1, <3>2
    <2>2. ASSUME NEW n \in 0..Len(ss), n \in Good, n < Len(ss)  PROVE n + 1 \in Good
      <3>1. n + 1 \in 1..Len(ss) /\ n \in Nat /\ g[n + 1] = g[n] \o ss[n + 1]
        <4>1. n + 1 \in 1..Len(ss) /\ n \in Nat /\ (n + 1) - 1 = n
          BY <1>0, <2>2
        <4>2. QED
          BY <1>1, <4>1
      <3>2. g[n] \in Seq(S) /\ ss[n + 1] \in Seq(S)
        BY <1>0, <1>1, <3>1
      <3>3. Range(g[n + 1]) = Range(g[n]) \cup Range(ss[n + 1])
        <4>1. Range(g[n] \o ss[n + 1]) = Range(g[n]) \cup Range(ss[n + 1])
          BY <3>2, RangeConcatenation
        <4>2. QED
          BY <3>1, <4>1
      <3>4. (\E i \in 1..(n + 1) : x \in Range(ss[i]))
               <=> (\E i \in 1..n : x \in Range(ss[i])) \/ x \in Range(ss[n + 1])
        <4>1. \A i : i \in 1..(n + 1) <=> i \in 1..n \/ i = n + 1
          BY <3>1
        <4>2. QED
          BY <4>1
      <3>5. x \in Range(g[n]) <=> \E i \in 1..n : x \in Range(ss[i])
        BY <2>2
      <3>6. x \in Range(g[n + 1]) <=> \E i \in 1..(n + 1) : x \in Range(ss[i])
        BY <3>3, <3>4, <3>5
      <3>7. n + 1 \in 0..Len(ss)
        BY <1>0, <3>1
      <3>8. QED
        BY <3>6, <3>7
    <2>3. Len(ss) \in Good
      <3> HIDE DEF Good
      <3>1. \A i \in 0..Len(ss) : i \in Good
        BY <1>0, <2>1, <2>2, UpToInduction
      <3>2. QED
        BY <1>0, <3>1
    <2>4. QED
      BY <1>1, <2>3
  <1>4. QED
    BY <1>2, <1>3

(***************************************************************************)
(* The inductive invariant. The engine is one half; the other is what the  *)
(* reader that is deployed has done with what the engine told it.          *)
(***************************************************************************)

\* the commands of the engine that the order history service handles
Msg ==
    [kind : {"update"}, order : OrderIds, status : {"New", "Cancelled", "Rejected"}, filled : {0}]
      \cup [kind : {"fill"}, order : OrderIds, qty : Nat \ {0}]

\* the message m tells that an order has the status
Says(m, status) == m.kind = "update" /\ m.status = status

\* what the message m, and the messages w, add to the fills of o
FillOf(m, o) == IF m.kind = "fill" /\ m.order = o THEN m.qty ELSE 0
Due(w, o) == SumFunctionOnSet([i \in 1..Len(w) |-> FillOf(w[i], o)], 1..Len(w))

\* the messages w name the order o; they tell that it has the status
About(w, o) == \E m \in Range(w) : m.order = o
Said(w, o, status) == \E m \in Range(w) : m.order = o /\ Says(m, status)

\* of the messages about an order New is the first, Cancelled the last and
\* Rejected the only one
InOrder(w) ==
    \A i, j \in 1..Len(w) : i < j /\ w[i].order = w[j].order =>
        /\ ~Says(w[j], "New") /\ ~Says(w[i], "Cancelled")
        /\ ~Says(w[i], "Rejected") /\ ~Says(w[j], "Rejected")

\* the engine took the order into the book, whatever became of it
Placed(o) == book[o] \in {"open", "filled", "cancelled"}

\* the engine's half: an order has ended as filled exactly when nothing is left
\* of it, and all of it is left until it is placed
EngineInv ==
    /\ book \in [OrderIds -> {"unsent", "rejected", "open", "filled", "cancelled"}]
    /\ left \in [OrderIds -> Nat]
    /\ \A o \in OrderIds :
        /\ left[o] <= Order[o].qty
        /\ book[o] \in {"unsent", "rejected"} => left[o] = Order[o].qty
        /\ book[o] = "filled" <=> left[o] = 0

\* the reader that is not deployed has nothing to do and has done nothing
IdleReader(r) ==
    IF r = "service" THEN wire = <<>>
    ELSE /\ outTopic = <<>> /\ tradesCh = <<>> /\ orderCh = <<>> /\ working = <<>> /\ tracked = 0
         /\ updates = <<>> /\ listed = [o \in OrderIds |-> "none"] /\ lookup = {} /\ userTrades = {}

\* the counters of order_statistics, and the three tables
Counts == [total : Nat, filled : Nat, cancelled : Nat, rejected : Nat]

DbType == [active : [OrderIds -> Row], history : [OrderIds -> Row],
           stats : [Users -> Counts \cup {NoStats}]]

\* order_history never says more of an active order than active_orders does;
\* every step of either reader keeps this
DbInv ==
    /\ db \in DbType
    /\ \A o \in OrderIds : db.active[o] # NoRow =>
        /\ db.history[o].status \notin Closed
        /\ db.history[o].filled <= db.active[o].filled

\* the messages on the wire agree with the book, and a cancelled order of which
\* anything is still to be told has its cancellation still to be told
WireInv(o) ==
    /\ \A m \in Range(wire) : m.order = o =>
        /\ book[o] # "unsent"
        /\ Says(m, "Rejected") <=> book[o] = "rejected"
        /\ Says(m, "Cancelled") => book[o] = "cancelled"
    /\ book[o] = "cancelled" /\ About(wire, o) => Said(wire, o, "Cancelled")

\* the rows of an order never show a fill that the engine has not made, and what
\* the wire still has to add leads no further than the engine is
ServiceRows(o) ==
    /\ book[o] = "unsent" \/ Said(wire, o, "New") => db.active[o] = NoRow /\ db.history[o] = NoRow
    /\ book[o] = "rejected" => db.active[o] = NoRow
    /\ db.active[o].filled + Due(wire, o) <= Order[o].qty - left[o]
    /\ db.history[o].filled <= Order[o].qty - left[o]

\* what the service has been told of the order: the fills, that it was placed,
\* cancelled or rejected
Shown(o) == (Order[o].qty - left[o]) - Due(wire, o)
Started(o) == Placed(o) /\ ~Said(wire, o, "New")
Cancelled(o) == book[o] = "cancelled" /\ ~Said(wire, o, "Cancelled")
Rejected(o) == book[o] = "rejected" /\ ~Said(wire, o, "Rejected")

\* the row of active_orders that this calls for
Mirror(o) ==
    IF Shown(o) = Order[o].qty \/ Cancelled(o) THEN NoRow
    ELSE [status |-> IF Shown(o) = 0 THEN "New" ELSE "PartiallyFilled", filled |-> Shown(o)]

\* the orders of the user that the service was told are filled, cancelled,
\* rejected, placed
FilledOf(u) == {o \in OrderIds : Order[o].user = u /\ Started(o) /\ Shown(o) = Order[o].qty}
CancelledOf(u) == {o \in OrderIds : Order[o].user = u /\ Cancelled(o)}
RejectedOf(u) == {o \in OrderIds : Order[o].user = u /\ Rejected(o)}
StartedOf(u) == {o \in OrderIds : Order[o].user = u /\ Started(o)}

\* a user without a row has counters of zero
OwnStats(s) == IF s = NoStats THEN Zero ELSE s

\* the counters of the user count these orders; the total may be one too high,
\* since init_user_statistics starts at one
ServiceCounts(u) ==
    LET s == OwnStats(db.stats[u])
    IN  /\ s.filled = Cardinality(FilledOf(u))
        /\ s.cancelled = Cardinality(CancelledOf(u))
        /\ s.rejected = Cardinality(RejectedOf(u))
        /\ s.total - Cardinality(StartedOf(u)) \in {0, 1}

\* the tables show what the service was told
ServiceMirrors ==
    /\ \A o \in OrderIds : IF Started(o) THEN db.active[o] = Mirror(o) ELSE Shown(o) = 0
    /\ \A u \in Users : ServiceCounts(u)

\* the service's half: the wire, the rows, and, as long as nothing failed, that
\* the tables show what the service was told
ServiceInv ==
    /\ wire \in Seq(Msg) /\ InOrder(wire)
    /\ \A o \in OrderIds : WireInv(o) /\ ServiceRows(o)
    /\ failures = 0 => ServiceMirrors

\* an EngineOutput as the settlement service reads it
OutputMsg == [order : OrderIds, status : {"New", "PartiallyFilled", "Filled", "Rejected"}, filled : Nat,
              makers : Seq(OrderIds)]

\* the orders of a trade are placed and of different sides
TradeInv(t) ==
    /\ t.taker \in OrderIds /\ t.maker \in OrderIds /\ t.qty \in Nat \ {0}
    /\ Placed(t.taker) /\ Placed(t.maker) /\ Order[t.taker].side # Order[t.maker].side

\* what an output says of its order
OutputInv(x) ==
    /\ x.filled <= Order[x.order].qty
    /\ book[x.order] # "unsent" /\ (x.status = "Rejected" <=> book[x.order] = "rejected")
    /\ x.status = "Filled" <=> Placed(x.order) /\ FilledOnArrival(x.order)
    /\ x.status = "New" <=> Placed(x.order) /\ TakenBy(x.order) = {}
    /\ Range(x.makers) = {t.maker : t \in TakenBy(x.order)}

\* the outputs that are on their way, the ones at work first
Queue == (working \o FlattenSeq(orderCh)) \o outTopic

\* the output of the order o is on its way, and its rows are not written, it is
\* not counted, or not in active_orders
Unwritten(o) == \E i \in 1..Len(Queue) : Queue[i].order = o /\
                   (i \in DOMAIN updates => "rows" \in updates[i].todo)
Uncounted(o) == \E i \in 1..Len(Queue) : Queue[i].order = o /\
                   (i \in DOMAIN updates => "write" \in updates[i].todo)
Untracked(o) == \E i \in 1..Len(Queue) : Queue[i].order = o /\ i > tracked

\* an order update in flight: the statements it has still to make and what
\* update_order_statistics has read
Job == [todo : SUBSET {"rows", "init", "read", "write"}, read : Counts \cup {NoStats}]

\* the types of what the writers keep: an update for every output of the batch
\* once all of them are tracked, no empty batch, the channel within its room
WriterShape ==
    /\ outTopic \in Seq(OutputMsg) /\ orderCh \in Seq(Seq(OutputMsg)) /\ Len(orderCh) <= Room
    /\ working \in Seq(OutputMsg) /\ tracked \in 0..Len(working)
    /\ updates \in Seq(Job)
    /\ updates # <<>> => Len(updates) = Len(working) /\ tracked = Len(working)
    /\ updates = <<>> /\ working # <<>> => tracked < Len(working)
    /\ \A k \in 1..Len(orderCh) : orderCh[k] # <<>>
    /\ listed \in [OrderIds -> {"none", "New", "Filled"}] /\ lookup \subseteq OrderIds

\* every output on its way says what the engine made of its order, and an order
\* has one output
QueueInv ==
    /\ \A i \in 1..Len(Queue) : OutputInv(Queue[i])
    /\ \A i, j \in 1..Len(Queue) : Queue[i].order = Queue[j].order => i = j

\* an order has rows only when its output was written, and they show no more
\* than the order; it is in active_orders only when it was placed and tracked
SettledRows(o) ==
    /\ book[o] = "unsent" \/ Unwritten(o) => db.active[o] = NoRow /\ db.history[o] = NoRow
    /\ db.active[o].filled <= Order[o].qty /\ db.history[o].filled <= Order[o].qty
    /\ ~Placed(o) \/ Untracked(o) => listed[o] = "none"

\* the orders of the user whose output is counted, or was passed over: filled as
\* they arrived, rejected, resting untouched
AtOnceOf(u) == {o \in OrderIds : Order[o].user = u /\ ~Uncounted(o) /\ Placed(o) /\ FilledOnArrival(o)}
RefusedOf(u) == {o \in OrderIds : Order[o].user = u /\ ~Uncounted(o) /\ book[o] = "rejected"}
RestingOf(u) == {o \in OrderIds : Order[o].user = u /\ ~Uncounted(o) /\ Placed(o) /\ TakenBy(o) = {}}

\* the counters s of the user count no order twice; the total may be one too high
Bounded(u, s) ==
    /\ s.filled <= Cardinality(AtOnceOf(u))
    /\ s.rejected <= Cardinality(RefusedOf(u))
    /\ s.total <= 1 + Cardinality(RestingOf(u))

\* so do the rows, and so does what an update has read and will write back, no
\* matter which updates of the user wrote in between
CountersInv ==
    /\ \A u \in Users : Bounded(u, db.stats[u])
    /\ \A i \in DOMAIN updates : "write" \in updates[i].todo /\ "read" \notin updates[i].todo =>
          Bounded(Order[working[i].order].user, updates[i].read)

\* the rows of user_trades for the trade d; with oneself the two are one
SellerRow(d) == [user |-> Order[d.seller].user, symbol |-> WrittenUnder(d), trade |-> d, role |-> "seller"]
BuyerRow(d) == [user |-> Order[d.buyer].user, symbol |-> WrittenUnder(d), trade |-> d, role |-> "buyer"]
WithOneself(d) == Order[d.seller].user = Order[d.buyer].user

\* the row r of user_trades shows a trade of the engine, to one of its sides
IsTrade(d) == \E t \in trades : d = Trade(t.taker, t.maker)
ShowsRow(r) == /\ IsTrade(r.trade)
               /\ r = SellerRow(r.trade) \/ (r = BuyerRow(r.trade) /\ ~WithOneself(r.trade))

\* all the rows of the trade d are there
Written(d) == /\ SellerRow(d) \in userTrades
              /\ WithOneself(d) \/ BuyerRow(d) \in userTrades

\* while nothing failed: a placed order that was tracked is listed as what it was
\* when it arrived, user_trades holds rows of trades only, and of every trade
\* the taker's output, the message to the writer or the rows are there
WritersShow ==
    /\ \A o \in OrderIds : Placed(o) /\ ~Untracked(o) =>
          listed[o] = IF FilledOnArrival(o) THEN "Filled" ELSE "New"
    /\ \A r \in userTrades : ShowsRow(r)
    /\ \A t \in trades : \/ \E x \in Range(outTopic) : x.order = t.taker
                         \/ Trade(t.taker, t.maker) \in Range(tradesCh)
                         \/ Written(Trade(t.taker, t.maker))

\* the writer of user trades is sent trades of the engine
TradesSent == tradesCh \in Seq({Trade(t.taker, t.maker) : t \in trades})

\* the writers' half
WritersInv ==
    /\ WriterShape /\ QueueInv
    /\ \A o \in OrderIds : SettledRows(o)
    /\ CountersInv /\ TradesSent
    /\ failures = 0 => WritersShow

\* the inductive invariant: the engine's half, the tables, and the half of the
\* reader that is deployed
HistInv ==
    /\ reader \in {"service", "settlement"} /\ failures \in 0..MaxFailures
    /\ EngineInv /\ DbInv
    /\ \A t \in trades : TradeInv(t)
    /\ reader = "service" => IdleReader("settlement") /\ ServiceInv
    /\ reader = "settlement" => IdleReader("service") /\ WritersInv

(***************************************************************************)
(* What the messages on the wire add up to.                                *)
(***************************************************************************)

\* What a message adds is a natural number.
LEMMA FillOfNat ==
    ASSUME NEW m \in Msg, NEW o
    PROVE  FillOf(m, o) \in Nat
  BY DEF Msg, FillOf

\* What the messages of the wire add is a natural number.
LEMMA DueNat ==
    ASSUME NEW w \in Seq(Msg), NEW o
    PROVE  Due(w, o) \in Nat
  <1>1. Len(w) \in Nat /\ \A i \in 1..Len(w) : w[i] \in Msg
    BY LenProperties, ElementOfSeq
  <1>2. IsFiniteSet(1..Len(w))
    BY <1>1, FS_Interval
  <1>3. PICK f : f = [i \in 1..Len(w) |-> FillOf(w[i], o)]
    OBVIOUS
  <1>4. \A i \in 1..Len(w) : f[i] \in Nat
    BY <1>1, <1>3, FillOfNat
  <1>5. SumFunctionOnSet(f, 1..Len(w)) \in Nat
    BY <1>2, <1>4, SumBounds
  <1>6. QED
    BY <1>3, <1>5 DEF Due

\* An empty wire adds nothing.
LEMMA DueEmpty ==
    ASSUME NEW o
    PROVE  Due(<<>>, o) = 0
  <1>1. 1..Len(<<>>) = {}
    OBVIOUS
  <1>2. QED
    BY <1>1, SumEmpty DEF Due

\* One more message adds what it says.
LEMMA DueAppend ==
    ASSUME NEW w \in Seq(Msg), NEW m \in Msg, NEW o
    PROVE  Due(Append(w, m), o) = Due(w, o) + FillOf(m, o)
  <1>1. PICK v : v = Append(w, m)
    OBVIOUS
  <1>2. PICK n : n = Len(w)
    OBVIOUS
  <1>3. /\ n \in Nat /\ v \in Seq(Msg) /\ Len(v) = n + 1 /\ v[n + 1] = m
        /\ \A i \in 1..n : v[i] = w[i] /\ w[i] \in Msg
    BY <1>1, <1>2, AppendProperties, LenProperties, ElementOfSeq
  <1>4. PICK f : f = [i \in 1..n |-> FillOf(w[i], o)]
    OBVIOUS
  <1>5. PICK g : g = [i \in 1..(n + 1) |-> FillOf(v[i], o)]
    OBVIOUS
  <1>6. /\ IsFiniteSet(1..n) /\ IsFiniteSet(1..(n + 1))
        /\ n + 1 \in 1..(n + 1) /\ (1..(n + 1)) \ {n + 1} = 1..n
    <2>1. IsFiniteSet(1..n) /\ IsFiniteSet(1..(n + 1))
      <3>1. n + 1 \in Int /\ n \in Int /\ 1 \in Int
        BY <1>3
      <3>2. QED
        BY <3>1, FS_Interval
    <2>2. n + 1 \in 1..(n + 1)
      BY <1>3
    <2>3. (1..(n + 1)) \ {n + 1} = 1..n
      BY <1>3
    <2>4. QED
      BY <2>1, <2>2, <2>3
  <1>7. \A i \in 1..(n + 1) : g[i] \in Int
    <2>1. \A i \in 1..(n + 1) : v[i] \in Msg
      BY <1>3, ElementOfSeq
    <2>2. QED
      BY <1>5, <2>1, FillOfNat
  <1>8. SumFunctionOnSet(g, 1..(n + 1)) = g[n + 1] + SumFunctionOnSet(g, (1..(n + 1)) \ {n + 1})
    BY <1>6, <1>7, SumSplit
  <1>9. \A i \in 1..n : g[i] = f[i]
    BY <1>3, <1>4, <1>5
  <1>10. SumFunctionOnSet(g, 1..n) = SumFunctionOnSet(f, 1..n)
    BY <1>6, <1>9, SumEqual
  <1>11. g[n + 1] = FillOf(m, o) /\ FillOf(m, o) \in Nat
    BY <1>3, <1>5, <1>6, FillOfNat
  <1>12. Due(v, o) = SumFunctionOnSet(g, 1..(n + 1)) /\ Due(w, o) = SumFunctionOnSet(f, 1..n)
    BY <1>2, <1>3, <1>4, <1>5 DEF Due
  <1>13. Due(w, o) \in Nat
    BY DueNat
  <1>14. SumFunctionOnSet(g, 1..(n + 1)) = FillOf(m, o) + SumFunctionOnSet(f, 1..n)
    BY <1>6, <1>8, <1>10, <1>11
  <1>15. Due(v, o) = FillOf(m, o) + Due(w, o)
    BY <1>12, <1>14
  <1>16. QED
    BY <1>1, <1>11, <1>13, <1>15

\* What two sequences of messages add, one after the other.
LEMMA DueConcat ==
    ASSUME NEW w \in Seq(Msg), NEW v \in Seq(Msg), NEW o
    PROVE  Due(w \o v, o) = Due(w, o) + Due(v, o)
  <1> DEFINE Good == {i \in 0..Len(v) : Due(w \o SubSeq(v, 1, i), o)
                                          = Due(w, o) + Due(SubSeq(v, 1, i), o)}
  <1>1. Len(v) \in Nat /\ \A i \in 1..Len(v) : v[i] \in Msg
    BY LenProperties, ElementOfSeq
  <1>2. 0 \in Good
    <2>1. SubSeq(v, 1, 0) = <<>>
      BY SubSeqEmpty
    <2>2. w \o <<>> = w
      BY ConcatEmptySeq
    <2>3. Due(w, o) \in Nat
      BY DueNat
    <2>4. Due(w \o SubSeq(v, 1, 0), o) = Due(w, o) + Due(SubSeq(v, 1, 0), o)
      <3>1. Due(SubSeq(v, 1, 0), o) = 0
        BY <2>1, DueEmpty
      <3>2. Due(w \o SubSeq(v, 1, 0), o) = Due(w, o)
        BY <2>1, <2>2
      <3>3. QED
        BY <2>3, <3>1, <3>2
    <2>5. 0 \in 0..Len(v)
      BY <1>1
    <2>6. QED
      BY <2>4, <2>5
  <1>3. ASSUME NEW i \in 0..Len(v), i \in Good, i < Len(v)  PROVE i + 1 \in Good
    <2>1. PICK s : s = SubSeq(v, 1, i)
      OBVIOUS
    <2>2. s \in Seq(Msg) /\ i + 1 \in 1..Len(v) /\ v[i + 1] \in Msg
      BY <1>1, <1>3, <2>1, SubSeqProperties
    <2>3. SubSeq(v, 1, i + 1) = s \o <<v[i + 1]>>
      <3>1. 1 \in 1..Len(v) /\ i + 1 \in 1..Len(v) /\ (i + 1) - 1 = i
        BY <1>1, <1>3
      <3>2. QED
        BY <2>1, <3>1, SubSeqRecursiveSecond
    <2>4. s \o <<v[i + 1]>> = Append(s, v[i + 1])
      BY <2>2, AppendIsConcat
    <2>5. w \o s \in Seq(Msg) /\ <<v[i + 1]>> \in Seq(Msg)
      BY <2>2, ConcatProperties
    <2>6. w \o (s \o <<v[i + 1]>>) = (w \o s) \o <<v[i + 1]>>
      BY SMTT(30), <2>2, <2>5, ConcatAssociative
    <2>7. (w \o s) \o <<v[i + 1]>> = Append(w \o s, v[i + 1])
      BY <2>2, <2>5, AppendIsConcat
    <2>8. /\ Due(Append(s, v[i + 1]), o) = Due(s, o) + FillOf(v[i + 1], o)
          /\ Due(Append(w \o s, v[i + 1]), o) = Due(w \o s, o) + FillOf(v[i + 1], o)
      BY <2>2, <2>5, DueAppend
    <2>9. Due(w \o s, o) = Due(w, o) + Due(s, o)
      BY <1>3, <2>1
    <2>10. Due(w, o) \in Nat /\ Due(s, o) \in Nat /\ FillOf(v[i + 1], o) \in Nat
      BY <2>2, DueNat, FillOfNat
    <2>11. Due(w \o SubSeq(v, 1, i + 1), o) = Due(w, o) + Due(SubSeq(v, 1, i + 1), o)
      <3>1. Due(SubSeq(v, 1, i + 1), o) = Due(s, o) + FillOf(v[i + 1], o)
        BY <2>3, <2>4, <2>8
      <3>2. Due(w \o SubSeq(v, 1, i + 1), o) = Due(w \o s, o) + FillOf(v[i + 1], o)
        BY <2>3, <2>6, <2>7, <2>8
      <3>3. QED
        BY <2>9, <2>10, <3>1, <3>2
    <2>12. i + 1 \in 0..Len(v)
      BY <1>1, <2>2
    <2>13. QED
      BY <2>11, <2>12
  <1>4. Len(v) \in Good
    <2> HIDE DEF Good
    <2>1. \A i \in 0..Len(v) : i \in Good
      BY <1>1, <1>2, <1>3, UpToInduction
    <2>2. QED
      BY <1>1, <2>1
  <1>5. SubSeq(v, 1, Len(v)) = v
    BY SubSeqFull
  <1>6. QED
    BY <1>4, <1>5

\* Taking the first message off.
LEMMA DueTail ==
    ASSUME NEW w \in Seq(Msg), w # <<>>, NEW o
    PROVE  Due(w, o) = FillOf(Head(w), o) + Due(Tail(w), o)
  <1>1. PICK m : m = Head(w)
    OBVIOUS
  <1>2. PICK v : v = Tail(w)
    OBVIOUS
  <1>3. m \in Msg /\ v \in Seq(Msg) /\ <<m>> \in Seq(Msg) /\ <<>> \in Seq(Msg)
    BY <1>1, <1>2, HeadTailProperties
  <1>4. w = <<m>> \o v
    <2>1. Len(w) \in Nat \ {0}
      BY EmptySeq
    <2>2. 1 \in 1..Len(w) /\ Len(w) \in 1..Len(w)
      BY <2>1
    <2>3. SubSeq(w, 1, Len(w)) = <<w[1]>> \o SubSeq(w, 2, Len(w))
      BY <2>2, SubSeqRecursiveFirst
    <2>4. SubSeq(w, 1, Len(w)) = w /\ Tail(w) = SubSeq(w, 2, Len(w))
      BY SubSeqFull, TailIsSubSeq
    <2>5. w[1] = m
      BY <1>1
    <2>6. QED
      BY <1>2, <2>3, <2>4, <2>5
  <1>5. Due(<<m>>, o) = FillOf(m, o)
    <2>1. <<m>> = Append(<<>>, m)
      OBVIOUS
    <2>2. Due(Append(<<>>, m), o) = Due(<<>>, o) + FillOf(m, o)
      BY <1>3, DueAppend
    <2>3. FillOf(m, o) \in Nat
      BY <1>3, FillOfNat
    <2>4. QED
      BY <2>1, <2>2, <2>3, DueEmpty
  <1>6. Due(w, o) = Due(<<m>>, o) + Due(v, o)
    BY ZenonT(30), <1>3, <1>4, DueConcat
  <1>7. QED
    BY <1>1, <1>2, <1>5, <1>6

\* Losing the first messages adds no more.
LEMMA DueSuffix ==
    ASSUME NEW w \in Seq(Msg), NEW n \in 0..Len(w), NEW o
    PROVE  /\ SubSeq(w, n + 1, Len(w)) \in Seq(Msg)
           /\ Due(SubSeq(w, n + 1, Len(w)), o) <= Due(w, o)
  <1>0. Len(w) \in Nat /\ \A i \in 1..Len(w) : w[i] \in Msg
    BY LenProperties, ElementOfSeq
  <1>1. PICK a : a = SubSeq(w, 1, n)
    OBVIOUS
  <1>2. PICK b : b = SubSeq(w, n + 1, Len(w))
    OBVIOUS
  <1>3. a \in Seq(Msg) /\ b \in Seq(Msg)
    BY <1>0, <1>1, <1>2, SubSeqProperties
  <1>4. a \o b = w
    <2>1. 1 \in 1..(Len(w) + 1) /\ n \in (1 - 1)..Len(w) /\ Len(w) \in n..Len(w)
      BY <1>0
    <2>2. a \o b = SubSeq(w, 1, Len(w))
      BY <1>1, <1>2, <2>1, ConcatAdjacentSubSeq
    <2>3. QED
      BY <2>2, SubSeqFull
  <1>5. Due(a \o b, o) = Due(a, o) + Due(b, o)
    BY <1>3, DueConcat
  <1>6. Due(a, o) \in Nat /\ Due(b, o) \in Nat
    BY <1>3, DueNat
  <1>7. QED
    BY <1>2, <1>3, <1>4, <1>5, <1>6

\* SetToSeq lists every element of a finite set once.
LEMMA SetToSeqFacts ==
    ASSUME NEW C, IsFiniteSet(C)
    PROVE  /\ SetToSeq(C) \in Seq(C) /\ Len(SetToSeq(C)) = Cardinality(C)
           /\ \A i, j \in 1..Len(SetToSeq(C)) : SetToSeq(C)[i] = SetToSeq(C)[j] => i = j
           /\ \A x \in C : \E i \in 1..Len(SetToSeq(C)) : SetToSeq(C)[i] = x
  <1>1. PICK n \in Nat : ExistsBijection(1..n, C)
    BY FS_NatBijection
  <1>2. Cardinality(C) = n
    BY <1>1, FS_CountingElements
  <1>3. PICK b : b \in Bijection(1..n, C)
    BY <1>1 DEF ExistsBijection
  <1>4. b \in [1..n -> C] /\ IsInjective(b)
    BY <1>3 DEF Bijection, Injection, IsInjective
  <1>5. PICK f : f = SetToSeq(C)
    OBVIOUS
  <1>6. f \in [1..n -> C] /\ IsInjective(f)
    BY <1>2, <1>4, <1>5 DEF SetToSeq
  <1>7. f \in Seq(C) /\ Len(f) = n /\ DOMAIN f = 1..n
    BY <1>6, FunctionIsSequence
  <1>8. f \in Injection(1..n, C)
    BY <1>6 DEF Injection
  <1>9. IsFiniteSet(1..n) /\ Cardinality(1..n) = n
    BY FS_Interval
  <1>10. f \in Surjection(1..n, C)
    BY <1>2, <1>8, <1>9, FS_Injection
  <1>11. \A x \in C : \E i \in 1..n : f[i] = x
    BY <1>10 DEF Surjection
  <1>12. \A i, j \in 1..n : f[i] = f[j] => i = j
    BY <1>6, <1>7 DEF IsInjective
  <1>13. QED
    BY <1>2, <1>5, <1>7, <1>11, <1>12

\* The sum over 1..(i + 1), split at its last term.
LEMMA SumUpTo ==
    ASSUME NEW d, NEW n \in Nat, \A j \in 1..n : d[j] \in Nat, NEW i \in Nat, i + 1 \in 1..n
    PROVE  SumFunctionOnSet(d, 1..(i + 1)) = SumFunctionOnSet(d, 1..i) + d[i + 1]
  <1>1. IsFiniteSet(1..(i + 1)) /\ IsFiniteSet(1..i)
    <2>1. 1 \in Int /\ i \in Int /\ i + 1 \in Int
      OBVIOUS
    <2>2. QED
      BY <2>1, FS_Interval
  <1>2. (1..(i + 1)) \ {i + 1} = 1..i
    OBVIOUS
  <1>3. i + 1 \in 1..(i + 1) /\ \A j \in 1..(i + 1) : d[j] \in Int
    OBVIOUS
  <1>4. SumFunctionOnSet(d, 1..(i + 1)) = d[i + 1] + SumFunctionOnSet(d, (1..(i + 1)) \ {i + 1})
    BY <1>1, <1>3, SumSplit
  <1>5. \A j \in 1..i : d[j] \in Nat
    OBVIOUS
  <1>6. SumFunctionOnSet(d, 1..i) \in Nat
    BY <1>1, <1>5, SumBounds
  <1>7. SumFunctionOnSet(d, (1..(i + 1)) \ {i + 1}) = SumFunctionOnSet(d, 1..i)
    BY <1>2
  <1>8. d[i + 1] \in Int
    BY <1>3
  <1>9. QED
    BY <1>4, <1>6, <1>7, <1>8

\* What a flattened sequence of messages adds.
LEMMA FlattenDue ==
    ASSUME NEW ss \in Seq(Seq(Msg)), NEW x
    PROVE  Due(FlattenSeq(ss), x)
             = SumFunctionOnSet([i \in 1..Len(ss) |-> Due(ss[i], x)], 1..Len(ss))
  <1>0. Len(ss) \in Nat /\ \A i \in 1..Len(ss) : ss[i] \in Seq(Msg)
    BY LenProperties, ElementOfSeq
  <1>1. PICK g \in [0..Len(ss) -> Seq(Msg)] :
              /\ g[0] = <<>> /\ g[Len(ss)] = FlattenSeq(ss)
              /\ \A i \in 1..Len(ss) : g[i] = g[i - 1] \o ss[i]
    BY FlattenSteps
  <1>2. PICK d : d = [i \in 1..Len(ss) |-> Due(ss[i], x)]
    OBVIOUS
  <1>3. \A i \in 1..Len(ss) : d[i] = Due(ss[i], x) /\ d[i] \in Nat
    BY <1>0, <1>2, DueNat
  <1> DEFINE Good == {i \in 0..Len(ss) : Due(g[i], x) = SumFunctionOnSet(d, 1..i)}
  <1>4. 0 \in Good
    <2>1. 1..0 = {} /\ 0 \in 0..Len(ss)
      BY <1>0
    <2>2. SumFunctionOnSet(d, 1..0) = 0
      BY <2>1, SumEmpty
    <2>3. Due(g[0], x) = 0
      BY <1>1, DueEmpty
    <2>4. QED
      BY <2>1, <2>2, <2>3
  <1>5. ASSUME NEW i \in 0..Len(ss), i \in Good, i < Len(ss)  PROVE i + 1 \in Good
    <2>1. i \in Nat /\ i + 1 \in 1..Len(ss) /\ i + 1 \in 0..Len(ss) /\ (i + 1) - 1 = i
      BY <1>0, <1>5
    <2>2. g[i + 1] = g[i] \o ss[i + 1]
      BY <1>1, <2>1
    <2>3. g[i] \in Seq(Msg) /\ ss[i + 1] \in Seq(Msg)
      BY <1>0, <1>1, <2>1
    <2>4. Due(g[i + 1], x) = Due(g[i], x) + d[i + 1]
      <3>1. Due(g[i] \o ss[i + 1], x) = Due(g[i], x) + Due(ss[i + 1], x)
        BY <2>3, DueConcat
      <3>2. QED
        BY <1>3, <2>1, <2>2, <3>1
    <2>5. SumFunctionOnSet(d, 1..(i + 1)) = SumFunctionOnSet(d, 1..i) + d[i + 1]
      BY <1>0, <1>3, <2>1, SumUpTo
    <2>6. Due(g[i], x) = SumFunctionOnSet(d, 1..i)
      BY <1>5
    <2>7. Due(g[i + 1], x) = SumFunctionOnSet(d, 1..(i + 1))
      BY <2>4, <2>5, <2>6
    <2>8. QED
      BY <2>1, <2>7
  <1>6. Len(ss) \in Good
    <2> HIDE DEF Good
    <2>1. \A i \in 0..Len(ss) : i \in Good
      BY <1>0, <1>4, <1>5, UpToInduction
    <2>2. QED
      BY <1>0, <2>1
  <1>7. Due(g[Len(ss)], x) = SumFunctionOnSet(d, 1..Len(ss))
    BY <1>6
  <1>8. QED
    BY <1>1, <1>2, <1>7

\* Summing over a set or over a list of it is the same.
LEMMA SumOverList ==
    ASSUME NEW C, IsFiniteSet(C), NEW f, \A c \in C : f[c] \in Nat,
           NEW s, s = SetToSeq(C), NEW d, \A i \in 1..Len(s) : d[i] = f[s[i]]
    PROVE  SumFunctionOnSet(d, 1..Len(s)) = SumFunctionOnSet(f, C)
  <1>1. /\ s \in Seq(C)
        /\ \A i, j \in 1..Len(s) : s[i] = s[j] => i = j
        /\ \A x \in C : \E i \in 1..Len(s) : s[i] = x
    BY SetToSeqFacts
  <1>2. Len(s) \in Nat /\ \A i \in 1..Len(s) : s[i] \in C /\ d[i] \in Nat
    BY <1>1, LenProperties, ElementOfSeq
  <1> DEFINE First(i) == {s[j] : j \in 1..i}
             Good == {i \in 0..Len(s) : SumFunctionOnSet(d, 1..i) = SumFunctionOnSet(f, First(i))}
  <1>3. 0 \in Good
    <2>1. 1..0 = {} /\ First(0) = {} /\ 0 \in 0..Len(s)
      BY <1>2
    <2>2. QED
      BY <2>1, SumEmpty
  <1>4. ASSUME NEW i \in 0..Len(s), i \in Good, i < Len(s)  PROVE i + 1 \in Good
    <2>1. i \in Nat /\ i + 1 \in 1..Len(s) /\ i + 1 \in 0..Len(s)
      BY <1>2, <1>4
    <2>2. \A j : j \in 1..(i + 1) <=> j \in 1..i \/ j = i + 1
      BY <2>1
    <2>3. \A j \in 1..i : j \in 1..Len(s) /\ j # i + 1
      BY <1>2, <2>1
    <2>4. s[i + 1] \in First(i + 1) /\ First(i + 1) \ {s[i + 1]} = First(i)
      <3>1. s[i + 1] \in First(i + 1)
        BY <2>2
      <3>2. s[i + 1] \notin First(i)
        BY <1>1, <2>1, <2>3
      <3>3. First(i + 1) = First(i) \cup {s[i + 1]}
        BY <2>2
      <3>4. QED
        BY <3>1, <3>2, <3>3
    <2>5. First(i + 1) \subseteq C
      BY <1>2, <2>1, <2>2, <2>3
    <2>6. IsFiniteSet(First(i + 1)) /\ \A x \in First(i + 1) : f[x] \in Int
      <3> HIDE DEF First
      <3>1. QED
        BY <2>5, FS_Subset
    <2>7. SumFunctionOnSet(f, First(i + 1)) = f[s[i + 1]] + SumFunctionOnSet(f, First(i))
      <3> HIDE DEF First
      <3>1. SumFunctionOnSet(f, First(i + 1)) = f[s[i + 1]] + SumFunctionOnSet(f, First(i + 1) \ {s[i + 1]})
        BY SMTT(30), <2>4, <2>6, SumSplit
      <3>2. QED
        BY <2>4, <3>1
    <2>8. SumFunctionOnSet(d, 1..(i + 1)) = SumFunctionOnSet(d, 1..i) + d[i + 1]
      BY <1>2, <2>1, SumUpTo
    <2>9. SumFunctionOnSet(d, 1..i) = SumFunctionOnSet(f, First(i)) /\ SumFunctionOnSet(f, First(i)) \in Nat
      <3>1. First(i) \subseteq C
        BY <1>2, <2>3
      <3>2. SumFunctionOnSet(f, First(i)) \in Nat
        <4> HIDE DEF First
        <4>1. IsFiniteSet(First(i)) /\ \A x \in First(i) : f[x] \in Nat
          BY <3>1, FS_Subset
        <4>2. QED
          BY <4>1, SumBounds
      <3>3. QED
        BY <1>4, <3>2
    <2>10. d[i + 1] = f[s[i + 1]] /\ d[i + 1] \in Nat
      BY <1>2, <2>1
    <2> HIDE DEF First
    <2>11. SumFunctionOnSet(d, 1..(i + 1)) = SumFunctionOnSet(f, First(i + 1))
      BY <2>7, <2>8, <2>9, <2>10
    <2>12. QED
      BY <2>1, <2>11
  <1>5. Len(s) \in Good
    <2> HIDE DEF Good
    <2>1. \A i \in 0..Len(s) : i \in Good
      BY <1>2, <1>3, <1>4, UpToInduction
    <2>2. QED
      BY <1>2, <2>1
  <1>6. First(Len(s)) = C
    BY <1>1, <1>2
  <1>7. QED
    BY <1>5, <1>6

\* What two messages add.
LEMMA DuePair ==
    ASSUME NEW a \in Msg, NEW b \in Msg, NEW o
    PROVE  Due(<<a, b>>, o) = FillOf(a, o) + FillOf(b, o)
  <1>1. <<a>> = Append(<<>>, a) /\ <<a, b>> = Append(<<a>>, b)
    OBVIOUS
  <1>2. <<>> \in Seq(Msg) /\ <<a>> \in Seq(Msg)
    OBVIOUS
  <1>3. Due(<<a>>, o) = Due(<<>>, o) + FillOf(a, o)
    <2>1. Due(Append(<<>>, a), o) = Due(<<>>, o) + FillOf(a, o)
      BY <1>2, DueAppend
    <2>2. QED
      BY <1>1, <2>1
  <1>4. Due(<<a, b>>, o) = Due(<<a>>, o) + FillOf(b, o)
    <2>1. Due(Append(<<a>>, b), o) = Due(<<a>>, o) + FillOf(b, o)
      BY <1>2, DueAppend
    <2>2. QED
      BY <1>1, <2>1
  <1>5. FillOf(a, o) \in Nat /\ FillOf(b, o) \in Nat /\ Due(<<>>, o) = 0
    BY FillOfNat, DueEmpty
  <1>6. QED
    BY <1>3, <1>4, <1>5

\* The fills of an order that met the orders C: of it, all that was traded; of
\* each of them, what it traded.
LEMMA FillsDue ==
    ASSUME NEW o \in OrderIds, NEW C \in SUBSET OrderIds, o \notin C, IsFiniteSet(C),
           NEW n \in [C -> Nat \ {0}]
    PROVE  LET f == Fills(o, SetToSeq(C), n)
           IN  /\ f \in Seq(Msg)
               /\ \A y \in Range(f) : y.kind = "fill" /\ y.order \in C \cup {o}
               /\ Due(f, o) = SumFunctionOnSet(n, C)
               /\ \A x \in OrderIds : x # o => Due(f, x) = IF x \in C THEN n[x] ELSE 0
  <1>1. PICK s : s = SetToSeq(C)
    OBVIOUS
  <1>2. /\ s \in Seq(C)
        /\ \A i, j \in 1..Len(s) : s[i] = s[j] => i = j
        /\ \A x \in C : \E i \in 1..Len(s) : s[i] = x
    BY SMTT(30), <1>1, SetToSeqFacts
  <1>3. Len(s) \in Nat /\ DOMAIN s = 1..Len(s) /\ \A i \in 1..Len(s) : s[i] \in C
    BY <1>2, LenProperties, ElementOfSeq
  <1> DEFINE Pair(m) == IF Order[o].side = "buy" THEN <<Fill(o, n[m]), Fill(m, n[m])>>
                                                 ELSE <<Fill(m, n[m]), Fill(o, n[m])>>
  <1>4. PICK ss : ss = [i \in 1..Len(s) |-> Pair(s[i])]
    OBVIOUS
  <1>5. Fills(o, SetToSeq(C), n) = FlattenSeq(ss)
    BY <1>1, <1>3, <1>4 DEF Fills
  <1>6. ASSUME NEW m \in C
        PROVE  /\ Pair(m) \in Seq(Msg)
               /\ \A y \in Range(Pair(m)) : y.kind = "fill" /\ y.order \in C \cup {o}
               /\ \A x \in OrderIds : Due(Pair(m), x) = IF x \in {o, m} THEN n[m] ELSE 0
    <2>1. PICK a : a = Fill(o, n[m])
      OBVIOUS
    <2>2. PICK b : b = Fill(m, n[m])
      OBVIOUS
    <2>3. a \in Msg /\ b \in Msg /\ a.kind = "fill" /\ b.kind = "fill" /\ a.order = o /\ b.order = m
          /\ a.qty = n[m] /\ b.qty = n[m] /\ n[m] \in Nat
      BY <2>1, <2>2 DEF Fill, Msg
    <2>4. \A x : FillOf(a, x) = (IF x = o THEN n[m] ELSE 0) /\ FillOf(b, x) = (IF x = m THEN n[m] ELSE 0)
      BY <2>3 DEF FillOf
    <2>5. \A x : Due(<<a, b>>, x) = FillOf(a, x) + FillOf(b, x)
                 /\ Due(<<b, a>>, x) = FillOf(b, x) + FillOf(a, x)
      BY <2>3, DuePair
    <2>6. Pair(m) = <<a, b>> \/ Pair(m) = <<b, a>>
      BY <2>1, <2>2
    <2> HIDE DEF Pair
    <2>7. <<a, b>> \in Seq(Msg) /\ <<b, a>> \in Seq(Msg)
      BY <2>3
    <2>8. Range(<<a, b>>) = {a, b} /\ Range(<<b, a>>) = {a, b}
      BY DEF Range
    <2>9. \A y \in Range(Pair(m)) : y.kind = "fill" /\ y.order \in C \cup {o}
      BY <2>3, <2>6, <2>8
    <2>10. \A x : Due(Pair(m), x) = IF x \in {o, m} THEN n[m] ELSE 0
      <3> TAKE x
      <3>1. FillOf(a, x) + FillOf(b, x) = (IF x \in {o, m} THEN n[m] ELSE 0)
        <4>1. o # m
          OBVIOUS
        <4>2. CASE x = o
          BY <2>3, <2>4, <4>1, <4>2
        <4>3. CASE x = m
          BY <2>3, <2>4, <4>1, <4>3
        <4>4. CASE x \notin {o, m}
          BY <2>3, <2>4, <4>4
        <4>5. QED
          BY <4>2, <4>3, <4>4
      <3>2. FillOf(b, x) + FillOf(a, x) = FillOf(a, x) + FillOf(b, x)
        <4>1. FillOf(a, x) \in Nat /\ FillOf(b, x) \in Nat
          BY <2>3, FillOfNat
        <4>2. QED
          BY <4>1
      <3>3. QED
        BY <2>5, <2>6, <3>1, <3>2
    <2>11. QED
      BY <2>6, <2>7, <2>9, <2>10
  <1> HIDE DEF Pair
  <1>7. ss \in Seq(Seq(Msg)) /\ Len(ss) = Len(s) /\ \A i \in 1..Len(s) : ss[i] = Pair(s[i])
    <2>1. ss \in [1..Len(s) -> Seq(Msg)]
      BY <1>3, <1>4, <1>6
    <2>2. QED
      BY SMTT(30), <1>3, <1>4, <2>1, FunctionIsSequence
  <1>8. PICK f : f = Fills(o, SetToSeq(C), n)
    OBVIOUS
  <1>9. f \in Seq(Msg) /\ \A x : x \in Range(f) <=> \E i \in 1..Len(ss) : x \in Range(ss[i])
    BY <1>5, <1>7, <1>8, FlattenRange
  <1>10. \A y \in Range(f) : y.kind = "fill" /\ y.order \in C \cup {o}
    BY <1>3, <1>6, <1>7, <1>9
  <1>11. ASSUME NEW x \in OrderIds
         PROVE  \E d : /\ Due(f, x) = SumFunctionOnSet(d, 1..Len(s))
                       /\ \A i \in 1..Len(s) : d[i] = IF x \in {o, s[i]} THEN n[s[i]] ELSE 0
    <2>1. PICK d : d = [i \in 1..Len(ss) |-> Due(ss[i], x)]
      OBVIOUS
    <2>2. Due(FlattenSeq(ss), x) = SumFunctionOnSet(d, 1..Len(ss))
      BY <1>7, <2>1, FlattenDue
    <2>3. \A i \in 1..Len(s) : d[i] = IF x \in {o, s[i]} THEN n[s[i]] ELSE 0
      BY <1>3, <1>6, <1>7, <2>1
    <2>4. QED
      BY <1>5, <1>7, <1>8, <2>2, <2>3
  <1>12. Due(f, o) = SumFunctionOnSet(n, C)
    <2>1. PICK d : /\ Due(f, o) = SumFunctionOnSet(d, 1..Len(s))
                   /\ \A i \in 1..Len(s) : d[i] = IF o \in {o, s[i]} THEN n[s[i]] ELSE 0
      BY <1>11
    <2>2. \A i \in 1..Len(s) : d[i] = n[s[i]]
      BY <2>1
    <2>3. \A c \in C : n[c] \in Nat
      OBVIOUS
    <2>4. SumFunctionOnSet(d, 1..Len(s)) = SumFunctionOnSet(n, C)
      BY <1>1, <2>2, <2>3, SumOverList
    <2>5. QED
      BY <2>1, <2>4
  <1>13. ASSUME NEW x \in OrderIds, x # o
         PROVE  Due(f, x) = IF x \in C THEN n[x] ELSE 0
    <2>1. PICK d : /\ Due(f, x) = SumFunctionOnSet(d, 1..Len(s))
                   /\ \A i \in 1..Len(s) : d[i] = IF x \in {o, s[i]} THEN n[s[i]] ELSE 0
      BY <1>11
    <2>2. \A i \in 1..Len(s) : d[i] = IF x = s[i] THEN n[x] ELSE 0
      BY <1>13, <2>1
    <2>3. IsFiniteSet(1..Len(s))
      BY <1>3, FS_Interval
    <2>4. CASE x \notin C
      <3>1. \A i \in 1..Len(s) : d[i] = 0
        BY <1>3, <2>2, <2>4
      <3>2. QED
        BY <2>1, <2>3, <2>4, <3>1, SumZero
    <2>5. CASE x \in C
      <3>1. PICK i \in 1..Len(s) : s[i] = x
        BY <1>2, <2>5
      <3>2. n[x] \in Nat /\ d[i] = n[x] /\ \A j \in 1..Len(s) : d[j] \in Int
        BY <2>2, <2>5, <3>1
      <3>3. \A j \in (1..Len(s)) \ {i} : d[j] = 0
        BY <1>2, <2>2, <3>1
      <3>4. IsFiniteSet((1..Len(s)) \ {i})
        BY <2>3, FS_RemoveElement
      <3>5. SumFunctionOnSet(d, (1..Len(s)) \ {i}) = 0
        BY <3>3, <3>4, SumZero
      <3>6. SumFunctionOnSet(d, 1..Len(s)) = d[i] + SumFunctionOnSet(d, (1..Len(s)) \ {i})
        BY <2>3, <3>1, <3>2, SumSplit
      <3>7. QED
        BY <2>1, <2>5, <3>2, <3>5, <3>6
    <2>6. QED
      BY <2>4, <2>5
  <1>14. QED
    BY <1>8, <1>9, <1>10, <1>12, <1>13

(***************************************************************************)
(* What the statements of an update do to the tables.                      *)
(***************************************************************************)

\* The counters stay counters.
LEMMA CountedType ==
    ASSUME NEW s \in Counts \cup {NoStats}, NEW status
    PROVE  /\ WithCounted(s, status) \in Counts
           /\ init_user_statistics(s) \in Counts
           /\ OwnStats(s) \in Counts
           /\ Zero \in Counts /\ NoStats \notin Counts
  <1>1. Zero \in Counts /\ NoStats \notin Counts
    BY DEF Zero, Counts, NoStats
  <1>2. OwnStats(s) \in Counts
    BY <1>1 DEF OwnStats
  <1>3. WithCounted(s, status) \in Counts
    BY <1>2 DEF WithCounted, OwnStats, Counts
  <1>4. init_user_statistics(s) \in Counts
    BY <1>1 DEF init_user_statistics, Counts, Zero
  <1>5. QED
    BY <1>1, <1>2, <1>3, <1>4

\* What update_order_statistics adds to each counter.
LEMMA CountedValues ==
    ASSUME NEW s \in Counts \cup {NoStats}, NEW status \in Status
    PROVE  LET c == OwnStats(s)
               r == WithCounted(s, status)
           IN  /\ r.total = c.total + (IF status = "New" THEN 1 ELSE 0)
               /\ r.filled = c.filled + (IF status = "Filled" THEN 1 ELSE 0)
               /\ r.cancelled = c.cancelled + (IF status \in {"Cancelled", "Expired"} THEN 1 ELSE 0)
               /\ r.rejected = c.rejected + (IF status = "Rejected" THEN 1 ELSE 0)
  <1>1. PICK c : c = OwnStats(s)
    OBVIOUS
  <1>2. c \in Counts
    BY <1>1, CountedType
  <1>3. WithCounted(s, status) =
           CASE status = "New"                      -> [c EXCEPT !.total = @ + 1]
             [] status = "Filled"                   -> [c EXCEPT !.filled = @ + 1]
             [] status \in {"Cancelled", "Expired"} -> [c EXCEPT !.cancelled = @ + 1]
             [] status = "Rejected"                 -> [c EXCEPT !.rejected = @ + 1]
             [] OTHER                               -> c
    BY <1>1 DEF WithCounted, OwnStats
  <1>4. QED
    BY <1>1, <1>2, <1>3 DEF Counts, Status, Closed

\* What a set of statements about the update u does to the tables.
LEMMA PerformFacts ==
    ASSUME NEW d \in DbType, NEW S, NEW u, u.order \in OrderIds, RowOf(u) \in Row
    PROVE  LET e == Perform(d, S, u)
               who == Order[u.order].user
           IN  /\ e \in DbType /\ who \in Users
               /\ \A o \in OrderIds : o # u.order => e.active[o] = d.active[o] /\ e.history[o] = d.history[o]
               /\ e.active[u.order] = IF "upsert" \in S THEN RowOf(u)
                                      ELSE IF "delete" \in S THEN NoRow ELSE d.active[u.order]
               /\ e.history[u.order] = IF "history" \in S THEN RowOf(u) ELSE d.history[u.order]
               /\ \A v \in Users : v # who => e.stats[v] = d.stats[v]
               /\ "init" \notin S /\ "stats" \notin S => e.stats[who] = d.stats[who]
               /\ "init" \in S /\ "stats" \notin S => e.stats[who] = init_user_statistics(d.stats[who])
               /\ "init" \notin S /\ "stats" \in S => e.stats[who] = WithCounted(d.stats[who], u.status)
               /\ "init" \in S /\ "stats" \in S =>
                     e.stats[who] = WithCounted(init_user_statistics(d.stats[who]), u.status)
  <1>1. PICK who : who = Order[u.order].user
    OBVIOUS
  <1>2. who \in Users
    BY <1>1 DEF Users
  <1>3. PICK begun : begun = IF "init" \in S THEN init_user_statistics(d.stats[who]) ELSE d.stats[who]
    OBVIOUS
  <1>4. PICK now : now = IF "stats" \in S THEN WithCounted(begun, u.status) ELSE begun
    OBVIOUS
  <1>5. PICK row : row = IF "upsert" \in S THEN RowOf(u) ELSE IF "delete" \in S THEN NoRow
                         ELSE d.active[u.order]
    OBVIOUS
  <1>6. PICK hrow : hrow = IF "history" \in S THEN RowOf(u) ELSE d.history[u.order]
    OBVIOUS
  <1>7. Perform(d, S, u) = [active |-> [d.active EXCEPT ![u.order] = row],
                            history |-> [d.history EXCEPT ![u.order] = hrow],
                            stats |-> [d.stats EXCEPT ![who] = now]]
    BY <1>1, <1>3, <1>4, <1>5, <1>6 DEF Perform
  <1>8. d.active \in [OrderIds -> Row] /\ d.history \in [OrderIds -> Row]
        /\ d.stats \in [Users -> Counts \cup {NoStats}]
    BY DEF DbType
  <1>9. row \in Row /\ hrow \in Row
    BY <1>5, <1>6, <1>8 DEF Row
  <1>10. now \in Counts \cup {NoStats}
    <2>1. begun \in Counts \cup {NoStats}
      BY <1>2, <1>3, <1>8, CountedType
    <2>2. QED
      BY <1>4, <2>1, CountedType
  <1>11. Perform(d, S, u) \in DbType
    BY <1>2, <1>7, <1>8, <1>9, <1>10 DEF DbType
  <1>12. /\ Perform(d, S, u).active[u.order] = row /\ Perform(d, S, u).history[u.order] = hrow
         /\ Perform(d, S, u).stats[who] = now
         /\ \A o \in OrderIds : o # u.order => /\ Perform(d, S, u).active[o] = d.active[o]
                                              /\ Perform(d, S, u).history[o] = d.history[o]
         /\ \A v \in Users : v # who => Perform(d, S, u).stats[v] = d.stats[v]
    BY <1>2, <1>7, <1>8
  <1>13. QED
    BY <1>1, <1>2, <1>3, <1>4, <1>5, <1>6, <1>11, <1>12

\* The statements that have been made when the first n of an update worked.
Made(status, n) == {Steps(status)[i] : i \in 1..n}

\* order_history comes after active_orders and the counters come last.
LEMMA StepsOrder ==
    ASSUME NEW status \in {"New", "PartiallyFilled", "Filled", "Cancelled", "Rejected"},
           NEW n \in 0..Len(Steps(status))
    PROVE  LET S == Made(status, n)
           IN  /\ "upsert" \in S => status \in {"New", "PartiallyFilled"}
               /\ "delete" \in S => status \in {"Filled", "Cancelled"}
               /\ "history" \in S /\ status # "Rejected" => "upsert" \in S \/ "delete" \in S
               /\ n = Len(Steps(status)) =>
                     /\ "history" \in S
                     /\ "upsert" \in S <=> status \in {"New", "PartiallyFilled"}
                     /\ "delete" \in S <=> status \in {"Filled", "Cancelled"}
                     /\ "init" \in S <=> status = "New"
                     /\ "stats" \in S <=> status # "PartiallyFilled"
  <1>1. CASE status = "New"
    <2>1. Steps(status) = <<"upsert", "history", "stream", "init", "stats">>
      BY <1>1 DEF Steps
    <2>2. QED
      BY <1>1, <2>1 DEF Made
  <1>2. CASE status = "PartiallyFilled"
    <2>1. Steps(status) = <<"upsert", "history", "stream">>
      BY <1>2 DEF Steps
    <2>2. QED
      BY <1>2, <2>1 DEF Made
  <1>3. CASE status \in {"Filled", "Cancelled"}
    <2>1. Steps(status) = <<"delete", "history", "stream", "stats">>
      BY <1>3 DEF Steps
    <2>2. QED
      BY <1>3, <2>1 DEF Made
  <1>4. CASE status = "Rejected"
    <2>1. Steps(status) = <<"history", "stream", "stats">>
      BY <1>4 DEF Steps
    <2>2. QED
      BY <1>4, <2>1 DEF Made
  <1>5. QED
    BY <1>1, <1>2, <1>3, <1>4

(***************************************************************************)
(* The order of the messages on the wire.                                  *)
(***************************************************************************)

\* What is said on a wire to which more is added.
LEMMA WireConcat ==
    ASSUME NEW w \in Seq(Msg), NEW c \in Seq(Msg)
    PROVE  /\ w \o c \in Seq(Msg) /\ Range(w \o c) = Range(w) \cup Range(c)
           /\ \A o : About(w \o c, o) <=> About(w, o) \/ About(c, o)
           /\ \A o, status : Said(w \o c, o, status) <=> Said(w, o, status) \/ Said(c, o, status)
  <1>1. Range(w \o c) = Range(w) \cup Range(c) /\ w \o c \in Seq(Msg)
    BY RangeConcatenation, ConcatProperties
  <1>2. QED
    BY <1>1 DEF About, Said

\* of two messages about an order, a before b
Ordered(a, b) == /\ ~Says(b, "New") /\ ~Says(a, "Cancelled")
                 /\ ~Says(a, "Rejected") /\ ~Says(b, "Rejected")

\* The order on a wire to which more is added.
LEMMA InOrderConcat ==
    ASSUME NEW w \in Seq(Msg), NEW c \in Seq(Msg), InOrder(w), InOrder(c),
           \A a \in Range(w), b \in Range(c) : a.order = b.order => Ordered(a, b)
    PROVE  InOrder(w \o c)
  <1>1. PICK v : v = w \o c
    OBVIOUS
  <1>2. PICK n : n = Len(w)
    OBVIOUS
  <1>3. PICK k : k = Len(c)
    OBVIOUS
  <1>4. /\ n \in Nat /\ k \in Nat /\ Len(v) = n + k
        /\ \A i \in 1..(n + k) : v[i] = IF i <= n THEN w[i] ELSE c[i - n]
    BY <1>1, <1>2, <1>3, ConcatProperties, LenProperties
  <1>5. \A i \in 1..n : w[i] \in Range(w)
    BY <1>2, LenProperties DEF Range
  <1>6. \A i \in 1..k : c[i] \in Range(c)
    BY <1>3, LenProperties DEF Range
  <1>7. ASSUME NEW i \in 1..Len(v), NEW j \in 1..Len(v), i < j, v[i].order = v[j].order
        PROVE  Ordered(v[i], v[j])
    <2>1. CASE j <= n
      <3>1. i \in 1..n /\ j \in 1..n /\ v[i] = w[i] /\ v[j] = w[j]
        BY <1>4, <1>7, <2>1
      <3>2. QED
        BY <1>2, <1>7, <3>1 DEF InOrder, Ordered
    <2>2. CASE i <= n /\ ~(j <= n)
      <3>1. i \in 1..n /\ j - n \in 1..k /\ v[i] = w[i] /\ v[j] = c[j - n]
        BY <1>4, <1>7, <2>2
      <3>2. QED
        BY <1>5, <1>6, <1>7, <3>1
    <2>3. CASE ~(i <= n)
      <3>1. i - n \in 1..k /\ j - n \in 1..k /\ i - n < j - n /\ v[i] = c[i - n] /\ v[j] = c[j - n]
        BY <1>4, <1>7, <2>3
      <3>2. QED
        BY <1>3, <1>7, <3>1 DEF InOrder, Ordered
    <2>4. QED
      BY <1>4, <1>7, <2>1, <2>2, <2>3
  <1>8. QED
    BY <1>1, <1>7 DEF InOrder, Ordered

\* The wire without its first message.
LEMMA WireTail ==
    ASSUME NEW w \in Seq(Msg), w # <<>>, InOrder(w)
    PROVE  /\ Head(w) \in Msg /\ Tail(w) \in Seq(Msg) /\ InOrder(Tail(w))
           /\ Range(w) = {Head(w)} \cup Range(Tail(w))
           /\ \A m \in Range(Tail(w)) : m.order = Head(w).order => Ordered(Head(w), m)
  <1>1. PICK v : v = Tail(w)
    OBVIOUS
  <1>2. PICK n : n = Len(v)
    OBVIOUS
  <1>3. /\ Head(w) \in Msg /\ v \in Seq(Msg) /\ n \in Nat /\ Len(w) = n + 1 /\ Head(w) = w[1]
        /\ DOMAIN v = 1..n /\ DOMAIN w = 1..(n + 1)
    <2>1. Head(w) \in Msg /\ v \in Seq(Msg) /\ Len(v) = Len(w) - 1
      BY <1>1, HeadTailProperties
    <2>2. Len(w) \in Nat /\ Len(v) \in Nat /\ DOMAIN v = 1..Len(v) /\ DOMAIN w = 1..Len(w)
      BY <2>1, LenProperties
    <2>3. Head(w) = w[1]
      OBVIOUS
    <2>4. Len(w) = n + 1
      BY <1>2, <2>1, <2>2
    <2>5. QED
      BY <1>2, <2>1, <2>2, <2>3, <2>4
  <1>4. \A i \in 1..n : v[i] = w[i + 1]
    BY <1>1, <1>2, HeadTailProperties
  <1>5. \A i \in 1..n : i + 1 \in 1..(n + 1) /\ 1 < i + 1 /\ 1 \in 1..(n + 1)
    BY <1>3
  <1>6. \A i \in 1..(n + 1) : i = 1 \/ (i - 1 \in 1..n /\ w[i] = v[i - 1])
    <2> TAKE i \in 1..(n + 1)
    <2>1. i = 1 \/ (i - 1 \in 1..n /\ (i - 1) + 1 = i)
      BY <1>3
    <2>2. QED
      BY <1>4, <2>1
  <1>7. Range(w) = {Head(w)} \cup Range(v)
    <2>1. Range(w) \subseteq {Head(w)} \cup Range(v)
      BY <1>3, <1>6 DEF Range
    <2>2. {Head(w)} \cup Range(v) \subseteq Range(w)
      <3>1. 1 \in 1..(n + 1)
        BY <1>3
      <3>2. Head(w) \in Range(w)
        BY <1>3, <3>1 DEF Range
      <3>3. ASSUME NEW i \in 1..n  PROVE v[i] \in Range(w)
        BY <1>3, <1>4, <1>5 DEF Range
      <3>4. QED
        BY <1>3, <3>2, <3>3 DEF Range
    <2>3. QED
      BY <2>1, <2>2
  <1>8. InOrder(v)
    <2>1. \A i, j \in 1..n : i < j => i + 1 < j + 1
      BY <1>3
    <2>2. QED
      BY <1>2, <1>3, <1>4, <1>5, <2>1 DEF InOrder
  <1>9. ASSUME NEW m \in Range(v), m.order = Head(w).order  PROVE Ordered(Head(w), m)
    <2>1. PICK i \in 1..n : m = w[i + 1]
      BY <1>3, <1>4 DEF Range
    <2>2. QED
      BY <1>3, <1>5, <1>9, <2>1 DEF InOrder, Ordered
  <1>10. QED
    BY <1>1, <1>3, <1>7, <1>8, <1>9

\* what is left of a wire without its first n messages
WithoutFirst(w, n) == SubSeq(w, n + 1, Len(w))

\* The wire without its first messages.
LEMMA WireSuffix ==
    ASSUME NEW w \in Seq(Msg), NEW n \in 0..Len(w), InOrder(w), NEW v, v = WithoutFirst(w, n)
    PROVE  /\ v \in Seq(Msg) /\ InOrder(v) /\ Range(v) \subseteq Range(w)
           /\ \A a \in Range(w), b \in Range(v) :
                 a.order = b.order => a \in Range(v) \/ Ordered(a, b)
  <1>1. Len(w) \in Nat /\ DOMAIN w = 1..Len(w) /\ \A i \in 1..Len(w) : w[i] \in Msg
    BY LenProperties, ElementOfSeq
  <1>2. PICK k \in Nat : n \in Nat /\ Len(w) = n + k
    <2>1. n \in Nat /\ Len(w) - n \in Nat /\ Len(w) = n + (Len(w) - n)
      BY <1>1
    <2>2. QED
      BY <2>1
  <1>3. k \in Nat /\ v \in Seq(Msg) /\ Len(v) = k /\ \A i \in 1..k : v[i] = w[n + i]
    <2>1. \A i \in (n + 1)..(n + k) : w[i] \in Msg
      BY <1>1, <1>2
    <2>2. /\ v \in Seq(Msg)
          /\ Len(v) = IF n + 1 <= n + k THEN (n + k) - (n + 1) + 1 ELSE 0
          /\ \A i \in 1..((n + k) - (n + 1) + 1) : v[i] = w[(n + 1) + i - 1]
      <3>1. n + 1 \in Int /\ n + k \in Int
        BY <1>2
      <3>2. v = SubSeq(w, n + 1, n + k)
        BY <1>2 DEF WithoutFirst
      <3>3. QED
        BY <2>1, <3>1, <3>2, SubSeqProperties
    <2>3. (n + k) - (n + 1) + 1 = k /\ (n + 1 <= n + k <=> k # 0)
      BY <1>2
    <2>4. Len(v) = k
      BY <2>2, <2>3
    <2>5. \A i \in 1..k : (n + 1) + i - 1 = n + i
      BY <1>2
    <2>6. QED
      BY <1>2, <2>2, <2>3, <2>4, <2>5
  <1>4. DOMAIN v = 1..k
    BY <1>3, LenProperties
  <1>5. \A i \in 1..k : n + i \in 1..Len(w)
    BY <1>2
  <1>6. Range(v) \subseteq Range(w)
    <2>1. ASSUME NEW i \in 1..k  PROVE v[i] \in Range(w)
      BY <1>1, <1>3, <1>5 DEF Range
    <2>2. QED
      BY <1>4, <2>1 DEF Range
  <1>7. InOrder(v)
    <2>1. \A i, j \in 1..k : i < j => n + i < n + j
      BY <1>2
    <2>2. ASSUME NEW i \in 1..k, NEW j \in 1..k, i < j, v[i].order = v[j].order
          PROVE  Ordered(v[i], v[j])
      <3>1. n + i \in 1..Len(w) /\ n + j \in 1..Len(w) /\ n + i < n + j
        BY <1>5, <2>1, <2>2
      <3>2. v[i] = w[n + i] /\ v[j] = w[n + j]
        BY <1>3
      <3>3. QED
        BY <2>2, <3>1, <3>2 DEF InOrder, Ordered
    <2>3. QED
      BY <1>3, <2>2 DEF InOrder, Ordered
  <1>8. ASSUME NEW a \in Range(w), NEW b \in Range(v), a.order = b.order
        PROVE  a \in Range(v) \/ Ordered(a, b)
    <2>1. PICK i \in 1..Len(w) : a = w[i]
      BY <1>1 DEF Range
    <2>2. PICK j \in 1..k : b = w[n + j]
      BY <1>3, <1>4 DEF Range
    <2>3. CASE i <= n
      <3>1. i < n + j /\ n + j \in 1..Len(w)
        BY <1>2, <1>5, <2>3
      <3>2. QED
        BY <1>8, <2>1, <2>2, <3>1 DEF InOrder, Ordered
    <2>4. CASE ~(i <= n)
      <3>1. i - n \in 1..k /\ n + (i - n) = i
        BY <1>2, <2>4
      <3>2. a = v[i - n]
        BY <1>3, <2>1, <3>1
      <3>3. QED
        BY <1>4, <3>1, <3>2 DEF Range
    <2>5. QED
      BY <2>3, <2>4
  <1>9. QED
    BY <1>3, <1>6, <1>7, <1>8

(***************************************************************************)
(* The engine, and the order history service told of it.                   *)
(***************************************************************************)

\* what PlaceOrder does when the order o meets the orders C and trades n[m] with
\* each of them
Meets(o, C, n) ==
    /\ C \subseteq OrderIds /\ o \notin C /\ IsFiniteSet(C) /\ n \in [C -> Nat \ {0}]
    /\ book[o] = "unsent"
    /\ \A m \in C : book[m] = "open" /\ Order[m].side # Order[o].side /\ n[m] <= left[m]
    /\ SumFunctionOnSet(n, C) \in Nat /\ SumFunctionOnSet(n, C) <= Order[o].qty
    /\ left' = [m \in OrderIds |-> IF m = o THEN left[o] - SumFunctionOnSet(n, C)
                                   ELSE IF m \in C THEN left[m] - n[m] ELSE left[m]]
    /\ book' = [m \in OrderIds |-> IF m \in C \cup {o}
                                     THEN IF left'[m] = 0 THEN "filled" ELSE "open"
                                     ELSE book[m]]
    /\ trades' = trades \cup {[taker |-> o, maker |-> m, qty |-> n[m]] : m \in C}

\* the status of an order that traded filled of its qty as it arrived
StatusOf(filled, qty) ==
    IF filled = 0 THEN "New" ELSE IF filled = qty THEN "Filled" ELSE "PartiallyFilled"

\* A placed order meets some orders, and both readers are told what it met.
LEMMA PlaceOrderMeets ==
    ASSUME EngineInv, NEW o \in OrderIds, PlaceOrder(o)
    PROVE  \E C \in SUBSET OrderIds : \E n \in [C -> Nat \ {0}] :
              /\ Meets(o, C, n)
              /\ Tells(<<Update(o, "New", 0)>> \o Fills(o, SetToSeq(C), n),
                       [order |-> o, status |-> StatusOf(SumFunctionOnSet(n, C), Order[o].qty),
                        filled |-> SumFunctionOnSet(n, C), makers |-> SetToSeq(C)])
  <1> DEFINE Happens(C, n) ==
          /\ SumFunctionOnSet(n, C) <= Order[o].qty
          /\ \A m \in C : n[m] <= left[m]
          /\ left' = [m \in OrderIds |-> IF m = o THEN left[o] - SumFunctionOnSet(n, C)
                                         ELSE IF m \in C THEN left[m] - n[m] ELSE left[m]]
          /\ book' = [m \in OrderIds |-> IF m \in C \cup {o}
                                           THEN IF left'[m] = 0 THEN "filled" ELSE "open"
                                           ELSE book[m]]
          /\ trades' = trades \cup {[taker |-> o, maker |-> m, qty |-> n[m]] : m \in C}
          /\ Tells(<<Update(o, "New", 0)>> \o Fills(o, SetToSeq(C), n),
                   [order |-> o, status |-> StatusOf(SumFunctionOnSet(n, C), Order[o].qty),
                    filled |-> SumFunctionOnSet(n, C), makers |-> SetToSeq(C)])
  <1>0. PICK C \in SUBSET Opposite(o) :
          \E n \in [C -> 1..Order[o].qty] : Happens(C, n)
    BY DEF PlaceOrder, StatusOf
  <1>1. PICK n \in [C -> 1..Order[o].qty] : Happens(C, n)
    BY <1>0
  <1>2. Order[o].qty \in Nat \ {0} /\ IsFiniteSet(OrderIds)
    BY HistoryAssumption
  <1>3. book[o] = "unsent"
    BY DEF PlaceOrder
  <1>4. C \subseteq OrderIds /\ o \notin C /\ \A m \in C : book[m] = "open" /\ Order[m].side # Order[o].side
    BY <1>1, <1>3 DEF Opposite
  <1>5. IsFiniteSet(C)
    BY <1>2, <1>4, FS_Subset
  <1>6. n \in [C -> Nat \ {0}] /\ \A m \in C : n[m] \in Nat
    BY <1>1, <1>2
  <1>7. SumFunctionOnSet(n, C) \in Nat
    BY <1>5, <1>6, SumBounds
  <1>8. Meets(o, C, n)
    BY <1>1, <1>3, <1>4, <1>5, <1>6, <1>7 DEF Meets
  <1>9. QED
    BY <1>1, <1>4, <1>6, <1>8

\* What the engine's orders are after a placement.
LEMMA MeetsFacts ==
    ASSUME EngineInv, NEW o \in OrderIds, NEW C, NEW n, Meets(o, C, n)
    PROVE  /\ left'[o] = Order[o].qty - SumFunctionOnSet(n, C)
           /\ \A m \in C : left'[m] = left[m] - n[m] /\ left'[m] \in Nat /\ n[m] \in Nat \ {0}
           /\ book'[o] \in {"open", "filled"}
           /\ \A m \in C : book'[m] \in {"open", "filled"} /\ book[m] = "open" /\ m # o /\ m \in OrderIds
           /\ \A x \in OrderIds : x # o /\ x \notin C => book'[x] = book[x] /\ left'[x] = left[x]
           /\ SumFunctionOnSet(n, C) \in Nat /\ SumFunctionOnSet(n, C) <= Order[o].qty
           /\ Order[o].qty \in Nat \ {0}
  <1>1. Order[o].qty \in Nat \ {0}
    BY HistoryAssumption
  <1>2. book[o] = "unsent" /\ left[o] = Order[o].qty
    BY DEF EngineInv, Meets
  <1>3. \A m \in C : n[m] \in Nat \ {0} /\ n[m] <= left[m] /\ m \in OrderIds /\ m # o /\ book[m] = "open"
    BY DEF Meets
  <1>4. \A m \in OrderIds : left[m] \in Nat
    BY DEF EngineInv
  <1>5. /\ left'[o] = Order[o].qty - SumFunctionOnSet(n, C)
        /\ \A m \in C : left'[m] = left[m] - n[m]
        /\ \A x \in OrderIds : x # o /\ x \notin C => left'[x] = left[x]
    BY <1>2, <1>3 DEF Meets
  <1>6. \A m \in C : left'[m] \in Nat
    BY <1>3, <1>4, <1>5
  <1>7. /\ book'[o] \in {"open", "filled"}
        /\ \A m \in C : book'[m] \in {"open", "filled"}
        /\ \A x \in OrderIds : x # o /\ x \notin C => book'[x] = book[x]
    BY <1>3 DEF Meets
  <1>8. QED
    BY <1>1, <1>3, <1>5, <1>6, <1>7 DEF Meets

\* A placement keeps the engine's book and its trades.
LEMMA MeetsKeeps ==
    ASSUME EngineInv, \A t \in trades : TradeInv(t), NEW o \in OrderIds, NEW C, NEW n, Meets(o, C, n)
    PROVE  EngineInv' /\ \A t \in trades' : TradeInv(t)'
  <1>1. /\ left'[o] = Order[o].qty - SumFunctionOnSet(n, C)
        /\ \A m \in C : left'[m] = left[m] - n[m] /\ left'[m] \in Nat /\ n[m] \in Nat \ {0}
        /\ book'[o] \in {"open", "filled"}
        /\ \A m \in C : book'[m] \in {"open", "filled"} /\ book[m] = "open" /\ m # o /\ m \in OrderIds
        /\ \A x \in OrderIds : x # o /\ x \notin C => book'[x] = book[x] /\ left'[x] = left[x]
        /\ SumFunctionOnSet(n, C) \in Nat /\ SumFunctionOnSet(n, C) <= Order[o].qty
        /\ Order[o].qty \in Nat \ {0}
    BY MeetsFacts
  <1>2. left' \in [OrderIds -> Nat]
    <2>1. \A x \in OrderIds : left'[x] \in Nat
      <3>1. left'[o] \in Nat
        BY <1>1
      <3>2. \A x \in OrderIds : x # o /\ x \notin C => left'[x] \in Nat
        BY <1>1 DEF EngineInv
      <3>3. QED
        BY <1>1, <3>1, <3>2
    <2>2. DOMAIN left' = OrderIds /\ left' = [x \in OrderIds |-> left'[x]]
      BY DEF Meets
    <2>3. QED
      BY <2>1, <2>2
  <1>3. book' \in [OrderIds -> {"unsent", "rejected", "open", "filled", "cancelled"}]
    <2>1. book' = [x \in OrderIds |-> book'[x]]
      BY DEF Meets
    <2>2. \A x \in OrderIds : book'[x] \in {"unsent", "rejected", "open", "filled", "cancelled"}
      BY <1>1 DEF EngineInv
    <2>3. QED
      BY <2>1, <2>2
  <1>4. ASSUME NEW x \in OrderIds
        PROVE  /\ left'[x] <= Order[x].qty
               /\ book'[x] \in {"unsent", "rejected"} => left'[x] = Order[x].qty
               /\ book'[x] = "filled" <=> left'[x] = 0
    <2>0. left[x] \in Nat /\ left[x] <= Order[x].qty /\ Order[x].qty \in Nat
      BY HistoryAssumption DEF EngineInv
    <2>1. CASE x = o
      <3>1. book'[x] = IF left'[x] = 0 THEN "filled" ELSE "open"
        BY <2>1 DEF Meets
      <3>2. left'[x] <= Order[x].qty
        BY <1>1, <2>1
      <3>3. QED
        BY <3>1, <3>2
    <2>2. CASE x \in C
      <3>1. book'[x] = IF left'[x] = 0 THEN "filled" ELSE "open"
        BY <2>2 DEF Meets
      <3>2. left'[x] <= Order[x].qty
        <4>1. left'[x] = left[x] - n[x] /\ n[x] \in Nat
          BY <1>1, <2>2
        <4>2. QED
          BY <2>0, <4>1
      <3>3. QED
        BY <3>1, <3>2
    <2>3. CASE x # o /\ x \notin C
      BY <1>1, <2>3 DEF EngineInv
    <2>4. QED
      BY <2>1, <2>2, <2>3
  <1>5. EngineInv'
    BY <1>2, <1>3, <1>4 DEF EngineInv
  <1>6. ASSUME NEW x \in OrderIds, Placed(x)  PROVE Placed(x)'
    BY <1>1, <1>6 DEF Placed
  <1>7. ASSUME NEW t \in trades'  PROVE TradeInv(t)'
    <2>1. CASE t \in trades
      BY <1>6, <2>1 DEF TradeInv
    <2>2. CASE t \notin trades
      <3>1. PICK m \in C : t = [taker |-> o, maker |-> m, qty |-> n[m]]
        BY <2>2 DEF Meets
      <3>2. Placed(o)' /\ Placed(m)' /\ m \in OrderIds /\ n[m] \in Nat \ {0}
        BY <1>1, <3>1 DEF Placed
      <3>3. Order[m].side # Order[o].side
        BY <3>1 DEF Meets
      <3>4. QED
        BY <3>1, <3>2, <3>3 DEF TradeInv
    <2>3. QED
      BY <2>1, <2>2
  <1>8. QED
    BY <1>5, <1>7

\* A rejection and a cancellation keep them.
LEMMA ClosedKeeps ==
    ASSUME EngineInv, \A t \in trades : TradeInv(t), NEW o \in OrderIds,
           \/ book[o] = "unsent" /\ book' = [book EXCEPT ![o] = "rejected"]
           \/ book[o] = "open" /\ book' = [book EXCEPT ![o] = "cancelled"],
           UNCHANGED <<left, trades>>
    PROVE  EngineInv' /\ \A t \in trades' : TradeInv(t)'
  <1>1. EngineInv'
    BY DEF EngineInv
  <1>2. ASSUME NEW x \in OrderIds, Placed(x)  PROVE Placed(x)'
    BY <1>2 DEF Placed, EngineInv
  <1>3. QED
    BY <1>1, <1>2 DEF TradeInv

\* The mirror and the counters stay right as long as what the service was told,
\* and its tables, stay the same.
LEMMA MirrorsKept ==
    ASSUME ServiceMirrors, db' = db,
           \A x \in OrderIds : /\ Started(x)' <=> Started(x)
                               /\ IF Started(x) THEN Shown(x)' = Shown(x) ELSE Shown(x)' = 0
                               /\ Cancelled(x)' <=> Cancelled(x)
                               /\ Rejected(x)' <=> Rejected(x)
    PROVE  ServiceMirrors'
  <1>1. ASSUME NEW x \in OrderIds
        PROVE  IF Started(x)' THEN db'.active[x] = Mirror(x)' ELSE Shown(x)' = 0
    <2>1. Started(x) => Mirror(x)' = Mirror(x)
      BY DEF Mirror
    <2>2. Started(x) => db.active[x] = Mirror(x)
      BY DEF ServiceMirrors
    <2>3. QED
      BY <2>1, <2>2
  <1>2. ASSUME NEW u \in Users  PROVE ServiceCounts(u)'
    <2>1. /\ FilledOf(u)' = FilledOf(u) /\ CancelledOf(u)' = CancelledOf(u)
          /\ RejectedOf(u)' = RejectedOf(u) /\ StartedOf(u)' = StartedOf(u)
      BY DEF FilledOf, CancelledOf, RejectedOf, StartedOf
    <2>2. ServiceCounts(u)
      BY DEF ServiceMirrors
    <2>3. QED
      BY <2>1, <2>2 DEF ServiceCounts
  <1>3. QED
    BY <1>1, <1>2 DEF ServiceMirrors

\* A wire with one update on it.
LEMMA OneUpdate ==
    ASSUME NEW m \in Msg, m.kind = "update"
    PROVE  /\ <<m>> \in Seq(Msg) /\ InOrder(<<m>>) /\ Range(<<m>>) = {m}
           /\ \A x : Due(<<m>>, x) = 0
  <1>1. <<m>> \in Seq(Msg) /\ InOrder(<<m>>) /\ Range(<<m>>) = {m}
    BY DEF InOrder, Range
  <1>2. ASSUME NEW x  PROVE Due(<<m>>, x) = 0
    <2>1. <<m>> = Append(<<>>, m) /\ <<>> \in Seq(Msg)
      OBVIOUS
    <2>2. Due(Append(<<>>, m), x) = Due(<<>>, x) + FillOf(m, x)
      BY <2>1, DueAppend
    <2>3. Due(<<>>, x) = 0 /\ FillOf(m, x) = 0
      BY DueEmpty DEF FillOf
    <2>4. QED
      BY <2>1, <2>2, <2>3
  <1>3. QED
    BY <1>1, <1>2

\* One more update on the wire.
LEMMA WireOneMore ==
    ASSUME NEW w \in Seq(Msg), NEW m \in Msg, m.kind = "update"
    PROVE  /\ w \o <<m>> \in Seq(Msg) /\ Range(w \o <<m>>) = Range(w) \cup {m}
           /\ \A x : About(w \o <<m>>, x) <=> About(w, x) \/ x = m.order
           /\ \A x, status : Said(w \o <<m>>, x, status)
                                <=> Said(w, x, status) \/ (x = m.order /\ status = m.status)
  <1>1. <<m>> \in Seq(Msg) /\ Range(<<m>>) = {m}
    BY OneUpdate
  <1>2. \A x : About(<<m>>, x) <=> x = m.order
    BY <1>1 DEF About
  <1>3. \A x, status : Said(<<m>>, x, status) <=> x = m.order /\ status = m.status
    BY <1>1 DEF Said, Says
  <1>4. /\ w \o <<m>> \in Seq(Msg) /\ Range(w \o <<m>>) = Range(w) \cup Range(<<m>>)
        /\ \A x : About(w \o <<m>>, x) <=> About(w, x) \/ About(<<m>>, x)
        /\ \A x, status : Said(w \o <<m>>, x, status) <=> Said(w, x, status) \/ Said(<<m>>, x, status)
    BY <1>1, WireConcat
  <1>5. QED
    BY <1>1, <1>2, <1>3, <1>4

\* What is due is a natural number, and nothing is due of an order that the
\* engine has not taken.
LEMMA DueKnown ==
    ASSUME EngineInv, DbInv, ServiceInv, NEW x \in OrderIds
    PROVE  /\ Due(wire, x) \in Nat /\ left[x] \in Nat /\ Order[x].qty \in Nat \ {0}
           /\ db.active[x].filled \in Nat /\ db.history[x].filled \in Nat
           /\ book[x] \in {"unsent", "rejected"} => Due(wire, x) = 0
           /\ Due(wire, x) + db.active[x].filled <= Order[x].qty - left[x]
  <1>1. Due(wire, x) \in Nat
    BY DueNat DEF ServiceInv
  <1>2. left[x] \in Nat /\ Order[x].qty \in Nat \ {0}
    BY HistoryAssumption DEF EngineInv
  <1>3. db.active[x].filled \in Nat /\ db.history[x].filled \in Nat
    BY DEF DbInv, DbType, Row, NoRow
  <1>4. db.active[x].filled + Due(wire, x) <= Order[x].qty - left[x]
    BY DEF ServiceInv, ServiceRows
  <1>5. book[x] \in {"unsent", "rejected"} => left[x] = Order[x].qty
    BY DEF EngineInv
  <1>6. QED
    BY <1>1, <1>2, <1>3, <1>4, <1>5

\* The engine rejects an order.
LEMMA ServiceReject ==
    ASSUME EngineInv, DbInv, ServiceInv, reader = "service", NEW o \in OrderIds, RejectOrder(o)
    PROVE  ServiceInv'
  <1>1. PICK m : m = Update(o, "Rejected", 0)
    OBVIOUS
  <1>2. m \in Msg /\ m.kind = "update" /\ m.order = o /\ m.status = "Rejected"
    BY <1>1 DEF Update, Msg
  <1>3. /\ wire' = wire \o <<m>> /\ book' = [book EXCEPT ![o] = "rejected"] /\ book[o] = "unsent"
        /\ left' = left /\ db' = db /\ failures' = failures
    BY <1>1 DEF RejectOrder, Tells
  <1>4. /\ <<m>> \in Seq(Msg) /\ InOrder(<<m>>) /\ Range(<<m>>) = {m} /\ \A x : Due(<<m>>, x) = 0
    BY <1>2, OneUpdate
  <1>5. wire \in Seq(Msg) /\ InOrder(wire)
    BY DEF ServiceInv
  <1>6. /\ wire' \in Seq(Msg) /\ Range(wire') = Range(wire) \cup {m}
        /\ \A x : About(wire', x) <=> About(wire, x) \/ x = o
        /\ \A x, status : Said(wire', x, status) <=> Said(wire, x, status) \/ (x = o /\ status = "Rejected")
    BY <1>2, <1>3, <1>5, WireOneMore
  <1>7. \A a \in Range(wire) : a.order # o
    BY <1>3 DEF ServiceInv, WireInv
  <1>8. InOrder(wire')
    <2>1. \A a \in Range(wire), b \in Range(<<m>>) : a.order = b.order => Ordered(a, b)
      BY <1>2, <1>4, <1>7
    <2>2. QED
      BY <1>3, <1>4, <1>5, <2>1, InOrderConcat
  <1>9. \A x \in OrderIds : Due(wire', x) = Due(wire, x)
    <2> TAKE x \in OrderIds
    <2>1. Due(wire', x) = Due(wire, x) + Due(<<m>>, x)
      BY <1>3, <1>4, <1>5, DueConcat
    <2>2. Due(wire, x) \in Nat
      BY DueKnown
    <2>3. QED
      BY <1>4, <2>1, <2>2
  <1>10. \A x \in OrderIds : book'[x] = IF x = o THEN "rejected" ELSE book[x]
    BY <1>3 DEF EngineInv
  <1>11. ASSUME NEW x \in OrderIds  PROVE WireInv(x)'
    <2>1. WireInv(x)
      BY DEF ServiceInv
    <2>2. CASE x = o
      <3>1. \A a \in Range(wire') : a.order = o => a = m
        BY <1>6, <1>7
      <3>2. QED
        BY <1>2, <1>10, <2>2, <3>1 DEF WireInv, Says
    <2>3. CASE x # o
      BY <1>2, <1>6, <1>10, <2>1, <2>3 DEF WireInv
    <2>4. QED
      BY <2>2, <2>3
  <1>12. ASSUME NEW x \in OrderIds  PROVE ServiceRows(x)'
    <2>1. ServiceRows(x)
      BY DEF ServiceInv
    <2>2. Said(wire', x, "New") <=> Said(wire, x, "New")
      BY <1>6
    <2>3. QED
      BY <1>3, <1>9, <1>10, <2>1, <2>2 DEF ServiceRows
  <1>13. ASSUME failures' = 0  PROVE ServiceMirrors'
    <2>1. ServiceMirrors
      BY <1>3, <1>13 DEF ServiceInv
    <2>2. ASSUME NEW x \in OrderIds
          PROVE  /\ Started(x)' <=> Started(x)
                 /\ IF Started(x) THEN Shown(x)' = Shown(x) ELSE Shown(x)' = 0
                 /\ Cancelled(x)' <=> Cancelled(x)
                 /\ Rejected(x)' <=> Rejected(x)
      <3>1. Shown(x)' = Shown(x)
        BY <1>3, <1>9 DEF Shown
      <3>2. Started(x)' <=> Started(x)
        BY <1>3, <1>6, <1>10 DEF Started, Placed
      <3>3. Cancelled(x)' <=> Cancelled(x)
        BY <1>3, <1>6, <1>10 DEF Cancelled
      <3>4. Rejected(x)' <=> Rejected(x)
        BY <1>3, <1>6, <1>10 DEF Rejected
      <3>5. ~Started(x) => Shown(x) = 0
        BY <2>1 DEF ServiceMirrors
      <3>6. QED
        BY <3>1, <3>2, <3>3, <3>4, <3>5
    <2>3. QED
      BY <1>3, <2>1, <2>2, MirrorsKept
  <1>14. QED
    BY <1>6, <1>8, <1>11, <1>12, <1>13 DEF ServiceInv

\* The engine cancels an order.
LEMMA ServiceCancel ==
    ASSUME EngineInv, DbInv, ServiceInv, NEW o \in OrderIds, CancelOrder(o)
    PROVE  ServiceInv'
  <1>1. PICK m : m = Update(o, "Cancelled", 0)
    OBVIOUS
  <1>2. m \in Msg /\ m.kind = "update" /\ m.order = o /\ m.status = "Cancelled"
    BY <1>1 DEF Update, Msg
  <1>5. wire \in Seq(Msg) /\ InOrder(wire)
    BY DEF ServiceInv
  <1>3. /\ wire' = wire \o <<m>> /\ book' = [book EXCEPT ![o] = "cancelled"] /\ book[o] = "open"
        /\ left' = left /\ db' = db /\ failures' = failures
    <2>1. wire' = Append(wire, m)
      BY <1>1 DEF CancelOrder
    <2>2. QED
      BY <1>2, <1>5, <2>1, AppendIsConcat DEF CancelOrder
  <1>4. /\ <<m>> \in Seq(Msg) /\ InOrder(<<m>>) /\ Range(<<m>>) = {m} /\ \A x : Due(<<m>>, x) = 0
    BY <1>2, OneUpdate
  <1>6. /\ wire' \in Seq(Msg) /\ Range(wire') = Range(wire) \cup {m}
        /\ \A x : About(wire', x) <=> About(wire, x) \/ x = o
        /\ \A x, status : Said(wire', x, status) <=> Said(wire, x, status) \/ (x = o /\ status = "Cancelled")
    BY <1>2, <1>3, <1>5, WireOneMore
  <1>7. \A a \in Range(wire) : a.order = o => ~Says(a, "Cancelled") /\ ~Says(a, "Rejected")
    BY <1>3 DEF ServiceInv, WireInv
  <1>8. InOrder(wire')
    <2>1. \A a \in Range(wire), b \in Range(<<m>>) : a.order = b.order => Ordered(a, b)
      BY <1>2, <1>4, <1>7 DEF Ordered, Says
    <2>2. QED
      BY <1>3, <1>4, <1>5, <2>1, InOrderConcat
  <1>9. \A x \in OrderIds : Due(wire', x) = Due(wire, x)
    <2> TAKE x \in OrderIds
    <2>1. Due(wire', x) = Due(wire, x) + Due(<<m>>, x)
      BY <1>3, <1>4, <1>5, DueConcat
    <2>2. Due(wire, x) \in Nat
      BY DueKnown
    <2>3. QED
      BY <1>4, <2>1, <2>2
  <1>10. \A x \in OrderIds : book'[x] = IF x = o THEN "cancelled" ELSE book[x]
    BY <1>3 DEF EngineInv
  <1>11. ASSUME NEW x \in OrderIds  PROVE WireInv(x)'
    <2>1. WireInv(x)
      BY DEF ServiceInv
    <2>2. CASE x = o
      <3>1. \A a \in Range(wire') : a.order = o => ~Says(a, "Rejected")
        BY <1>2, <1>6, <1>7 DEF Says
      <3>2. QED
        BY <1>6, <1>10, <2>2, <3>1 DEF WireInv
    <2>3. CASE x # o
      BY <1>2, <1>6, <1>10, <2>1, <2>3 DEF WireInv
    <2>4. QED
      BY <2>2, <2>3
  <1>12. ASSUME NEW x \in OrderIds  PROVE ServiceRows(x)'
    <2>1. ServiceRows(x)
      BY DEF ServiceInv
    <2>2. Said(wire', x, "New") <=> Said(wire, x, "New")
      BY <1>6
    <2>3. QED
      BY <1>3, <1>9, <1>10, <2>1, <2>2 DEF ServiceRows
  <1>13. ASSUME failures' = 0  PROVE ServiceMirrors'
    <2>1. ServiceMirrors
      BY <1>3, <1>13 DEF ServiceInv
    <2>2. ASSUME NEW x \in OrderIds
          PROVE  /\ Started(x)' <=> Started(x)
                 /\ IF Started(x) THEN Shown(x)' = Shown(x) ELSE Shown(x)' = 0
                 /\ Cancelled(x)' <=> Cancelled(x)
                 /\ Rejected(x)' <=> Rejected(x)
      <3>1. Shown(x)' = Shown(x)
        BY <1>3, <1>9 DEF Shown
      <3>2. Started(x)' <=> Started(x)
        BY <1>3, <1>6, <1>10 DEF Started, Placed
      <3>3. Cancelled(x)' <=> Cancelled(x)
        BY <1>3, <1>6, <1>10 DEF Cancelled
      <3>4. Rejected(x)' <=> Rejected(x)
        BY <1>3, <1>6, <1>10 DEF Rejected
      <3>5. ~Started(x) => Shown(x) = 0
        BY <2>1 DEF ServiceMirrors
      <3>6. QED
        BY <3>1, <3>2, <3>3, <3>4, <3>5
    <2>3. QED
      BY <1>3, <2>1, <2>2, MirrorsKept
  <1>14. QED
    BY <1>6, <1>8, <1>11, <1>12, <1>13 DEF ServiceInv

\* what the engine tells the order history service of a placed order
Announced(o, C, n) == <<Update(o, "New", 0)>> \o Fills(o, SetToSeq(C), n)

\* What the engine says of a placed order: New, and then fills.
LEMMA PlacedMessages ==
    ASSUME NEW o \in OrderIds, NEW C \in SUBSET OrderIds, o \notin C, IsFiniteSet(C),
           NEW n \in [C -> Nat \ {0}],
           NEW c, c = Announced(o, C, n)
    PROVE  /\ c \in Seq(Msg) /\ InOrder(c)
           /\ \A b \in Range(c) : b.order \in C \cup {o}
           /\ \A b \in Range(c) : b.kind = "fill" \/ (b.order = o /\ b.status = "New")
           /\ Said(c, o, "New")
           /\ Due(c, o) = SumFunctionOnSet(n, C)
           /\ \A x \in OrderIds : x # o => Due(c, x) = IF x \in C THEN n[x] ELSE 0
  <1>1. PICK m : m = Update(o, "New", 0)
    OBVIOUS
  <1>2. m \in Msg /\ m.kind = "update" /\ m.order = o /\ m.status = "New"
    BY <1>1 DEF Update, Msg
  <1>3. /\ <<m>> \in Seq(Msg) /\ InOrder(<<m>>) /\ Range(<<m>>) = {m} /\ \A x : Due(<<m>>, x) = 0
    BY <1>2, OneUpdate
  <1>4. PICK f : f = Fills(o, SetToSeq(C), n)
    OBVIOUS
  <1>5. /\ f \in Seq(Msg)
        /\ \A y \in Range(f) : y.kind = "fill" /\ y.order \in C \cup {o}
        /\ Due(f, o) = SumFunctionOnSet(n, C)
        /\ \A x \in OrderIds : x # o => Due(f, x) = IF x \in C THEN n[x] ELSE 0
    BY <1>4, FillsDue
  <1>6a. PICK s : s = <<m>>
    OBVIOUS
  <1>6. c = s \o f /\ s \in Seq(Msg) /\ InOrder(s) /\ Range(s) = {m} /\ \A x : Due(s, x) = 0
    BY <1>1, <1>3, <1>4, <1>6a DEF Announced
  <1>7. c \in Seq(Msg) /\ Range(c) = {m} \cup Range(f)
    BY <1>5, <1>6, WireConcat
  <1>8. InOrder(f)
    <2>1. \A i \in 1..Len(f) : f[i].kind = "fill"
      BY <1>5, LenProperties DEF Range
    <2>2. QED
      BY <2>1 DEF InOrder, Says
  <1>9. InOrder(c)
    <2>1. \A a \in Range(s), b \in Range(f) : a.order = b.order => Ordered(a, b)
      BY <1>2, <1>5, <1>6 DEF Ordered, Says
    <2>2. QED
      BY <1>5, <1>6, <1>8, <2>1, InOrderConcat
  <1>10. Said(c, o, "New")
    BY <1>2, <1>7 DEF Said, Says
  <1>11. ASSUME NEW x \in OrderIds  PROVE Due(c, x) = Due(f, x)
    <2>1. Due(c, x) = Due(s, x) + Due(f, x)
      BY <1>5, <1>6, DueConcat
    <2>2. Due(f, x) \in Nat
      BY <1>5, DueNat
    <2>3. QED
      BY <1>6, <2>1, <2>2
  <1>12. QED
    BY <1>2, <1>5, <1>7, <1>9, <1>10, <1>11

\* The engine places an order.
LEMMA ServicePlace ==
    ASSUME EngineInv, DbInv, ServiceInv, reader = "service", NEW o \in OrderIds, PlaceOrder(o)
    PROVE  ServiceInv'
  <1>1. PICK C \in SUBSET OrderIds : \E n \in [C -> Nat \ {0}] :
              /\ Meets(o, C, n)
              /\ Tells(<<Update(o, "New", 0)>> \o Fills(o, SetToSeq(C), n),
                       [order |-> o, status |-> StatusOf(SumFunctionOnSet(n, C), Order[o].qty),
                        filled |-> SumFunctionOnSet(n, C), makers |-> SetToSeq(C)])
    BY PlaceOrderMeets
  <1>2. PICK n \in [C -> Nat \ {0}] :
              /\ Meets(o, C, n)
              /\ Tells(<<Update(o, "New", 0)>> \o Fills(o, SetToSeq(C), n),
                       [order |-> o, status |-> StatusOf(SumFunctionOnSet(n, C), Order[o].qty),
                        filled |-> SumFunctionOnSet(n, C), makers |-> SetToSeq(C)])
    BY <1>1
  <1>3. PICK c : c = Announced(o, C, n)
    OBVIOUS
  <1>4. wire' = wire \o c /\ db' = db /\ failures' = failures
    BY <1>2, <1>3 DEF Tells, PlaceOrder, Announced
  <1>5. o \notin C /\ IsFiniteSet(C) /\ book[o] = "unsent"
    BY <1>2 DEF Meets
  <1>6. /\ c \in Seq(Msg) /\ InOrder(c)
        /\ \A b \in Range(c) : b.order \in C \cup {o}
        /\ \A b \in Range(c) : b.kind = "fill" \/ (b.order = o /\ b.status = "New")
        /\ Said(c, o, "New")
        /\ Due(c, o) = SumFunctionOnSet(n, C)
        /\ \A x \in OrderIds : x # o => Due(c, x) = IF x \in C THEN n[x] ELSE 0
    BY <1>3, <1>5, PlacedMessages
  <1>7. wire \in Seq(Msg) /\ InOrder(wire)
    BY DEF ServiceInv
  <1>8. /\ wire' \in Seq(Msg) /\ Range(wire') = Range(wire) \cup Range(c)
        /\ \A x : About(wire', x) <=> About(wire, x) \/ About(c, x)
        /\ \A x, status : Said(wire', x, status) <=> Said(wire, x, status) \/ Said(c, x, status)
    BY <1>4, <1>6, <1>7, WireConcat
  <1>9. /\ left'[o] = Order[o].qty - SumFunctionOnSet(n, C)
        /\ \A m \in C : left'[m] = left[m] - n[m] /\ left'[m] \in Nat /\ n[m] \in Nat \ {0}
        /\ book'[o] \in {"open", "filled"}
        /\ \A m \in C : book'[m] \in {"open", "filled"} /\ book[m] = "open" /\ m # o /\ m \in OrderIds
        /\ \A x \in OrderIds : x # o /\ x \notin C => book'[x] = book[x] /\ left'[x] = left[x]
        /\ SumFunctionOnSet(n, C) \in Nat /\ SumFunctionOnSet(n, C) <= Order[o].qty
        /\ Order[o].qty \in Nat \ {0}
    BY <1>2, MeetsFacts
  <1>10. \A a \in Range(wire) : a.order # o
    BY <1>5 DEF ServiceInv, WireInv
  <1>11. \A x, status : Said(c, x, status) => x = o /\ status = "New"
    BY <1>6 DEF Said, Says
  <1>12. \A x : About(c, x) => x \in C \cup {o}
    BY <1>6 DEF About
  <1>13. InOrder(wire')
    <2>1. ASSUME NEW a \in Range(wire), NEW b \in Range(c), a.order = b.order
          PROVE  Ordered(a, b)
      <3>1. a.order \in C /\ b.kind = "fill"
        BY <1>6, <1>10, <2>1
      <3>2. book[a.order] = "open" /\ a.order \in OrderIds
        BY <1>9, <3>1
      <3>3. ~Says(a, "Cancelled") /\ ~Says(a, "Rejected")
        BY <3>2 DEF ServiceInv, WireInv
      <3>4. ~Says(b, "New") /\ ~Says(b, "Rejected")
        BY <3>1 DEF Says
      <3>5. QED
        BY <3>3, <3>4 DEF Ordered
    <2>2. QED
      BY <1>4, <1>6, <1>7, <2>1, InOrderConcat
  <1>14. ASSUME NEW x \in OrderIds  PROVE WireInv(x)'
    <2>1. WireInv(x)
      BY DEF ServiceInv
    <2>2. CASE x \in C \cup {o}
      <3>1. book'[x] \in {"open", "filled"}
        BY <1>9, <2>2
      <3>2. \A a \in Range(wire') : a.order = x => ~Says(a, "Rejected") /\ ~Says(a, "Cancelled")
        <4> TAKE a \in Range(wire')
        <4>1. CASE a \in Range(c)
          BY <1>6, <4>1 DEF Says
        <4>2. CASE a \in Range(wire) /\ a.order = x
          <5>1. x # o /\ book[x] = "open"
            BY <1>9, <1>10, <2>2, <4>2
          <5>2. QED
            BY <2>1, <4>2, <5>1 DEF WireInv
        <4>3. QED
          BY <1>8, <4>1, <4>2
      <3>3. QED
        BY <3>1, <3>2 DEF WireInv
    <2>3. CASE x \notin C \cup {o}
      <3>1. book'[x] = book[x] /\ \A a \in Range(wire') : a.order = x => a \in Range(wire)
        BY <1>6, <1>8, <1>9, <2>3
      <3>2. About(wire', x) => About(wire, x)
        BY <1>8, <1>12, <2>3
      <3>3. Said(wire, x, "Cancelled") => Said(wire', x, "Cancelled")
        BY <1>8
      <3>4. QED
        BY <2>1, <3>1, <3>2, <3>3 DEF WireInv
    <2>4. QED
      BY <2>2, <2>3
  <1>15. \A x \in OrderIds : /\ Due(wire', x) = Due(wire, x) + Due(c, x) /\ Due(wire, x) \in Nat
                             /\ Due(c, x) \in Nat /\ left[x] \in Nat /\ Order[x].qty \in Nat
    BY <1>4, <1>6, <1>7, DueConcat, DueKnown, DueNat
  <1>16. \A x \in OrderIds : x # o => /\ left'[x] = left[x] - Due(c, x)
                                      /\ Order[x].qty - left'[x] = (Order[x].qty - left[x]) + Due(c, x)
                                      /\ Due(wire', x) = Due(wire, x) + Due(c, x)
    <2> TAKE x \in OrderIds
    <2>1. x # o => left'[x] = left[x] - Due(c, x)
      BY <1>6, <1>9, <1>15
    <2>2. QED
      BY <1>15, <2>1
  <1>17. ASSUME NEW x \in OrderIds  PROVE ServiceRows(x)'
    <2>1. ServiceRows(x)
      BY DEF ServiceInv
    <2>2. CASE x = o
      <3>1. db.active[o] = NoRow /\ db.history[o] = NoRow
        BY <1>5, <2>1, <2>2 DEF ServiceRows
      <3>2. Due(wire, o) = 0
        BY <1>5, DueKnown
      <3>3. Due(wire', o) = SumFunctionOnSet(n, C) /\ Order[o].qty - left'[o] = SumFunctionOnSet(n, C)
        BY <1>6, <1>9, <1>15, <3>2
      <3>4. QED
        BY <1>4, <1>9, <2>2, <3>1, <3>3 DEF ServiceRows, NoRow
    <2>3. CASE x # o
      <3>1. Said(wire', x, "New") <=> Said(wire, x, "New")
        BY <1>8, <1>11, <2>3
      <3>2. book'[x] = "unsent" <=> book[x] = "unsent"
        BY <1>9, <2>3
      <3>3. book'[x] = "rejected" <=> book[x] = "rejected"
        BY <1>9, <2>3
      <3>4. /\ db'.active[x].filled + Due(wire', x) <= Order[x].qty - left'[x]
            /\ db'.history[x].filled <= Order[x].qty - left'[x]
        <4>1. db.active[x].filled \in Nat /\ db.history[x].filled \in Nat
          BY DueKnown
        <4>2. db.active[x].filled + Due(wire, x) <= Order[x].qty - left[x]
              /\ db.history[x].filled <= Order[x].qty - left[x]
          BY <2>1 DEF ServiceRows
        <4>3. /\ Order[x].qty - left'[x] = (Order[x].qty - left[x]) + Due(c, x)
              /\ Due(wire', x) = Due(wire, x) + Due(c, x)
              /\ Due(wire, x) \in Nat /\ Due(c, x) \in Nat /\ left[x] \in Nat /\ Order[x].qty \in Nat
          BY <1>15, <1>16, <2>3
        <4>4. /\ db.active[x].filled + (Due(wire, x) + Due(c, x)) <= (Order[x].qty - left[x]) + Due(c, x)
              /\ db.history[x].filled <= (Order[x].qty - left[x]) + Due(c, x)
          BY <4>1, <4>2, <4>3
        <4>5. QED
          BY <1>4, <4>3, <4>4
      <3>5. QED
        BY <1>4, <2>1, <3>1, <3>2, <3>3, <3>4 DEF ServiceRows
    <2>4. QED
      BY <2>2, <2>3
  <1>18. ASSUME failures' = 0  PROVE ServiceMirrors'
    <2>1. ServiceMirrors
      BY <1>4, <1>18 DEF ServiceInv
    <2>2. ASSUME NEW x \in OrderIds
          PROVE  /\ Started(x)' <=> Started(x)
                 /\ IF Started(x) THEN Shown(x)' = Shown(x) ELSE Shown(x)' = 0
                 /\ Cancelled(x)' <=> Cancelled(x)
                 /\ Rejected(x)' <=> Rejected(x)
      <3>1. Cancelled(x)' <=> Cancelled(x)
        BY <1>5, <1>8, <1>9, <1>11 DEF Cancelled
      <3>2. Rejected(x)' <=> Rejected(x)
        BY <1>5, <1>8, <1>9, <1>11 DEF Rejected
      <3>3. Started(x)' <=> Started(x)
        <4>1. CASE x = o
          BY <1>5, <1>6, <1>8, <4>1 DEF Started, Placed
        <4>2. CASE x # o
          BY <1>8, <1>9, <1>11, <4>2 DEF Started, Placed
        <4>3. QED
          BY <4>1, <4>2
      <3>4. IF Started(x) THEN Shown(x)' = Shown(x) ELSE Shown(x)' = 0
        <4>1. CASE x = o
          <5>1. ~Started(x)
            BY <1>5, <4>1 DEF Started, Placed
          <5>2. Due(wire, o) = 0
            BY <1>5, DueKnown
          <5>3. Due(wire', o) = SumFunctionOnSet(n, C) /\ Order[o].qty - left'[o] = SumFunctionOnSet(n, C)
            BY <1>6, <1>9, <1>15, <5>2
          <5>4. Shown(x)' = 0
            BY <1>9, <4>1, <5>3 DEF Shown
          <5>5. QED
            BY <5>1, <5>4
        <4>2. CASE x # o
          <5>1. Shown(x)' = Shown(x)
            BY <1>15, <1>16, <4>2 DEF Shown
          <5>2. ~Started(x) => Shown(x) = 0
            BY <2>1 DEF ServiceMirrors
          <5>3. QED
            BY <5>1, <5>2
        <4>3. QED
          BY <4>1, <4>2
      <3>5. QED
        BY <3>1, <3>2, <3>3, <3>4
    <2>3. QED
      BY <1>4, <2>1, <2>2, MirrorsKept
  <1>19. QED
    BY <1>8, <1>13, <1>14, <1>17, <1>18 DEF ServiceInv

\* The service restarts and loses what its socket had taken in.
LEMMA ServiceRestart ==
    ASSUME EngineInv, DbInv, ServiceInv, failures \in Nat, ServiceRestarts
    PROVE  ServiceInv'
  <1>1. PICK n \in 0..Len(wire) : wire' = SubSeq(wire, n + 1, Len(wire))
    BY DEF ServiceRestarts
  <1>2. failures' # 0 /\ db' = db /\ book' = book /\ left' = left
    BY DEF ServiceRestarts, Fails, engineVars
  <1>3. wire \in Seq(Msg) /\ InOrder(wire)
    BY DEF ServiceInv
  <1>4. /\ wire' \in Seq(Msg) /\ InOrder(wire') /\ Range(wire') \subseteq Range(wire)
        /\ \A a \in Range(wire), b \in Range(wire') :
              a.order = b.order => a \in Range(wire') \/ Ordered(a, b)
    <2>1. PICK v : v = WithoutFirst(wire, n)
      OBVIOUS
    <2>2. /\ v \in Seq(Msg) /\ InOrder(v) /\ Range(v) \subseteq Range(wire)
          /\ \A a \in Range(wire), b \in Range(v) : a.order = b.order => a \in Range(v) \/ Ordered(a, b)
      BY <1>3, <2>1, WireSuffix
    <2>3. wire' = v
      BY <1>1, <2>1 DEF WithoutFirst
    <2>4. QED
      BY <2>2, <2>3
  <1>5. ASSUME NEW x \in OrderIds  PROVE WireInv(x)'
    <2>1. WireInv(x)
      BY DEF ServiceInv
    <2>2. About(wire', x) => About(wire, x)
      BY <1>4 DEF About
    <2>3. About(wire', x) /\ Said(wire, x, "Cancelled") => Said(wire', x, "Cancelled")
      BY <1>4 DEF About, Said, Ordered
    <2>4. QED
      BY <1>2, <1>4, <2>1, <2>2, <2>3 DEF WireInv
  <1>6. ASSUME NEW x \in OrderIds  PROVE ServiceRows(x)'
    <2>1. ServiceRows(x)
      BY DEF ServiceInv
    <2>2. Said(wire', x, "New") => Said(wire, x, "New")
      BY <1>4 DEF Said
    <2>3. Due(wire', x) <= Due(wire, x) /\ Due(wire', x) \in Nat
      BY <1>1, <1>3, <1>4, DueSuffix, DueNat
    <2>4. db'.active[x].filled + Due(wire', x) <= Order[x].qty - left'[x]
      <3>1. /\ Due(wire, x) \in Nat /\ left[x] \in Nat /\ Order[x].qty \in Nat
            /\ db.active[x].filled \in Nat
            /\ Due(wire, x) + db.active[x].filled <= Order[x].qty - left[x]
        BY DueKnown
      <3>2. QED
        BY SMTT(30), <1>2, <2>3, <3>1
    <2>5. QED
      BY <1>2, <2>1, <2>2, <2>4 DEF ServiceRows
  <1>7. QED
    BY <1>2, <1>4, <1>5, <1>6 DEF ServiceInv

(***************************************************************************)
(* The service handles a message.                                          *)
(***************************************************************************)

\* the row of active_orders after the update u, and its counters
RowAfter(u) == IF u.status \in {"New", "PartiallyFilled"} THEN RowOf(u)
               ELSE IF u.status \in {"Filled", "Cancelled"} THEN NoRow ELSE db.active[u.order]
StatsAfter(u) ==
    LET s == db.stats[Order[u.order].user]
    IN  IF u.status = "New" THEN WithCounted(init_user_statistics(s), "New")
        ELSE IF u.status = "PartiallyFilled" THEN s ELSE WithCounted(s, u.status)

\* what process_order_update does, whichever statement fails
Outcome(u) ==
    /\ db' \in DbType
    /\ \A x \in OrderIds : x # u.order => db'.active[x] = db.active[x] /\ db'.history[x] = db.history[x]
    /\ \A v \in Users : v # Order[u.order].user => db'.stats[v] = db.stats[v]
    /\ \/ db'.active[u.order] = db.active[u.order] /\ db'.history[u.order] = db.history[u.order]
       \/ db'.active[u.order] = RowAfter(u) /\ db'.history[u.order] \in {db.history[u.order], RowOf(u)}
    /\ failures' = 0 => /\ failures = 0 /\ db'.active[u.order] = RowAfter(u)
                        /\ db'.stats[Order[u.order].user] = StatsAfter(u)

\* The statements of an update come in an order that never puts order_history
\* ahead.
LEMMA UpdateOutcome ==
    ASSUME db \in DbType, failures \in Nat, NEW u, u.order \in OrderIds, u.filled \in Nat,
           u.status \in {"New", "PartiallyFilled", "Filled", "Cancelled", "Rejected"},
           process_order_update(u)
    PROVE  Outcome(u)
  <1>1. RowOf(u) \in Row
    BY DEF RowOf, Row, Status, Closed
  <1>2. PICK n \in 0..Len(Steps(u.status)) :
           /\ db' = Perform(db, Made(u.status, n), u)
           /\ failures' = 0 => failures = 0 /\ n = Len(Steps(u.status))
    <2>1. Len(Steps(u.status)) \in Nat
      BY DEF Steps
    <2>2. PICK k : k = Len(Steps(u.status))
      OBVIOUS
    <2>3. \/ failures' = failures /\ db' = Perform(db, Made(u.status, k), u)
          \/ failures' = failures + 1 /\ \E n \in 0..(k - 1) : db' = Perform(db, Made(u.status, n), u)
      BY <2>2 DEF process_order_update, Works, Fails, Made
    <2>4. k \in 0..k /\ \A n \in 0..(k - 1) : n \in 0..k
      BY <2>1, <2>2
    <2>5. failures + 1 # 0
      OBVIOUS
    <2>6. QED
      BY <2>2, <2>3, <2>4, <2>5
  <1>3. PICK S : S = Made(u.status, n)
    OBVIOUS
  <1>4. /\ "upsert" \in S => u.status \in {"New", "PartiallyFilled"}
        /\ "delete" \in S => u.status \in {"Filled", "Cancelled"}
        /\ "history" \in S /\ u.status # "Rejected" => "upsert" \in S \/ "delete" \in S
        /\ n = Len(Steps(u.status)) =>
              /\ "history" \in S
              /\ "upsert" \in S <=> u.status \in {"New", "PartiallyFilled"}
              /\ "delete" \in S <=> u.status \in {"Filled", "Cancelled"}
              /\ "init" \in S <=> u.status = "New"
              /\ "stats" \in S <=> u.status # "PartiallyFilled"
    BY <1>3, StepsOrder
  <1>5. PICK who : who = Order[u.order].user
    OBVIOUS
  <1>6. /\ db' \in DbType /\ who \in Users
        /\ \A o \in OrderIds : o # u.order => db'.active[o] = db.active[o] /\ db'.history[o] = db.history[o]
        /\ db'.active[u.order] = IF "upsert" \in S THEN RowOf(u)
                               ELSE IF "delete" \in S THEN NoRow ELSE db.active[u.order]
        /\ db'.history[u.order] = IF "history" \in S THEN RowOf(u) ELSE db.history[u.order]
        /\ \A v \in Users : v # who => db'.stats[v] = db.stats[v]
        /\ "init" \notin S /\ "stats" \notin S => db'.stats[who] = db.stats[who]
        /\ "init" \in S /\ "stats" \notin S => db'.stats[who] = init_user_statistics(db.stats[who])
        /\ "init" \notin S /\ "stats" \in S => db'.stats[who] = WithCounted(db.stats[who], u.status)
        /\ "init" \in S /\ "stats" \in S =>
              db'.stats[who] = WithCounted(init_user_statistics(db.stats[who]), u.status)
    BY <1>1, <1>2, <1>3, <1>5, PerformFacts
  <1>7. \/ db'.active[u.order] = db.active[u.order] /\ db'.history[u.order] = db.history[u.order]
        \/ db'.active[u.order] = RowAfter(u) /\ db'.history[u.order] \in {db.history[u.order], RowOf(u)}
    BY <1>4, <1>6 DEF RowAfter
  <1>8. failures' = 0 => /\ failures = 0 /\ db'.active[u.order] = RowAfter(u)
                         /\ db'.stats[who] = StatsAfter(u)
    BY <1>2, <1>4, <1>5, <1>6 DEF RowAfter, StatsAfter
  <1>9. QED
    BY <1>5, <1>6, <1>7, <1>8 DEF Outcome

\* order_history stays behind, given what the update says.
LEMMA OutcomeKeepsDb ==
    ASSUME DbInv, NEW u, u.order \in OrderIds, u.filled \in Nat, Outcome(u),
           u.status \in {"New", "PartiallyFilled", "Filled", "Cancelled", "Rejected"},
           u.status \in {"New", "PartiallyFilled"} =>
              /\ db.history[u.order].status \notin Closed
              /\ db.history[u.order].filled <= u.filled,
           u.status = "Rejected" => db.active[u.order] = NoRow
    PROVE  DbInv'
  <1>1. ASSUME NEW x \in OrderIds, db'.active[x] # NoRow
        PROVE  db'.history[x].status \notin Closed /\ db'.history[x].filled <= db'.active[x].filled
    <2>1. CASE x # u.order
      BY <1>1, <2>1 DEF Outcome, DbInv
    <2>2. CASE x = u.order
      <3>1. CASE db'.active[x] = db.active[x] /\ db'.history[x] = db.history[x]
        BY <1>1, <3>1 DEF DbInv
      <3>2. CASE db'.active[x] = RowAfter(u) /\ db'.history[x] \in {db.history[x], RowOf(u)}
        <4>1. u.status \in {"New", "PartiallyFilled"} /\ db'.active[x] = RowOf(u)
          BY <1>1, <2>2, <3>2 DEF RowAfter
        <4>2. QED
          BY <2>2, <3>2, <4>1 DEF RowOf, Closed
      <3>3. QED
        BY <2>2, <3>1, <3>2 DEF Outcome
    <2>3. QED
      BY <2>1, <2>2
  <1>2. QED
    BY <1>1 DEF DbInv, Outcome

\* A set of orders that changes at one of them at most.
LEMMA GrowsByOne ==
    ASSUME NEW A \in SUBSET OrderIds, NEW B \in SUBSET OrderIds, NEW o \in OrderIds,
           \A x \in OrderIds : x # o => (x \in A <=> x \in B), o \in A => o \in B
    PROVE  /\ Cardinality(B) = Cardinality(A) + (IF o \in B /\ o \notin A THEN 1 ELSE 0)
           /\ Cardinality(A) \in Nat
  <1>1. IsFiniteSet(A)
    BY HistoryAssumption, FS_Subset
  <1>2. Cardinality(A) \in Nat
    BY <1>1, FS_CardinalityType
  <1>3. CASE o \in B /\ o \notin A
    <2>1. B = A \cup {o}
      BY <1>3
    <2>2. QED
      BY <1>1, <1>2, <1>3, <2>1, FS_AddElement
  <1>4. CASE ~(o \in B /\ o \notin A)
    <2>1. B = A
      BY <1>4
    <2>2. QED
      BY <1>2, <1>4, <2>1
  <1>5. QED
    BY <1>2, <1>3, <1>4

\* the order is one that the service has seen filled
SeenFilled(x) == Started(x) /\ Shown(x) = Order[x].qty

\* The mirror and the counters after a message about one order.
LEMMA MirrorsChange ==
    ASSUME ServiceMirrors, NEW o \in OrderIds, db \in DbType, db' \in DbType,
           \A x \in OrderIds : x # o => /\ Started(x)' <=> Started(x)
                                        /\ Shown(x)' = Shown(x)
                                        /\ Cancelled(x)' <=> Cancelled(x)
                                        /\ Rejected(x)' <=> Rejected(x)
                                        /\ db'.active[x] = db.active[x],
           \A v \in Users : v # Order[o].user => db'.stats[v] = db.stats[v],
           IF Started(o)' THEN db'.active[o] = Mirror(o)' ELSE Shown(o)' = 0,
           Started(o) => Started(o)', SeenFilled(o) => SeenFilled(o)',
           Cancelled(o) => Cancelled(o)', Rejected(o) => Rejected(o)',
           NEW s, s = OwnStats(db.stats[Order[o].user]),
           NEW t, t = OwnStats(db'.stats[Order[o].user]),
           t.filled = s.filled + (IF SeenFilled(o)' /\ ~SeenFilled(o) THEN 1 ELSE 0),
           t.cancelled = s.cancelled + (IF Cancelled(o)' /\ ~Cancelled(o) THEN 1 ELSE 0),
           t.rejected = s.rejected + (IF Rejected(o)' /\ ~Rejected(o) THEN 1 ELSE 0),
           \/ t.total = s.total + (IF Started(o)' /\ ~Started(o) THEN 1 ELSE 0)
           \/ db.stats[Order[o].user] = NoStats /\ t.total = 2 /\ Started(o)' /\ ~Started(o)
    PROVE  ServiceMirrors'
  <1>1. ASSUME NEW x \in OrderIds
        PROVE  IF Started(x)' THEN db'.active[x] = Mirror(x)' ELSE Shown(x)' = 0
    <2>1. CASE x = o
      BY <2>1
    <2>2. CASE x # o
      <3>1. Mirror(x)' = Mirror(x)
        BY <2>2 DEF Mirror
      <3>2. IF Started(x) THEN db.active[x] = Mirror(x) ELSE Shown(x) = 0
        BY DEF ServiceMirrors
      <3>3. QED
        BY <2>2, <3>1, <3>2
    <2>3. QED
      BY <2>1, <2>2
  <1>2. ASSUME NEW u \in Users  PROVE ServiceCounts(u)'
    <2>1. /\ Cardinality(FilledOf(u)') = Cardinality(FilledOf(u))
                + (IF u = Order[o].user /\ SeenFilled(o)' /\ ~SeenFilled(o) THEN 1 ELSE 0)
          /\ Cardinality(FilledOf(u)) \in Nat
      <3>1. FilledOf(u) \in SUBSET OrderIds /\ FilledOf(u)' \in SUBSET OrderIds
        BY DEF FilledOf
      <3>2. \A x \in OrderIds : x # o => (x \in FilledOf(u) <=> x \in FilledOf(u)')
        BY DEF FilledOf
      <3>3. /\ o \in FilledOf(u) <=> u = Order[o].user /\ SeenFilled(o)
            /\ o \in FilledOf(u)' <=> u = Order[o].user /\ SeenFilled(o)'
        BY DEF FilledOf, SeenFilled
      <3>4. QED
        BY <3>1, <3>2, <3>3, GrowsByOne
    <2>2. /\ Cardinality(CancelledOf(u)') = Cardinality(CancelledOf(u))
                + (IF u = Order[o].user /\ Cancelled(o)' /\ ~Cancelled(o) THEN 1 ELSE 0)
          /\ Cardinality(CancelledOf(u)) \in Nat
      <3>1. CancelledOf(u) \in SUBSET OrderIds /\ CancelledOf(u)' \in SUBSET OrderIds
        BY DEF CancelledOf
      <3>2. \A x \in OrderIds : x # o => (x \in CancelledOf(u) <=> x \in CancelledOf(u)')
        BY DEF CancelledOf
      <3>3. /\ o \in CancelledOf(u) <=> u = Order[o].user /\ Cancelled(o)
            /\ o \in CancelledOf(u)' <=> u = Order[o].user /\ Cancelled(o)'
        BY DEF CancelledOf
      <3>4. QED
        BY <3>1, <3>2, <3>3, GrowsByOne
    <2>3. /\ Cardinality(RejectedOf(u)') = Cardinality(RejectedOf(u))
                + (IF u = Order[o].user /\ Rejected(o)' /\ ~Rejected(o) THEN 1 ELSE 0)
          /\ Cardinality(RejectedOf(u)) \in Nat
      <3>1. RejectedOf(u) \in SUBSET OrderIds /\ RejectedOf(u)' \in SUBSET OrderIds
        BY DEF RejectedOf
      <3>2. \A x \in OrderIds : x # o => (x \in RejectedOf(u) <=> x \in RejectedOf(u)')
        BY DEF RejectedOf
      <3>3. /\ o \in RejectedOf(u) <=> u = Order[o].user /\ Rejected(o)
            /\ o \in RejectedOf(u)' <=> u = Order[o].user /\ Rejected(o)'
        BY DEF RejectedOf
      <3>4. QED
        BY <3>1, <3>2, <3>3, GrowsByOne
    <2>4. /\ Cardinality(StartedOf(u)') = Cardinality(StartedOf(u))
                + (IF u = Order[o].user /\ Started(o)' /\ ~Started(o) THEN 1 ELSE 0)
          /\ Cardinality(StartedOf(u)) \in Nat
      <3>1. StartedOf(u) \in SUBSET OrderIds /\ StartedOf(u)' \in SUBSET OrderIds
        BY DEF StartedOf
      <3>2. \A x \in OrderIds : x # o => (x \in StartedOf(u) <=> x \in StartedOf(u)')
        BY DEF StartedOf
      <3>3. /\ o \in StartedOf(u) <=> u = Order[o].user /\ Started(o)
            /\ o \in StartedOf(u)' <=> u = Order[o].user /\ Started(o)'
        BY DEF StartedOf
      <3>4. QED
        BY <3>1, <3>2, <3>3, GrowsByOne
    <2>5. ServiceCounts(u)
      BY DEF ServiceMirrors
    <2>6. CASE u # Order[o].user
      <3>1. db'.stats[u] = db.stats[u]
        BY <2>6
      <3>2. /\ Cardinality(FilledOf(u)') = Cardinality(FilledOf(u))
            /\ Cardinality(CancelledOf(u)') = Cardinality(CancelledOf(u))
            /\ Cardinality(RejectedOf(u)') = Cardinality(RejectedOf(u))
            /\ Cardinality(StartedOf(u)') = Cardinality(StartedOf(u))
        BY <2>1, <2>2, <2>3, <2>4, <2>6
      <3>3. QED
        BY <2>5, <3>1, <3>2 DEF ServiceCounts
    <2>7. CASE u = Order[o].user
      <3>1. s \in Counts
        <4>1. db.stats[u] \in Counts \cup {NoStats}
          BY DEF DbType
        <4>2. QED
          BY <2>7, <4>1, CountedType
      <3>2. s.total \in Nat
        BY <3>1 DEF Counts
      <3>3. /\ s.filled = Cardinality(FilledOf(u))
            /\ s.cancelled = Cardinality(CancelledOf(u))
            /\ s.rejected = Cardinality(RejectedOf(u))
            /\ s.total - Cardinality(StartedOf(u)) \in {0, 1}
        BY <2>5, <2>7 DEF ServiceCounts
      <3>4. /\ t.filled = Cardinality(FilledOf(u)')
            /\ t.cancelled = Cardinality(CancelledOf(u)')
            /\ t.rejected = Cardinality(RejectedOf(u)')
        BY <2>1, <2>2, <2>3, <2>7, <3>3
      <3>5. t.total - Cardinality(StartedOf(u)') \in {0, 1}
        <4>1. CASE t.total = s.total + (IF Started(o)' /\ ~Started(o) THEN 1 ELSE 0)
          BY <2>4, <2>7, <3>2, <3>3, <4>1
        <4>2. CASE db.stats[Order[o].user] = NoStats /\ t.total = 2 /\ Started(o)' /\ ~Started(o)
          <5>1. s.total = 0
            BY <4>2 DEF OwnStats, Zero
          <5>2. Cardinality(StartedOf(u)) = 0
            BY <2>4, <3>3, <5>1
          <5>3. QED
            BY <2>4, <2>7, <4>2, <5>2
        <4>3. QED
          BY <4>1, <4>2
      <3>6. QED
        BY <2>7, <3>4, <3>5 DEF ServiceCounts
    <2>8. QED
      BY <2>6, <2>7
  <1>3. QED
    BY <1>1, <1>2 DEF ServiceMirrors

\* The first message m leaves the wire; it is about the order o.
Leaves(m, o) ==
    /\ m \in Msg /\ o \in OrderIds /\ m.order = o
    /\ wire' \in Seq(Msg) /\ InOrder(wire') /\ \A x \in OrderIds : WireInv(x)'
    /\ book' = book /\ left' = left
    /\ \A x \in OrderIds : Due(wire', x) \in Nat
    /\ \A x \in OrderIds : x # o => /\ Due(wire', x) = Due(wire, x)
                                    /\ \A status : Said(wire', x, status) <=> Said(wire, x, status)
    /\ Due(wire, o) = FillOf(m, o) + Due(wire', o)
    /\ ~Said(wire', o, "New") /\ ~Said(wire', o, "Rejected")
    /\ Said(wire, o, "New") <=> Says(m, "New")
    /\ Said(wire, o, "Rejected") <=> Says(m, "Rejected")
    /\ book[o] # "unsent" /\ (Says(m, "Rejected") <=> book[o] = "rejected")
    /\ Says(m, "Cancelled") => book[o] = "cancelled" /\ ~Said(wire', o, "Cancelled")
    /\ book[o] = "cancelled" => Said(wire, o, "Cancelled")
    /\ book[o] = "cancelled" /\ ~Says(m, "Cancelled") => Said(wire', o, "Cancelled")

\* What is left to say when the first message has been taken.
LEMMA HeadLeaves ==
    ASSUME ServiceInv, wire # <<>>, wire' = Tail(wire), book' = book, left' = left
    PROVE  Leaves(Head(wire), Head(wire).order)
  <1>1. PICK m : m = Head(wire)
    OBVIOUS
  <1>2. PICK o : o = m.order
    OBVIOUS
  <1>3. wire \in Seq(Msg) /\ InOrder(wire)
    BY DEF ServiceInv
  <1>4. /\ m \in Msg /\ wire' \in Seq(Msg) /\ InOrder(wire')
        /\ Range(wire) = {m} \cup Range(wire')
        /\ \A b \in Range(wire') : b.order = o => Ordered(m, b)
    BY <1>1, <1>2, <1>3, WireTail
  <1>5. o \in OrderIds
    BY <1>2, <1>4 DEF Msg
  <1>6. ASSUME NEW x \in OrderIds
        PROVE  Due(wire, x) = FillOf(m, x) + Due(wire', x) /\ Due(wire', x) \in Nat
    BY <1>1, <1>3, <1>4, DueTail, DueNat
  <1>7. \A x \in OrderIds : x # o => Due(wire', x) = Due(wire, x)
    BY <1>2, <1>6 DEF FillOf
  <1>8. \A x \in OrderIds : x # o => \A status : Said(wire', x, status) <=> Said(wire, x, status)
    BY <1>2, <1>4 DEF Said
  <1>9. \A status : Said(wire, o, status) <=> Said(wire', o, status) \/ Says(m, status)
    BY <1>2, <1>4 DEF Said
  <1>10. ~Said(wire', o, "New") /\ ~Said(wire', o, "Rejected")
    BY <1>4 DEF Said, Ordered
  <1>11. Says(m, "Cancelled") => ~About(wire', o) /\ ~Said(wire', o, "Cancelled")
    BY <1>4 DEF About, Said, Ordered
  <1>12. /\ book[o] # "unsent"
         /\ Says(m, "Rejected") <=> book[o] = "rejected"
         /\ Says(m, "Cancelled") => book[o] = "cancelled"
         /\ book[o] = "cancelled" => Said(wire, o, "Cancelled")
    <2>1. WireInv(o) /\ m \in Range(wire) /\ About(wire, o)
      BY <1>2, <1>4, <1>5 DEF ServiceInv, About
    <2>2. QED
      BY <1>2, <2>1 DEF WireInv
  <1>13. ASSUME NEW x \in OrderIds  PROVE WireInv(x)'
    <2>1. WireInv(x)
      BY DEF ServiceInv
    <2>2. About(wire', x) => About(wire, x)
      BY <1>4 DEF About
    <2>3. About(wire', x) /\ Said(wire, x, "Cancelled") => Said(wire', x, "Cancelled")
      <3>1. CASE x = o
        BY <1>9, <1>11, <3>1
      <3>2. CASE x # o
        BY <1>8, <3>2
      <3>3. QED
        BY <3>1, <3>2
    <2>4. Range(wire') \subseteq Range(wire)
      BY <1>4
    <2>5. QED
      BY <2>1, <2>2, <2>3, <2>4 DEF WireInv
  <1>14. Leaves(m, o)
    BY <1>2, <1>4, <1>5, <1>6, <1>7, <1>8, <1>9, <1>10, <1>11, <1>12, <1>13 DEF Leaves
  <1>15. QED
    BY <1>1, <1>2, <1>14

\* The other orders are as they were.
LEMMA LeavesOthers ==
    ASSUME NEW m, NEW o, Leaves(m, o), NEW x \in OrderIds, x # o
    PROVE  /\ Started(x)' <=> Started(x)
           /\ Shown(x)' = Shown(x)
           /\ Cancelled(x)' <=> Cancelled(x)
           /\ Rejected(x)' <=> Rejected(x)
  <1>1. /\ Due(wire', x) = Due(wire, x) /\ book' = book /\ left' = left
        /\ \A status : Said(wire', x, status) <=> Said(wire, x, status)
    BY DEF Leaves
  <1>2. QED
    BY <1>1 DEF Started, Placed, Shown, Cancelled, Rejected

\* The rows of the other orders, too.
LEMMA LeavesOtherRows ==
    ASSUME NEW m, NEW o, Leaves(m, o), NEW x \in OrderIds, x # o, ServiceRows(x),
           db'.active[x] = db.active[x], db'.history[x] = db.history[x]
    PROVE  ServiceRows(x)'
  <1>1. /\ Due(wire', x) = Due(wire, x) /\ book' = book /\ left' = left
        /\ \A status : Said(wire', x, status) <=> Said(wire, x, status)
    BY DEF Leaves
  <1>2. QED
    BY <1>1 DEF ServiceRows

\* The service handles an update of the engine.
LEMMA ServiceUpdate ==
    ASSUME EngineInv, DbInv, ServiceInv, failures \in Nat, ReceiveUpdate
    PROVE  DbInv' /\ ServiceInv'
  <1>1. PICK m : m = Head(wire)
    OBVIOUS
  <1>2. PICK o : o = m.order
    OBVIOUS
  <1>3. wire # <<>> /\ wire' = Tail(wire) /\ m.kind = "update" /\ book' = book /\ left' = left
        /\ process_order_update(m)
    BY <1>1 DEF ReceiveUpdate, engineVars
  <1>4. Leaves(m, o)
    BY <1>1, <1>2, <1>3, HeadLeaves
  <1>5. /\ m \in Msg /\ o \in OrderIds /\ m.order = o /\ m.filled = 0
        /\ m.status \in {"New", "Cancelled", "Rejected"} /\ \A s : Says(m, s) <=> m.status = s
    <2>1. m \in Msg /\ o \in OrderIds /\ m.order = o
      BY <1>4 DEF Leaves
    <2>2. QED
      BY <1>3, <2>1 DEF Msg, Says
  <1>6. Outcome(m)
    BY <1>3, <1>5, UpdateOutcome DEF DbInv
  <1>7. ServiceRows(o)
    BY <1>5 DEF ServiceInv
  <1>8. m.status = "New" => db.active[o] = NoRow /\ db.history[o] = NoRow
    BY <1>4, <1>5, <1>7 DEF ServiceRows, Leaves
  <1>9. m.status = "Rejected" <=> book[o] = "rejected"
    BY <1>4, <1>5 DEF Leaves
  <1>10. m.status = "Rejected" => db.active[o] = NoRow
    BY <1>7, <1>9 DEF ServiceRows
  <1>11. DbInv'
    <2>1. m.status \in {"New", "PartiallyFilled"} =>
              /\ db.history[o].status \notin Closed
              /\ db.history[o].filled <= m.filled
      BY <1>5, <1>8 DEF NoRow, Closed
    <2>2. QED
      BY <1>5, <1>6, <1>10, <2>1, OutcomeKeepsDb
  <1>12. Due(wire', o) = Due(wire, o) /\ Due(wire, o) \in Nat
    <2>1. FillOf(m, o) = 0
      BY <1>3 DEF FillOf
    <2>2. Due(wire', o) \in Nat /\ Due(wire, o) = FillOf(m, o) + Due(wire', o)
      BY <1>4, <1>5 DEF Leaves
    <2>3. QED
      BY <2>1, <2>2
  <1>13. RowOf(m).filled = 0
    BY <1>5 DEF RowOf
  <1>14. /\ db'.active[o] \in {db.active[o], RowAfter(m)}
         /\ db'.history[o] \in {db.history[o], RowOf(m)}
    BY <1>5, <1>6 DEF Outcome
  <1>15. ASSUME NEW x \in OrderIds  PROVE ServiceRows(x)'
    <2>1. CASE x # o
      <3>1. ServiceRows(x) /\ db'.active[x] = db.active[x] /\ db'.history[x] = db.history[x]
        BY <1>5, <1>6, <2>1 DEF ServiceInv, Outcome
      <3>2. QED
        BY <1>4, <2>1, <3>1, LeavesOtherRows
    <2>2. CASE x = o
      <3>1. book'[o] # "unsent" /\ ~Said(wire', o, "New") /\ book' = book /\ left' = left
        BY <1>4 DEF Leaves
      <3>2. book[o] = "rejected" => db'.active[o] = NoRow
        BY <1>9, <1>10, <1>14, <1>5 DEF RowAfter
      <3>3. db'.active[o].filled <= db.active[o].filled /\ db'.active[o].filled \in Nat
        <4>1. RowAfter(m).filled = 0 \/ RowAfter(m) = db.active[o]
          BY <1>5, <1>13 DEF RowAfter, NoRow
        <4>2. db.active[o].filled \in Nat
          BY <1>5, DueKnown
        <4>3. QED
          BY <1>14, <4>1, <4>2
      <3>4. db'.history[o].filled <= Order[o].qty - left[o]
        <4>1. left[o] \in Nat /\ Order[o].qty \in Nat /\ left[o] <= Order[o].qty
          BY <1>5, HistoryAssumption DEF EngineInv
        <4>2. db.history[o].filled <= Order[o].qty - left[o]
          BY <1>7 DEF ServiceRows
        <4>3. 0 <= Order[o].qty - left[o]
          BY <4>1
        <4>4. QED
          BY <1>13, <1>14, <4>2, <4>3
      <3>5. db'.active[o].filled + Due(wire', o) <= Order[o].qty - left[o]
        <4>1. /\ Due(wire, o) + db.active[o].filled <= Order[o].qty - left[o]
              /\ left[o] \in Nat /\ Order[o].qty \in Nat /\ db.active[o].filled \in Nat
          BY <1>5, DueKnown
        <4>2. QED
          BY <1>12, <3>3, <4>1
      <3>6. QED
        BY <2>2, <3>1, <3>2, <3>4, <3>5 DEF ServiceRows
    <2>3. QED
      BY <2>1, <2>2
  <1>16. ASSUME failures' = 0  PROVE ServiceMirrors'
    <2>1. ServiceMirrors /\ db'.active[o] = RowAfter(m) /\ db'.stats[Order[o].user] = StatsAfter(m)
      BY <1>5, <1>6, <1>16 DEF ServiceInv, Outcome
    <2>2. PICK r : r = db.stats[Order[o].user]
      OBVIOUS
    <2>3. r \in Counts \cup {NoStats} /\ Order[o].user \in Users
      <3>1. Order[o].user \in Users
        BY <1>5 DEF Users
      <3>2. QED
        BY <2>2, <3>1 DEF DbInv, DbType
    <2>4. PICK s : s = OwnStats(r)
      OBVIOUS
    <2>5. PICK t : t = OwnStats(db'.stats[Order[o].user])
      OBVIOUS
    <2>6. /\ book' = book /\ left' = left /\ book[o] # "unsent"
          /\ ~Said(wire', o, "New") /\ ~Said(wire', o, "Rejected")
          /\ Said(wire, o, "New") <=> m.status = "New"
          /\ Said(wire, o, "Rejected") <=> m.status = "Rejected"
          /\ m.status = "Cancelled" => book[o] = "cancelled" /\ ~Said(wire', o, "Cancelled")
          /\ book[o] = "cancelled" => Said(wire, o, "Cancelled")
          /\ book[o] = "cancelled" /\ m.status # "Cancelled" => Said(wire', o, "Cancelled")
      BY <1>4, <1>5 DEF Leaves
    <2>7. Shown(o)' = Shown(o)
      BY <1>12, <2>6 DEF Shown
    <2>8. /\ Started(o)' <=> m.status # "Rejected"
          /\ Started(o) <=> m.status = "Cancelled"
      <3>1. book[o] \in {"open", "filled", "cancelled", "rejected", "unsent"}
        BY <1>5 DEF EngineInv
      <3>2. QED
        BY <1>5, <1>9, <2>6, <3>1 DEF Started, Placed
    <2>9. /\ Cancelled(o)' <=> m.status = "Cancelled"
          /\ ~Cancelled(o)
      BY <1>5, <2>6 DEF Cancelled
    <2>10. /\ Rejected(o)' <=> m.status = "Rejected"
           /\ ~Rejected(o)
      BY <1>9, <2>6 DEF Rejected
    <2>11. m.status # "Cancelled" => Shown(o) = 0
      BY <1>5, <2>1, <2>8 DEF ServiceMirrors
    <2>12. Order[o].qty \in Nat \ {0}
      BY <1>5, HistoryAssumption
    <2>13. SeenFilled(o)' <=> SeenFilled(o)
      <3>1. CASE m.status = "Cancelled"
        BY <2>7, <2>8, <3>1 DEF SeenFilled
      <3>2. CASE m.status # "Cancelled"
        BY <2>7, <2>8, <2>11, <2>12, <3>2 DEF SeenFilled
      <3>3. QED
        BY <3>1, <3>2
    <2>14. IF Started(o)' THEN db'.active[o] = Mirror(o)' ELSE Shown(o)' = 0
      <3>1. CASE m.status = "New"
        <4>1. db'.active[o] = [status |-> "New", filled |-> 0]
          BY <1>5, <2>1, <3>1 DEF RowAfter, RowOf
        <4>2. Mirror(o)' = [status |-> "New", filled |-> 0]
          BY <2>7, <2>9, <2>11, <2>12, <3>1 DEF Mirror
        <4>3. QED
          BY <2>8, <3>1, <4>1, <4>2
      <3>2. CASE m.status = "Cancelled"
        <4>1. db'.active[o] = NoRow
          BY <2>1, <3>2 DEF RowAfter
        <4>2. Mirror(o)' = NoRow
          BY <2>9, <3>2 DEF Mirror
        <4>3. QED
          BY <2>8, <3>2, <4>1, <4>2
      <3>3. CASE m.status = "Rejected"
        BY <2>7, <2>8, <2>11, <3>3
      <3>4. QED
        BY <1>5, <3>1, <3>2, <3>3
    <2>15. /\ t.filled = s.filled
           /\ t.cancelled = s.cancelled + (IF m.status = "Cancelled" THEN 1 ELSE 0)
           /\ t.rejected = s.rejected + (IF m.status = "Rejected" THEN 1 ELSE 0)
           /\ \/ t.total = s.total + (IF m.status = "New" THEN 1 ELSE 0)
              \/ r = NoStats /\ t.total = 2 /\ m.status = "New"
      <3>1. \A c \in Counts : OwnStats(c) = c
        BY CountedType DEF OwnStats
      <3>2. CASE m.status = "New"
        <4>1. PICK b : b = init_user_statistics(r)
          OBVIOUS
        <4>2. b \in Counts /\ OwnStats(b) = b
          BY <2>3, <3>1, <4>1, CountedType
        <4>3. db'.stats[Order[o].user] = WithCounted(b, "New")
          BY <1>5, <2>1, <2>2, <3>2, <4>1 DEF StatsAfter
        <4>4. t = WithCounted(b, "New")
          <5>1. WithCounted(b, "New") \in Counts
            BY <4>2, CountedType
          <5>2. QED
            BY <2>5, <3>1, <4>3, <5>1
        <4>5. t.total = b.total + 1 /\ t.filled = b.filled + 0 /\ t.cancelled = b.cancelled + 0
              /\ t.rejected = b.rejected + 0
          <5>1. "New" \in Status
            BY DEF Status
          <5>2. QED
            BY <4>2, <4>4, <5>1, CountedValues
        <4>6. CASE r = NoStats
          BY <2>4, <3>2, <4>1, <4>5, <4>6 DEF init_user_statistics, OwnStats, Zero
        <4>7. CASE r # NoStats
          <5>1. b = r /\ s = r /\ r \in Counts
            BY <2>3, <2>4, <4>1, <4>7 DEF init_user_statistics, OwnStats
          <5>2. QED
            BY <3>2, <4>5, <5>1 DEF Counts
        <4>8. QED
          BY <4>6, <4>7
      <3>3. CASE m.status # "New"
        <4>1. db'.stats[Order[o].user] = WithCounted(r, m.status)
          BY <1>5, <2>1, <2>2, <3>3 DEF StatsAfter
        <4>2. t = WithCounted(r, m.status)
          <5>1. WithCounted(r, m.status) \in Counts
            BY <2>3, CountedType
          <5>2. QED
            BY <2>5, <3>1, <4>1, <5>1
        <4>3. s \in Counts
          BY <2>3, <2>4, CountedType
        <4>4. m.status \in Status
          BY <1>5 DEF Status, Closed
        <4>5. QED
          BY <1>5, <2>3, <2>4, <3>3, <4>2, <4>3, <4>4, CountedValues DEF Counts
      <3>4. QED
        BY <3>2, <3>3
    <2>16. /\ t.filled = s.filled + (IF SeenFilled(o)' /\ ~SeenFilled(o) THEN 1 ELSE 0)
           /\ t.cancelled = s.cancelled + (IF Cancelled(o)' /\ ~Cancelled(o) THEN 1 ELSE 0)
           /\ t.rejected = s.rejected + (IF Rejected(o)' /\ ~Rejected(o) THEN 1 ELSE 0)
           /\ \/ t.total = s.total + (IF Started(o)' /\ ~Started(o) THEN 1 ELSE 0)
              \/ db.stats[Order[o].user] = NoStats /\ t.total = 2 /\ Started(o)' /\ ~Started(o)
      <3>1. s.filled + 0 = s.filled
        <4>1. s \in Counts
          BY <2>3, <2>4, CountedType
        <4>2. QED
          BY <4>1 DEF Counts
      <3>2. Started(o)' /\ ~Started(o) <=> m.status = "New"
        BY <1>5, <2>8
      <3>3. QED
        BY <2>2, <2>9, <2>10, <2>13, <2>15, <3>1, <3>2
    <2>17. \A x \in OrderIds : x # o => db'.active[x] = db.active[x]
      BY <1>5, <1>6 DEF Outcome
    <2>18. /\ db \in DbType /\ db' \in DbType
           /\ \A v \in Users : v # Order[o].user => db'.stats[v] = db.stats[v]
      BY <1>5, <1>6 DEF Outcome, DbInv
    <2>19. QED
      BY <1>4, <1>5, <2>1, <2>2, <2>4, <2>5, <2>8, <2>9, <2>10, <2>13, <2>14, <2>16, <2>17, <2>18,
         LeavesOthers, MirrorsChange
  <1>17. QED
    <2>1. wire' \in Seq(Msg) /\ InOrder(wire') /\ \A x \in OrderIds : WireInv(x)'
      BY <1>4 DEF Leaves
    <2>2. QED
      BY <1>11, <1>15, <1>16, <2>1 DEF ServiceInv

\* A fill that is dropped, or whose order could not be read.
LEMMA FillDropped ==
    ASSUME EngineInv, DbInv, ServiceInv, NEW m, NEW o, Leaves(m, o), m.kind = "fill",
           db' = db, failures' # 0
    PROVE  ServiceInv'
  <1>1. o \in OrderIds /\ m.order = o /\ m.qty \in Nat \ {0}
    BY DEF Leaves, Msg
  <1>2. ASSUME NEW x \in OrderIds  PROVE ServiceRows(x)'
    <2>1. ServiceRows(x)
      BY DEF ServiceInv
    <2>2. CASE x # o
      BY <2>1, <2>2, LeavesOtherRows
    <2>3. CASE x = o
      <3>1. /\ book'[o] # "unsent" /\ ~Said(wire', o, "New") /\ book' = book /\ left' = left
            /\ Due(wire, o) = FillOf(m, o) + Due(wire', o) /\ Due(wire', o) \in Nat
        BY <1>1 DEF Leaves
      <3>2. FillOf(m, o) = m.qty
        BY <1>1 DEF FillOf
      <3>3. /\ Due(wire, o) + db.active[o].filled <= Order[o].qty - left[o]
            /\ left[o] \in Nat /\ Order[o].qty \in Nat /\ db.active[o].filled \in Nat
        BY <1>1, DueKnown
      <3>4. db.active[o].filled + Due(wire', o) <= Order[o].qty - left[o]
        BY <1>1, <3>1, <3>2, <3>3
      <3>5. QED
        BY <2>1, <2>3, <3>1, <3>4 DEF ServiceRows
    <2>4. QED
      BY <2>2, <2>3
  <1>3. wire' \in Seq(Msg) /\ InOrder(wire') /\ \A x \in OrderIds : WireInv(x)'
    BY DEF Leaves
  <1>4. QED
    BY <1>2, <1>3 DEF ServiceInv

\* While nothing has failed, the order of a fill is active, and filled as far as
\* the service was told.
LEMMA FillFindsRow ==
    ASSUME EngineInv, DbInv, ServiceInv, NEW m, NEW o, Leaves(m, o), m.kind = "fill", failures = 0
    PROVE  /\ Started(o) /\ Started(o)' /\ ~Cancelled(o) /\ ~Cancelled(o)'
           /\ ~Rejected(o) /\ ~Rejected(o)'
           /\ db.active[o] # NoRow /\ db.active[o].filled = Shown(o)
           /\ Shown(o)' = Shown(o) + m.qty /\ Shown(o) \in Nat /\ Shown(o) < Order[o].qty
  <1>1. o \in OrderIds /\ m.order = o /\ m.qty \in Nat \ {0} /\ \A s : ~Says(m, s)
    BY DEF Leaves, Msg, Says
  <1>2. /\ book' = book /\ left' = left /\ Due(wire, o) = FillOf(m, o) + Due(wire', o)
        /\ Due(wire', o) \in Nat
        /\ ~Said(wire', o, "New") /\ ~Said(wire, o, "New")
        /\ book[o] # "unsent" /\ book[o] # "rejected"
        /\ book[o] = "cancelled" => Said(wire, o, "Cancelled") /\ Said(wire', o, "Cancelled")
    BY <1>1 DEF Leaves
  <1>3. Started(o) /\ Started(o)'
    <2>1. book[o] \in {"open", "filled", "cancelled", "rejected", "unsent"}
      BY <1>1 DEF EngineInv
    <2>2. QED
      BY <1>2, <2>1 DEF Started, Placed
  <1>4. ~Cancelled(o) /\ ~Cancelled(o)' /\ ~Rejected(o) /\ ~Rejected(o)'
    BY <1>2 DEF Cancelled, Rejected
  <1>5. FillOf(m, o) = m.qty
    BY <1>1 DEF FillOf
  <1>6. /\ Due(wire, o) + db.active[o].filled <= Order[o].qty - left[o]
        /\ left[o] \in Nat /\ Order[o].qty \in Nat /\ db.active[o].filled \in Nat /\ Due(wire, o) \in Nat
    BY <1>1, DueKnown
  <1>7. Shown(o)' = Shown(o) + m.qty /\ Shown(o) \in Nat /\ Shown(o) < Order[o].qty
    BY <1>1, <1>2, <1>5, <1>6 DEF Shown
  <1>8. db.active[o] = Mirror(o)
    BY <1>1, <1>3 DEF ServiceInv, ServiceMirrors
  <1>9. /\ Mirror(o).filled = Shown(o) /\ Mirror(o).status \in {"New", "PartiallyFilled"}
    BY <1>4, <1>6, <1>7 DEF Mirror
  <1>10. db.active[o] # NoRow
    BY <1>8, <1>9 DEF NoRow
  <1>11. QED
    BY <1>3, <1>4, <1>7, <1>8, <1>9, <1>10

\* A fill of an active order is persisted as an update.
LEMMA FillPersisted ==
    ASSUME EngineInv, DbInv, ServiceInv, failures \in Nat, NEW m, NEW o, Leaves(m, o), m.kind = "fill",
           db.active[o] # NoRow,
           NEW u, u = Update(o, IF db.active[o].filled + m.qty >= Order[o].qty
                                  THEN "Filled" ELSE "PartiallyFilled", db.active[o].filled + m.qty),
           process_order_update(u)
    PROVE  DbInv' /\ ServiceInv'
  <1>1. o \in OrderIds /\ m.order = o /\ m.qty \in Nat \ {0}
    BY DEF Leaves, Msg
  <1>2. PICK filled : filled = db.active[o].filled + m.qty
    OBVIOUS
  <1>3. /\ book'[o] # "unsent" /\ book[o] # "rejected" /\ ~Said(wire', o, "New")
        /\ book' = book /\ left' = left
        /\ Due(wire, o) = FillOf(m, o) + Due(wire', o) /\ Due(wire', o) \in Nat
    <2>1. ~Says(m, "Rejected")
      BY DEF Says
    <2>2. QED
      BY <1>1, <2>1 DEF Leaves
  <1>4. FillOf(m, o) = m.qty
    BY <1>1 DEF FillOf
  <1>5. /\ Due(wire, o) + db.active[o].filled <= Order[o].qty - left[o]
        /\ left[o] \in Nat /\ Order[o].qty \in Nat \ {0} /\ db.active[o].filled \in Nat /\ Due(wire, o) \in Nat
        /\ db.history[o].filled \in Nat
    BY <1>1, DueKnown
  <1>6. filled \in Nat /\ filled + Due(wire', o) <= Order[o].qty - left[o] /\ filled > 0
    BY <1>1, <1>2, <1>3, <1>4, <1>5
  <1>7. /\ u.order = o /\ u.filled = filled
        /\ u.status = IF filled >= Order[o].qty THEN "Filled" ELSE "PartiallyFilled"
    BY <1>2 DEF Update
  <1>8. Outcome(u)
    BY <1>1, <1>6, <1>7, UpdateOutcome DEF DbInv
  <1>9. DbInv'
    <2>1. db.history[o].status \notin Closed /\ db.history[o].filled <= db.active[o].filled
      BY <1>1 DEF DbInv
    <2>2. db.history[o].filled <= filled
      BY <1>1, <1>2, <1>5, <2>1
    <2>3. QED
      BY <1>1, <1>6, <1>7, <1>8, <2>1, <2>2, OutcomeKeepsDb
  <1>10. /\ db'.active[o] \in {db.active[o], RowOf(u), NoRow}
         /\ db'.history[o] \in {db.history[o], RowOf(u)}
    BY <1>7, <1>8 DEF Outcome, RowAfter
  <1>11. RowOf(u).filled = filled
    BY <1>7 DEF RowOf
  <1>12. ASSUME NEW x \in OrderIds  PROVE ServiceRows(x)'
    <2>1. CASE x # o
      <3>1. ServiceRows(x) /\ db'.active[x] = db.active[x] /\ db'.history[x] = db.history[x]
        BY <1>7, <1>8, <2>1 DEF ServiceInv, Outcome
      <3>2. QED
        BY <2>1, <3>1, LeavesOtherRows
    <2>2. CASE x = o
      <3>1. db'.active[o].filled <= filled /\ db'.active[o].filled \in Nat
        <4>1. NoRow.filled = 0
          BY DEF NoRow
        <4>2. db.active[o].filled <= filled
          BY <1>1, <1>2, <1>5
        <4>3. QED
          BY <1>5, <1>6, <1>10, <1>11, <4>1, <4>2
      <3>2. db'.active[o].filled + Due(wire', o) <= Order[o].qty - left[o]
        BY <1>3, <1>5, <1>6, <3>1
      <3>3. db'.history[o].filled <= Order[o].qty - left[o]
        <4>1. db.history[o].filled <= Order[o].qty - left[o]
          BY <1>1 DEF ServiceInv, ServiceRows
        <4>2. filled <= Order[o].qty - left[o]
          BY <1>3, <1>5, <1>6
        <4>3. QED
          BY <1>10, <1>11, <4>1, <4>2
      <3>4. QED
        BY <1>3, <2>2, <3>2, <3>3 DEF ServiceRows
    <2>3. QED
      BY <2>1, <2>2
  <1>13. ASSUME failures' = 0  PROVE ServiceMirrors'
    <2>1. /\ failures = 0 /\ ServiceMirrors /\ db'.active[o] = RowAfter(u)
          /\ db'.stats[Order[o].user] = StatsAfter(u)
      BY <1>7, <1>8, <1>13 DEF ServiceInv, Outcome
    <2>2. /\ Started(o) /\ Started(o)' /\ ~Cancelled(o) /\ ~Cancelled(o)'
          /\ ~Rejected(o) /\ ~Rejected(o)'
          /\ db.active[o].filled = Shown(o)
          /\ Shown(o)' = Shown(o) + m.qty /\ Shown(o) \in Nat /\ Shown(o) < Order[o].qty
      BY <2>1, FillFindsRow
    <2>3. Shown(o)' = filled
      BY <1>2, <2>2
    <2>4. filled <= Order[o].qty
      BY <1>3, <1>5, <1>6
    <2>5. u.status = "Filled" <=> filled = Order[o].qty
      BY <1>5, <1>6, <1>7, <2>4
    <2>6. ~SeenFilled(o) /\ (SeenFilled(o)' <=> u.status = "Filled")
      BY <1>5, <2>2, <2>3, <2>5 DEF SeenFilled
    <2>7. db'.active[o] = Mirror(o)'
      <3>1. CASE u.status = "Filled"
        BY <2>1, <2>3, <2>5, <3>1 DEF RowAfter, Mirror
      <3>2. CASE u.status # "Filled"
        <4>1. u.status = "PartiallyFilled"
          BY <1>7, <3>2
        <4>2. db'.active[o] = [status |-> "PartiallyFilled", filled |-> filled]
          BY <1>7, <2>1, <4>1 DEF RowAfter, RowOf
        <4>3. Mirror(o)' = [status |-> "PartiallyFilled", filled |-> filled]
          BY <1>6, <2>2, <2>3, <2>5, <3>2 DEF Mirror
        <4>4. QED
          BY <4>2, <4>3
      <3>3. QED
        BY <3>1, <3>2
    <2>8. PICK r : r = db.stats[Order[o].user]
      OBVIOUS
    <2>9. r \in Counts \cup {NoStats}
      <3>1. Order[o].user \in Users
        BY <1>1 DEF Users
      <3>2. QED
        BY <2>8, <3>1 DEF DbInv, DbType
    <2>10. PICK s : s = OwnStats(r)
      OBVIOUS
    <2>11. PICK t : t = OwnStats(db'.stats[Order[o].user])
      OBVIOUS
    <2>12. s \in Counts
      BY <2>9, <2>10, CountedType
    <2>13. /\ t.filled = s.filled + (IF u.status = "Filled" THEN 1 ELSE 0)
           /\ t.cancelled = s.cancelled + 0 /\ t.rejected = s.rejected + 0 /\ t.total = s.total + 0
      <3>1. CASE u.status = "Filled"
        <4>1. db'.stats[Order[o].user] = WithCounted(r, "Filled")
          BY <1>7, <2>1, <2>8, <3>1 DEF StatsAfter
        <4>2. WithCounted(r, "Filled") \in Counts
          BY <2>9, CountedType
        <4>3. t = WithCounted(r, "Filled")
          BY <2>11, <4>1, <4>2, CountedType DEF OwnStats
        <4>4. "Filled" \in Status
          BY DEF Status, Closed
        <4>5. QED
          BY <2>9, <2>10, <2>12, <3>1, <4>3, <4>4, CountedValues DEF Counts
      <3>2. CASE u.status # "Filled"
        <4>1. db'.stats[Order[o].user] = r
          BY <1>7, <2>1, <2>8, <3>2 DEF StatsAfter
        <4>2. t = s
          BY <2>10, <2>11, <4>1
        <4>3. QED
          BY <2>12, <3>2, <4>2 DEF Counts
      <3>3. QED
        BY <3>1, <3>2
    <2>14. /\ t.filled = s.filled + (IF SeenFilled(o)' /\ ~SeenFilled(o) THEN 1 ELSE 0)
           /\ t.cancelled = s.cancelled + (IF Cancelled(o)' /\ ~Cancelled(o) THEN 1 ELSE 0)
           /\ t.rejected = s.rejected + (IF Rejected(o)' /\ ~Rejected(o) THEN 1 ELSE 0)
           /\ t.total = s.total + (IF Started(o)' /\ ~Started(o) THEN 1 ELSE 0)
      BY <2>2, <2>6, <2>13
    <2>15. /\ db \in DbType /\ db' \in DbType
           /\ \A v \in Users : v # Order[o].user => db'.stats[v] = db.stats[v]
           /\ \A x \in OrderIds : x # o => db'.active[x] = db.active[x]
      BY <1>7, <1>8 DEF Outcome, DbInv
    <2>16. QED
      BY <1>1, <2>1, <2>2, <2>6, <2>7, <2>8, <2>10, <2>11, <2>14, <2>15, LeavesOthers, MirrorsChange
  <1>14. wire' \in Seq(Msg) /\ InOrder(wire') /\ \A x \in OrderIds : WireInv(x)'
    BY DEF Leaves
  <1>15. QED
    BY <1>9, <1>12, <1>13, <1>14 DEF ServiceInv

\* The service handles a fill.
LEMMA ServiceFill ==
    ASSUME EngineInv, DbInv, ServiceInv, failures \in Nat, process_trade_fill
    PROVE  DbInv' /\ ServiceInv'
  <1>1. PICK m : m = Head(wire)
    OBVIOUS
  <1>2. PICK o : o = m.order
    OBVIOUS
  <1>3. PICK u : u = Update(o, IF db.active[o].filled + m.qty >= Order[o].qty
                                 THEN "Filled" ELSE "PartiallyFilled", db.active[o].filled + m.qty)
    OBVIOUS
  <1>4. /\ wire # <<>> /\ m.kind = "fill" /\ wire' = Tail(wire) /\ book' = book /\ left' = left
        /\ \/ db.active[o] # NoRow /\ process_order_update(u)
           \/ ((db.active[o] = NoRow /\ Works) \/ Fails) /\ db' = db
    BY <1>1, <1>2, <1>3 DEF process_trade_fill, engineVars
  <1>5. Leaves(m, o)
    BY <1>1, <1>2, <1>4, HeadLeaves
  <1>6. CASE db.active[o] # NoRow /\ process_order_update(u)
    BY <1>3, <1>4, <1>5, <1>6, FillPersisted
  <1>7. CASE db' = db /\ failures' # 0
    <2>1. DbInv'
      BY <1>7 DEF DbInv
    <2>2. QED
      BY <1>4, <1>5, <1>7, <2>1, FillDropped
  <1>8. CASE db.active[o] = NoRow /\ failures' = failures /\ db' = db /\ failures' = 0
    <2>1. db.active[o] # NoRow
      BY <1>4, <1>5, <1>8, FillFindsRow
    <2>2. QED
      BY <1>8, <2>1
  <1>9. Fails => failures' # 0
    BY DEF Fails
  <1>10. QED
    BY <1>4, <1>6, <1>7, <1>8, <1>9 DEF Works

(***************************************************************************)
(* The outputs on their way to the writers.                                *)
(***************************************************************************)

\* Concatenation is associative.
LEMMA ConcatThree ==
    ASSUME NEW S, NEW x \in Seq(S), NEW y \in Seq(S), NEW z \in Seq(S)
    PROVE  (x \o y) \o z = x \o (y \o z)
  BY ConcatAssociative

\* Flattening one sequence more.
LEMMA FlattenAppend ==
    ASSUME NEW S, NEW ss \in Seq(Seq(S)), NEW s \in Seq(S)
    PROVE  FlattenSeq(Append(ss, s)) = FlattenSeq(ss) \o s
  <1>1. PICK n : n = Len(ss)
    OBVIOUS
  <1>2. PICK rr : rr = Append(ss, s)
    OBVIOUS
  <1>3. /\ n \in Nat /\ rr \in Seq(Seq(S)) /\ Len(rr) = n + 1 /\ rr[n + 1] = s
        /\ \A i \in 1..n : rr[i] = ss[i]
    BY <1>1, <1>2, AppendProperties, LenProperties
  <1>4. PICK g \in [0..n -> Seq(S)] :
              /\ g[0] = <<>> /\ g[n] = FlattenSeq(ss)
              /\ \A i \in 1..n : g[i] = g[i - 1] \o ss[i]
    BY <1>1, FlattenSteps
  <1>5. PICK h \in [0..(n + 1) -> Seq(S)] :
              /\ h[0] = <<>> /\ h[n + 1] = FlattenSeq(rr)
              /\ \A i \in 1..(n + 1) : h[i] = h[i - 1] \o rr[i]
    <2>1. \E h \in [0..Len(rr) -> Seq(S)] :
              /\ h[0] = <<>> /\ h[Len(rr)] = FlattenSeq(rr)
              /\ \A i \in 1..Len(rr) : h[i] = h[i - 1] \o rr[i]
      BY <1>3, FlattenSteps
    <2>2. QED
      BY <1>3, <2>1
  <1> DEFINE Good == {i \in 0..n : g[i] = h[i]}
  <1>6. 0 \in Good
    BY <1>3, <1>4, <1>5
  <1>7. ASSUME NEW i \in 0..n, i \in Good, i < n  PROVE i + 1 \in Good
    <2>1. i + 1 \in 1..n /\ i + 1 \in 1..(n + 1) /\ (i + 1) - 1 = i /\ i + 1 \in 0..n
      BY <1>3, <1>7
    <2>2. g[i + 1] = g[i] \o ss[i + 1] /\ h[i + 1] = h[i] \o rr[i + 1]
      BY <1>4, <1>5, <2>1
    <2>3. QED
      BY <1>3, <1>7, <2>1, <2>2
  <1>8. g[n] = h[n]
    <2> HIDE DEF Good
    <2>1. \A i \in 0..n : i \in Good
      BY <1>3, <1>6, <1>7, UpToInduction
    <2>2. n \in Good
      BY <1>3, <2>1
    <2>3. QED
      BY <2>2 DEF Good
  <1>9. h[n + 1] = h[n] \o s
    <2>1. n + 1 \in 1..(n + 1) /\ (n + 1) - 1 = n
      BY <1>3
    <2>2. QED
      BY <1>3, <1>5, <2>1
  <1>10. QED
    BY <1>2, <1>4, <1>5, <1>8, <1>9

\* Flattening one sequence less.
LEMMA FlattenTail ==
    ASSUME NEW S, NEW ss \in Seq(Seq(S)), ss # <<>>
    PROVE  FlattenSeq(ss) = Head(ss) \o FlattenSeq(Tail(ss))
  <1>0. ASSUME NEW x \in Seq(S), NEW y \in Seq(S), NEW z \in Seq(S)
        PROVE  (x \o y) \o z = x \o (y \o z)
    BY SMTT(30), ConcatThree
  <1>1. PICK n : n = Len(ss) - 1
    OBVIOUS
  <1>2. PICK rr : rr = Tail(ss)
    OBVIOUS
  <1>3. /\ n \in Nat /\ rr \in Seq(Seq(S)) /\ Len(ss) = n + 1 /\ Len(rr) = n
        /\ \A i \in 1..n : rr[i] = ss[i + 1]
    <2>1. Len(ss) \in Nat /\ Len(ss) # 0
      BY EmptySeq, LenProperties
    <2>2. Len(ss) = n + 1 /\ n \in Nat
      BY <1>1, <2>1
    <2>3. rr \in Seq(Seq(S)) /\ Len(rr) = Len(ss) - 1 /\ \A i \in 1..Len(rr) : rr[i] = ss[i + 1]
      BY <1>2, HeadTailProperties
    <2>4. QED
      BY <1>1, <2>2, <2>3
  <1>4. PICK a : a = ss[1]
    OBVIOUS
  <1>5. Head(ss) = a /\ a \in Seq(S) /\ \A i \in 1..n : rr[i] \in Seq(S)
    <2>1. 1 \in 1..Len(ss)
      BY <1>3
    <2>2. QED
      BY <1>3, <1>4, <2>1, ElementOfSeq
  <1>6. PICK h \in [0..n -> Seq(S)] :
              /\ h[0] = <<>> /\ h[n] = FlattenSeq(rr)
              /\ \A i \in 1..n : h[i] = h[i - 1] \o rr[i]
    BY ZenonT(30), <1>3, FlattenSteps
  <1>7. PICK g \in [0..(n + 1) -> Seq(S)] :
              /\ g[0] = <<>> /\ g[n + 1] = FlattenSeq(ss)
              /\ \A i \in 1..(n + 1) : g[i] = g[i - 1] \o ss[i]
    <2>1. \E g \in [0..Len(ss) -> Seq(S)] :
              /\ g[0] = <<>> /\ g[Len(ss)] = FlattenSeq(ss)
              /\ \A i \in 1..Len(ss) : g[i] = g[i - 1] \o ss[i]
      BY FlattenSteps
    <2>2. QED
      BY <1>3, <2>1
  <1> DEFINE Good == {i \in 0..n : g[i + 1] = a \o h[i]}
  <1>8. 0 \in Good
    <2>1. 1 \in 1..(n + 1) /\ 0 \in 0..n
      BY <1>3
    <2>2. 1 - 1 = 0 /\ 0 + 1 = 1
      OBVIOUS
    <2>3. g[1] = g[0] \o ss[1]
      BY <1>7, <2>1, <2>2, Zenon
    <2>4. PICK e : e = g[0]
      OBVIOUS
    <2>5. e \in Seq(S) /\ e = <<>> /\ h[0] = <<>>
      BY <1>6, <1>7, <2>4
    <2>6. e \o a = a /\ a \o e = a
      BY <1>5, <2>5, ConcatEmptySeq
    <2>7. g[1] = a /\ a \o h[0] = a
      BY <1>4, <2>3, <2>4, <2>5, <2>6, Zenon
    <2>8. g[0 + 1] = a \o h[0]
      BY <2>2, <2>7, Zenon
    <2>9. QED
      BY <2>1, <2>8
  <1>9. ASSUME NEW i \in 0..n, i \in Good, i < n  PROVE i + 1 \in Good
    <2>1. i + 1 \in 1..n /\ (i + 1) + 1 \in 1..(n + 1) /\ (i + 1) - 1 = i /\ i + 1 \in 0..n
          /\ ((i + 1) + 1) - 1 = i + 1
      BY <1>3, <1>9
    <2>2. h[i + 1] = h[i] \o rr[i + 1]
      BY <1>6, <2>1
    <2>3. g[(i + 1) + 1] = g[i + 1] \o ss[(i + 1) + 1]
      BY <1>7, <2>1
    <2>4. g[(i + 1) + 1] = (a \o h[i]) \o rr[i + 1]
      BY <1>3, <1>9, <2>1, <2>3
    <2>5. h[i] \in Seq(S) /\ rr[i + 1] \in Seq(S)
      BY <1>5, <1>6, <2>1
    <2>6. (a \o h[i]) \o rr[i + 1] = a \o (h[i] \o rr[i + 1])
      BY <1>0, <1>5, <2>5, Zenon
    <2>7. QED
      BY <2>1, <2>2, <2>4, <2>6
  <1>10. g[n + 1] = a \o h[n]
    <2> HIDE DEF Good
    <2>1. \A i \in 0..n : i \in Good
      BY <1>3, <1>8, <1>9, UpToInduction
    <2>2. n \in Good
      BY <1>3, <2>1
    <2>3. QED
      BY <2>2 DEF Good
  <1>11. QED
    BY <1>2, <1>5, <1>6, <1>7, <1>10

\* what the order o traded with m
Traded(o, n, m) == [taker |-> o, maker |-> m, qty |-> n[m]]

\* The quantities of the trades an order took add up to what it traded.
LEMMA SumOfTrades ==
    ASSUME NEW o, NEW C, IsFiniteSet(C), NEW n, \A m \in C : n[m] \in Nat,
           NEW T, T = {Traded(o, n, m) : m \in C}
    PROVE  SumFunctionOnSet([t \in T |-> t.qty], T) = SumFunctionOnSet(n, C) /\ IsFiniteSet(T)
  <1> DEFINE Img(D) == {Traded(o, n, m) : m \in D}
  <1>1. PICK f : f = [t \in T |-> t.qty]
    OBVIOUS
  <1>2. \A t \in T : f[t] \in Int
    BY <1>1 DEF Traded
  <1> DEFINE Good == {D \in SUBSET C : IsFiniteSet(Img(D))
                        /\ SumFunctionOnSet(f, Img(D)) = SumFunctionOnSet(n, D)}
  <1>3. {} \in Good
    <2>1. Img({}) = {}
      OBVIOUS
    <2>2. QED
      BY <2>1, SumEmpty, FS_EmptySet
  <1>4. ASSUME NEW D \in SUBSET C, D # {}, D \ {Pick(D)} \in Good  PROVE D \in Good
    <2>1. PICK p : p = Pick(D)
      OBVIOUS
    <2>2. p \in D /\ p \in C
      BY <1>4, <2>1, PickFacts
    <2>3. PICK E : E = D \ {p}
      OBVIOUS
    <2>4. IsFiniteSet(Img(E)) /\ SumFunctionOnSet(f, Img(E)) = SumFunctionOnSet(n, E)
      BY <1>4, <2>1, <2>3
    <2>5. PICK x : x = Traded(o, n, p)
      OBVIOUS
    <2>6. Img(D) = Img(E) \cup {x}
      BY <2>2, <2>3, <2>5
    <2>7. \A m \in E : Traded(o, n, m) # x
      BY <2>3, <2>5 DEF Traded
    <2>8. Img(D) \ {x} = Img(E) /\ x \in Img(D) /\ Img(D) \subseteq T
      BY <2>2, <2>6, <2>7
    <2>9. IsFiniteSet(Img(D))
      <3>1. \A I : IsFiniteSet(I) => IsFiniteSet(I \cup {x})
        BY FS_AddElement
      <3>2. QED
        BY <2>4, <2>6, <3>1
    <2>10. f[x] = n[p] /\ n[p] \in Nat
      BY <1>1, <2>2, <2>5, <2>8 DEF Traded
    <2>11. SumFunctionOnSet(f, Img(D)) = f[x] + SumFunctionOnSet(f, Img(E))
      <3>1. PICK I : I = Img(D)
        OBVIOUS
      <3>2. IsFiniteSet(I) /\ x \in I /\ I \ {x} = Img(E) /\ \A y \in I : f[y] \in Int
        BY <1>2, <2>8, <2>9, <3>1
      <3>3. SumFunctionOnSet(f, I) = f[x] + SumFunctionOnSet(f, I \ {x})
        BY <3>2, SumSplit
      <3>4. QED
        BY <3>1, <3>2, <3>3
    <2>12. SumFunctionOnSet(n, D) = n[p] + SumFunctionOnSet(n, E)
      <3>1. IsFiniteSet(D) /\ \A y \in D : n[y] \in Int
        BY FS_Subset
      <3>2. QED
        BY <2>2, <2>3, <3>1, SumSplit
    <2>13. QED
      BY <2>4, <2>9, <2>10, <2>11, <2>12
  <1>5. C \in Good
    <2> HIDE DEF Good
    <2>1. QED
      BY <1>3, <1>4, SubsetInduction
  <1>6. QED
    BY <1>1, <1>5

\* Two sequences, one after the other.
LEMMA ConcatFacts ==
    ASSUME NEW S, NEW a \in Seq(S), NEW b \in Seq(S), NEW c, c = a \o b
    PROVE  /\ c \in Seq(S) /\ Len(c) = Len(a) + Len(b)
           /\ \A i \in 1..Len(a) : i \in 1..Len(c) /\ c[i] = a[i]
           /\ \A i \in 1..Len(b) : Len(a) + i \in 1..Len(c) /\ c[Len(a) + i] = b[i]
           /\ \A i \in 1..Len(c) : i > Len(a) => i - Len(a) \in 1..Len(b) /\ c[i] = b[i - Len(a)]
  <1>1. Len(a) \in Nat /\ Len(b) \in Nat
    BY LenProperties
  <1>2. c \in Seq(S) /\ Len(c) = Len(a) + Len(b)
    BY ConcatProperties
  <1>3. \A i \in 1..Len(a) : i \in 1..Len(c) /\ c[i] = a[i]
    BY <1>1, <1>2
  <1>4. \A i \in 1..Len(b) : Len(a) + i \in 1..Len(c) /\ c[Len(a) + i] = b[i]
    BY <1>1, <1>2
  <1>5. \A i \in 1..Len(c) : i > Len(a) => i - Len(a) \in 1..Len(b) /\ c[i] = b[i - Len(a)]
    BY <1>1, <1>2
  <1>6. QED
    BY <1>2, <1>3, <1>4, <1>5

\* The same of sequences of outputs.
LEMMA OutputsThree ==
    ASSUME NEW x \in Seq(OutputMsg), NEW y \in Seq(OutputMsg), NEW z \in Seq(OutputMsg)
    PROVE  (x \o y) \o z = x \o (y \o z)
  BY ConcatThree

\* What a sequence of outputs holds that two make up, one after the other.
LEMMA OutputsConcat ==
    ASSUME NEW a \in Seq(OutputMsg), NEW b \in Seq(OutputMsg), NEW c, c = a \o b
    PROVE  /\ c \in Seq(OutputMsg) /\ Len(c) = Len(a) + Len(b)
           /\ \A i \in 1..Len(a) : i \in 1..Len(c) /\ c[i] = a[i]
           /\ \A i \in 1..Len(b) : Len(a) + i \in 1..Len(c) /\ c[Len(a) + i] = b[i]
           /\ \A i \in 1..Len(c) : i > Len(a) => i - Len(a) \in 1..Len(b) /\ c[i] = b[i - Len(a)]
  BY ConcatFacts

\* The queue is of outputs, begins with those at work and ends with those of
\* the topic.
LEMMA QueueFacts ==
    ASSUME WriterShape
    PROVE  /\ Queue \in Seq(OutputMsg) /\ Len(Queue) \in Nat /\ Len(working) \in Nat
           /\ Len(working) <= Len(Queue)
           /\ \A i \in 1..Len(Queue) : Queue[i] \in OutputMsg
           /\ \A i \in 1..Len(working) : i \in 1..Len(Queue) /\ Queue[i] = working[i]
           /\ \A i \in 1..Len(outTopic) : \E j \in 1..Len(Queue) : Queue[j] = outTopic[i]
           /\ DOMAIN updates = 1..Len(updates) /\ Len(updates) \in Nat
           /\ Len(updates) <= Len(working)
           /\ \A i \in DOMAIN updates : updates[i] \in Job
  <1>1. working \in Seq(OutputMsg) /\ outTopic \in Seq(OutputMsg) /\ orderCh \in Seq(Seq(OutputMsg))
        /\ updates \in Seq(Job)
    BY DEF WriterShape
  <1>2. PICK f : f = FlattenSeq(orderCh)
    OBVIOUS
  <1>3. f \in Seq(OutputMsg)
    BY <1>1, <1>2, FlattenRange
  <1>4. PICK p : p = working \o f
    OBVIOUS
  <1>5. Queue = p \o outTopic
    BY <1>2, <1>4 DEF Queue
  <1>6. /\ p \in Seq(OutputMsg) /\ Len(p) = Len(working) + Len(f)
        /\ \A i \in 1..Len(working) : i \in 1..Len(p) /\ p[i] = working[i]
    BY <1>1, <1>3, <1>4, OutputsConcat
  <1>7. /\ Queue \in Seq(OutputMsg) /\ Len(Queue) = Len(p) + Len(outTopic)
        /\ \A i \in 1..Len(p) : i \in 1..Len(Queue) /\ Queue[i] = p[i]
        /\ \A i \in 1..Len(outTopic) : Len(p) + i \in 1..Len(Queue) /\ Queue[Len(p) + i] = outTopic[i]
    <2>1. PICK q : q = p \o outTopic
      OBVIOUS
    <2>2. /\ q \in Seq(OutputMsg) /\ Len(q) = Len(p) + Len(outTopic)
          /\ \A i \in 1..Len(p) : i \in 1..Len(q) /\ q[i] = p[i]
          /\ \A i \in 1..Len(outTopic) : Len(p) + i \in 1..Len(q) /\ q[Len(p) + i] = outTopic[i]
      <3>1. p \in Seq(OutputMsg) /\ outTopic \in Seq(OutputMsg)
        BY <1>1, <1>6
      <3>2. QED
        BY <2>1, <3>1, OutputsConcat
    <2>3. QED
      BY <1>5, <2>1, <2>2
  <1>8. Len(f) \in Nat /\ Len(working) \in Nat /\ Len(outTopic) \in Nat /\ Len(p) \in Nat
    BY <1>1, <1>3, <1>6, LenProperties
  <1>9. Len(Queue) \in Nat /\ Len(working) <= Len(Queue)
    BY <1>6, <1>7, <1>8
  <1>10. \A i \in 1..Len(Queue) : Queue[i] \in OutputMsg
    BY <1>7, ElementOfSeq
  <1>11. DOMAIN updates = 1..Len(updates) /\ Len(updates) \in Nat /\ \A i \in DOMAIN updates : updates[i] \in Job
    BY <1>1, LenProperties, ElementOfSeq
  <1>12. Len(updates) <= Len(working)
    <2>1. CASE updates = <<>>
      <3>1. Len(updates) = 0
        BY <2>1
      <3>2. QED
        BY <1>8, <3>1
    <2>2. CASE updates # <<>>
      BY <1>8, <2>2 DEF WriterShape
    <2>3. QED
      BY <2>1, <2>2
  <1>13. \A i \in 1..Len(working) : i \in 1..Len(Queue) /\ Queue[i] = working[i]
    BY <1>6, <1>7
  <1>14. \A i \in 1..Len(outTopic) : \E j \in 1..Len(Queue) : Queue[j] = outTopic[i]
    BY <1>7
  <1>15. QED
    BY <1>7, <1>8, <1>9, <1>10, <1>11, <1>12, <1>13, <1>14

\* The engine's output comes last.
LEMMA QueueAppend ==
    ASSUME WriterShape, NEW x \in OutputMsg, outTopic' = Append(outTopic, x),
           UNCHANGED <<working, orderCh>>
    PROVE  /\ Queue' = Append(Queue, x)
           /\ Len(Queue') = Len(Queue) + 1 /\ Queue'[Len(Queue) + 1] = x
           /\ \A i \in 1..Len(Queue) : Queue'[i] = Queue[i]
  <1>1. PICK p : p = working \o FlattenSeq(orderCh)
    OBVIOUS
  <1>2. p \in Seq(OutputMsg) /\ outTopic \in Seq(OutputMsg)
    BY <1>1, FlattenRange, ConcatProperties DEF WriterShape
  <1>3. Queue = p \o outTopic /\ Queue' = p \o Append(outTopic, x)
    BY <1>1 DEF Queue
  <1>4. Append(outTopic, x) = outTopic \o <<x>> /\ <<x>> \in Seq(OutputMsg)
    BY <1>2, AppendIsConcat
  <1>5. p \o (outTopic \o <<x>>) = (p \o outTopic) \o <<x>>
    <2>1. PICK s : s = <<x>>
      OBVIOUS
    <2>2. s \in Seq(OutputMsg)
      BY <1>4, <2>1
    <2>3. (p \o outTopic) \o s = p \o (outTopic \o s)
      BY <1>2, <2>2, OutputsThree
    <2>4. QED
      BY <2>1, <2>3
  <1>6. Queue \in Seq(OutputMsg)
    BY QueueFacts
  <1>7. Queue \o <<x>> = Append(Queue, x)
    BY <1>6, AppendIsConcat
  <1>8. Queue' = Append(Queue, x)
    BY <1>3, <1>4, <1>5, <1>7
  <1>9. QED
    BY <1>6, <1>8, AppendProperties

\* A batch that goes to the order writer keeps its place.
LEMMA QueueDispatch ==
    ASSUME WriterShape, NEW k \in 1..Len(outTopic),
           orderCh' = Append(orderCh, SubSeq(outTopic, 1, k)),
           outTopic' = SubSeq(outTopic, k + 1, Len(outTopic)), working' = working
    PROVE  /\ Queue' = Queue
           /\ SubSeq(outTopic, 1, k) \in Seq(OutputMsg) /\ Len(SubSeq(outTopic, 1, k)) = k
           /\ outTopic' \in Seq(OutputMsg)
           /\ \A i \in 1..k : SubSeq(outTopic, 1, k)[i] = outTopic[i]
           /\ \A i \in 1..Len(outTopic) : i > k => outTopic[i] \in Range(outTopic')
  <1>1. /\ outTopic \in Seq(OutputMsg) /\ orderCh \in Seq(Seq(OutputMsg)) /\ working \in Seq(OutputMsg)
        /\ Len(outTopic) \in Nat
    BY LenProperties DEF WriterShape
  <1>2. PICK a : a = SubSeq(outTopic, 1, k)
    OBVIOUS
  <1>3. PICK b : b = SubSeq(outTopic, k + 1, Len(outTopic))
    OBVIOUS
  <1>4. a \in Seq(OutputMsg) /\ b \in Seq(OutputMsg) /\ Len(a) = k /\ Len(b) = Len(outTopic) - k
    <2>0. \A i \in 1..Len(outTopic) : outTopic[i] \in OutputMsg
      BY <1>1, ElementOfSeq
    <2>1. a \in Seq(OutputMsg) /\ Len(a) = k
      BY <1>1, <1>2, <2>0, SubSeqProperties
    <2>2. b \in Seq(OutputMsg)
      BY <1>1, <1>3, <2>0, SubSeqProperties
    <2>3. Len(b) = Len(outTopic) - k
      BY <1>1, <1>3, SubSeqProperties
    <2>4. QED
      BY <2>1, <2>2, <2>3
  <1>5. a \o b = outTopic
    <2>1. 1 \in 1..(Len(outTopic) + 1) /\ k \in (1 - 1)..Len(outTopic) /\ Len(outTopic) \in k..Len(outTopic)
      BY <1>1
    <2>2. a \o b = SubSeq(outTopic, 1, Len(outTopic))
      BY <1>1, <1>2, <1>3, <2>1, ConcatAdjacentSubSeq
    <2>3. QED
      BY <1>1, <2>2, SubSeqFull
  <1>6. PICK f : f = FlattenSeq(orderCh)
    OBVIOUS
  <1>7. f \in Seq(OutputMsg)
    BY <1>1, <1>6, FlattenRange
  <1>8. FlattenSeq(orderCh') = f \o a
    BY <1>1, <1>2, <1>4, <1>6, FlattenAppend
  <1>9. PICK p : p = working \o f
    OBVIOUS
  <1>10. p \in Seq(OutputMsg) /\ working \o (f \o a) = p \o a
    <2>1. p \in Seq(OutputMsg)
      BY <1>1, <1>7, <1>9, ConcatProperties
    <2>2. (working \o f) \o a = working \o (f \o a)
      BY <1>1, <1>4, <1>7, OutputsThree
    <2>3. QED
      BY <1>9, <2>1, <2>2
  <1>11. (p \o a) \o b = p \o (a \o b)
    BY <1>4, <1>10, OutputsThree
  <1>12. Queue = p \o outTopic
    BY <1>6, <1>9 DEF Queue
  <1>13. Queue' = (p \o a) \o b
    BY <1>3, <1>8, <1>10 DEF Queue
  <1>14. \A i \in 1..k : a[i] = outTopic[i]
    BY <1>1, <1>2, SubSeqProperties
  <1>15. ASSUME NEW i \in 1..Len(outTopic), i > k  PROVE outTopic[i] \in Range(b)
    <2>0. \A j \in 1..Len(outTopic) : j > Len(a) => j - Len(a) \in 1..Len(b) /\ outTopic[j] = b[j - Len(a)]
      <3>1. a \in Seq(OutputMsg) /\ b \in Seq(OutputMsg) /\ outTopic = a \o b
        BY <1>4, <1>5
      <3>2. QED
        BY <3>1, OutputsConcat
    <2>1. i - k \in 1..Len(b) /\ outTopic[i] = b[i - k]
      BY <1>4, <1>15, <2>0
    <2>2. DOMAIN b = 1..Len(b)
      BY <1>4, LenProperties
    <2>3. QED
      BY <2>1, <2>2 DEF Range
  <1>16. QED
    BY <1>2, <1>3, <1>4, <1>5, <1>11, <1>12, <1>13, <1>14, <1>15

\* The order writer takes the first batch.
LEMMA QueueReceive ==
    ASSUME WriterShape, working = <<>>, orderCh # <<>>, working' = Head(orderCh),
           orderCh' = Tail(orderCh), outTopic' = outTopic
    PROVE  Queue' = Queue /\ working' \in Seq(OutputMsg) /\ orderCh' \in Seq(Seq(OutputMsg))
  <1>1. orderCh \in Seq(Seq(OutputMsg))
    BY DEF WriterShape
  <1>2. PICK h : h = Head(orderCh)
    OBVIOUS
  <1>3. PICK r : r = Tail(orderCh)
    OBVIOUS
  <1>4. h \in Seq(OutputMsg) /\ r \in Seq(Seq(OutputMsg))
    BY <1>1, <1>2, <1>3, HeadTailProperties
  <1>5. FlattenSeq(orderCh) = h \o FlattenSeq(r) /\ FlattenSeq(orderCh) \in Seq(OutputMsg)
    BY <1>1, <1>2, <1>3, FlattenTail, FlattenRange
  <1>6. PICK f : f = FlattenSeq(orderCh)
    OBVIOUS
  <1>7. working \o f = f
    <2>1. <<>> \o f = f
      BY <1>5, <1>6, ConcatEmptySeq
    <2>2. QED
      BY <2>1
  <1>8. QED
    BY <1>2, <1>3, <1>4, <1>5, <1>6, <1>7 DEF Queue

\* The batch is done.
LEMMA QueueDone ==
    ASSUME WriterShape, working' = <<>>, UNCHANGED <<orderCh, outTopic>>
    PROVE  /\ Queue' \in Seq(OutputMsg) /\ Len(Queue') \in Nat
           /\ Len(Queue) = Len(working) + Len(Queue')
           /\ \A i \in 1..Len(Queue') : Len(working) + i \in 1..Len(Queue)
                                        /\ Queue[Len(working) + i] = Queue'[i]
           /\ \A i \in 1..Len(Queue) : i > Len(working) =>
                 i - Len(working) \in 1..Len(Queue') /\ Queue[i] = Queue'[i - Len(working)]
  <1>1. PICK f : f = FlattenSeq(orderCh)
    OBVIOUS
  <1>2. working \in Seq(OutputMsg) /\ outTopic \in Seq(OutputMsg) /\ f \in Seq(OutputMsg)
    BY <1>1, FlattenRange DEF WriterShape
  <1>3. <<>> \o f = f
    BY <1>2, ConcatEmptySeq
  <1>4. Queue' = f \o outTopic /\ Queue = (working \o f) \o outTopic
    BY <1>1, <1>3 DEF Queue
  <1>5. (working \o f) \o outTopic = working \o (f \o outTopic)
    BY <1>2, OutputsThree
  <1>6. Queue' \in Seq(OutputMsg)
    BY <1>2, <1>4, ConcatProperties
  <1>7. PICK q : q = Queue'
    OBVIOUS
  <1>8. Queue = working \o q /\ q \in Seq(OutputMsg)
    BY <1>4, <1>5, <1>6, <1>7
  <1>9. /\ Len(Queue) = Len(working) + Len(q)
        /\ \A i \in 1..Len(q) : Len(working) + i \in 1..Len(Queue) /\ Queue[Len(working) + i] = q[i]
        /\ \A i \in 1..Len(Queue) : i > Len(working) =>
              i - Len(working) \in 1..Len(q) /\ Queue[i] = q[i - Len(working)]
    BY <1>2, <1>8, OutputsConcat
  <1>10. QED
    BY <1>7, <1>8, <1>9, LenProperties

(***************************************************************************)
(* The engine, and the writers told of it.                                 *)
(***************************************************************************)

\* the orders but o are what they were
OthersStay(o) ==
    \A y \in OrderIds : y # o =>
        /\ book'[y] = "unsent" <=> book[y] = "unsent"
        /\ book'[y] = "rejected" <=> book[y] = "rejected"
        /\ Placed(y)' <=> Placed(y)
        /\ TakenBy(y)' = TakenBy(y)
        /\ FilledOnArrival(y)' <=> FilledOnArrival(y)

\* Two orders' trades being the same, so is whether they filled it.
LEMMA FilledSame ==
    ASSUME NEW y, TakenBy(y)' = TakenBy(y)
    PROVE  FilledOnArrival(y)' <=> FilledOnArrival(y)
  <1>1. PICK T : T = TakenBy(y)
    OBVIOUS
  <1>2. PICK f : f = [t \in T |-> t.qty]
    OBVIOUS
  <1>3. FilledOnArrival(y) <=> SumFunctionOnSet(f, T) = Order[y].qty
    BY <1>1, <1>2 DEF FilledOnArrival
  <1>4. FilledOnArrival(y)' <=> SumFunctionOnSet(f, T) = Order[y].qty
    BY <1>1, <1>2 DEF FilledOnArrival
  <1>5. QED
    BY <1>3, <1>4

\* The engine puts out what it made of an order.
LEMMA OutputSent ==
    ASSUME WritersInv, NEW o \in OrderIds, book[o] = "unsent", book'[o] # "unsent", OthersStay(o),
           NEW x \in OutputMsg, x.order = o, OutputInv(x)', outTopic' = Append(outTopic, x),
           UNCHANGED <<db, writerVars, failures>>,
           trades \subseteq trades', \A t \in trades' : t \in trades \/ t.taker = o
    PROVE  WritersInv'
  <1>0. WriterShape /\ QueueInv /\ \A y \in OrderIds : SettledRows(y)
    BY DEF WritersInv
  <1>1. /\ Queue \in Seq(OutputMsg) /\ Len(Queue) \in Nat /\ Len(working) \in Nat
        /\ Len(working) <= Len(Queue)
        /\ \A i \in 1..Len(Queue) : Queue[i] \in OutputMsg
        /\ DOMAIN updates = 1..Len(updates) /\ Len(updates) \in Nat /\ Len(updates) <= Len(working)
        /\ tracked \in 0..Len(working)
    BY <1>0, QueueFacts DEF WriterShape
  <1>2. UNCHANGED <<tradesCh, orderCh, working, tracked, updates, listed, lookup, userTrades>>
    BY DEF writerVars
  <1>3. PICK n : n = Len(Queue)
    OBVIOUS
  <1>4. /\ Len(Queue') = n + 1 /\ Queue'[n + 1] = x /\ \A i \in 1..n : Queue'[i] = Queue[i]
    BY <1>0, <1>2, <1>3, QueueAppend
  <1>5. /\ n \in Nat /\ n + 1 \notin DOMAIN updates /\ n + 1 > tracked /\ n + 1 \in 1..(n + 1)
        /\ \A i \in 1..n : i \in 1..(n + 1)
        /\ \A i \in 1..(n + 1) : i = n + 1 \/ i \in 1..n
    BY SMTT(30), <1>1, <1>3
  <1>6. \A i \in 1..n : Queue[i].order # o /\ Queue[i].order \in OrderIds
    BY <1>0, <1>1, <1>3 DEF QueueInv, OutputInv, OutputMsg
  <1>7. WriterShape'
    <2>1. outTopic' \in Seq(OutputMsg)
      BY <1>0, AppendProperties DEF WriterShape
    <2>2. QED
      BY <1>0, <1>2, <2>1 DEF WriterShape
  <1>8. QueueInv'
    <2>1. ASSUME NEW i \in 1..n  PROVE OutputInv(Queue[i])'
      <3>1. PICK q : q = Queue[i]
        OBVIOUS
      <3>2. OutputInv(q) /\ q.order # o /\ q.order \in OrderIds
        BY <1>0, <1>3, <1>6, <3>1 DEF QueueInv
      <3>3. OutputInv(q)'
        BY <3>2 DEF OutputInv, OthersStay
      <3>4. QED
        BY <1>4, <3>1, <3>3 DEF OutputInv
    <2>2. OutputInv(Queue[n + 1])'
      BY <1>4 DEF OutputInv
    <2>3. \A i \in 1..Len(Queue') : OutputInv(Queue[i])'
      BY <1>4, <1>5, <2>1, <2>2
    <2>4. ASSUME NEW i \in 1..(n + 1), NEW j \in 1..(n + 1), Queue'[i].order = Queue'[j].order
          PROVE  i = j
      <3>1. CASE i \in 1..n /\ j \in 1..n
        BY <1>0, <1>3, <1>4, <2>4, <3>1 DEF QueueInv
      <3>2. CASE i = n + 1 /\ j \in 1..n
        BY <1>4, <1>6, <2>4, <3>2
      <3>3. CASE i \in 1..n /\ j = n + 1
        BY <1>4, <1>6, <2>4, <3>3
      <3>4. QED
        BY <1>5, <3>1, <3>2, <3>3
    <2>5. QED
      BY <1>4, <2>3, <2>4 DEF QueueInv
  <1>9. ASSUME NEW y \in OrderIds, y # o
        PROVE  /\ Unwritten(y)' <=> Unwritten(y)
               /\ Uncounted(y)' <=> Uncounted(y)
               /\ Untracked(y)' <=> Untracked(y)
    <2>1. \A i \in 1..(n + 1) : Queue'[i].order = y => i \in 1..n
      BY <1>4, <1>5, <1>9
    <2>2. Unwritten(y)' <=> Unwritten(y)
      BY <1>2, <1>3, <1>4, <1>5, <2>1 DEF Unwritten
    <2>3. Uncounted(y)' <=> Uncounted(y)
      BY <1>2, <1>3, <1>4, <1>5, <2>1 DEF Uncounted
    <2>4. Untracked(y)' <=> Untracked(y)
      BY <1>2, <1>3, <1>4, <1>5, <2>1 DEF Untracked
    <2>5. QED
      BY <2>2, <2>3, <2>4
  <1>10. Unwritten(o)' /\ Uncounted(o)' /\ Untracked(o)'
    BY <1>2, <1>4, <1>5 DEF Unwritten, Uncounted, Untracked
  <1>11. ~Placed(o)
    BY DEF Placed
  <1>12. ASSUME NEW y \in OrderIds  PROVE SettledRows(y)'
    <2>1. CASE y = o
      BY <1>0, <1>2, <1>11, <2>1 DEF SettledRows
    <2>2. CASE y # o
      BY <1>0, <1>2, <1>9, <2>2 DEF SettledRows, OthersStay
    <2>3. QED
      BY <2>1, <2>2
  <1>13. \A u : AtOnceOf(u)' = AtOnceOf(u) /\ RefusedOf(u)' = RefusedOf(u) /\ RestingOf(u)' = RestingOf(u)
    <2>1. \A u : AtOnceOf(u)' = AtOnceOf(u)
      BY <1>9, <1>10, <1>11 DEF AtOnceOf, OthersStay
    <2>2. \A u : RefusedOf(u)' = RefusedOf(u)
      BY <1>9, <1>10 DEF RefusedOf, OthersStay
    <2>3. \A u : RestingOf(u)' = RestingOf(u)
      BY <1>9, <1>10, <1>11 DEF RestingOf, OthersStay
    <2>4. QED
      BY <2>1, <2>2, <2>3
  <1>14. \A u, s : Bounded(u, s)' <=> Bounded(u, s)
    BY <1>13 DEF Bounded
  <1>15. CountersInv'
    BY <1>2, <1>14 DEF CountersInv, WritersInv
  <1>16. TradesSent'
    <2>1. PICK A : A = {Trade(t.taker, t.maker) : t \in trades}
      OBVIOUS
    <2>2. PICK B : B = {Trade(t.taker, t.maker) : t \in trades'}
      OBVIOUS
    <2>3. A \subseteq B
      BY <2>1, <2>2
    <2>4. tradesCh \in Seq(A)
      BY <2>1 DEF WritersInv, TradesSent
    <2>5. tradesCh \in Seq(B)
      BY <2>3, <2>4
    <2>6. QED
      BY <1>2, <2>2, <2>5 DEF TradesSent
  <1>17. ASSUME failures' = 0  PROVE WritersShow'
    <2>0. WritersShow
      BY <1>17 DEF WritersInv
    <2>1. ASSUME NEW y \in OrderIds, Placed(y)', ~Untracked(y)'
          PROVE  listed'[y] = IF FilledOnArrival(y)' THEN "Filled" ELSE "New"
      <3>1. y # o
        BY <1>10, <2>1
      <3>2. QED
        BY <1>2, <1>9, <2>0, <2>1, <3>1 DEF WritersShow, OthersStay
    <2>2. ASSUME NEW r \in userTrades'  PROVE ShowsRow(r)'
      <3>1. ShowsRow(r)
        BY <1>2, <2>0 DEF WritersShow
      <3>2. IsTrade(r.trade)'
        BY <3>1 DEF ShowsRow, IsTrade
      <3>3. QED
        BY <3>1, <3>2 DEF ShowsRow, SellerRow, BuyerRow, WithOneself
    <2>3. ASSUME NEW t \in trades'
          PROVE  \/ \E y \in Range(outTopic') : y.order = t.taker
                 \/ Trade(t.taker, t.maker) \in Range(tradesCh')
                 \/ Written(Trade(t.taker, t.maker))'
      <3>1. Range(outTopic') = Range(outTopic) \cup {x}
        <4>1. outTopic \in Seq(OutputMsg)
          BY <1>0 DEF WriterShape
        <4>2. QED
          BY <4>1, AppendProperties DEF Range
      <3>2. CASE t.taker = o
        BY <3>1, <3>2
      <3>3. CASE t \in trades
        <4>1. Written(Trade(t.taker, t.maker))' <=> Written(Trade(t.taker, t.maker))
          BY <1>2 DEF Written, SellerRow, BuyerRow, WithOneself
        <4>2. QED
          BY <1>2, <2>0, <3>1, <3>3, <4>1 DEF WritersShow
      <3>4. QED
        BY <3>2, <3>3
    <2>4. QED
      BY <2>1, <2>2, <2>3 DEF WritersShow
  <1>18. QED
    BY <1>7, <1>8, <1>12, <1>15, <1>16, <1>17 DEF WritersInv

\* An order that has not been sent has taken no trade.
LEMMA UnsentTakesNone ==
    ASSUME \A t \in trades : TradeInv(t), NEW o, book[o] = "unsent"
    PROVE  TakenBy(o) = {}
  <1>1. \A t \in trades : Placed(t.taker)
    BY DEF TradeInv
  <1>2. ~Placed(o)
    BY DEF Placed
  <1>3. QED
    BY <1>1, <1>2 DEF TakenBy

\* The engine rejects an order.
LEMMA SettlementReject ==
    ASSUME EngineInv, WritersInv, \A t \in trades : TradeInv(t), reader = "settlement",
           NEW o \in OrderIds, RejectOrder(o)
    PROVE  WritersInv'
  <1>1. PICK x : x = [order |-> o, status |-> "Rejected", filled |-> 0, makers |-> <<>>]
    OBVIOUS
  <1>2. /\ book[o] = "unsent" /\ book' = [book EXCEPT ![o] = "rejected"]
        /\ outTopic' = Append(outTopic, x) /\ UNCHANGED <<left, trades, db, writerVars, failures>>
    BY <1>1 DEF RejectOrder, Tells
  <1>3. book'[o] = "rejected" /\ \A y \in OrderIds : y # o => book'[y] = book[y]
    BY <1>2 DEF EngineInv
  <1>4. \A y : TakenBy(y)' = TakenBy(y)
    BY <1>2 DEF TakenBy
  <1>5. OthersStay(o)
    <2>1. \A y : FilledOnArrival(y)' <=> FilledOnArrival(y)
      BY <1>4, FilledSame
    <2>2. QED
      BY <1>3, <1>4, <2>1 DEF OthersStay, Placed
  <1>6. x \in OutputMsg /\ x.order = o
    BY <1>1 DEF OutputMsg
  <1>7. OutputInv(x)'
    <2>1. TakenBy(o)' = {}
      BY <1>2, <1>4, UnsentTakesNone
    <2>2. ~Placed(o)'
      BY <1>3 DEF Placed
    <2>3. Range(x.makers) = {}
      BY <1>1 DEF Range
    <2>4. x.filled <= Order[o].qty
      BY <1>1, HistoryAssumption
    <2>5. {t.maker : t \in TakenBy(o)'} = {}
      BY <2>1
    <2>6. QED
      BY <1>1, <1>3, <2>2, <2>3, <2>4, <2>5 DEF OutputInv
  <1>8. QED
    BY <1>2, <1>3, <1>5, <1>6, <1>7, OutputSent

\* What the trades of an order say once it is placed.
LEMMA PlacedTrades ==
    ASSUME EngineInv, \A t \in trades : TradeInv(t), NEW o \in OrderIds, NEW C, NEW n, Meets(o, C, n)
    PROVE  /\ TakenBy(o)' = {Traded(o, n, m) : m \in C}
           /\ FilledOnArrival(o)' <=> SumFunctionOnSet(n, C) = Order[o].qty
           /\ \A y \in OrderIds : y # o => TakenBy(y)' = TakenBy(y)
  <1>1. book[o] = "unsent" /\ IsFiniteSet(C) /\ \A m \in C : n[m] \in Nat
    BY DEF Meets
  <1>2. TakenBy(o) = {}
    BY <1>1, UnsentTakesNone
  <1>3. PICK T : T = {Traded(o, n, m) : m \in C}
    OBVIOUS
  <1>4. trades' = trades \cup T
    BY <1>3 DEF Meets, Traded
  <1>5. \A t \in T : t.taker = o
    BY <1>3 DEF Traded
  <1>6. TakenBy(o)' = T
    BY <1>2, <1>4, <1>5 DEF TakenBy
  <1>7. \A y \in OrderIds : y # o => TakenBy(y)' = TakenBy(y)
    BY <1>4, <1>5 DEF TakenBy
  <1>8. SumFunctionOnSet([t \in T |-> t.qty], T) = SumFunctionOnSet(n, C)
    BY <1>1, <1>3, SumOfTrades
  <1>9. FilledOnArrival(o)' <=> SumFunctionOnSet(n, C) = Order[o].qty
    BY <1>6, <1>8 DEF FilledOnArrival
  <1>10. QED
    BY <1>3, <1>6, <1>7, <1>9

\* The engine places an order.
LEMMA SettlementPlace ==
    ASSUME EngineInv, WritersInv, \A t \in trades : TradeInv(t), reader = "settlement",
           NEW o \in OrderIds, PlaceOrder(o)
    PROVE  WritersInv'
  <1>1. PICK C \in SUBSET OrderIds : \E n \in [C -> Nat \ {0}] :
              /\ Meets(o, C, n)
              /\ Tells(<<Update(o, "New", 0)>> \o Fills(o, SetToSeq(C), n),
                       [order |-> o, status |-> StatusOf(SumFunctionOnSet(n, C), Order[o].qty),
                        filled |-> SumFunctionOnSet(n, C), makers |-> SetToSeq(C)])
    BY PlaceOrderMeets
  <1>2. PICK n \in [C -> Nat \ {0}] :
              /\ Meets(o, C, n)
              /\ Tells(<<Update(o, "New", 0)>> \o Fills(o, SetToSeq(C), n),
                       [order |-> o, status |-> StatusOf(SumFunctionOnSet(n, C), Order[o].qty),
                        filled |-> SumFunctionOnSet(n, C), makers |-> SetToSeq(C)])
    BY <1>1
  <1>3. PICK sum : sum = SumFunctionOnSet(n, C)
    OBVIOUS
  <1>4. PICK makers : makers = SetToSeq(C)
    OBVIOUS
  <1>5. PICK x : x = [order |-> o, status |-> StatusOf(sum, Order[o].qty), filled |-> sum,
                      makers |-> makers]
    OBVIOUS
  <1>6. outTopic' = Append(outTopic, x) /\ UNCHANGED <<db, writerVars, failures>>
    BY <1>2, <1>3, <1>4, <1>5 DEF Tells, PlaceOrder
  <1>7. /\ book'[o] \in {"open", "filled"}
        /\ \A m \in C : book'[m] \in {"open", "filled"} /\ book[m] = "open" /\ m # o /\ m \in OrderIds
        /\ \A y \in OrderIds : y # o /\ y \notin C => book'[y] = book[y]
        /\ sum \in Nat /\ sum <= Order[o].qty /\ Order[o].qty \in Nat \ {0}
        /\ \A m \in C : n[m] \in Nat \ {0}
    BY <1>2, <1>3, MeetsFacts
  <1>8. IsFiniteSet(C) /\ book[o] = "unsent"
    BY <1>2 DEF Meets
  <1>9. /\ TakenBy(o)' = {Traded(o, n, m) : m \in C}
        /\ FilledOnArrival(o)' <=> sum = Order[o].qty
        /\ \A y \in OrderIds : y # o => TakenBy(y)' = TakenBy(y)
    BY <1>2, <1>3, PlacedTrades
  <1>10. OthersStay(o)
    <2>1. \A y \in OrderIds : y # o => (FilledOnArrival(y)' <=> FilledOnArrival(y))
      BY <1>9, FilledSame
    <2>2. \A y \in OrderIds : y # o => /\ book'[y] = "unsent" <=> book[y] = "unsent"
                                       /\ book'[y] = "rejected" <=> book[y] = "rejected"
                                       /\ Placed(y)' <=> Placed(y)
      BY <1>7 DEF Placed
    <2>3. QED
      BY <1>9, <2>1, <2>2 DEF OthersStay
  <1>11. makers \in Seq(OrderIds) /\ Range(makers) = C
    <2>1. /\ makers \in Seq(C)
          /\ \A m \in C : \E i \in 1..Len(makers) : makers[i] = m
      BY <1>4, <1>8, SetToSeqFacts
    <2>2. DOMAIN makers = 1..Len(makers) /\ \A i \in 1..Len(makers) : makers[i] \in C
      BY <2>1, LenProperties, ElementOfSeq
    <2>3. Range(makers) = C
      BY <2>1, <2>2 DEF Range
    <2>4. makers \in Seq(OrderIds)
      BY <2>1
    <2>5. QED
      BY <2>3, <2>4
  <1>12. x.status \in {"New", "PartiallyFilled", "Filled"} /\ x.status = StatusOf(sum, Order[o].qty)
    BY <1>5 DEF StatusOf
  <1>13. x \in OutputMsg /\ x.order = o /\ x.filled = sum /\ x.makers = makers
    <2>1. StatusOf(sum, Order[o].qty) \in {"New", "PartiallyFilled", "Filled", "Rejected"}
      BY DEF StatusOf
    <2>2. QED
      BY <1>5, <1>7, <1>11, <2>1 DEF OutputMsg
  <1>14. sum = 0 <=> C = {}
    <2>1. CASE C = {}
      BY <1>3, <2>1, SumEmpty
    <2>2. CASE C # {}
      <3>1. PICK m \in C : TRUE
        BY <2>2
      <3>2. n[m] <= sum
        <4>1. \A y \in C : n[y] \in Nat
          BY <1>7
        <4>2. QED
          BY <1>3, <1>8, <4>1, SumBounds
      <3>3. QED
        BY <1>7, <2>2, <3>2
    <2>3. QED
      BY <2>1, <2>2
  <1>15. OutputInv(x)'
    <2>1. Placed(o)'
      BY <1>7 DEF Placed
    <2>2. x.status = "Filled" <=> FilledOnArrival(o)'
      BY <1>7, <1>9, <1>12 DEF StatusOf
    <2>3. x.status = "New" <=> TakenBy(o)' = {}
      BY <1>7, <1>9, <1>12, <1>14 DEF StatusOf
    <2>4. {t.maker : t \in TakenBy(o)'} = C
      <3>1. \A m \in C : Traded(o, n, m).maker = m
        BY DEF Traded
      <3>2. QED
        BY <1>9, <3>1
    <2>5. QED
      BY <1>7, <1>11, <1>12, <1>13, <2>1, <2>2, <2>3, <2>4 DEF OutputInv
  <1>16. trades \subseteq trades' /\ \A t \in trades' : t \in trades \/ t.taker = o
    BY <1>2 DEF Meets
  <1>17. QED
    BY <1>6, <1>7, <1>8, <1>10, <1>13, <1>15, <1>16, OutputSent

(***************************************************************************)
(* The steps of the writers.                                               *)
(***************************************************************************)

\* Where every order's output stands, when the queue and the writer's progress
\* stay.
LEMMA StandingSame ==
    ASSUME QueueInv, Queue' = Queue, UNCHANGED <<updates, tracked, engineVars>>
    PROVE  /\ QueueInv'
           /\ \A o : /\ Unwritten(o)' <=> Unwritten(o)
                     /\ Uncounted(o)' <=> Uncounted(o)
                     /\ Untracked(o)' <=> Untracked(o)
                     /\ Placed(o)' <=> Placed(o)
                     /\ FilledOnArrival(o)' <=> FilledOnArrival(o)
           /\ \A u, s : Bounded(u, s)' <=> Bounded(u, s)
  <1>0. UNCHANGED <<book, trades>>
    BY DEF engineVars
  <1>1. \A o : TakenBy(o)' = TakenBy(o)
    BY <1>0 DEF TakenBy
  <1>2. \A o : FilledOnArrival(o)' <=> FilledOnArrival(o)
    BY <1>1, FilledSame
  <1>3. \A o : Placed(o)' <=> Placed(o)
    BY <1>0 DEF Placed
  <1>4. \A o : /\ Unwritten(o)' <=> Unwritten(o)
               /\ Uncounted(o)' <=> Uncounted(o)
               /\ Untracked(o)' <=> Untracked(o)
    BY DEF Unwritten, Uncounted, Untracked
  <1>5. \A u : AtOnceOf(u)' = AtOnceOf(u) /\ RefusedOf(u)' = RefusedOf(u) /\ RestingOf(u)' = RestingOf(u)
    <2>1. \A u : AtOnceOf(u)' = AtOnceOf(u)
      BY <1>2, <1>3, <1>4 DEF AtOnceOf
    <2>2. \A u : RefusedOf(u)' = RefusedOf(u)
      BY <1>0, <1>4 DEF RefusedOf
    <2>3. \A u : RestingOf(u)' = RestingOf(u)
      BY <1>1, <1>3, <1>4 DEF RestingOf
    <2>4. QED
      BY <2>1, <2>2, <2>3
  <1>6. \A u, s : Bounded(u, s)' <=> Bounded(u, s)
    BY <1>5 DEF Bounded
  <1>7. \A q : OutputInv(q)' <=> OutputInv(q)
    BY <1>0, <1>1, <1>2, <1>3 DEF OutputInv
  <1>8. QueueInv'
    <2>1. ASSUME NEW i \in 1..Len(Queue')  PROVE OutputInv(Queue[i])'
      <3>1. PICK q : q = Queue[i]
        OBVIOUS
      <3>2. OutputInv(q)'
        BY <1>7, <2>1, <3>1 DEF QueueInv
      <3>3. Queue'[i] = q
        BY <3>1
      <3>4. QED
        BY <3>2, <3>3 DEF OutputInv
    <2>2. QED
      BY <2>1 DEF QueueInv
  <1>9. QED
    BY <1>2, <1>3, <1>4, <1>6, <1>8

\* The same of what is derived from them.
LEMMA StandingKeeps ==
    ASSUME WritersInv, Queue' = Queue, UNCHANGED <<updates, tracked, engineVars, db, listed>>,
           \A i \in DOMAIN updates : working'[i] = working[i]
    PROVE  QueueInv' /\ (\A o \in OrderIds : SettledRows(o)') /\ CountersInv'
  <1>1. /\ QueueInv'
        /\ \A o : /\ Unwritten(o)' <=> Unwritten(o)
                  /\ Untracked(o)' <=> Untracked(o)
                  /\ Placed(o)' <=> Placed(o)
        /\ \A u, s : Bounded(u, s)' <=> Bounded(u, s)
    BY StandingSame DEF WritersInv
  <1>2. book' = book
    BY DEF engineVars
  <1>3. ASSUME NEW o \in OrderIds  PROVE SettledRows(o)'
    BY <1>1, <1>2 DEF SettledRows, WritersInv
  <1>4. CountersInv'
    <2>1. \A u \in Users : Bounded(u, db.stats[u])'
      <3>1. \A u \in Users : Bounded(u, db.stats[u])
        BY DEF WritersInv, CountersInv
      <3>2. TAKE u \in Users
      <3>3. PICK s : s = db.stats[u]
        OBVIOUS
      <3>4. Bounded(u, s)'
        BY <1>1, <3>1, <3>3
      <3>5. QED
        BY <3>3, <3>4 DEF Bounded
    <2>2. ASSUME NEW i \in DOMAIN updates', "write" \in updates'[i].todo, "read" \notin updates'[i].todo
          PROVE  Bounded(Order[working[i].order].user, updates[i].read)'
      <3>1. Bounded(Order[working[i].order].user, updates[i].read)
        BY <2>2 DEF WritersInv, CountersInv
      <3>2. PICK u : u = Order[working[i].order].user
        OBVIOUS
      <3>3. PICK s : s = updates[i].read
        OBVIOUS
      <3>4. Bounded(u, s)'
        BY <1>1, <3>1, <3>2, <3>3
      <3>5. u = Order[working'[i].order].user /\ s = updates'[i].read
        BY <2>2, <3>2, <3>3
      <3>6. QED
        BY <3>4, <3>5 DEF Bounded
    <2>3. QED
      BY <2>1, <2>2 DEF CountersInv
  <1>5. QED
    BY <1>1, <1>3, <1>4

\* The order writer takes a batch.
LEMMA SettlementReceive ==
    ASSUME WritersInv, ReceiveBatch
    PROVE  WritersInv'
  <1>1. /\ working = <<>> /\ orderCh # <<>> /\ working' = Head(orderCh) /\ orderCh' = Tail(orderCh)
        /\ tracked' = 0
        /\ UNCHANGED <<engineVars, wire, outTopic, db, tradesCh, updates, listed, lookup, userTrades,
                       failures>>
    BY DEF ReceiveBatch
  <1>2. WriterShape
    BY DEF WritersInv
  <1>3. Queue' = Queue /\ working' \in Seq(OutputMsg) /\ orderCh' \in Seq(Seq(OutputMsg))
    BY <1>1, <1>2, QueueReceive
  <1>4. Len(working) = 0 /\ updates = <<>> /\ tracked = 0
    <2>1. Len(working) = 0
      BY <1>1
    <2>2. DOMAIN updates = 1..Len(updates) /\ Len(updates) \in Nat /\ Len(updates) <= Len(working)
      BY <1>2, QueueFacts
    <2>3. Len(updates) = 0
      BY <2>1, <2>2
    <2>4. updates = <<>>
      BY <1>2, <2>3, EmptySeq DEF WriterShape
    <2>5. QED
      BY <1>2, <2>1, <2>4 DEF WriterShape
  <1>5. /\ orderCh \in Seq(Seq(OutputMsg)) /\ Len(orderCh) \in Nat \ {0}
        /\ Head(orderCh) = orderCh[1] /\ 1 \in 1..Len(orderCh)
        /\ Len(orderCh') = Len(orderCh) - 1
        /\ \A k \in 1..Len(orderCh') : orderCh'[k] = orderCh[k + 1] /\ k + 1 \in 1..Len(orderCh)
    <2>1. orderCh \in Seq(Seq(OutputMsg))
      BY <1>2 DEF WriterShape
    <2>2. Len(orderCh) \in Nat \ {0}
      BY <1>1, <2>1, EmptySeq, LenProperties
    <2>3. Len(orderCh') = Len(orderCh) - 1 /\ \A k \in 1..Len(orderCh') : orderCh'[k] = orderCh[k + 1]
      BY <1>1, <2>1, HeadTailProperties
    <2>4. \A k \in 1..Len(orderCh') : k + 1 \in 1..Len(orderCh)
      BY <2>2, <2>3
    <2>5. Head(orderCh) = orderCh[1] /\ 1 \in 1..Len(orderCh)
      <3>1. Head(orderCh) = orderCh[1]
        OBVIOUS
      <3>2. QED
        BY <2>2, <3>1
    <2>6. QED
      BY <2>1, <2>2, <2>3, <2>4, <2>5
  <1>6. working' # <<>> /\ Len(working') \in Nat \ {0}
    <2>1. orderCh[1] # <<>>
      BY <1>2, <1>5 DEF WriterShape
    <2>2. working' # <<>>
      BY <1>1, <1>5, <2>1
    <2>3. QED
      BY <1>3, <2>2, EmptySeq, LenProperties
  <1>7. WriterShape'
    <2>1. Len(orderCh') <= Room
      <3>1. Len(orderCh) <= Room /\ Room \in Nat
        BY <1>2, HistoryAssumption DEF WriterShape
      <3>2. QED
        BY <1>5, <3>1
    <2>2. \A k \in 1..Len(orderCh') : orderCh'[k] # <<>>
      BY <1>2, <1>5 DEF WriterShape
    <2>3. tracked' \in 0..Len(working') /\ tracked' < Len(working')
      BY <1>1, <1>6
    <2>4. updates' = <<>> /\ updates' \in Seq(Job)
      BY <1>1, <1>2, <1>4 DEF WriterShape
    <2>5. /\ outTopic' \in Seq(OutputMsg) /\ listed' \in [OrderIds -> {"none", "New", "Filled"}]
          /\ lookup' \subseteq OrderIds
      BY <1>1, <1>2 DEF WriterShape
    <2>6. QED
      BY <1>3, <2>1, <2>2, <2>3, <2>4, <2>5 DEF WriterShape
  <1>8. QueueInv' /\ (\A o \in OrderIds : SettledRows(o)') /\ CountersInv'
    <2>1. \A i \in DOMAIN updates : working'[i] = working[i]
      BY <1>4
    <2>2. QED
      BY <1>1, <1>3, <1>4, <2>1, StandingKeeps
  <1>9. TradesSent'
    BY <1>1 DEF TradesSent, WritersInv, engineVars
  <1>10. ASSUME failures' = 0  PROVE WritersShow'
    <2>0. WritersShow /\ QueueInv
      BY <1>1, <1>10 DEF WritersInv
    <2>1. \A o : /\ Untracked(o)' <=> Untracked(o)
                 /\ Placed(o)' <=> Placed(o)
                 /\ FilledOnArrival(o)' <=> FilledOnArrival(o)
      BY <1>1, <1>3, <1>4, <2>0, StandingSame
    <2>2. \A r : ShowsRow(r)' <=> ShowsRow(r)
      BY <1>1 DEF ShowsRow, IsTrade, SellerRow, BuyerRow, WithOneself, engineVars
    <2>3. \A d : Written(d)' <=> Written(d)
      BY <1>1 DEF Written, SellerRow, BuyerRow, WithOneself
    <2>4. QED
      BY <1>1, <2>0, <2>1, <2>2, <2>3 DEF WritersShow, engineVars
  <1>11. QED
    BY <1>7, <1>8, <1>9, <1>10 DEF WritersInv

\* the trades of the engine, as the writers see them
TradesMade == {Trade(t.taker, t.maker) : t \in trades}

\* what the writer of user trades is sent of the outputs part
TradeLists(part, k) == [i \in 1..k |-> [j \in DOMAIN part[i].makers |->
                          Trade(part[i].order, part[i].makers[j])]]

\* What two sequences hold, one after the other.
LEMMA RangeConcat ==
    ASSUME NEW S, NEW a \in Seq(S), NEW b \in Seq(S)
    PROVE  a \o b \in Seq(S) /\ Range(a \o b) = Range(a) \cup Range(b)
  <1>0. PICK c : c = a \o b
    OBVIOUS
  <1>1. /\ c \in Seq(S)
        /\ \A i \in 1..Len(a) : i \in 1..Len(c) /\ c[i] = a[i]
        /\ \A i \in 1..Len(b) : Len(a) + i \in 1..Len(c) /\ c[Len(a) + i] = b[i]
        /\ \A i \in 1..Len(c) : i > Len(a) => i - Len(a) \in 1..Len(b) /\ c[i] = b[i - Len(a)]
    BY <1>0, ConcatFacts
  <1>2. DOMAIN a = 1..Len(a) /\ DOMAIN b = 1..Len(b) /\ DOMAIN c = 1..Len(c) /\ Len(a) \in Nat
        /\ Len(c) \in Nat
    BY <1>1, LenProperties
  <1>3. \A i \in 1..Len(c) : i > Len(a) \/ i \in 1..Len(a)
    BY <1>2
  <1>4. Range(a) \subseteq Range(c)
    BY <1>1, <1>2 DEF Range
  <1>5. Range(b) \subseteq Range(c)
    <2>1. SUFFICES ASSUME NEW i \in 1..Len(b)  PROVE b[i] \in Range(c)
      BY <1>2 DEF Range
    <2>2. Len(a) + i \in DOMAIN c /\ c[Len(a) + i] = b[i]
      BY <1>1, <1>2
    <2>3. QED
      BY <2>2 DEF Range
  <1>6. Range(c) \subseteq Range(a) \cup Range(b)
    <2>1. SUFFICES ASSUME NEW i \in 1..Len(c)  PROVE c[i] \in Range(a) \cup Range(b)
      BY <1>2 DEF Range
    <2>2. CASE i \in 1..Len(a)
      BY <1>1, <1>2, <2>2 DEF Range
    <2>3. CASE i > Len(a)
      <3>1. i - Len(a) \in DOMAIN b /\ c[i] = b[i - Len(a)]
        BY <1>1, <1>2, <2>3
      <3>2. QED
        BY <3>1 DEF Range
    <2>4. QED
      BY <1>3, <2>2, <2>3
  <1>7. QED
    BY <1>0, <1>1, <1>4, <1>5, <1>6

\* The same of sequences of trades.
LEMMA TradesConcat ==
    ASSUME NEW a \in Seq(TradesMade), NEW b \in Seq(TradesMade)
    PROVE  a \o b \in Seq(TradesMade) /\ Range(a \o b) = Range(a) \cup Range(b)
  BY RangeConcat, Zenon

\* The outputs of a batch name the engine's trades.
LEMMA BatchTrades ==
    ASSUME NEW k \in Nat, NEW part \in Seq(OutputMsg), Len(part) = k,
           \A i \in 1..k : OutputInv(part[i]), NEW L, L = TradeLists(part, k)
    PROVE  /\ FlattenSeq(L) \in Seq(TradesMade)
           /\ \A i \in 1..k : \A t \in TakenBy(part[i].order) :
                 Trade(t.taker, t.maker) \in Range(FlattenSeq(L))
  <1>1. \A i \in 1..k : part[i] \in OutputMsg
    BY ElementOfSeq
  <1>2. ASSUME NEW i \in 1..k
        PROVE  /\ L[i] \in Seq(TradesMade)
               /\ \A t \in TakenBy(part[i].order) : Trade(t.taker, t.maker) \in Range(L[i])
    <2>1. PICK m : m = part[i].makers
      OBVIOUS
    <2>2. PICK o : o = part[i].order
      OBVIOUS
    <2>3. m \in Seq(OrderIds) /\ Len(m) \in Nat /\ DOMAIN m = 1..Len(m)
      BY <1>1, <2>1, LenProperties DEF OutputMsg
    <2>4. Range(m) = {t.maker : t \in TakenBy(o)}
      BY <2>1, <2>2 DEF OutputInv
    <2>5. L[i] = [j \in DOMAIN m |-> Trade(o, m[j])]
      BY <2>1, <2>2 DEF TradeLists
    <2>6. ASSUME NEW j \in 1..Len(m)  PROVE Trade(o, m[j]) \in TradesMade
      <3>1. m[j] \in Range(m)
        BY <2>3 DEF Range
      <3>2. PICK t \in TakenBy(o) : m[j] = t.maker
        BY <2>4, <3>1
      <3>3. t \in trades /\ t.taker = o
        BY DEF TakenBy
      <3>4. QED
        BY <3>2, <3>3 DEF TradesMade
    <2>7. L[i] \in [1..Len(m) -> TradesMade]
      BY <2>3, <2>5, <2>6
    <2>8. L[i] \in Seq(TradesMade)
      BY <2>3, <2>7, FunctionIsSequence
    <2>9. ASSUME NEW t \in TakenBy(o)  PROVE Trade(t.taker, t.maker) \in Range(L[i])
      <3>1. t.maker \in Range(m)
        BY <2>4
      <3>2. PICK j \in DOMAIN m : m[j] = t.maker
        BY <3>1 DEF Range
      <3>3. t.taker = o
        BY DEF TakenBy
      <3>4. DOMAIN L[i] = DOMAIN m /\ L[i][j] = Trade(t.taker, t.maker)
        BY <2>5, <3>2, <3>3
      <3>5. QED
        BY <3>2, <3>4 DEF Range
    <2>10. QED
      BY <2>2, <2>8, <2>9
  <1>3. L \in Seq(Seq(TradesMade)) /\ Len(L) = k
    <2>1. DOMAIN L = 1..k /\ L = [i \in 1..k |-> L[i]]
      BY DEF TradeLists
    <2>2. L \in [1..k -> Seq(TradesMade)]
      BY <1>2, <2>1
    <2>3. QED
      BY <2>2, FunctionIsSequence
  <1>4. /\ FlattenSeq(L) \in Seq(TradesMade)
        /\ \A x : x \in Range(FlattenSeq(L)) <=> \E i \in 1..Len(L) : x \in Range(L[i])
    BY <1>3, FlattenRange
  <1>5. QED
    BY <1>2, <1>3, <1>4

\* A batch goes to the writers.
LEMMA SettlementDispatch ==
    ASSUME WritersInv, dispatch_to_writers
    PROVE  WritersInv'
  <1>0. WriterShape /\ QueueInv
    BY DEF WritersInv
  <1>1. PICK k :
           /\ k \in 1..Min({Len(outTopic), MaxBatch})
           /\ Len(orderCh) < Room
           /\ orderCh' = Append(orderCh, SubSeq(outTopic, 1, k))
           /\ tradesCh' = tradesCh \o FlattenSeq(TradeLists(SubSeq(outTopic, 1, k), k))
           /\ outTopic' = SubSeq(outTopic, k + 1, Len(outTopic))
    BY DEF dispatch_to_writers, TradeLists
  <1>2. UNCHANGED <<engineVars, wire, db, working, tracked, updates, listed, lookup, userTrades,
                    failures>>
    BY DEF dispatch_to_writers
  <1>3. k \in 1..Len(outTopic) /\ k \in Nat
    <2>1. Len(outTopic) \in Nat /\ MaxBatch \in Nat
      BY <1>0, LenProperties, HistoryAssumption DEF WriterShape
    <2>2. PICK S : S = {Len(outTopic), MaxBatch}
      OBVIOUS
    <2>3. \E x \in S : \A y \in S : x <= y
      BY <2>1, <2>2
    <2>4. Min(S) \in S /\ \A y \in S : Min(S) <= y
      BY <2>3 DEF Min
    <2>5. Min(S) \in Nat /\ Min(S) <= Len(outTopic)
      BY <2>1, <2>2, <2>4
    <2>6. QED
      BY <1>1, <2>1, <2>2, <2>5
  <1>4. PICK part : part = SubSeq(outTopic, 1, k)
    OBVIOUS
  <1>5. /\ Queue' = Queue /\ part \in Seq(OutputMsg) /\ Len(part) = k
        /\ outTopic' \in Seq(OutputMsg)
        /\ \A i \in 1..k : part[i] = outTopic[i]
        /\ \A i \in 1..Len(outTopic) : i > k => outTopic[i] \in Range(outTopic')
    BY <1>0, <1>1, <1>2, <1>3, <1>4, QueueDispatch
  <1>6. \A i \in 1..Len(outTopic) : OutputInv(outTopic[i])
    BY <1>0, QueueFacts DEF QueueInv
  <1>7. PICK F : F = FlattenSeq(TradeLists(part, k))
    OBVIOUS
  <1>8. /\ F \in Seq(TradesMade)
        /\ \A i \in 1..k : \A t \in TakenBy(part[i].order) : Trade(t.taker, t.maker) \in Range(F)
    <2>1. \A i \in 1..k : OutputInv(part[i])
      BY <1>3, <1>5, <1>6
    <2>2. QED
      BY <1>3, <1>5, <1>7, <2>1, BatchTrades
  <1>9. tradesCh \in Seq(TradesMade)
    BY DEF WritersInv, TradesSent, TradesMade
  <1>10. tradesCh' \in Seq(TradesMade) /\ Range(tradesCh') = Range(tradesCh) \cup Range(F)
    <2>1. tradesCh' = tradesCh \o F /\ F \in Seq(TradesMade)
      BY <1>1, <1>4, <1>7, <1>8
    <2>2. QED
      BY <1>9, <2>1, TradesConcat
  <1>11. WriterShape'
    <2>1. /\ orderCh' \in Seq(Seq(OutputMsg)) /\ Len(orderCh') = Len(orderCh) + 1
          /\ \A j \in 1..Len(orderCh) : orderCh'[j] = orderCh[j]
          /\ orderCh'[Len(orderCh) + 1] = part /\ Len(orderCh) \in Nat
      BY <1>0, <1>1, <1>4, <1>5, AppendProperties, LenProperties DEF WriterShape
    <2>2. Len(orderCh') <= Room
      <3>1. Room \in Nat
        BY HistoryAssumption
      <3>2. QED
        BY <1>1, <2>1, <3>1
    <2>3. part # <<>>
      BY <1>3, <1>5
    <2>4. ASSUME NEW j \in 1..Len(orderCh')  PROVE orderCh'[j] # <<>>
      <3>1. j \in 1..Len(orderCh) \/ j = Len(orderCh) + 1
        BY <2>1
      <3>2. QED
        BY <1>0, <2>1, <2>3, <3>1 DEF WriterShape
    <2>5. QED
      BY <1>0, <1>2, <1>5, <2>1, <2>2, <2>4 DEF WriterShape
  <1>12. QueueInv' /\ (\A o \in OrderIds : SettledRows(o)') /\ CountersInv'
    BY <1>2, <1>5, StandingKeeps
  <1>13. TradesSent'
    BY <1>2, <1>10 DEF TradesSent, TradesMade, engineVars
  <1>14. ASSUME failures' = 0  PROVE WritersShow'
    <2>0. WritersShow
      BY <1>2, <1>14 DEF WritersInv
    <2>1. \A o : /\ Untracked(o)' <=> Untracked(o)
                 /\ Placed(o)' <=> Placed(o)
                 /\ FilledOnArrival(o)' <=> FilledOnArrival(o)
      BY <1>0, <1>2, <1>5, StandingSame
    <2>2. \A r : ShowsRow(r)' <=> ShowsRow(r)
      BY <1>2 DEF ShowsRow, IsTrade, SellerRow, BuyerRow, WithOneself, engineVars
    <2>3. \A d : Written(d)' <=> Written(d)
      BY <1>2 DEF Written, SellerRow, BuyerRow, WithOneself
    <2>4. ASSUME NEW t \in trades'
          PROVE  \/ \E x \in Range(outTopic') : x.order = t.taker
                 \/ Trade(t.taker, t.maker) \in Range(tradesCh')
                 \/ Written(Trade(t.taker, t.maker))
      <3>1. t \in trades
        BY <1>2 DEF engineVars
      <3>2. CASE \E x \in Range(outTopic) : x.order = t.taker
        <4>1. DOMAIN outTopic = 1..Len(outTopic)
          BY <1>0, LenProperties DEF WriterShape
        <4>2. PICK i \in 1..Len(outTopic) : outTopic[i].order = t.taker
          BY <3>2, <4>1 DEF Range
        <4>3. CASE i > k
          BY <1>5, <4>2, <4>3
        <4>4. CASE ~(i > k)
          <5>1. i \in 1..k
            BY <1>3, <4>4
          <5>2. t \in TakenBy(part[i].order)
            BY <1>5, <3>1, <4>2, <5>1 DEF TakenBy
          <5>3. QED
            BY <1>8, <1>10, <5>1, <5>2
        <4>5. QED
          BY <4>3, <4>4
      <3>3. CASE Trade(t.taker, t.maker) \in Range(tradesCh) \/ Written(Trade(t.taker, t.maker))
        BY <1>10, <3>3
      <3>4. QED
        BY <2>0, <3>1, <3>2, <3>3 DEF WritersShow
    <2>5. QED
      BY <1>2, <2>0, <2>1, <2>2, <2>3, <2>4 DEF WritersShow
  <1>15. QED
    BY <1>11, <1>12, <1>13, <1>14 DEF WritersInv

\* the rows with the buyer's and the seller's row of the trade d
WithBuyer(rows, d) == {r \in rows : <<r.user, r.trade>> # <<Order[d.buyer].user, d>>} \cup {BuyerRow(d)}
WithSeller(rows, d) == {r \in rows : <<r.user, r.trade>> # <<Order[d.seller].user, d>>} \cup {SellerRow(d)}

\* What is left of both inserts.
LEMMA BothInserted ==
    ASSUME NEW rows, NEW d, NEW new, new = WithSeller(WithBuyer(rows, d), d)
    PROVE  /\ SellerRow(d) \in new /\ (WithOneself(d) \/ BuyerRow(d) \in new)
           /\ \A r \in new : r \in rows \/ r = SellerRow(d) \/ (r = BuyerRow(d) /\ ~WithOneself(d))
           /\ \A r \in rows : r.trade # d => r \in new
  <1>1. SellerRow(d) \in new
    BY DEF WithSeller
  <1>2. BuyerRow(d) \in WithBuyer(rows, d)
    BY DEF WithBuyer
  <1>3. BuyerRow(d).user = Order[d.buyer].user /\ BuyerRow(d).trade = d
    BY DEF BuyerRow
  <1>4. ~WithOneself(d) => BuyerRow(d) \in new
    BY <1>2, <1>3 DEF WithSeller, WithOneself
  <1>5. WithOneself(d) => BuyerRow(d) \notin {r \in WithBuyer(rows, d) :
                                                <<r.user, r.trade>> # <<Order[d.seller].user, d>>}
    BY <1>3 DEF WithOneself
  <1>6. \A r \in new : r \in rows \/ r = SellerRow(d) \/ (r = BuyerRow(d) /\ ~WithOneself(d))
    BY <1>5 DEF WithSeller, WithBuyer
  <1>7. \A r \in rows : r.trade # d => r \in new
    BY DEF WithSeller, WithBuyer
  <1>8. QED
    BY <1>1, <1>4, <1>6, <1>7

\* The writer of user trades writes one.
LEMMA SettlementTrade ==
    ASSUME WritersInv, failures \in Nat, write_user_trades
    PROVE  WritersInv'
  <1>0. WriterShape /\ QueueInv
    BY DEF WritersInv
  <1>1. PICK d : d = Head(tradesCh)
    OBVIOUS
  <1>2. /\ tradesCh # <<>> /\ tradesCh' = Tail(tradesCh)
        /\ UNCHANGED <<engineVars, wire, outTopic, db, orderCh, working, tracked, updates, listed,
                       lookup>>
        /\ \/ failures' = failures /\ userTrades' = WithSeller(WithBuyer(userTrades, d), d)
           \/ failures' = failures + 1
    BY <1>1 DEF write_user_trades, Works, Fails, WithSeller, WithBuyer, SellerRow, BuyerRow
  <1>3. tradesCh \in Seq(TradesMade)
    BY DEF WritersInv, TradesSent, TradesMade
  <1>4. /\ tradesCh' \in Seq(TradesMade) /\ d \in TradesMade
        /\ \A e \in Range(tradesCh) : e = d \/ e \in Range(tradesCh')
    <2>1. tradesCh' \in Seq(TradesMade) /\ d \in TradesMade
      BY <1>1, <1>2, <1>3, HeadTailProperties
    <2>2. /\ Len(tradesCh') = Len(tradesCh) - 1 /\ \A k \in 1..Len(tradesCh') : tradesCh'[k] = tradesCh[k + 1]
          /\ DOMAIN tradesCh = 1..Len(tradesCh) /\ Len(tradesCh) \in Nat
          /\ DOMAIN tradesCh' = 1..Len(tradesCh') /\ d = tradesCh[1]
      <3>1. d = tradesCh[1]
        BY <1>1
      <3>2. Len(tradesCh') = Len(tradesCh) - 1 /\ \A k \in 1..Len(tradesCh') : tradesCh'[k] = tradesCh[k + 1]
        BY <1>2, <1>3, HeadTailProperties
      <3>3. QED
        BY <1>3, <2>1, <3>1, <3>2, LenProperties
    <2>3. ASSUME NEW k \in 1..Len(tradesCh)  PROVE tradesCh[k] = d \/ tradesCh[k] \in Range(tradesCh')
      <3>1. CASE k = 1
        BY <2>2, <3>1
      <3>2. CASE k # 1
        <4>1. k - 1 \in 1..Len(tradesCh') /\ (k - 1) + 1 = k
          BY <2>2, <3>2
        <4>2. tradesCh'[k - 1] = tradesCh[k]
          BY <2>2, <4>1
        <4>3. QED
          BY <2>2, <4>1, <4>2 DEF Range
      <3>3. QED
        BY <3>1, <3>2
    <2>4. QED
      BY <2>1, <2>2, <2>3 DEF Range
  <1>5. Queue' = Queue
    BY <1>2 DEF Queue
  <1>6. WriterShape'
    BY <1>0, <1>2 DEF WriterShape
  <1>7. QueueInv' /\ (\A o \in OrderIds : SettledRows(o)') /\ CountersInv'
    BY <1>2, <1>5, StandingKeeps
  <1>8. TradesSent'
    BY <1>2, <1>4 DEF TradesSent, TradesMade, engineVars
  <1>9. ASSUME failures' = 0  PROVE WritersShow'
    <2>0. failures = 0 /\ userTrades' = WithSeller(WithBuyer(userTrades, d), d) /\ WritersShow
      BY <1>2, <1>9 DEF WritersInv
    <2>1. \A o : /\ Untracked(o)' <=> Untracked(o)
                 /\ Placed(o)' <=> Placed(o)
                 /\ FilledOnArrival(o)' <=> FilledOnArrival(o)
      BY <1>0, <1>2, <1>5, StandingSame
    <2>2. /\ SellerRow(d) \in userTrades' /\ (WithOneself(d) \/ BuyerRow(d) \in userTrades')
          /\ \A r \in userTrades' : r \in userTrades \/ r = SellerRow(d) \/ (r = BuyerRow(d) /\ ~WithOneself(d))
          /\ \A r \in userTrades : r.trade # d => r \in userTrades'
      BY <2>0, BothInserted
    <2>3. SellerRow(d).trade = d /\ BuyerRow(d).trade = d
      BY DEF SellerRow, BuyerRow
    <2>4. ASSUME NEW r \in userTrades'  PROVE ShowsRow(r)
      <3>1. CASE r \in userTrades
        BY <2>0, <3>1 DEF WritersShow
      <3>2. CASE r = SellerRow(d) \/ (r = BuyerRow(d) /\ ~WithOneself(d))
        <4>1. IsTrade(d)
          BY <1>4 DEF IsTrade, TradesMade
        <4>2. r.trade = d
          BY <2>3, <3>2
        <4>3. QED
          BY <3>2, <4>1, <4>2 DEF ShowsRow
      <3>3. QED
        BY <2>2, <3>1, <3>2
    <2>5. \A r : ShowsRow(r)' <=> ShowsRow(r)
      BY <1>2 DEF ShowsRow, IsTrade, SellerRow, BuyerRow, WithOneself, engineVars
    <2>6. ASSUME NEW e, e = d \/ Written(e)  PROVE Written(e)'
      <3>1. \A c : SellerRow(c).trade = c /\ BuyerRow(c).trade = c
        BY DEF SellerRow, BuyerRow
      <3>2. SellerRow(e) \in userTrades' /\ (WithOneself(e) \/ BuyerRow(e) \in userTrades')
        BY <2>2, <2>6, <3>1 DEF Written
      <3>3. SellerRow(e)' = SellerRow(e) /\ BuyerRow(e)' = BuyerRow(e) /\ (WithOneself(e)' <=> WithOneself(e))
        BY DEF SellerRow, BuyerRow, WithOneself
      <3>4. QED
        BY <3>2, <3>3 DEF Written
    <2>7. ASSUME NEW t \in trades'
          PROVE  \/ \E x \in Range(outTopic') : x.order = t.taker
                 \/ Trade(t.taker, t.maker) \in Range(tradesCh')
                 \/ Written(Trade(t.taker, t.maker))'
      <3>1. PICK e : e = Trade(t.taker, t.maker)
        OBVIOUS
      <3>2. \/ \E x \in Range(outTopic) : x.order = t.taker
            \/ e \in Range(tradesCh)
            \/ Written(e)
        BY <1>2, <2>0, <3>1 DEF WritersShow, engineVars
      <3>3. e \in Range(tradesCh) \/ Written(e) => e \in Range(tradesCh') \/ Written(e)'
        BY <1>4, <2>6
      <3>4. Written(e)' => Written(Trade(t.taker, t.maker))'
        BY <3>1 DEF Written, SellerRow, BuyerRow, WithOneself
      <3>5. QED
        BY <1>2, <3>1, <3>2, <3>3, <3>4
    <2>8. QED
      BY <1>2, <2>0, <2>1, <2>4, <2>5, <2>7 DEF WritersShow
  <1>10. QED
    BY <1>6, <1>7, <1>8, <1>9 DEF WritersInv

\* What is counted only grows while the writers work, and so does the bound.
LEMMA BoundGrows ==
    ASSUME \A o \in OrderIds : Uncounted(o)' => Uncounted(o), UNCHANGED engineVars
    PROVE  /\ \A u : /\ AtOnceOf(u) \subseteq AtOnceOf(u)' /\ RefusedOf(u) \subseteq RefusedOf(u)'
                     /\ RestingOf(u) \subseteq RestingOf(u)'
                     /\ Cardinality(AtOnceOf(u)) \in Nat /\ Cardinality(AtOnceOf(u)') \in Nat
                     /\ Cardinality(RefusedOf(u)) \in Nat /\ Cardinality(RefusedOf(u)') \in Nat
                     /\ Cardinality(RestingOf(u)) \in Nat /\ Cardinality(RestingOf(u)') \in Nat
           /\ \A u : \A s \in Counts \cup {NoStats} : Bounded(u, s) => Bounded(u, s)'
  <1>0. UNCHANGED <<book, trades>>
    BY DEF engineVars
  <1>1. \A o : TakenBy(o)' = TakenBy(o)
    BY <1>0 DEF TakenBy
  <1>2. \A o : FilledOnArrival(o)' <=> FilledOnArrival(o)
    BY <1>1, FilledSame
  <1>3. \A o : Placed(o)' <=> Placed(o)
    BY <1>0 DEF Placed
  <1>4. ASSUME NEW u
        PROVE  /\ AtOnceOf(u) \subseteq AtOnceOf(u)' /\ RefusedOf(u) \subseteq RefusedOf(u)'
               /\ RestingOf(u) \subseteq RestingOf(u)'
    <2>1. AtOnceOf(u) \subseteq AtOnceOf(u)'
      BY <1>2, <1>3 DEF AtOnceOf
    <2>2. RefusedOf(u) \subseteq RefusedOf(u)'
      BY <1>0 DEF RefusedOf
    <2>3. RestingOf(u) \subseteq RestingOf(u)'
      BY <1>1, <1>3 DEF RestingOf
    <2>4. QED
      BY <2>1, <2>2, <2>3
  <1>5. ASSUME NEW A \in SUBSET OrderIds, NEW B \in SUBSET A
        PROVE  Cardinality(A) \in Nat /\ Cardinality(B) \in Nat /\ Cardinality(B) <= Cardinality(A)
    <2>1. IsFiniteSet(A)
      BY HistoryAssumption, FS_Subset
    <2>2. IsFiniteSet(B) /\ Cardinality(B) <= Cardinality(A)
      BY <2>1, FS_Subset
    <2>3. QED
      BY <2>1, <2>2, FS_CardinalityType
  <1>6. ASSUME NEW u
        PROVE  /\ AtOnceOf(u)' \in SUBSET OrderIds /\ RefusedOf(u)' \in SUBSET OrderIds
               /\ RestingOf(u)' \in SUBSET OrderIds
    BY DEF AtOnceOf, RefusedOf, RestingOf
  <1>7. ASSUME NEW u
        PROVE  /\ Cardinality(AtOnceOf(u)) \in Nat /\ Cardinality(AtOnceOf(u)') \in Nat
               /\ Cardinality(AtOnceOf(u)) <= Cardinality(AtOnceOf(u)')
               /\ Cardinality(RefusedOf(u)) \in Nat /\ Cardinality(RefusedOf(u)') \in Nat
               /\ Cardinality(RefusedOf(u)) <= Cardinality(RefusedOf(u)')
               /\ Cardinality(RestingOf(u)) \in Nat /\ Cardinality(RestingOf(u)') \in Nat
               /\ Cardinality(RestingOf(u)) <= Cardinality(RestingOf(u)')
    BY <1>4, <1>5, <1>6
  <1>8. ASSUME NEW u, NEW s \in Counts \cup {NoStats}, Bounded(u, s)  PROVE Bounded(u, s)'
    <2>1. s.filled \in Int /\ s.rejected \in Int /\ s.total \in Int
      BY DEF Counts, NoStats, Zero
    <2>2. s.filled <= Cardinality(AtOnceOf(u)) /\ s.rejected <= Cardinality(RefusedOf(u))
          /\ s.total <= 1 + Cardinality(RestingOf(u))
      BY <1>8 DEF Bounded
    <2>3. s.filled <= Cardinality(AtOnceOf(u)') /\ s.rejected <= Cardinality(RefusedOf(u)')
          /\ s.total <= 1 + Cardinality(RestingOf(u)')
      BY <1>7, <2>1, <2>2
    <2>4. QED
      BY <2>3 DEF Bounded
  <1>9. QED
    BY <1>4, <1>7, <1>8

\* The order writer puts an output into active_orders.
LEMMA SettlementTrack ==
    ASSUME EngineInv, DbInv, WritersInv, failures \in Nat, TrackOrder
    PROVE  WritersInv'
  <1>0. WriterShape /\ QueueInv /\ \A o \in OrderIds : SettledRows(o)
    BY DEF WritersInv
  <1>1. PICK k : k = tracked + 1
    OBVIOUS
  <1>2. PICK q : q = working[k]
    OBVIOUS
  <1>3. /\ tracked < Len(working) /\ tracked' = k
        /\ UNCHANGED <<engineVars, wire, outTopic, db, tradesCh, orderCh, working, userTrades>>
    BY <1>1 DEF TrackOrder
  <1>4. /\ Queue \in Seq(OutputMsg) /\ Len(Queue) \in Nat /\ Len(working) \in Nat
        /\ Len(working) <= Len(Queue)
        /\ \A i \in 1..Len(Queue) : Queue[i] \in OutputMsg
        /\ \A i \in 1..Len(working) : i \in 1..Len(Queue) /\ Queue[i] = working[i]
        /\ working \in Seq(OutputMsg) /\ DOMAIN working = 1..Len(working)
    BY <1>0, QueueFacts, LenProperties DEF WriterShape
  <1>5. k \in 1..Len(working) /\ tracked \in Nat
    <2>1. tracked \in 0..Len(working) /\ Len(working) \in Nat
      BY <1>0, <1>4 DEF WriterShape
    <2>2. QED
      BY <1>1, <1>3, <2>1
  <1>6. updates = <<>>
    <2>1. updates # <<>> => tracked = Len(working)
      BY <1>0 DEF WriterShape
    <2>2. tracked # Len(working)
      <3>1. tracked \in Nat /\ Len(working) \in Nat /\ tracked < Len(working)
        BY <1>3, <1>4, <1>5
      <3>2. QED
        BY <3>1
    <2>3. QED
      BY <2>1, <2>2
  <1>7. PICK o : o = q.order
    OBVIOUS
  <1>8. /\ q = Queue[k] /\ k \in 1..Len(Queue) /\ q \in OutputMsg /\ o \in OrderIds /\ OutputInv(q)
        /\ \A i \in 1..Len(Queue) : Queue[i].order = o => i = k
    <2>1. q = Queue[k] /\ k \in 1..Len(Queue) /\ q \in OutputMsg
      BY <1>2, <1>4, <1>5
    <2>2. QED
      BY <1>0, <1>7, <2>1 DEF QueueInv, OutputMsg
  <1>9. Queue' = Queue
    BY <1>3 DEF Queue
  <1>10. PICK todo : todo = [i \in 1..Len(working) |->
             IF working[i].status = "New" THEN {"rows", "init", "read", "write"}
             ELSE IF working[i].status = "PartiallyFilled" THEN {"rows"}
             ELSE {"rows", "read", "write"}]
    OBVIOUS
  <1>11. updates' = IF k < Len(working) THEN <<>>
                    ELSE [i \in 1..Len(working) |-> [todo |-> todo[i], read |-> NoStats]]
    BY <1>3, <1>4, <1>6, <1>10 DEF TrackOrder
  <1>12. \A i \in 1..Len(working) : /\ todo[i] \in SUBSET {"rows", "init", "read", "write"}
                                    /\ "rows" \in todo[i]
                                    /\ "write" \in todo[i] => "read" \in todo[i]
    BY <1>10
  <1>13. \A i \in DOMAIN updates' : /\ i \in 1..Len(working) /\ updates'[i].todo = todo[i]
    BY <1>11
  <1>14. /\ \/ k < Len(working) /\ updates' = <<>>
            \/ k = Len(working) /\ Len(updates') = Len(working) /\ updates' # <<>>
         /\ updates' \in Seq(Job)
    <2>1. CASE k < Len(working)
      <3>1. updates' = <<>>
        BY <1>11, <2>1
      <3>2. QED
        BY <2>1, <3>1
    <2>2. CASE ~(k < Len(working))
      <3>1. k = Len(working)
        BY <1>4, <1>5, <2>2
      <3>2. updates' = [i \in 1..Len(working) |-> [todo |-> todo[i], read |-> NoStats]]
        BY <1>11, <2>2
      <3>3. \A i \in 1..Len(working) : [todo |-> todo[i], read |-> NoStats] \in Job
        BY <1>12 DEF Job
      <3>4. updates' \in [1..Len(working) -> Job]
        BY <3>2, <3>3
      <3>5. updates' \in Seq(Job) /\ Len(updates') = Len(working)
        BY <1>4, <3>4, FunctionIsSequence
      <3>6. updates' # <<>>
        BY <1>5, <3>1, <3>5
      <3>7. QED
        BY <3>1, <3>5, <3>6
    <2>3. QED
      BY <2>1, <2>2
  <1>15. \/ UNCHANGED <<listed, lookup>> /\ (q.status # "Rejected" => failures' # 0)
         \/ /\ q.status # "Rejected"
            /\ lookup' \subseteq lookup \cup {o}
            /\ \/ listed' = [listed EXCEPT ![o] = "New"] /\ failures' # 0
               \/ listed' = [listed EXCEPT ![o] = IF q.status = "Filled" THEN "Filled" ELSE "New"]
    <2>0. failures + 1 # 0
      OBVIOUS
    <2>1. CASE q.status = "Rejected" /\ UNCHANGED <<listed, lookup>>
      BY <2>1
    <2>2. CASE q.status # "Rejected" /\ listed' = Tracked(q).rows /\ lookup' = Tracked(q).known
      <3>1. Tracked(q).known = lookup \cup {o}
        BY <1>7 DEF Tracked
      <3>2. Tracked(q).rows = [listed EXCEPT ![o] = IF q.status = "Filled" THEN "Filled" ELSE "New"]
        BY <1>0, <1>7, <1>8 DEF Tracked, mark_order_complete, WriterShape
      <3>3. QED
        BY <2>2, <3>1, <3>2
    <2>3. CASE /\ q.status # "Rejected" /\ failures' = failures + 1
               /\ \/ UNCHANGED <<listed, lookup>>
                  \/ listed' = [listed EXCEPT ![o] = "New"] /\ lookup' \subseteq lookup \cup {o}
      BY <2>0, <2>3
    <2>4. QED
      BY <1>1, <1>2, <1>7, <2>1, <2>2, <2>3 DEF TrackOrder, Fails
  <1>16. failures' = 0 => failures = 0
    BY DEF TrackOrder, Works, Fails
  <1>17. listed' \in [OrderIds -> {"none", "New", "Filled"}] /\ lookup' \subseteq OrderIds
         /\ \A y \in OrderIds : y # o => listed'[y] = listed[y]
    BY <1>0, <1>8, <1>15 DEF WriterShape
  <1>18. WriterShape'
    <2>1. tracked' \in 0..Len(working')
      BY <1>3, <1>5
    <2>2. updates' # <<>> => Len(updates') = Len(working') /\ tracked' = Len(working')
      BY <1>3, <1>14
    <2>3. updates' = <<>> /\ working' # <<>> => tracked' < Len(working')
      BY <1>3, <1>14
    <2>4. QED
      BY <1>0, <1>3, <1>14, <1>17, <2>1, <2>2, <2>3 DEF WriterShape
  <1>19. ASSUME NEW y
         PROVE  /\ Unwritten(y)' => Unwritten(y)
                /\ Uncounted(y)' => Uncounted(y)
                /\ Untracked(y)' <=> Untracked(y) /\ y # o
    <2>1. Unwritten(y)' => Unwritten(y)
      BY <1>6, <1>9 DEF Unwritten
    <2>2. Uncounted(y)' => Uncounted(y)
      BY <1>6, <1>9 DEF Uncounted
    <2>3. Untracked(y)' => Untracked(y)
      BY <1>1, <1>3, <1>4, <1>5, <1>9 DEF Untracked
    <2>4. Untracked(y)' => y # o
      BY <1>3, <1>4, <1>5, <1>8, <1>9 DEF Untracked
    <2>5. ASSUME Untracked(y), y # o  PROVE Untracked(y)'
      <3>1. PICK i \in 1..Len(Queue) : Queue[i].order = y /\ i > tracked
        BY <2>5 DEF Untracked
      <3>2. i # k
        BY <1>7, <1>8, <2>5, <3>1
      <3>3. i > k
        BY <1>1, <1>4, <1>5, <3>1, <3>2
      <3>4. QED
        BY <1>3, <1>9, <3>1, <3>3 DEF Untracked
    <2>6. QED
      BY <2>1, <2>2, <2>3, <2>4, <2>5
  <1>20. UNCHANGED <<book, trades>>
    BY <1>3 DEF engineVars
  <1>21. \A y : /\ TakenBy(y)' = TakenBy(y) /\ (FilledOnArrival(y)' <=> FilledOnArrival(y))
                /\ Placed(y)' <=> Placed(y)
    <2>1. \A y : TakenBy(y)' = TakenBy(y)
      BY <1>20 DEF TakenBy
    <2>2. QED
      BY <1>20, <2>1, FilledSame DEF Placed
  <1>22. QueueInv'
    <2>1. ASSUME NEW i \in 1..Len(Queue')  PROVE OutputInv(Queue[i])'
      <3>1. PICK x : x = Queue[i]
        OBVIOUS
      <3>2. OutputInv(x)
        BY <1>0, <1>9, <2>1, <3>1 DEF QueueInv
      <3>3. Queue'[i] = x
        BY <1>9, <3>1
      <3>4. QED
        BY <1>20, <1>21, <3>2, <3>3 DEF OutputInv
    <2>2. QED
      BY <1>0, <1>9, <2>1 DEF QueueInv
  <1>23. q.status # "Rejected" => Placed(o)
    <2>1. book[o] \in {"unsent", "rejected", "open", "filled", "cancelled"}
      BY <1>8 DEF EngineInv
    <2>2. book[o] # "unsent" /\ (q.status = "Rejected" <=> book[o] = "rejected")
      BY <1>7, <1>8 DEF OutputInv
    <2>3. QED
      BY <2>1, <2>2 DEF Placed
  <1>24. ASSUME NEW y \in OrderIds  PROVE SettledRows(y)'
    <2>1. /\ book'[y] = "unsent" \/ Unwritten(y)' => db'.active[y] = NoRow /\ db'.history[y] = NoRow
          /\ db'.active[y].filled <= Order[y].qty /\ db'.history[y].filled <= Order[y].qty
      BY <1>0, <1>3, <1>19, <1>20 DEF SettledRows
    <2>2. ASSUME ~Placed(y)' \/ Untracked(y)'  PROVE listed'[y] = "none"
      <3>1. ~Placed(y) \/ Untracked(y)
        BY <1>19, <1>21, <2>2
      <3>2. listed[y] = "none"
        BY <1>0, <3>1 DEF SettledRows
      <3>3. y = o => ~Placed(o)
        BY <1>19, <1>21, <2>2
      <3>4. QED
        BY <1>15, <1>17, <1>23, <3>2, <3>3
    <2>3. QED
      BY <2>1, <2>2 DEF SettledRows
  <1>25. CountersInv'
    <2>1. \A u : \A s \in Counts \cup {NoStats} : Bounded(u, s) => Bounded(u, s)'
      BY <1>3, <1>19, BoundGrows
    <2>2. ASSUME NEW u \in Users  PROVE Bounded(u, db.stats[u])'
      <3>1. PICK s : s = db.stats[u]
        OBVIOUS
      <3>2. s \in Counts \cup {NoStats}
        BY <3>1 DEF DbInv, DbType
      <3>3. Bounded(u, s)
        BY <3>1 DEF WritersInv, CountersInv
      <3>4. Bounded(u, s)'
        BY <2>1, <3>2, <3>3
      <3>5. s = db'.stats[u]
        BY <1>3, <3>1
      <3>6. QED
        BY <3>4, <3>5 DEF Bounded
    <2>3. \A i \in DOMAIN updates' : ~("write" \in updates'[i].todo /\ "read" \notin updates'[i].todo)
      BY <1>12, <1>13
    <2>4. QED
      BY <2>2, <2>3 DEF CountersInv
  <1>26. TradesSent'
    BY <1>3, <1>20 DEF TradesSent, WritersInv
  <1>27. ASSUME failures' = 0  PROVE WritersShow'
    <2>0. WritersShow
      BY <1>16, <1>27 DEF WritersInv
    <2>1. ASSUME NEW y \in OrderIds, Placed(y)', ~Untracked(y)'
          PROVE  listed'[y] = IF FilledOnArrival(y)' THEN "Filled" ELSE "New"
      <3>1. CASE y # o
        BY <1>17, <1>19, <1>21, <2>0, <2>1, <3>1 DEF WritersShow
      <3>2. CASE y = o
        <4>1. Placed(o)
          BY <1>21, <2>1, <3>2
        <4>2. q.status # "Rejected" /\ (q.status = "Filled" <=> FilledOnArrival(o))
          BY <1>7, <1>8, <4>1 DEF OutputInv, Placed
        <4>3. listed' = [listed EXCEPT ![o] = IF q.status = "Filled" THEN "Filled" ELSE "New"]
          BY <1>15, <1>27, <4>2
        <4>4. QED
          BY <1>0, <1>8, <1>21, <3>2, <4>2, <4>3 DEF WriterShape
      <3>3. QED
        BY <3>1, <3>2
    <2>2. \A r : ShowsRow(r)' <=> ShowsRow(r)
      BY <1>20 DEF ShowsRow, IsTrade, SellerRow, BuyerRow, WithOneself
    <2>3. \A d : Written(d)' <=> Written(d)
      BY <1>3 DEF Written, SellerRow, BuyerRow, WithOneself
    <2>4. QED
      BY <1>3, <1>20, <2>0, <2>1, <2>2, <2>3 DEF WritersShow
  <1>28. QED
    BY <1>18, <1>22, <1>24, <1>25, <1>26, <1>27 DEF WritersInv

\* The batch is done.
LEMMA SettlementDone ==
    ASSUME DbInv, WritersInv, BatchDone
    PROVE  WritersInv'
  <1>0. WriterShape /\ QueueInv /\ \A o \in OrderIds : SettledRows(o)
    BY DEF WritersInv
  <1>1. /\ updates # <<>> /\ \A i \in DOMAIN updates : updates[i].todo = {}
        /\ working' = <<>> /\ tracked' = 0 /\ updates' = <<>>
        /\ UNCHANGED <<engineVars, wire, outTopic, db, tradesCh, orderCh, listed, lookup, userTrades,
                       failures>>
    BY DEF BatchDone
  <1>2. PICK w : w = Len(working)
    OBVIOUS
  <1>3. /\ w \in Nat /\ DOMAIN updates = 1..w /\ tracked = w
    <2>1. Len(updates) = Len(working) /\ tracked = Len(working)
      BY <1>0, <1>1 DEF WriterShape
    <2>2. DOMAIN updates = 1..Len(updates) /\ Len(working) \in Nat
      BY <1>0, QueueFacts
    <2>3. QED
      BY <1>2, <2>1, <2>2
  <1>4. /\ Queue' \in Seq(OutputMsg) /\ Len(Queue') \in Nat /\ Len(Queue) = w + Len(Queue')
        /\ \A i \in 1..Len(Queue') : w + i \in 1..Len(Queue) /\ Queue[w + i] = Queue'[i]
        /\ \A i \in 1..Len(Queue) : i > w => i - w \in 1..Len(Queue') /\ Queue[i] = Queue'[i - w]
    BY <1>0, <1>1, <1>2, QueueDone
  <1>5. \A i \in 1..Len(Queue) : i \in DOMAIN updates \/ i > w
    <2>1. Len(Queue) \in Nat
      BY <1>3, <1>4
    <2>2. QED
      BY <1>3, <2>1
  <1>6. ASSUME NEW y
        PROVE  /\ Unwritten(y)' <=> Unwritten(y)
               /\ Uncounted(y)' <=> Uncounted(y)
               /\ Untracked(y)' <=> Untracked(y)
    <2>0. /\ \A i \in 1..Len(Queue') : w + i \notin DOMAIN updates /\ w + i > tracked /\ i > 0
          /\ \A i : i \notin DOMAIN updates'
      <3>1. \A i \in 1..Len(Queue') : w + i \notin DOMAIN updates /\ w + i > tracked /\ i > 0
        BY <1>3, <1>4
      <3>2. \A i : i \notin DOMAIN updates'
        BY <1>1
      <3>3. QED
        BY <3>1, <3>2
    <2>1. PICK B : B = (\E i \in 1..Len(Queue') : Queue'[i].order = y)
      OBVIOUS
    <2>2. Unwritten(y)' <=> B
      BY <2>0, <2>1 DEF Unwritten
    <2>3. Uncounted(y)' <=> B
      BY <2>0, <2>1 DEF Uncounted
    <2>4. Untracked(y)' <=> B
      BY <1>1, <2>0, <2>1 DEF Untracked
    <2>5. B => Unwritten(y) /\ Uncounted(y) /\ Untracked(y)
      BY <1>4, <2>0, <2>1 DEF Unwritten, Uncounted, Untracked
    <2>6. Unwritten(y) => B
      BY <1>1, <1>4, <1>5, <2>1 DEF Unwritten
    <2>7. Uncounted(y) => B
      BY <1>1, <1>4, <1>5, <2>1 DEF Uncounted
    <2>8. Untracked(y) => B
      BY <1>3, <1>4, <2>1 DEF Untracked
    <2>9. QED
      BY <2>2, <2>3, <2>4, <2>5, <2>6, <2>7, <2>8
  <1>7. UNCHANGED <<book, trades>>
    BY <1>1 DEF engineVars
  <1>8. \A y : /\ TakenBy(y)' = TakenBy(y) /\ (FilledOnArrival(y)' <=> FilledOnArrival(y))
               /\ Placed(y)' <=> Placed(y)
    <2>1. \A y : TakenBy(y)' = TakenBy(y)
      BY <1>7 DEF TakenBy
    <2>2. QED
      BY <1>7, <2>1, FilledSame DEF Placed
  <1>9. WriterShape'
    <2>1. <<>> \in Seq(OutputMsg) /\ <<>> \in Seq(Job) /\ Len(<<>>) = 0 /\ 0 \in 0..0
      OBVIOUS
    <2>2. QED
      BY <1>0, <1>1, <2>1 DEF WriterShape
  <1>10. QueueInv'
    <2>1. ASSUME NEW i \in 1..Len(Queue')  PROVE OutputInv(Queue[i])'
      <3>1. PICK x : x = Queue'[i]
        OBVIOUS
      <3>2. OutputInv(x)
        BY <1>0, <1>4, <3>1 DEF QueueInv
      <3>3. QED
        BY <1>7, <1>8, <3>1, <3>2 DEF OutputInv
    <2>2. ASSUME NEW i \in 1..Len(Queue'), NEW j \in 1..Len(Queue'), Queue'[i].order = Queue'[j].order
          PROVE  i = j
      <3>1. w + i \in 1..Len(Queue) /\ w + j \in 1..Len(Queue) /\ Queue[w + i].order = Queue[w + j].order
        BY <1>4, <2>2
      <3>2. w + i = w + j
        BY <1>0, <3>1 DEF QueueInv
      <3>3. QED
        BY <1>3, <1>4, <3>2
    <2>3. QED
      BY <2>1, <2>2 DEF QueueInv
  <1>11. ASSUME NEW y \in OrderIds  PROVE SettledRows(y)'
    BY <1>0, <1>1, <1>6, <1>7, <1>8 DEF SettledRows
  <1>12. CountersInv'
    <2>1. \A u : \A s \in Counts \cup {NoStats} : Bounded(u, s) => Bounded(u, s)'
      BY <1>1, <1>6, BoundGrows
    <2>2. ASSUME NEW u \in Users  PROVE Bounded(u, db.stats[u])'
      <3>1. PICK s : s = db.stats[u]
        OBVIOUS
      <3>2. s \in Counts \cup {NoStats}
        BY <3>1 DEF DbInv, DbType
      <3>3. Bounded(u, s)
        BY <3>1 DEF WritersInv, CountersInv
      <3>4. Bounded(u, s)'
        BY <2>1, <3>2, <3>3
      <3>5. s = db'.stats[u]
        BY <1>1, <3>1
      <3>6. QED
        BY <3>4, <3>5 DEF Bounded
    <2>3. \A i : i \notin DOMAIN updates'
      BY <1>1
    <2>4. QED
      BY <2>2, <2>3 DEF CountersInv
  <1>13. TradesSent'
    BY <1>1, <1>7 DEF TradesSent, WritersInv
  <1>14. ASSUME failures' = 0  PROVE WritersShow'
    <2>0. WritersShow
      BY <1>1, <1>14 DEF WritersInv
    <2>2. \A r : ShowsRow(r)' <=> ShowsRow(r)
      BY <1>7 DEF ShowsRow, IsTrade, SellerRow, BuyerRow, WithOneself
    <2>3. \A d : Written(d)' <=> Written(d)
      BY <1>1 DEF Written, SellerRow, BuyerRow, WithOneself
    <2>4. QED
      BY <1>1, <1>6, <1>7, <1>8, <2>0, <2>2, <2>3 DEF WritersShow
  <1>15. QED
    BY <1>9, <1>10, <1>11, <1>12, <1>13, <1>14 DEF WritersInv

(***************************************************************************)
(* The updates of a batch race for the counters. What one of them has read *)
(* may be stale when it writes back, yet it counts no order twice.         *)
(***************************************************************************)

\* the update i gets on: the statements gone are not to do any more, and r is
\* what it has read
Moves(i, gone, r) ==
    /\ updates' \in Seq(Job) /\ Len(updates') = Len(updates)
    /\ updates'[i].todo = updates[i].todo \ gone /\ updates'[i].read = r
    /\ \A j \in DOMAIN updates : j # i => updates'[j] = updates[j]
    /\ UNCHANGED <<engineVars, wire, outTopic, tradesCh, orderCh, working, tracked, listed, lookup,
                   userTrades>>

\* the order the update i is about
OrderAt(i) == working[i].order

\* How the outputs stand after that.
LEMMA MovesStanding ==
    ASSUME WriterShape, QueueInv, NEW i \in DOMAIN updates, NEW gone, NEW r, Moves(i, gone, r)
    PROVE  /\ Queue' = Queue /\ OrderAt(i) \in OrderIds /\ OutputInv(working[i])
           /\ working[i] \in OutputMsg /\ DOMAIN updates' = DOMAIN updates
           /\ \A y : /\ Unwritten(y)' => Unwritten(y)
                     /\ Uncounted(y)' => Uncounted(y)
                     /\ Untracked(y)' <=> Untracked(y)
           /\ "rows" \in gone => ~Unwritten(OrderAt(i))'
           /\ "write" \in gone => ~Uncounted(OrderAt(i))'
           /\ "rows" \in updates[i].todo => Unwritten(OrderAt(i))
           /\ "write" \in updates[i].todo => Uncounted(OrderAt(i))
  <1>1. /\ Len(Queue) \in Nat /\ \A j \in 1..Len(Queue) : Queue[j] \in OutputMsg
        /\ \A j \in 1..Len(working) : j \in 1..Len(Queue) /\ Queue[j] = working[j]
        /\ DOMAIN updates = 1..Len(updates) /\ Len(updates) \in Nat /\ Len(updates) <= Len(working)
        /\ Len(working) \in Nat
    BY QueueFacts
  <1>2. i \in 1..Len(working) /\ i \in 1..Len(Queue) /\ Queue[i] = working[i] /\ working[i] \in OutputMsg
    <2>1. i \in 1..Len(working)
      BY <1>1
    <2>2. QED
      BY <1>1, <2>1
  <1>3. PICK o : o = OrderAt(i)
    OBVIOUS
  <1>4. /\ o = Queue[i].order /\ o \in OrderIds /\ OutputInv(working[i])
        /\ \A j \in 1..Len(Queue) : Queue[j].order = o => j = i
    BY <1>2, <1>3 DEF QueueInv, OrderAt, OutputMsg
  <1>5. Queue' = Queue /\ tracked' = tracked
    BY DEF Moves, Queue
  <1>6. /\ DOMAIN updates' = DOMAIN updates /\ updates'[i].todo = updates[i].todo \ gone
        /\ \A j \in DOMAIN updates : j # i => updates'[j] = updates[j]
    <2>1. updates' \in Seq(Job) /\ Len(updates') = Len(updates)
      BY DEF Moves
    <2>2. DOMAIN updates' = 1..Len(updates')
      BY <2>1, LenProperties
    <2>3. QED
      BY <1>1, <2>1, <2>2 DEF Moves
  <1>7. \A y : /\ Unwritten(y)' => Unwritten(y)
               /\ Uncounted(y)' => Uncounted(y)
               /\ Untracked(y)' <=> Untracked(y)
    <2>1. \A j \in DOMAIN updates : updates'[j].todo \subseteq updates[j].todo
      BY <1>6
    <2>2. QED
      BY <1>5, <1>6, <2>1 DEF Unwritten, Uncounted, Untracked
  <1>8. "rows" \in gone => ~Unwritten(o)'
    BY <1>4, <1>5, <1>6 DEF Unwritten
  <1>9. "write" \in gone => ~Uncounted(o)'
    BY <1>4, <1>5, <1>6 DEF Uncounted
  <1>10. "rows" \in updates[i].todo => Unwritten(o)
    BY <1>2, <1>4 DEF Unwritten
  <1>11. "write" \in updates[i].todo => Uncounted(o)
    BY <1>2, <1>4 DEF Uncounted
  <1>12. (Unwritten(OrderAt(i))' <=> Unwritten(o)') /\ (Uncounted(OrderAt(i))' <=> Uncounted(o)')
    <2>1. OrderAt(i)' = o
      BY <1>3 DEF OrderAt, Moves
    <2>2. QED
      BY <2>1 DEF Unwritten, Uncounted
  <1>13. QED
    BY <1>2, <1>3, <1>4, <1>5, <1>6, <1>7, <1>8, <1>9, <1>10, <1>11, <1>12

\* What it keeps, given what it makes of the rows and the counters.
LEMMA MovesKeeps ==
    ASSUME WritersInv, NEW i \in DOMAIN updates, NEW gone, NEW r, Moves(i, gone, r),
           failures' = 0 => failures = 0,
           \A o \in OrderIds : SettledRows(o)',
           \A u \in Users : Bounded(u, db.stats[u])',
           "write" \in updates'[i].todo /\ "read" \notin updates'[i].todo =>
              Bounded(Order[OrderAt(i)].user, r)'
    PROVE  WritersInv'
  <1>0. WriterShape /\ QueueInv
    BY DEF WritersInv
  <1>1. /\ Queue' = Queue /\ DOMAIN updates' = DOMAIN updates
        /\ \A y : /\ Uncounted(y)' => Uncounted(y)
                  /\ Untracked(y)' <=> Untracked(y)
    BY <1>0, MovesStanding
  <1>2. UNCHANGED <<book, trades, outTopic, tradesCh, orderCh, working, tracked, listed, lookup, userTrades>>
    BY DEF Moves, engineVars
  <1>3. \A y : /\ TakenBy(y)' = TakenBy(y) /\ (FilledOnArrival(y)' <=> FilledOnArrival(y))
               /\ Placed(y)' <=> Placed(y)
    <2>1. \A y : TakenBy(y)' = TakenBy(y)
      BY <1>2 DEF TakenBy
    <2>2. QED
      BY <1>2, <2>1, FilledSame DEF Placed
  <1>4. updates' \in Seq(Job) /\ Len(updates') = Len(updates) /\ updates # <<>> /\ updates' # <<>>
    <2>1. updates \in Seq(Job)
      BY <1>0 DEF WriterShape
    <2>2. updates # <<>>
      OBVIOUS
    <2>3. updates' # <<>>
      BY <1>1
    <2>4. QED
      BY <2>1, <2>2, <2>3 DEF Moves
  <1>5. WriterShape'
    BY <1>0, <1>2, <1>4 DEF WriterShape
  <1>6. QueueInv'
    <2>1. ASSUME NEW j \in 1..Len(Queue')  PROVE OutputInv(Queue[j])'
      <3>1. PICK x : x = Queue[j]
        OBVIOUS
      <3>2. OutputInv(x)
        BY <1>0, <1>1, <2>1, <3>1 DEF QueueInv
      <3>3. Queue'[j] = x
        BY <1>1, <3>1
      <3>4. QED
        BY <1>2, <1>3, <3>2, <3>3 DEF OutputInv
    <2>2. QED
      BY <1>0, <1>1, <2>1 DEF QueueInv
  <1>7. CountersInv'
    <2>1. \A u : \A s \in Counts \cup {NoStats} : Bounded(u, s) => Bounded(u, s)'
      <3>1. UNCHANGED engineVars
        BY DEF Moves
      <3>2. QED
        BY <1>1, <3>1, BoundGrows
    <2>2. ASSUME NEW j \in DOMAIN updates', "write" \in updates'[j].todo, "read" \notin updates'[j].todo
          PROVE  Bounded(Order[working[j].order].user, updates[j].read)'
      <3>1. CASE j = i
        <4>1. Bounded(Order[OrderAt(i)].user, r)' /\ updates'[i].read = r
          BY <2>2, <3>1 DEF Moves
        <4>2. QED
          BY <3>1, <4>1 DEF Bounded, OrderAt
      <3>2. CASE j # i
        <4>1. j \in DOMAIN updates /\ updates'[j] = updates[j]
          BY <1>1, <3>2 DEF Moves
        <4>2. PICK u : u = Order[working[j].order].user
          OBVIOUS
        <4>3. PICK s : s = updates[j].read
          OBVIOUS
        <4>4. Bounded(u, s)
          BY <2>2, <4>1, <4>2, <4>3 DEF WritersInv, CountersInv
        <4>5. s \in Counts \cup {NoStats}
          <5>1. updates[j] \in Job
            BY <1>0, <4>1, QueueFacts
          <5>2. QED
            BY <4>3, <5>1 DEF Job
        <4>6. Bounded(u, s)'
          BY <2>1, <4>4, <4>5
        <4>7. u = Order[working'[j].order].user /\ s = updates'[j].read
          BY <1>2, <4>1, <4>2, <4>3
        <4>8. QED
          BY <4>6, <4>7 DEF Bounded
      <3>3. QED
        BY <3>1, <3>2
    <2>3. QED
      BY <2>2 DEF CountersInv
  <1>8. TradesSent'
    BY <1>2 DEF TradesSent, WritersInv
  <1>9. ASSUME failures' = 0  PROVE WritersShow'
    <2>0. WritersShow
      BY <1>9 DEF WritersInv
    <2>2. \A x : ShowsRow(x)' <=> ShowsRow(x)
      BY <1>2 DEF ShowsRow, IsTrade, SellerRow, BuyerRow, WithOneself
    <2>3. \A d : Written(d)' <=> Written(d)
      BY <1>2 DEF Written, SellerRow, BuyerRow, WithOneself
    <2>4. QED
      BY <1>1, <1>2, <1>3, <2>0, <2>2, <2>3 DEF WritersShow
  <1>10. QED
    BY <1>5, <1>6, <1>7, <1>8, <1>9 DEF WritersInv

\* what one statement of the update i does to the tables
Statement(i, s, gone, r) ==
    LET u == working[i]
        who == Order[u.order].user
    IN  \/ /\ s = "rows" /\ gone = {"rows"} /\ r = updates[i].read
           /\ \E S \in SUBSET OrderSteps(u.status) : db' = Perform(db, S, u)
        \/ /\ s = "init" /\ gone = {"init"} /\ r = updates[i].read
           /\ db' \in {db, Perform(db, {"init"}, u)}
        \/ s = "read" /\ gone = {"read"} /\ r = db.stats[who] /\ db' = db
        \/ s = "read" /\ gone = {"read", "write"} /\ r = updates[i].read /\ db' = db
        \/ /\ s = "write" /\ gone = {"write"} /\ r = updates[i].read /\ "read" \notin updates[i].todo
           /\ db' \in {db, [db EXCEPT !.stats[who] = WithCounted(r, u.status)]}

\* An update gets on by one statement, which may fail.
LEMMA StepMoves ==
    ASSUME DbInv, WriterShape, failures \in Nat, NEW i \in DOMAIN updates, NEW s \in updates[i].todo,
           UpdateStep(i, s), OrderAt(i) \in OrderIds
    PROVE  \E gone, r : /\ Moves(i, gone, r) /\ Statement(i, s, gone, r)
                        /\ failures' = 0 => failures = 0
  <1>1. /\ DOMAIN updates = 1..Len(updates) /\ Len(updates) \in Nat
        /\ \A j \in DOMAIN updates : updates[j] \in Job /\ updates \in Seq(Job)
    BY QueueFacts DEF WriterShape
  <1>2. PICK u : u = working[i]
    OBVIOUS
  <1>3. PICK who : who = Order[u.order].user
    OBVIOUS
  <1>4. PICK old : old = updates[i]
    OBVIOUS
  <1>5. /\ old \in Job /\ old.todo \in SUBSET {"rows", "init", "read", "write"}
        /\ old.read \in Counts \cup {NoStats} /\ db.stats[who] \in Counts \cup {NoStats}
        /\ s \in {"rows", "init", "read", "write"}
    <2>1. old \in Job
      BY <1>1, <1>4
    <2>2. who \in Users
      BY <1>2, <1>3 DEF Users, OrderAt
    <2>3. db.stats[who] \in Counts \cup {NoStats}
      BY <2>2 DEF DbInv, DbType
    <2>4. QED
      BY <1>4, <2>1, <2>3 DEF Job
  <1>6. UNCHANGED <<engineVars, wire, outTopic, tradesCh, orderCh, working, tracked, listed, lookup,
                    userTrades>>
    BY DEF UpdateStep
  <1>7. ASSUME NEW gone, NEW r \in Counts \cup {NoStats},
               \/ updates' = [updates EXCEPT ![i].todo = @ \ gone, ![i].read = r]
               \/ updates' = [updates EXCEPT ![i].todo = @ \ gone] /\ r = old.read
        PROVE  Moves(i, gone, r)
    <2>1. PICK new : new = [todo |-> old.todo \ gone, read |-> r]
      OBVIOUS
    <2>2. new \in Job /\ new.todo = old.todo \ gone /\ new.read = r
      BY <1>5, <2>1 DEF Job
    <2>3. updates'[i] = new /\ DOMAIN updates' = DOMAIN updates
          /\ \A j \in DOMAIN updates : j # i => updates'[j] = updates[j]
      <3>1. CASE updates' = [updates EXCEPT ![i].todo = @ \ gone, ![i].read = r]
        <4>1. updates'[i] = [[old EXCEPT !.todo = @ \ gone] EXCEPT !.read = r]
          BY <1>4, <3>1
        <4>2. [[old EXCEPT !.todo = @ \ gone] EXCEPT !.read = r] = new
          <5>1. PICK mid : mid = [old EXCEPT !.todo = @ \ gone]
            OBVIOUS
          <5>2. mid = [todo |-> old.todo \ gone, read |-> old.read]
            BY <1>5, <5>1 DEF Job
          <5>3. [mid EXCEPT !.read = r] = new
            BY <2>1, <5>2
          <5>4. QED
            BY <5>1, <5>3
        <4>3. QED
          BY <3>1, <4>1, <4>2
      <3>2. CASE updates' = [updates EXCEPT ![i].todo = @ \ gone] /\ r = old.read
        <4>1. updates'[i] = [old EXCEPT !.todo = @ \ gone]
          BY <1>4, <3>2
        <4>2. [old EXCEPT !.todo = @ \ gone] = new
          BY <1>5, <2>1, <3>2 DEF Job
        <4>3. QED
          BY <3>2, <4>1, <4>2
      <3>3. QED
        BY <1>7, <3>1, <3>2
    <2>4. updates' = [j \in 1..Len(updates) |-> updates'[j]]
      BY <1>1, <1>7
    <2>5. updates' \in [1..Len(updates) -> Job]
      BY <1>1, <2>2, <2>3, <2>4
    <2>6. updates' \in Seq(Job) /\ Len(updates') = Len(updates)
      BY <1>1, <2>5, FunctionIsSequence
    <2>7. QED
      BY <1>4, <1>6, <2>2, <2>3, <2>6 DEF Moves
  <1>8. failures' = 0 => failures = 0
    BY DEF UpdateStep, Works, Fails
  <1>9. CASE /\ updates' = [updates EXCEPT ![i].todo = @ \ {s},
                                           ![i].read = IF s = "read" THEN db.stats[who] ELSE @]
             /\ db' = CASE s = "rows"  -> Perform(db, OrderSteps(u.status), u)
                        [] s = "init"  -> Perform(db, {"init"}, u)
                        [] s = "read"  -> db
                        [] s = "write" -> [db EXCEPT !.stats[who] = WithCounted(updates[i].read, u.status)]
    <2>1. PICK r : r = IF s = "read" THEN db.stats[who] ELSE old.read
      OBVIOUS
    <2>2. r \in Counts \cup {NoStats}
      BY <1>5, <2>1
    <2>3. updates' = [updates EXCEPT ![i].todo = @ \ {s}, ![i].read = r]
      BY <1>4, <1>9, <2>1
    <2>4. Moves(i, {s}, r)
      BY <1>7, <2>2, <2>3
    <2>5. Statement(i, s, {s}, r)
      <3>1. CASE s = "rows"
        <4>1. db' = Perform(db, OrderSteps(u.status), u) /\ OrderSteps(u.status) \in SUBSET OrderSteps(u.status)
          BY <1>9, <3>1
        <4>2. QED
          BY <1>2, <1>4, <2>1, <3>1, <4>1 DEF Statement
      <3>2. CASE s = "init"
        BY <1>2, <1>4, <1>9, <2>1, <3>2 DEF Statement
      <3>3. CASE s = "read"
        BY <1>2, <1>3, <1>4, <1>9, <2>1, <3>3 DEF Statement
      <3>4. CASE s = "write"
        <4>1. "read" \notin updates[i].todo
          BY <3>4 DEF UpdateStep
        <4>2. QED
          BY <1>2, <1>3, <1>4, <1>9, <2>1, <3>4, <4>1 DEF Statement
      <3>5. QED
        BY <1>5, <3>1, <3>2, <3>3, <3>4
    <2>6. QED
      BY <1>8, <2>4, <2>5
  <1>10. CASE /\ updates' = [updates EXCEPT ![i].todo = @ \ (IF s = "read" THEN {"read", "write"} ELSE {s})]
              /\ \/ s # "rows" /\ UNCHANGED db
                 \/ /\ s = "rows"
                    /\ \E x \in OrderSteps(u.status) : db' = Perform(db, OrderSteps(u.status) \ {x}, u)
    <2>1. PICK gone : gone = IF s = "read" THEN {"read", "write"} ELSE {s}
      OBVIOUS
    <2>2. Moves(i, gone, old.read)
      <3>1. updates' = [updates EXCEPT ![i].todo = @ \ gone]
        BY <1>10, <2>1
      <3>2. QED
        BY <1>5, <1>7, <3>1
    <2>3. Statement(i, s, gone, old.read)
      <3>1. CASE s = "rows"
        <4>1. PICK x \in OrderSteps(u.status) : db' = Perform(db, OrderSteps(u.status) \ {x}, u)
          BY <1>10, <3>1
        <4>2. OrderSteps(u.status) \ {x} \in SUBSET OrderSteps(u.status)
          OBVIOUS
        <4>3. QED
          BY <1>2, <1>4, <2>1, <3>1, <4>1, <4>2 DEF Statement
      <3>2. CASE s = "init"
        BY <1>2, <1>4, <1>10, <2>1, <3>2 DEF Statement
      <3>3. CASE s = "read"
        BY <1>2, <1>3, <1>4, <1>10, <2>1, <3>3 DEF Statement
      <3>4. CASE s = "write"
        <4>1. "read" \notin updates[i].todo
          BY <3>4 DEF UpdateStep
        <4>2. QED
          BY <1>2, <1>3, <1>4, <1>10, <2>1, <3>4, <4>1 DEF Statement
      <3>5. QED
        BY <1>5, <3>1, <3>2, <3>3, <3>4
    <2>4. QED
      BY <1>8, <2>2, <2>3
  <1>11. QED
    BY <1>2, <1>3, <1>9, <1>10 DEF UpdateStep

\* The counters of the tables stay within their bounds.
LEMMA StatsStay ==
    ASSUME DbInv, WritersInv, NEW i \in DOMAIN updates, NEW gone, NEW r, Moves(i, gone, r)
    PROVE  /\ \A u : \A s \in Counts \cup {NoStats} : Bounded(u, s) => Bounded(u, s)'
           /\ \A u \in Users : db'.stats[u] = db.stats[u] => Bounded(u, db.stats[u])'
  <1>1. \A y : Uncounted(y)' => Uncounted(y)
    BY MovesStanding DEF WritersInv
  <1>2. UNCHANGED engineVars
    BY DEF Moves
  <1>3. \A u : \A s \in Counts \cup {NoStats} : Bounded(u, s) => Bounded(u, s)'
    BY <1>1, <1>2, BoundGrows
  <1>4. ASSUME NEW u \in Users, db'.stats[u] = db.stats[u]  PROVE Bounded(u, db.stats[u])'
    <2>1. PICK s : s = db.stats[u]
      OBVIOUS
    <2>2. s \in Counts \cup {NoStats}
      BY <2>1 DEF DbInv, DbType
    <2>3. Bounded(u, s)
      BY <2>1 DEF WritersInv, CountersInv
    <2>4. Bounded(u, s)'
      BY <1>3, <2>2, <2>3
    <2>5. s = db'.stats[u]
      BY <1>4, <2>1
    <2>6. QED
      BY <2>4, <2>5 DEF Bounded
  <1>5. QED
    BY <1>3, <1>4

\* The bound of what an update has read, when it has not just read it.
LEMMA ReadStays ==
    ASSUME DbInv, WritersInv, NEW i \in DOMAIN updates, NEW gone, NEW r, Moves(i, gone, r),
           r = updates[i].read, "read" \notin gone,
           "write" \in updates'[i].todo, "read" \notin updates'[i].todo
    PROVE  Bounded(Order[OrderAt(i)].user, r)'
  <1>1. "write" \in updates[i].todo /\ "read" \notin updates[i].todo
    BY DEF Moves
  <1>2. PICK u : u = Order[OrderAt(i)].user
    OBVIOUS
  <1>3. Bounded(u, r)
    BY <1>1, <1>2 DEF WritersInv, CountersInv, OrderAt
  <1>4. r \in Counts \cup {NoStats}
    <2>1. updates[i] \in Job
      BY QueueFacts DEF WritersInv
    <2>2. QED
      BY <2>1 DEF Job
  <1>5. Bounded(u, r)'
    BY <1>3, <1>4, StatsStay
  <1>6. u = Order[OrderAt(i)'].user
    BY <1>2 DEF OrderAt, Moves
  <1>7. QED
    BY <1>5, <1>6 DEF Bounded

\* Rows that stay keep what is said of them.
LEMMA RowsStay ==
    ASSUME WritersInv, NEW i \in DOMAIN updates, NEW gone, NEW r, Moves(i, gone, r),
           NEW o \in OrderIds, db'.active[o] = db.active[o], db'.history[o] = db.history[o]
    PROVE  SettledRows(o)'
  <1>1. /\ \A y : /\ Unwritten(y)' => Unwritten(y)
                  /\ Untracked(y)' <=> Untracked(y)
    BY MovesStanding DEF WritersInv
  <1>2. book' = book /\ listed' = listed
    BY DEF Moves, engineVars
  <1>3. Placed(o)' <=> Placed(o)
    BY <1>2 DEF Placed
  <1>4. SettledRows(o)
    BY DEF WritersInv
  <1>5. QED
    BY <1>1, <1>2, <1>3, <1>4 DEF SettledRows

\* Only a placement puts an order into active_orders.
LEMMA OrderStepsFacts ==
    ASSUME NEW status \in {"New", "PartiallyFilled", "Filled", "Rejected"}
    PROVE  /\ "init" \notin OrderSteps(status) /\ "stats" \notin OrderSteps(status)
           /\ "upsert" \in OrderSteps(status) => status \in {"New", "PartiallyFilled"}
  <1>1. "init" \notin OrderSteps(status) /\ "stats" \notin OrderSteps(status)
    BY DEF OrderSteps
  <1>2. CASE status \in {"New", "PartiallyFilled"}
    BY <1>1, <1>2
  <1>3. CASE status = "Filled"
    <2>1. Steps(status) = <<"delete", "history", "stream", "stats">>
      BY <1>3 DEF Steps
    <2>2. "upsert" \notin Range(Steps(status))
      BY <2>1 DEF Range
    <2>3. QED
      BY <1>1, <2>2 DEF OrderSteps
  <1>4. CASE status = "Rejected"
    <2>1. Steps(status) = <<"history", "stream", "stats">>
      BY <1>4 DEF Steps
    <2>2. "upsert" \notin Range(Steps(status))
      BY <2>1 DEF Range
    <2>3. QED
      BY <1>1, <2>2 DEF OrderSteps
  <1>5. QED
    BY <1>2, <1>3, <1>4

\* The statements about the order alone.
LEMMA StepRows ==
    ASSUME DbInv, WritersInv, NEW i \in DOMAIN updates, "rows" \in updates[i].todo,
           Moves(i, {"rows"}, updates[i].read), failures' = 0 => failures = 0,
           NEW S \in SUBSET OrderSteps(working[i].status), db' = Perform(db, S, working[i])
    PROVE  DbInv' /\ WritersInv'
  <1>1. PICK u : u = working[i]
    OBVIOUS
  <1>2. PICK o : o = u.order
    OBVIOUS
  <1>3. /\ o \in OrderIds /\ OutputInv(u) /\ u \in OutputMsg
        /\ ~Unwritten(OrderAt(i))' /\ Unwritten(o) /\ o = OrderAt(i)
    BY <1>1, <1>2, MovesStanding DEF WritersInv, OrderAt
  <1>4. /\ u.status \in {"New", "PartiallyFilled", "Filled", "Rejected"} /\ u.filled \in Nat
        /\ u.order = o /\ u.filled <= Order[o].qty /\ book[o] # "unsent"
    BY <1>2, <1>3 DEF OutputMsg, OutputInv
  <1>5. db.active[o] = NoRow /\ db.history[o] = NoRow
    BY <1>3 DEF WritersInv, SettledRows
  <1>6. /\ "init" \notin S /\ "stats" \notin S
        /\ "upsert" \in S => u.status \in {"New", "PartiallyFilled"}
    BY <1>1, <1>4, OrderStepsFacts
  <1>7. RowOf(u) \in Row /\ RowOf(u).status = u.status /\ RowOf(u).filled = u.filled
    BY <1>4 DEF RowOf, Row, Status, Closed
  <1>8. PICK e : e = Perform(db, S, u)
    OBVIOUS
  <1>9. /\ e \in DbType
        /\ \A y \in OrderIds : y # o => e.active[y] = db.active[y] /\ e.history[y] = db.history[y]
        /\ e.active[o] = IF "upsert" \in S THEN RowOf(u)
                         ELSE IF "delete" \in S THEN NoRow ELSE db.active[o]
        /\ e.history[o] = IF "history" \in S THEN RowOf(u) ELSE db.history[o]
        /\ \A v \in Users : e.stats[v] = db.stats[v]
    <2>0. db \in DbType
      BY DEF DbInv
    <2>1. /\ e \in DbType
          /\ \A y \in OrderIds : y # u.order => e.active[y] = db.active[y] /\ e.history[y] = db.history[y]
          /\ e.active[u.order] = IF "upsert" \in S THEN RowOf(u)
                           ELSE IF "delete" \in S THEN NoRow ELSE db.active[u.order]
          /\ e.history[u.order] = IF "history" \in S THEN RowOf(u) ELSE db.history[u.order]
          /\ \A v \in Users : v # Order[u.order].user => e.stats[v] = db.stats[v]
          /\ "init" \notin S /\ "stats" \notin S => e.stats[Order[u.order].user] = db.stats[Order[u.order].user]
      BY <1>3, <1>4, <1>7, <1>8, <2>0, PerformFacts
    <2>2. QED
      BY <1>4, <1>6, <2>1
  <1>10. db' = e
    BY <1>1, <1>8
  <1>11. /\ db'.active[o] \in {NoRow, RowOf(u)} /\ db'.history[o] \in {NoRow, RowOf(u)}
         /\ db'.active[o] # NoRow => db'.active[o] = RowOf(u) /\ u.status \in {"New", "PartiallyFilled"}
    BY <1>5, <1>6, <1>9, <1>10
  <1>12. NoRow.filled = 0 /\ NoRow.status = "none"
    BY DEF NoRow
  <1>13. DbInv'
    <2>1. ASSUME NEW y \in OrderIds, db'.active[y] # NoRow
          PROVE  db'.history[y].status \notin Closed /\ db'.history[y].filled <= db'.active[y].filled
      <3>1. CASE y = o
        BY <1>4, <1>7, <1>11, <1>12, <2>1, <3>1 DEF Closed
      <3>2. CASE y # o
        BY <1>9, <1>10, <2>1, <3>2 DEF DbInv
      <3>3. QED
        BY <3>1, <3>2
    <2>2. QED
      BY <1>9, <1>10, <2>1 DEF DbInv
  <1>14. ASSUME NEW y \in OrderIds  PROVE SettledRows(y)'
    <2>1. CASE y = o
      <3>1. ~Unwritten(y)'
        <4>1. OrderAt(i)' = y
          BY <1>3, <2>1 DEF OrderAt, Moves
        <4>2. QED
          BY <1>3, <4>1 DEF Unwritten
      <3>2. book' = book /\ listed' = listed
        BY DEF Moves, engineVars
      <3>3. db'.active[y].filled <= Order[y].qty /\ db'.history[y].filled <= Order[y].qty
        <4>1. Order[o].qty \in Nat
          BY <1>3, HistoryAssumption
        <4>2. QED
          BY <1>4, <1>7, <1>11, <1>12, <2>1, <4>1
      <3>4. (Placed(y)' <=> Placed(y)) /\ (Untracked(y)' <=> Untracked(y))
        <4>1. Placed(y)' <=> Placed(y)
          BY <3>2 DEF Placed
        <4>2. QED
          BY <4>1, MovesStanding DEF WritersInv
      <3>5. SettledRows(y)
        BY DEF WritersInv
      <3>6. QED
        BY <1>4, <2>1, <3>1, <3>2, <3>3, <3>4, <3>5 DEF SettledRows
    <2>2. CASE y # o
      <3>1. db'.active[y] = db.active[y] /\ db'.history[y] = db.history[y]
        BY <1>9, <1>10, <2>2
      <3>2. QED
        BY <3>1, RowsStay
    <2>3. QED
      BY <2>1, <2>2
  <1>15. \A v \in Users : Bounded(v, db.stats[v])'
    <2>1. \A v \in Users : db'.stats[v] = db.stats[v]
      BY <1>9, <1>10
    <2>2. QED
      BY <2>1, StatsStay
  <1>16. PICK r : r = updates[i].read
    OBVIOUS
  <1>17. PICK gone : gone = {"rows"}
    OBVIOUS
  <1>18. Moves(i, gone, r) /\ "read" \notin gone
    BY <1>16, <1>17
  <1>19. WritersInv'
    <2>1. "write" \in updates'[i].todo /\ "read" \notin updates'[i].todo => Bounded(Order[OrderAt(i)].user, r)'
      BY <1>16, <1>18, ReadStays
    <2>2. QED
      BY <1>14, <1>15, <1>18, <2>1, MovesKeeps
  <1>20. QED
    BY <1>13, <1>19

\* A statement about the counters alone keeps the rows.
LEMMA CountersStep ==
    ASSUME DbInv, WritersInv, NEW i \in DOMAIN updates, NEW gone, NEW r, Moves(i, gone, r),
           failures' = 0 => failures = 0, db' \in DbType,
           \A o \in OrderIds : db'.active[o] = db.active[o] /\ db'.history[o] = db.history[o],
           \A v \in Users : db'.stats[v] = db.stats[v] \/ Bounded(v, db.stats[v])',
           "write" \in updates'[i].todo /\ "read" \notin updates'[i].todo =>
              Bounded(Order[OrderAt(i)].user, r)'
    PROVE  DbInv' /\ WritersInv'
  <1>1. DbInv'
    BY DEF DbInv
  <1>2. \A o \in OrderIds : SettledRows(o)'
    BY RowsStay
  <1>3. \A v \in Users : Bounded(v, db.stats[v])'
    BY StatsStay
  <1>4. QED
    BY <1>1, <1>2, <1>3, MovesKeeps

\* init_user_statistics.
LEMMA StepInit ==
    ASSUME DbInv, WritersInv, NEW i \in DOMAIN updates,
           Moves(i, {"init"}, updates[i].read), failures' = 0 => failures = 0,
           db' \in {db, Perform(db, {"init"}, working[i])}
    PROVE  DbInv' /\ WritersInv'
  <1>1. PICK u : u = working[i]
    OBVIOUS
  <1>2. /\ u.order \in OrderIds /\ u \in OutputMsg
        /\ \A y : Uncounted(y)' => Uncounted(y)
    BY <1>1, MovesStanding DEF WritersInv, OrderAt
  <1>3. RowOf(u) \in Row
    BY <1>2 DEF RowOf, Row, Status, Closed, OutputMsg
  <1>4. PICK who : who = Order[u.order].user
    OBVIOUS
  <1>5. PICK e : e = Perform(db, {"init"}, u)
    OBVIOUS
  <1>6. db \in DbType
    BY DEF DbInv
  <1>7. /\ e \in DbType /\ who \in Users
        /\ \A o \in OrderIds : o # u.order => e.active[o] = db.active[o] /\ e.history[o] = db.history[o]
        /\ e.active[u.order] = IF "upsert" \in {"init"} THEN RowOf(u)
                               ELSE IF "delete" \in {"init"} THEN NoRow ELSE db.active[u.order]
        /\ e.history[u.order] = IF "history" \in {"init"} THEN RowOf(u) ELSE db.history[u.order]
        /\ \A v \in Users : v # who => e.stats[v] = db.stats[v]
        /\ "init" \in {"init"} /\ "stats" \notin {"init"} => e.stats[who] = init_user_statistics(db.stats[who])
    BY <1>2, <1>3, <1>4, <1>5, <1>6, PerformFacts
  <1>8. /\ db' \in DbType
        /\ \A o \in OrderIds : db'.active[o] = db.active[o] /\ db'.history[o] = db.history[o]
        /\ \A v \in Users : v # who => db'.stats[v] = db.stats[v]
        /\ db'.stats[who] \in {db.stats[who], init_user_statistics(db.stats[who])}
    BY <1>1, <1>5, <1>6, <1>7
  <1>9. Bounded(who, [Zero EXCEPT !.total = 1])'
    <2>1. /\ Cardinality(AtOnceOf(who)') \in Nat /\ Cardinality(RefusedOf(who)') \in Nat
          /\ Cardinality(RestingOf(who)') \in Nat
      <3>1. UNCHANGED engineVars
        BY DEF Moves
      <3>2. QED
        BY <1>2, <3>1, BoundGrows
    <2>2. PICK z : z = [Zero EXCEPT !.total = 1]
      OBVIOUS
    <2>3. z.total = 1 /\ z.filled = 0 /\ z.rejected = 0
      BY <2>2 DEF Zero
    <2>4. Bounded(who, z)'
      BY <2>1, <2>3 DEF Bounded
    <2>5. QED
      BY <2>2, <2>4
  <1>10. \A v \in Users : db'.stats[v] = db.stats[v] \/ Bounded(v, db.stats[v])'
    <2>1. CASE db'.stats[who] = db.stats[who]
      BY <1>8, <2>1
    <2>2. CASE db'.stats[who] # db.stats[who]
      <3>1. db'.stats[who] = [Zero EXCEPT !.total = 1]
        BY <1>8, <2>2 DEF init_user_statistics
      <3>2. Bounded(who, db.stats[who])'
        BY <1>9, <3>1 DEF Bounded
      <3>3. QED
        BY <1>8, <3>2
    <2>3. QED
      BY <2>1, <2>2
  <1>11. PICK r : r = updates[i].read
    OBVIOUS
  <1>12. PICK gone : gone = {"init"}
    OBVIOUS
  <1>13. Moves(i, gone, r) /\ "read" \notin gone
    BY <1>11, <1>12
  <1>14. "write" \in updates'[i].todo /\ "read" \notin updates'[i].todo => Bounded(Order[OrderAt(i)].user, r)'
    BY <1>11, <1>13, ReadStays
  <1>15. QED
    BY <1>8, <1>10, <1>13, <1>14, CountersStep

\* The two halves of update_order_statistics: it reads the counters.
LEMMA StepRead ==
    ASSUME DbInv, WritersInv, NEW i \in DOMAIN updates, NEW gone, NEW r, Moves(i, gone, r),
           failures' = 0 => failures = 0, db' = db,
           "write" \in gone \/ r = db.stats[Order[OrderAt(i)].user]
    PROVE  DbInv' /\ WritersInv'
  <1>1. /\ db' \in DbType
        /\ \A o \in OrderIds : db'.active[o] = db.active[o] /\ db'.history[o] = db.history[o]
        /\ \A v \in Users : db'.stats[v] = db.stats[v]
    BY DEF DbInv
  <1>2. ASSUME "write" \in updates'[i].todo  PROVE Bounded(Order[OrderAt(i)].user, r)'
    <2>1. "write" \notin gone
      BY <1>2 DEF Moves
    <2>2. PICK u : u = Order[OrderAt(i)].user
      OBVIOUS
    <2>3. OrderAt(i) \in OrderIds
      BY MovesStanding DEF WritersInv
    <2>4. u \in Users /\ r = db.stats[u]
      BY <2>1, <2>2, <2>3 DEF Users
    <2>5. Bounded(u, db.stats[u])'
      BY <1>1, <2>4, StatsStay
    <2>6. u = Order[OrderAt(i)'].user /\ r = db'.stats[u]
      BY <2>2, <2>4 DEF OrderAt, Moves
    <2>7. QED
      BY <2>5, <2>6 DEF Bounded
  <1>3. QED
    BY <1>1, <1>2, CountersStep

\* An order that is counted from now on is one more in its class.
LEMMA CountsOne ==
    ASSUME WritersInv, NEW i \in DOMAIN updates, NEW r, Moves(i, {"write"}, r),
           "write" \in updates[i].todo, NEW who, who = Order[OrderAt(i)].user
    PROVE  LET o == OrderAt(i)
               status == working[i].status
           IN  /\ status = "Filled" => Cardinality(AtOnceOf(who)') = Cardinality(AtOnceOf(who)) + 1
               /\ status = "Rejected" => Cardinality(RefusedOf(who)') = Cardinality(RefusedOf(who)) + 1
               /\ status = "New" => Cardinality(RestingOf(who)') = Cardinality(RestingOf(who)) + 1
  <1>1. PICK o : o = OrderAt(i)
    OBVIOUS
  <1>2. PICK status : status = working[i].status
    OBVIOUS
  <1>3. PICK gone : gone = {"write"}
    OBVIOUS
  <1>4. Moves(i, gone, r) /\ "write" \in gone
    BY <1>3
  <1>5. /\ o \in OrderIds /\ OutputInv(working[i]) /\ Queue' = Queue /\ DOMAIN updates' = DOMAIN updates
        /\ Uncounted(o) /\ ~Uncounted(OrderAt(i))'
    BY <1>1, <1>4, MovesStanding DEF WritersInv
  <1>6. OrderAt(i)' = o /\ UNCHANGED engineVars /\ UNCHANGED <<book, trades>>
    BY <1>1 DEF Moves, OrderAt, engineVars
  <1>7. ~Uncounted(o)'
    BY <1>5, <1>6 DEF Uncounted
  <1>8. ASSUME NEW y, y # o  PROVE Uncounted(y)' <=> Uncounted(y)
    <2>1. \A j \in 1..Len(Queue) : Queue[j].order = y /\ j \in DOMAIN updates => updates'[j] = updates[j]
      <3>1. ASSUME NEW j \in 1..Len(Queue), Queue[j].order = y, j \in DOMAIN updates  PROVE j # i
        <4>1. \A k \in 1..Len(working) : Queue[k] = working[k]
          BY QueueFacts DEF WritersInv
        <4>2. i \in 1..Len(working)
          <5>1. DOMAIN updates = 1..Len(updates) /\ Len(updates) \in Nat /\ Len(updates) <= Len(working)
                /\ Len(working) \in Nat
            BY QueueFacts DEF WritersInv
          <5>2. QED
            BY <5>1
        <4>3. Queue[i].order = o
          BY <1>1, <4>1, <4>2 DEF OrderAt
        <4>4. QED
          BY <1>8, <3>1, <4>3
      <3>2. QED
        BY <3>1 DEF Moves
    <2>2. QED
      BY <1>5, <2>1 DEF Uncounted
  <1>9. \A y : TakenBy(y)' = TakenBy(y)
    BY <1>6 DEF TakenBy
  <1>10. \A y : (FilledOnArrival(y)' <=> FilledOnArrival(y)) /\ (Placed(y)' <=> Placed(y))
    BY <1>6, <1>9, FilledSame DEF Placed
  <1>11. /\ status = "Rejected" <=> book[o] = "rejected"
         /\ status = "Filled" <=> Placed(o) /\ FilledOnArrival(o)
         /\ status = "New" <=> Placed(o) /\ TakenBy(o) = {}
    BY <1>1, <1>2, <1>5 DEF OutputInv, OrderAt
  <1>12. ASSUME status = "Filled"  PROVE Cardinality(AtOnceOf(who)') = Cardinality(AtOnceOf(who)) + 1
    <2>1. PICK A : A = AtOnceOf(who)
      OBVIOUS
    <2>2. PICK B : B = AtOnceOf(who)'
      OBVIOUS
    <2>3. A \in SUBSET OrderIds /\ B \in SUBSET OrderIds
      BY <2>1, <2>2 DEF AtOnceOf
    <2>4. o \in B /\ o \notin A
      BY <1>1, <1>5, <1>7, <1>10, <1>11, <1>12, <2>1, <2>2 DEF AtOnceOf
    <2>5. \A x \in OrderIds : x # o => (x \in A <=> x \in B)
      BY <1>8, <1>10, <2>1, <2>2 DEF AtOnceOf
    <2>6. QED
      BY <1>5, <2>1, <2>2, <2>3, <2>4, <2>5, GrowsByOne
  <1>13. ASSUME status = "Rejected"  PROVE Cardinality(RefusedOf(who)') = Cardinality(RefusedOf(who)) + 1
    <2>1. PICK A : A = RefusedOf(who)
      OBVIOUS
    <2>2. PICK B : B = RefusedOf(who)'
      OBVIOUS
    <2>3. A \in SUBSET OrderIds /\ B \in SUBSET OrderIds
      BY <2>1, <2>2 DEF RefusedOf
    <2>4. o \in B /\ o \notin A
      BY <1>1, <1>5, <1>6, <1>7, <1>11, <1>13, <2>1, <2>2 DEF RefusedOf
    <2>5. \A x \in OrderIds : x # o => (x \in A <=> x \in B)
      BY <1>6, <1>8, <2>1, <2>2 DEF RefusedOf
    <2>6. QED
      BY <1>5, <2>1, <2>2, <2>3, <2>4, <2>5, GrowsByOne
  <1>14. ASSUME status = "New"  PROVE Cardinality(RestingOf(who)') = Cardinality(RestingOf(who)) + 1
    <2>1. PICK A : A = RestingOf(who)
      OBVIOUS
    <2>2. PICK B : B = RestingOf(who)'
      OBVIOUS
    <2>3. A \in SUBSET OrderIds /\ B \in SUBSET OrderIds
      BY <2>1, <2>2 DEF RestingOf
    <2>4. o \in B /\ o \notin A
      BY <1>1, <1>5, <1>7, <1>9, <1>10, <1>11, <1>14, <2>1, <2>2 DEF RestingOf
    <2>5. \A x \in OrderIds : x # o => (x \in A <=> x \in B)
      BY <1>8, <1>9, <1>10, <2>1, <2>2 DEF RestingOf
    <2>6. QED
      BY <1>5, <2>1, <2>2, <2>3, <2>4, <2>5, GrowsByOne
  <1>15. QED
    BY <1>2, <1>12, <1>13, <1>14

\* What it has counted on what it read is within the bounds.
LEMMA CountedBounded ==
    ASSUME WritersInv, NEW i \in DOMAIN updates, NEW r \in Counts \cup {NoStats},
           Moves(i, {"write"}, r), "write" \in updates[i].todo,
           NEW who, who = Order[OrderAt(i)].user, Bounded(who, r)
    PROVE  Bounded(who, WithCounted(r, working[i].status))'
  <1>1. PICK status : status = working[i].status
    OBVIOUS
  <1>2. PICK c : c = OwnStats(r)
    OBVIOUS
  <1>3. PICK d : d = WithCounted(r, status)
    OBVIOUS
  <1>4. status \in Status /\ UNCHANGED engineVars /\ \A y : Uncounted(y)' => Uncounted(y)
    <2>1. working[i] \in OutputMsg /\ \A y : Uncounted(y)' => Uncounted(y)
      BY MovesStanding DEF WritersInv
    <2>2. status \in Status
      BY <1>1, <2>1 DEF OutputMsg, Status, Closed
    <2>3. QED
      BY <2>1, <2>2 DEF Moves
  <1>5. /\ d.total = c.total + (IF status = "New" THEN 1 ELSE 0)
        /\ d.filled = c.filled + (IF status = "Filled" THEN 1 ELSE 0)
        /\ d.rejected = c.rejected + (IF status = "Rejected" THEN 1 ELSE 0)
    BY <1>2, <1>3, <1>4, CountedValues
  <1>6. PICK a, b, f, g, k, l : /\ a = Cardinality(AtOnceOf(who)) /\ b = Cardinality(AtOnceOf(who)')
                                /\ f = Cardinality(RefusedOf(who)) /\ g = Cardinality(RefusedOf(who)')
                                /\ k = Cardinality(RestingOf(who)) /\ l = Cardinality(RestingOf(who)')
    OBVIOUS
  <1>7. a \in Nat /\ b \in Nat /\ f \in Nat /\ g \in Nat /\ k \in Nat /\ l \in Nat
    BY <1>4, <1>6, BoundGrows
  <1>8. Bounded(who, r)' /\ c \in Counts
    BY <1>2, <1>4, BoundGrows, CountedType
  <1>9. /\ r.filled <= b /\ r.rejected <= g /\ r.total <= 1 + l
        /\ r.filled <= a /\ r.rejected <= f /\ r.total <= 1 + k
    BY <1>6, <1>8 DEF Bounded
  <1>10. /\ c.filled <= b /\ c.rejected <= g /\ c.total <= 1 + l
         /\ c.filled <= a /\ c.rejected <= f /\ c.total <= 1 + k
         /\ c.filled \in Nat /\ c.rejected \in Nat /\ c.total \in Nat
    <2>1. CASE r = NoStats
      BY <1>2, <1>7, <2>1 DEF OwnStats, Zero
    <2>2. CASE r # NoStats
      BY <1>2, <1>8, <1>9, <2>2 DEF OwnStats, Counts
    <2>3. QED
      BY <2>1, <2>2
  <1>11. /\ status = "Filled" => b = a + 1
         /\ status = "Rejected" => g = f + 1
         /\ status = "New" => l = k + 1
    BY <1>1, <1>6, CountsOne
  <1>12. d.filled <= b /\ d.rejected <= g /\ d.total <= 1 + l
    BY <1>5, <1>7, <1>10, <1>11
  <1>13. Bounded(who, d)'
    BY <1>6, <1>12 DEF Bounded
  <1>14. d = WithCounted(r, working'[i].status)
    BY <1>1, <1>3 DEF Moves
  <1>15. QED
    BY <1>13, <1>14 DEF Bounded

\* And it writes what it has counted on them.
LEMMA StepWrite ==
    ASSUME DbInv, WritersInv, NEW i \in DOMAIN updates, NEW r, r = updates[i].read,
           Moves(i, {"write"}, r), failures' = 0 => failures = 0,
           "write" \in updates[i].todo, "read" \notin updates[i].todo,
           NEW who, who = Order[OrderAt(i)].user,
           db' \in {db, [db EXCEPT !.stats[who] = WithCounted(r, working[i].status)]}
    PROVE  DbInv' /\ WritersInv'
  <1>1. OrderAt(i) \in OrderIds
    BY MovesStanding DEF WritersInv
  <1>2. who \in Users
    BY <1>1 DEF Users
  <1>3. r \in Counts \cup {NoStats}
    <2>1. updates[i] \in Job
      BY QueueFacts DEF WritersInv
    <2>2. QED
      BY <2>1 DEF Job
  <1>4. Bounded(who, r)
    BY DEF WritersInv, CountersInv, OrderAt
  <1>5. PICK d : d = WithCounted(r, working[i].status)
    OBVIOUS
  <1>6. d \in Counts
    BY <1>3, <1>5, CountedType
  <1>7. Bounded(who, WithCounted(r, working[i].status))'
    BY <1>3, <1>4, CountedBounded
  <1>8. Bounded(who, d)'
    <2>1. d = WithCounted(r, working'[i].status)
      BY <1>5 DEF Moves
    <2>2. QED
      BY <1>7, <2>1 DEF Bounded
  <1>9. db \in DbType
    BY DEF DbInv
  <1>10. PICK e : e = [db EXCEPT !.stats[who] = d]
    OBVIOUS
  <1>11. /\ e \in DbType /\ e.stats[who] = d /\ \A v \in Users : v # who => e.stats[v] = db.stats[v]
         /\ \A o \in OrderIds : e.active[o] = db.active[o] /\ e.history[o] = db.history[o]
    BY <1>2, <1>6, <1>9, <1>10 DEF DbType
  <1>12. db' \in {db, e}
    BY <1>5, <1>10
  <1>13. /\ db' \in DbType
         /\ \A o \in OrderIds : db'.active[o] = db.active[o] /\ db'.history[o] = db.history[o]
         /\ \A v \in Users : v # who => db'.stats[v] = db.stats[v]
         /\ db'.stats[who] \in {db.stats[who], d}
    BY <1>9, <1>11, <1>12
  <1>14. \A v \in Users : db'.stats[v] = db.stats[v] \/ Bounded(v, db.stats[v])'
    <2>1. CASE db'.stats[who] = db.stats[who]
      BY <1>13, <2>1
    <2>2. CASE db'.stats[who] = d
      <3>1. Bounded(who, db.stats[who])'
        BY <1>8, <2>2 DEF Bounded
      <3>2. QED
        BY <1>13, <3>1
    <2>3. QED
      BY <1>13, <2>1, <2>2
  <1>15. "write" \notin updates'[i].todo
    BY DEF Moves
  <1>16. QED
    BY <1>13, <1>14, <1>15, CountersStep

\* A statement of an update in flight keeps the invariant.
LEMMA SettlementStep ==
    ASSUME DbInv, WritersInv, failures \in Nat, NEW i \in DOMAIN updates, NEW s \in updates[i].todo,
           UpdateStep(i, s)
    PROVE  DbInv' /\ WritersInv'
  <1>1. WriterShape /\ QueueInv
    BY DEF WritersInv
  <1>2. OrderAt(i) \in OrderIds
    <2>1. /\ \A j \in 1..Len(Queue) : Queue[j] \in OutputMsg
          /\ \A j \in 1..Len(working) : j \in 1..Len(Queue) /\ Queue[j] = working[j]
          /\ DOMAIN updates = 1..Len(updates) /\ Len(updates) \in Nat /\ Len(updates) <= Len(working)
          /\ Len(working) \in Nat
      BY <1>1, QueueFacts
    <2>2. i \in 1..Len(working)
      BY <2>1
    <2>3. working[i] \in OutputMsg
      BY <2>1, <2>2
    <2>4. QED
      BY <2>3 DEF OutputMsg, OrderAt
  <1>3. PICK gone, r : Moves(i, gone, r) /\ Statement(i, s, gone, r) /\ (failures' = 0 => failures = 0)
    BY <1>1, <1>2, StepMoves
  <1>4. CASE /\ s = "rows" /\ gone = {"rows"} /\ r = updates[i].read
             /\ \E S \in SUBSET OrderSteps(working[i].status) : db' = Perform(db, S, working[i])
    BY <1>3, <1>4, StepRows
  <1>5. CASE /\ s = "init" /\ gone = {"init"} /\ r = updates[i].read
             /\ db' \in {db, Perform(db, {"init"}, working[i])}
    BY <1>3, <1>5, StepInit
  <1>6. CASE s = "read" /\ gone = {"read"} /\ r = db.stats[Order[working[i].order].user] /\ db' = db
    BY <1>3, <1>6, StepRead DEF OrderAt
  <1>7. CASE s = "read" /\ gone = {"read", "write"} /\ db' = db
    BY <1>3, <1>7, StepRead
  <1>8. CASE /\ s = "write" /\ gone = {"write"} /\ r = updates[i].read /\ "read" \notin updates[i].todo
             /\ db' \in {db, [db EXCEPT !.stats[Order[working[i].order].user]
                                          = WithCounted(r, working[i].status)]}
    <2>1. PICK who : who = Order[OrderAt(i)].user
      OBVIOUS
    <2>2. db' \in {db, [db EXCEPT !.stats[who] = WithCounted(r, working[i].status)]}
      BY <1>8, <2>1 DEF OrderAt
    <2>3. QED
      BY <1>3, <1>8, <2>1, <2>2, StepWrite
  <1>9. QED
    BY <1>3, <1>4, <1>5, <1>6, <1>7, <1>8 DEF Statement

(***************************************************************************)
(* The invariant and what follows from it.                                 *)
(***************************************************************************)

\* No wire, nothing is said on it.
LEMMA NothingSaid ==
    ASSUME wire = <<>>
    PROVE  Range(wire) = {} /\ \A o : Due(wire, o) = 0 /\ ~About(wire, o) /\ \A s : ~Said(wire, o, s)
  <1>1. Range(wire) = {}
    BY DEF Range
  <1>2. QED
    BY <1>1, DueEmpty DEF About, Said

\* No outputs on their way.
LEMMA NoQueue ==
    ASSUME outTopic = <<>>, orderCh = <<>>, working = <<>>
    PROVE  Queue = <<>> /\ \A o : ~Unwritten(o) /\ ~Uncounted(o) /\ ~Untracked(o)
  <1>1. FlattenSeq(<<>>) = <<>>
    BY DEF FlattenSeq
  <1>2. Queue = <<>>
    BY <1>1 DEF Queue
  <1>3. 1..Len(Queue) = {}
    BY <1>2
  <1>4. QED
    BY <1>2, <1>3 DEF Unwritten, Uncounted, Untracked

\* Init establishes the invariant: the service's half.
LEMMA InitService ==
    ASSUME Init
    PROVE  EngineInv /\ DbInv /\ ServiceInv
  <1>1. \A o \in OrderIds : Order[o].qty \in Nat \ {0}
    BY HistoryAssumption
  <1>2. EngineInv
    BY <1>1 DEF Init, EngineInv
  <1>3. DbInv
    BY DEF Init, DbInv, DbType, Row, NoRow, Closed
  <1>4. /\ Range(wire) = {} /\ \A o : Due(wire, o) = 0 /\ ~About(wire, o) /\ \A s : ~Said(wire, o, s)
        /\ wire = <<>>
    BY NothingSaid DEF Init
  <1>5. wire \in Seq(Msg) /\ InOrder(wire)
    BY <1>4 DEF InOrder
  <1>6. /\ \A o \in OrderIds : db.active[o] = NoRow /\ db.history[o] = NoRow /\ book[o] = "unsent"
                               /\ left[o] = Order[o].qty
        /\ \A u \in Users : db.stats[u] = NoStats
    BY DEF Init
  <1>7. NoRow.filled = 0
    BY DEF NoRow
  <1>8. \A o \in OrderIds : WireInv(o) /\ ServiceRows(o)
    BY <1>1, <1>4, <1>6, <1>7 DEF WireInv, ServiceRows
  <1>9. \A o \in OrderIds : ~Started(o) /\ ~Cancelled(o) /\ ~Rejected(o) /\ Shown(o) = 0
    BY <1>1, <1>4, <1>6 DEF Started, Cancelled, Rejected, Shown, Placed
  <1>10. ASSUME NEW u \in Users  PROVE ServiceCounts(u)
    <2>1. FilledOf(u) = {} /\ CancelledOf(u) = {} /\ RejectedOf(u) = {} /\ StartedOf(u) = {}
      BY <1>9 DEF FilledOf, CancelledOf, RejectedOf, StartedOf
    <2>2. Cardinality({}) = 0
      BY FS_EmptySet
    <2>3. OwnStats(db.stats[u]) = Zero
      BY <1>6 DEF OwnStats
    <2>4. QED
      BY <2>1, <2>2, <2>3 DEF ServiceCounts, Zero
  <1>11. QED
    BY <1>2, <1>3, <1>5, <1>8, <1>9, <1>10 DEF ServiceInv, ServiceMirrors

\* And the writers' half.
LEMMA InitWriters ==
    ASSUME Init
    PROVE  WritersInv
  <1>1. /\ outTopic = <<>> /\ orderCh = <<>> /\ working = <<>> /\ tradesCh = <<>> /\ updates = <<>>
        /\ tracked = 0 /\ trades = {} /\ userTrades = {}
        /\ listed = [o \in OrderIds |-> "none"] /\ lookup = {}
    BY DEF Init
  <1>2. Queue = <<>> /\ \A o : ~Unwritten(o) /\ ~Uncounted(o) /\ ~Untracked(o)
    BY <1>1, NoQueue
  <1>3. WriterShape
    BY <1>1, HistoryAssumption DEF WriterShape
  <1>4. QueueInv
    BY <1>2 DEF QueueInv
  <1>5. /\ \A o \in OrderIds : db.active[o] = NoRow /\ db.history[o] = NoRow /\ book[o] = "unsent"
        /\ \A u \in Users : db.stats[u] = NoStats
    BY DEF Init
  <1>6. \A o \in OrderIds : SettledRows(o)
    <2>1. \A o \in OrderIds : Order[o].qty \in Nat /\ NoRow.filled = 0
      BY HistoryAssumption DEF NoRow
    <2>2. QED
      BY <1>1, <1>5, <2>1 DEF SettledRows
  <1>7. \A o \in OrderIds : ~Placed(o) /\ book[o] # "rejected"
    BY <1>5 DEF Placed
  <1>8. CountersInv
    <2>1. ASSUME NEW u \in Users  PROVE Bounded(u, db.stats[u])
      <3>1. AtOnceOf(u) = {} /\ RefusedOf(u) = {} /\ RestingOf(u) = {}
        BY <1>7 DEF AtOnceOf, RefusedOf, RestingOf
      <3>2. Cardinality({}) = 0
        BY FS_EmptySet
      <3>3. NoStats.filled = 0 /\ NoStats.rejected = 0 /\ NoStats.total = -1
        BY DEF NoStats, Zero
      <3>4. QED
        BY <1>5, <3>1, <3>2, <3>3 DEF Bounded
    <2>2. DOMAIN updates = {}
      BY <1>1
    <2>3. QED
      BY <2>1, <2>2 DEF CountersInv
  <1>9. TradesSent
    BY <1>1 DEF TradesSent
  <1>10. WritersShow
    BY <1>1, <1>7 DEF WritersShow
  <1>11. QED
    BY <1>3, <1>4, <1>6, <1>8, <1>9, <1>10 DEF WritersInv

\* Init establishes the invariant.
LEMMA InitHist ==
    ASSUME Init
    PROVE  HistInv
  <1>1. IdleReader("service") /\ IdleReader("settlement")
    BY DEF Init, IdleReader
  <1>2. \A t \in trades : TradeInv(t)
    BY DEF Init
  <1>3. reader \in {"service", "settlement"} /\ failures \in 0..MaxFailures
    BY HistoryAssumption DEF Init
  <1>4. QED
    BY <1>1, <1>2, <1>3, InitService, InitWriters DEF HistInv

\* The engine's steps keep the engine's half and leave the tables.
LEMMA EngineSteps ==
    ASSUME EngineInv, DbInv, \A t \in trades : TradeInv(t), NEW o \in OrderIds,
           RejectOrder(o) \/ PlaceOrder(o) \/ CancelOrder(o)
    PROVE  /\ EngineInv' /\ DbInv' /\ \A t \in trades' : TradeInv(t)'
           /\ UNCHANGED <<reader, failures, writerVars>>
           /\ reader = "service" => UNCHANGED outTopic
           /\ reader = "settlement" => UNCHANGED wire
  <1>1. UNCHANGED <<reader, failures, writerVars, db>>
    BY DEF RejectOrder, PlaceOrder, CancelOrder
  <1>2. DbInv'
    BY <1>1 DEF DbInv
  <1>3. CASE RejectOrder(o)
    <2>1. EngineInv' /\ \A t \in trades' : TradeInv(t)'
      BY <1>3, ClosedKeeps DEF RejectOrder
    <2>2. (reader = "service" => UNCHANGED outTopic) /\ (reader = "settlement" => UNCHANGED wire)
      BY <1>3 DEF RejectOrder, Tells
    <2>3. QED
      BY <1>1, <1>2, <2>1, <2>2
  <1>4. CASE PlaceOrder(o)
    <2>1. PICK C, n : /\ Meets(o, C, n)
                      /\ (reader = "service" => UNCHANGED outTopic) /\ (reader = "settlement" => UNCHANGED wire)
      BY <1>4, PlaceOrderMeets DEF Tells
    <2>2. EngineInv' /\ \A t \in trades' : TradeInv(t)'
      BY <2>1, MeetsKeeps
    <2>3. QED
      BY <1>1, <1>2, <2>1, <2>2
  <1>5. CASE CancelOrder(o)
    <2>1. EngineInv' /\ \A t \in trades' : TradeInv(t)'
      BY <1>5, ClosedKeeps DEF CancelOrder
    <2>2. reader = "service" /\ UNCHANGED outTopic
      BY <1>5 DEF CancelOrder
    <2>3. QED
      BY <1>1, <1>2, <2>1, <2>2
  <1>6. QED
    BY <1>3, <1>4, <1>5

\* The readers leave the engine alone.
LEMMA EngineStays ==
    ASSUME EngineInv, \A t \in trades : TradeInv(t), UNCHANGED engineVars
    PROVE  EngineInv' /\ \A t \in trades' : TradeInv(t)'
  <1>1. UNCHANGED <<book, left, trades>>
    BY DEF engineVars
  <1>2. \A t : TradeInv(t)' <=> TradeInv(t)
    BY <1>1 DEF TradeInv, Placed
  <1>3. QED
    BY <1>1, <1>2 DEF EngineInv

\* Failures are counted up to their bound.
LEMMA FailuresBounded ==
    ASSUME failures \in 0..MaxFailures, Works \/ Fails
    PROVE  failures' \in 0..MaxFailures
  BY HistoryAssumption DEF Works, Fails

\* The writers that are not deployed do nothing.
LEMMA WritersIdle ==
    ASSUME IdleReader("settlement")
    PROVE  /\ ~dispatch_to_writers /\ ~write_user_trades /\ ~ReceiveBatch /\ ~TrackOrder /\ ~BatchDone
           /\ DOMAIN updates = {}
  <1>1. /\ outTopic = <<>> /\ tradesCh = <<>> /\ orderCh = <<>> /\ working = <<>> /\ tracked = 0
        /\ updates = <<>>
    BY DEF IdleReader
  <1>2. 1..Min({Len(outTopic), MaxBatch}) = {}
    <2>1. Len(outTopic) = 0 /\ MaxBatch \in Nat
      BY <1>1, HistoryAssumption
    <2>2. PICK S : S = {Len(outTopic), MaxBatch}
      OBVIOUS
    <2>3. \E x \in S : \A y \in S : x <= y
      BY <2>1, <2>2
    <2>4. Min(S) \in S /\ \A y \in S : Min(S) <= y
      BY <2>3 DEF Min
    <2>5. Min(S) = 0
      BY <2>1, <2>2, <2>4
    <2>6. QED
      BY <2>2, <2>5
  <1>3. ~dispatch_to_writers
    BY <1>2 DEF dispatch_to_writers
  <1>4. ~TrackOrder
    BY <1>1 DEF TrackOrder
  <1>5. QED
    BY <1>1, <1>3, <1>4 DEF write_user_trades, ReceiveBatch, BatchDone

\* The service keeps the invariant.
LEMMA ServiceNext ==
    ASSUME HistInv, reader = "service", Next
    PROVE  HistInv'
  <1>1. /\ EngineInv /\ DbInv /\ \A t \in trades : TradeInv(t)
        /\ ServiceInv /\ IdleReader("settlement") /\ failures \in 0..MaxFailures /\ failures \in Nat
    BY HistoryAssumption DEF HistInv
  <1>2. ASSUME UNCHANGED <<reader, outTopic, writerVars>>  PROVE IdleReader("settlement")'
    BY <1>1, <1>2 DEF IdleReader, writerVars
  <1>3. ASSUME NEW o \in OrderIds, RejectOrder(o) \/ PlaceOrder(o) \/ CancelOrder(o)  PROVE HistInv'
    <2>1. /\ EngineInv' /\ DbInv' /\ \A t \in trades' : TradeInv(t)'
          /\ UNCHANGED <<reader, failures, writerVars, outTopic>>
      BY <1>1, <1>3, EngineSteps
    <2>2. ServiceInv'
      BY <1>1, <1>3, ServiceReject, ServicePlace, ServiceCancel
    <2>3. QED
      BY <1>1, <1>2, <2>1, <2>2 DEF HistInv
  <1>4. ASSUME ReceiveUpdate \/ process_trade_fill \/ ServiceRestarts  PROVE HistInv'
    <2>1. UNCHANGED <<engineVars, outTopic, writerVars>> /\ UNCHANGED reader
      BY <1>4 DEF ReceiveUpdate, process_trade_fill, ServiceRestarts, engineVars
    <2>2. Works \/ Fails
      BY <1>4 DEF ReceiveUpdate, process_trade_fill, ServiceRestarts, process_order_update
    <2>3. DbInv' /\ ServiceInv'
      <3>1. CASE ReceiveUpdate
        BY <1>1, <3>1, ServiceUpdate
      <3>2. CASE process_trade_fill
        BY <1>1, <3>2, ServiceFill
      <3>3. CASE ServiceRestarts
        <4>1. DbInv'
          BY <1>1, <3>3 DEF ServiceRestarts, DbInv
        <4>2. QED
          BY <1>1, <3>3, <4>1, ServiceRestart
      <3>4. QED
        BY <1>4, <3>1, <3>2, <3>3
    <2>4. EngineInv' /\ \A t \in trades' : TradeInv(t)'
      BY <1>1, <2>1, EngineStays
    <2>5. failures' \in 0..MaxFailures
      BY <1>1, <2>2, FailuresBounded
    <2>6. IdleReader("settlement")'
      BY <1>2, <2>1
    <2>7. QED
      BY <2>1, <2>3, <2>4, <2>5, <2>6 DEF HistInv
  <1>5. QED
    <2>1. /\ ~dispatch_to_writers /\ ~write_user_trades /\ ~ReceiveBatch /\ ~TrackOrder /\ ~BatchDone
          /\ DOMAIN updates = {}
      BY <1>1, WritersIdle
    <2>2. \/ \E o \in OrderIds : RejectOrder(o) \/ PlaceOrder(o) \/ CancelOrder(o)
          \/ ReceiveUpdate \/ process_trade_fill \/ ServiceRestarts
      BY <2>1 DEF Next
    <2>3. QED
      BY <1>3, <1>4, <2>2

\* The settlement service's writers keep the invariant.
LEMMA WritersNext ==
    ASSUME HistInv, reader = "settlement", Next
    PROVE  HistInv'
  <1>1. /\ EngineInv /\ DbInv /\ \A t \in trades : TradeInv(t)
        /\ WritersInv /\ wire = <<>> /\ failures \in 0..MaxFailures /\ failures \in Nat
    BY HistoryAssumption DEF HistInv, IdleReader
  <1>2. ASSUME NEW o \in OrderIds, RejectOrder(o) \/ PlaceOrder(o) \/ CancelOrder(o)  PROVE HistInv'
    <2>1. /\ EngineInv' /\ DbInv' /\ \A t \in trades' : TradeInv(t)'
          /\ UNCHANGED <<reader, failures, wire>>
      BY <1>1, <1>2, EngineSteps
    <2>2. ~CancelOrder(o)
      BY DEF CancelOrder
    <2>3. WritersInv'
      BY <1>1, <1>2, <2>2, SettlementReject, SettlementPlace
    <2>4. QED
      BY <1>1, <2>1, <2>3 DEF HistInv, IdleReader
  <1>3. ASSUME UNCHANGED <<engineVars, wire>>, failures' \in 0..MaxFailures, DbInv', WritersInv'
        PROVE  HistInv'
    <2>1. EngineInv' /\ \A t \in trades' : TradeInv(t)'
      BY <1>1, <1>3, EngineStays
    <2>2. UNCHANGED reader
      BY <1>3 DEF engineVars
    <2>3. QED
      BY <1>1, <1>3, <2>1, <2>2 DEF HistInv, IdleReader
  <1>4. UNCHANGED db => DbInv'
    BY <1>1 DEF DbInv
  <1>5. UNCHANGED failures => failures' \in 0..MaxFailures
    BY <1>1
  <1>6. CASE dispatch_to_writers
    <2>1. UNCHANGED <<engineVars, wire, db, failures>>
      BY <1>6 DEF dispatch_to_writers
    <2>2. QED
      BY <1>1, <1>3, <1>4, <1>5, <1>6, <2>1, SettlementDispatch
  <1>7. CASE write_user_trades
    <2>1. UNCHANGED <<engineVars, wire, db>> /\ (Works \/ Fails)
      BY <1>7 DEF write_user_trades
    <2>2. failures' \in 0..MaxFailures
      BY <1>1, <2>1, FailuresBounded
    <2>3. QED
      BY <1>1, <1>3, <1>4, <1>7, <2>1, <2>2, SettlementTrade
  <1>8. CASE ReceiveBatch
    <2>1. UNCHANGED <<engineVars, wire, db, failures>>
      BY <1>8 DEF ReceiveBatch
    <2>2. QED
      BY <1>1, <1>3, <1>4, <1>5, <1>8, <2>1, SettlementReceive
  <1>9. CASE TrackOrder
    <2>1. UNCHANGED <<engineVars, wire, db>> /\ (Works \/ Fails)
      BY <1>9 DEF TrackOrder
    <2>2. failures' \in 0..MaxFailures
      BY <1>1, <2>1, FailuresBounded
    <2>3. QED
      BY <1>1, <1>3, <1>4, <1>9, <2>1, <2>2, SettlementTrack
  <1>10. ASSUME NEW i \in DOMAIN updates, NEW s \in updates[i].todo, UpdateStep(i, s)  PROVE HistInv'
    <2>1. UNCHANGED <<engineVars, wire>> /\ (Works \/ Fails)
      BY <1>10 DEF UpdateStep
    <2>2. failures' \in 0..MaxFailures
      BY <1>1, <2>1, FailuresBounded
    <2>3. DbInv' /\ WritersInv'
      BY <1>1, <1>10, SettlementStep
    <2>4. QED
      BY <1>3, <2>1, <2>2, <2>3
  <1>11. CASE BatchDone
    <2>1. UNCHANGED <<engineVars, wire, db, failures>>
      BY <1>11 DEF BatchDone
    <2>2. QED
      BY <1>1, <1>3, <1>4, <1>5, <1>11, <2>1, SettlementDone
  <1>12. QED
    <2>1. ~ReceiveUpdate /\ ~process_trade_fill /\ ~ServiceRestarts
      BY <1>1 DEF ReceiveUpdate, process_trade_fill, ServiceRestarts
    <2>2. QED
      BY <1>2, <1>6, <1>7, <1>8, <1>9, <1>10, <1>11, <2>1 DEF Next

\* Nothing changes.
LEMMA HistoryStutters ==
    ASSUME HistInv, UNCHANGED vars
    PROVE  HistInv'
  <1>1. /\ UNCHANGED <<reader, book, left, trades, wire, outTopic, db, tradesCh, orderCh, working, tracked>>
        /\ UNCHANGED <<updates, listed, lookup, userTrades, failures>>
    BY DEF vars, engineVars, writerVars
  <1>2. EngineInv' /\ DbInv' /\ (\A t \in trades' : TradeInv(t)') /\ reader' = reader
        /\ failures' \in 0..MaxFailures
    <2>1. UNCHANGED engineVars
      BY <1>1 DEF engineVars
    <2>2. DbInv'
      BY <1>1 DEF HistInv, DbInv
    <2>3. QED
      BY <1>1, <2>1, <2>2, EngineStays DEF HistInv
  <1>3. \A x : (Started(x)' <=> Started(x)) /\ (Cancelled(x)' <=> Cancelled(x)) /\ (Rejected(x)' <=> Rejected(x))
               /\ Shown(x)' = Shown(x) /\ (Placed(x)' <=> Placed(x))
    BY <1>1 DEF Started, Cancelled, Rejected, Shown, Placed
  <1>4. ASSUME reader = "service"  PROVE IdleReader("settlement")' /\ ServiceInv'
    <2>1. IdleReader("settlement") /\ ServiceInv
      BY <1>4 DEF HistInv
    <2>2. IdleReader("settlement")'
      BY <1>1, <2>1 DEF IdleReader
    <2>3. \A u : ServiceCounts(u)' <=> ServiceCounts(u)
      BY <1>1, <1>3 DEF ServiceCounts, FilledOf, CancelledOf, RejectedOf, StartedOf
    <2>4. \A x : Mirror(x)' = Mirror(x)
      BY <1>3 DEF Mirror
    <2>5. ServiceMirrors' <=> ServiceMirrors
      BY <1>1, <1>3, <2>3, <2>4 DEF ServiceMirrors
    <2>6. \A x : (WireInv(x)' <=> WireInv(x)) /\ (ServiceRows(x)' <=> ServiceRows(x))
      BY <1>1 DEF WireInv, ServiceRows
    <2>7. ServiceInv'
      BY <1>1, <2>1, <2>5, <2>6 DEF ServiceInv
    <2>8. QED
      BY <2>2, <2>7
  <1>5. ASSUME reader = "settlement"  PROVE IdleReader("service")' /\ WritersInv'
    <2>1. IdleReader("service") /\ WritersInv
      BY <1>5 DEF HistInv
    <2>2. IdleReader("service")'
      BY <1>1, <2>1 DEF IdleReader
    <2>3. Queue' = Queue
      BY <1>1 DEF Queue
    <2>4. QueueInv' /\ (\A o \in OrderIds : SettledRows(o)') /\ CountersInv'
      <3>1. UNCHANGED <<updates, tracked, engineVars, db, listed>>
        BY <1>1 DEF engineVars
      <3>2. QED
        BY <1>1, <2>1, <2>3, <3>1, StandingKeeps
    <2>5. WriterShape' /\ TradesSent'
      BY <1>1, <2>1 DEF WritersInv, WriterShape, TradesSent
    <2>6. ASSUME failures' = 0  PROVE WritersShow'
      <3>1. WritersShow
        BY <1>1, <2>1, <2>6 DEF WritersInv
      <3>2. \A y : (FilledOnArrival(y)' <=> FilledOnArrival(y)) /\ (Untracked(y)' <=> Untracked(y))
        BY <1>1, <2>3, FilledSame DEF TakenBy, Untracked
      <3>3. \A x : ShowsRow(x)' <=> ShowsRow(x)
        BY <1>1 DEF ShowsRow, IsTrade, SellerRow, BuyerRow, WithOneself
      <3>4. \A d : Written(d)' <=> Written(d)
        BY <1>1 DEF Written, SellerRow, BuyerRow, WithOneself
      <3>5. QED
        BY <1>1, <1>3, <3>1, <3>2, <3>3, <3>4 DEF WritersShow
    <2>7. QED
      BY <2>2, <2>4, <2>5, <2>6 DEF WritersInv
  <1>6. QED
    BY <1>2, <1>4, <1>5 DEF HistInv

\* Every step of the specification keeps the invariant.
LEMMA HistStep ==
    ASSUME HistInv, [Next]_vars
    PROVE  HistInv'
  <1>1. reader \in {"service", "settlement"}
    BY DEF HistInv
  <1>2. QED
    BY <1>1, ServiceNext, WritersNext, HistoryStutters

\* The types are part of the invariant.
LEMMA HistTypes ==
    ASSUME HistInv
    PROVE  TypeOK
  <1>1. EngineInv /\ DbInv /\ reader \in {"service", "settlement"} /\ failures \in 0..MaxFailures
    BY DEF HistInv
  <1>2. \A o \in OrderIds : /\ Order[o].qty \in Nat /\ left[o] \in 0..Order[o].qty
                            /\ db.active[o] \in Row /\ db.history[o] \in Row
                            /\ db.active[o].filled \in Nat /\ db.history[o].filled \in Nat
    <2>1. \A o \in OrderIds : Order[o].qty \in Nat /\ left[o] \in 0..Order[o].qty
      BY <1>1, HistoryAssumption DEF EngineInv
    <2>2. \A o \in OrderIds : db.active[o] \in Row /\ db.history[o] \in Row
      BY <1>1 DEF DbInv, DbType
    <2>3. \A x \in Row : x.filled \in Nat
      BY DEF Row, NoRow
    <2>4. QED
      BY <2>1, <2>2, <2>3
  <1>3. ASSUME NEW o \in OrderIds
        PROVE  db.active[o].filled <= Order[o].qty /\ db.history[o].filled <= Order[o].qty
    <2>1. CASE reader = "service"
      <3>1. ServiceRows(o) /\ wire \in Seq(Msg)
        BY <2>1 DEF HistInv, ServiceInv
      <3>2. Due(wire, o) \in Nat
        BY <3>1, DueNat
      <3>3. QED
        BY <1>2, <3>1, <3>2 DEF ServiceRows
    <2>2. CASE reader = "settlement"
      BY <2>2 DEF HistInv, WritersInv, SettledRows
    <2>3. QED
      BY <1>1, <2>1, <2>2
  <1>4. ASSUME NEW u \in Users  PROVE db.stats[u] = NoStats \/ Range(db.stats[u]) \subseteq Nat
    <2>1. db.stats[u] \in Counts \cup {NoStats}
      BY <1>1 DEF DbInv, DbType
    <2>2. \A c \in Counts : Range(c) \subseteq Nat
      BY DEF Counts, Range
    <2>3. QED
      BY <2>1, <2>2
  <1>5. /\ tracked \in 0..Len(working) /\ DOMAIN updates \subseteq DOMAIN working
        /\ Len(orderCh) <= Room
        /\ listed \in [OrderIds -> {"none", "New", "Filled"}] /\ lookup \subseteq OrderIds
    <2>1. CASE reader = "service"
      BY <2>1, HistoryAssumption DEF HistInv, IdleReader
    <2>2. CASE reader = "settlement"
      <3>1. WriterShape
        BY <2>2 DEF HistInv, WritersInv
      <3>2. DOMAIN updates = 1..Len(updates) /\ Len(updates) \in Nat /\ Len(updates) <= Len(working)
            /\ Len(working) \in Nat
        BY <3>1, QueueFacts
      <3>3. DOMAIN working = 1..Len(working)
        BY <3>1, LenProperties DEF WriterShape
      <3>4. DOMAIN updates \subseteq DOMAIN working
        BY <3>2, <3>3
      <3>5. QED
        BY <3>1, <3>4 DEF WriterShape
    <2>3. QED
      BY <1>1, <2>1, <2>2
  <1>6. book \in [OrderIds -> {"unsent", "rejected", "open", "filled", "cancelled"}]
    BY <1>1 DEF EngineInv
  <1>7. \A o \in OrderIds : {db.active[o].filled, db.history[o].filled} \subseteq 0..Order[o].qty
    BY <1>2, <1>3
  <1>8. QED
    BY <1>1, <1>2, <1>4, <1>5, <1>6, <1>7 DEF TypeOK

\* The users' open, filled and cancelled orders are the ones that were placed.
LEMMA PlacedCounts ==
    ASSUME NEW u
    PROVE  /\ Cardinality({o \in OrderIds : Order[o].user = u /\ Placed(o)})
                = Count(u, "open") + Count(u, "filled") + Count(u, "cancelled")
           /\ \A w : Count(u, w) \in Nat
  <1> DEFINE Are(w) == {o \in OrderIds : Order[o].user = u /\ book[o] = w}
  <1>1. \A S : S \subseteq OrderIds => IsFiniteSet(S) /\ Cardinality(S) \in Nat
    BY HistoryAssumption, FS_Subset, FS_CardinalityType
  <1>2. PICK A, B, C : A = Are("open") /\ B = Are("filled") /\ C = Are("cancelled")
    OBVIOUS
  <1>3. A \subseteq OrderIds /\ B \subseteq OrderIds /\ C \subseteq OrderIds
    BY <1>2
  <1>4. A \cap B = {} /\ (A \cup B) \cap C = {}
    BY <1>2
  <1>5. {o \in OrderIds : Order[o].user = u /\ Placed(o)} = (A \cup B) \cup C
    BY <1>2 DEF Placed
  <1>6. Cardinality({}) = 0
    BY FS_EmptySet
  <1>7. /\ IsFiniteSet(A) /\ IsFiniteSet(B) /\ IsFiniteSet(C) /\ IsFiniteSet(A \cup B)
        /\ Cardinality(A) \in Nat /\ Cardinality(B) \in Nat /\ Cardinality(C) \in Nat
    BY <1>1, <1>3
  <1>8. Cardinality(A \cup B) = Cardinality(A) + Cardinality(B) - Cardinality(A \cap B)
    BY <1>7, FS_Union
  <1>9. Cardinality((A \cup B) \cup C) = Cardinality(A \cup B) + Cardinality(C) - Cardinality((A \cup B) \cap C)
    BY <1>7, FS_Union
  <1>10. Cardinality((A \cup B) \cup C) = Cardinality(A) + Cardinality(B) + Cardinality(C)
    <2>1. Cardinality(A \cup B) = Cardinality(A) + Cardinality(B)
      BY <1>4, <1>6, <1>7, <1>8
    <2>2. Cardinality((A \cup B) \cup C) = Cardinality(A \cup B) + Cardinality(C) - 0
      BY <1>4, <1>6, <1>9
    <2>3. QED
      BY <1>7, <2>1, <2>2
  <1>11. Count(u, "open") = Cardinality(A) /\ Count(u, "filled") = Cardinality(B)
         /\ Count(u, "cancelled") = Cardinality(C)
    BY <1>2 DEF Count
  <1>12. \A w : Count(u, w) \in Nat
    BY <1>1 DEF Count
  <1>13. QED
    BY <1>5, <1>10, <1>11, <1>12

\* With nothing on the wire the service shows what the engine has.
LEMMA HistMirrors ==
    ASSUME HistInv
    PROVE  MirrorsEngine
  <1> SUFFICES ASSUME reader = "service", wire = <<>>, failures = 0
               PROVE  /\ \A o \in OrderIds :
                          db.active[o] = IF book[o] # "open" THEN NoRow
                                         ELSE [status |-> IF left[o] = Order[o].qty THEN "New"
                                                          ELSE "PartiallyFilled",
                                               filled |-> Order[o].qty - left[o]]
                      /\ \A u \in Users : db.stats[u] # NoStats =>
                          /\ db.stats[u].filled = Count(u, "filled")
                          /\ db.stats[u].cancelled = Count(u, "cancelled")
                          /\ db.stats[u].rejected = Count(u, "rejected")
                          /\ db.stats[u].total - Count(u, "open") - Count(u, "filled")
                                - Count(u, "cancelled") \in {0, 1}
    BY DEF MirrorsEngine
  <1>1. EngineInv /\ DbInv /\ ServiceInv /\ ServiceMirrors
    BY DEF HistInv, ServiceInv
  <1>2. \A o : Due(wire, o) = 0 /\ ~About(wire, o) /\ \A s : ~Said(wire, o, s)
    BY NothingSaid
  <1>3. \A o \in OrderIds : /\ Order[o].qty \in Nat \ {0} /\ left[o] \in Nat /\ left[o] <= Order[o].qty
                            /\ book[o] \in {"unsent", "rejected", "open", "filled", "cancelled"}
                            /\ book[o] = "filled" <=> left[o] = 0
                            /\ book[o] \in {"unsent", "rejected"} => left[o] = Order[o].qty
    BY <1>1, HistoryAssumption DEF EngineInv
  <1>4. \A o \in OrderIds : /\ Shown(o) = Order[o].qty - left[o]
                            /\ Started(o) <=> Placed(o)
                            /\ Cancelled(o) <=> book[o] = "cancelled"
                            /\ Rejected(o) <=> book[o] = "rejected"
    <2>1. \A o \in OrderIds : Shown(o) = Order[o].qty - left[o]
      BY <1>2, <1>3 DEF Shown
    <2>2. QED
      BY <1>2, <2>1 DEF Started, Cancelled, Rejected
  <1>5. ASSUME NEW o \in OrderIds
        PROVE  db.active[o] = IF book[o] # "open" THEN NoRow
                              ELSE [status |-> IF left[o] = Order[o].qty THEN "New"
                                               ELSE "PartiallyFilled",
                                    filled |-> Order[o].qty - left[o]]
    <2>1. CASE book[o] \in {"unsent", "rejected"}
      <3>1. db.active[o] = NoRow
        BY <1>1, <2>1 DEF ServiceInv, ServiceRows
      <3>2. QED
        BY <2>1, <3>1
    <2>2. CASE book[o] \in {"open", "filled", "cancelled"}
      <3>1. db.active[o] = Mirror(o)
        BY <1>1, <1>4, <2>2 DEF ServiceMirrors, Placed
      <3>2. Shown(o) = Order[o].qty <=> left[o] = 0
        BY <1>3, <1>4
      <3>3. Shown(o) = 0 <=> left[o] = Order[o].qty
        BY <1>3, <1>4
      <3>4. CASE book[o] = "open"
        <4>1. Shown(o) # Order[o].qty /\ ~Cancelled(o)
          BY <1>3, <1>4, <3>2, <3>4
        <4>2. QED
          BY <1>4, <3>1, <3>3, <3>4, <4>1 DEF Mirror
      <3>5. CASE book[o] # "open"
        <4>1. Shown(o) = Order[o].qty \/ Cancelled(o)
          BY <1>3, <1>4, <2>2, <3>2, <3>5
        <4>2. QED
          BY <3>1, <3>5, <4>1 DEF Mirror
      <3>6. QED
        BY <3>4, <3>5
    <2>3. QED
      BY <1>3, <2>1, <2>2
  <1>6. ASSUME NEW u \in Users, db.stats[u] # NoStats
        PROVE  /\ db.stats[u].filled = Count(u, "filled")
               /\ db.stats[u].cancelled = Count(u, "cancelled")
               /\ db.stats[u].rejected = Count(u, "rejected")
               /\ db.stats[u].total - Count(u, "open") - Count(u, "filled")
                     - Count(u, "cancelled") \in {0, 1}
    <2>1. PICK s : s = db.stats[u]
      OBVIOUS
    <2>2. s \in Counts /\ OwnStats(s) = s /\ ServiceCounts(u)
      BY <1>1, <1>6, <2>1 DEF OwnStats, DbInv, DbType, ServiceMirrors
    <2>3. \A o \in OrderIds : Started(o) /\ Shown(o) = Order[o].qty <=> book[o] = "filled"
      <3>1. \A o \in OrderIds : Shown(o) = Order[o].qty <=> left[o] = 0
        BY <1>3, <1>4
      <3>2. QED
        BY <1>3, <1>4, <3>1 DEF Placed
    <2>4. Cardinality(FilledOf(u)) = Count(u, "filled")
      <3>1. FilledOf(u) = {o \in OrderIds : Order[o].user = u /\ book[o] = "filled"}
        BY <2>3 DEF FilledOf
      <3>2. QED
        BY <3>1 DEF Count
    <2>5. Cardinality(CancelledOf(u)) = Count(u, "cancelled")
      <3>1. CancelledOf(u) = {o \in OrderIds : Order[o].user = u /\ book[o] = "cancelled"}
        BY <1>4 DEF CancelledOf
      <3>2. QED
        BY <3>1 DEF Count
    <2>6. Cardinality(RejectedOf(u)) = Count(u, "rejected")
      <3>1. RejectedOf(u) = {o \in OrderIds : Order[o].user = u /\ book[o] = "rejected"}
        BY <1>4 DEF RejectedOf
      <3>2. QED
        BY <3>1 DEF Count
    <2>7. Cardinality(StartedOf(u)) = Count(u, "open") + Count(u, "filled") + Count(u, "cancelled")
      <3>1. StartedOf(u) = {o \in OrderIds : Order[o].user = u /\ Placed(o)}
        BY <1>4 DEF StartedOf
      <3>2. QED
        BY <3>1, PlacedCounts
    <2>8. /\ s.filled = Count(u, "filled") /\ s.cancelled = Count(u, "cancelled")
          /\ s.rejected = Count(u, "rejected") /\ s.total - Cardinality(StartedOf(u)) \in {0, 1}
      BY <2>1, <2>2, <2>4, <2>5, <2>6 DEF ServiceCounts
    <2>9. /\ s.total \in Nat /\ Count(u, "open") \in Nat /\ Count(u, "filled") \in Nat
          /\ Count(u, "cancelled") \in Nat
      BY <2>2, PlacedCounts DEF Counts
    <2>10. s.total - Count(u, "open") - Count(u, "filled") - Count(u, "cancelled")
             = s.total - Cardinality(StartedOf(u))
      BY <2>7, <2>9
    <2>11. QED
      BY <2>1, <2>8, <2>10
  <1>7. QED
    BY <1>5, <1>6

\* The rows of user_trades of a user under an id are their trades written under
\* it, in the roles they had.
LEMMA RowsShown ==
    ASSUME NEW u, NEW s, \A r \in userTrades : ShowsRow(r),
           \A t \in trades : Written(Trade(t.taker, t.maker))
    PROVE  get_trade_history(u, s) =
              AsShown(u, {d \in TradesOf(u) : WrittenUnder(d) = get_symbol_id(s)})
  <1>0. PICK id : id = get_symbol_id(s)
    OBVIOUS
  <1>1. \A t : LET d == Trade(t.taker, t.maker)
               IN  {Order[d.buyer].user, Order[d.seller].user} = {Order[t.taker].user, Order[t.maker].user}
    BY DEF Trade
  <1>2. ASSUME NEW h \in get_trade_history(u, s)
        PROVE  \E d \in TradesOf(u) : WrittenUnder(d) = id /\ h = [trade |-> d, role |-> RoleIn(u, d)]
    <2>1. PICK r \in userTrades : /\ r.user = u /\ r.symbol = id
                                  /\ h = [trade |-> r.trade,
                                          role |-> IF r.role = "buyer" THEN "BUYER" ELSE "SELLER"]
      BY <1>0 DEF get_trade_history, get_user_trades
    <2>2. PICK d : d = r.trade
      OBVIOUS
    <2>3. ShowsRow(r)
      BY <2>1
    <2>4. PICK t \in trades : d = Trade(t.taker, t.maker)
      BY <2>2, <2>3 DEF ShowsRow, IsTrade
    <2>5. r = SellerRow(d) \/ (r = BuyerRow(d) /\ ~WithOneself(d))
      BY <2>2, <2>3 DEF ShowsRow
    <2>6. CASE r = SellerRow(d)
      <3>1. Order[d.seller].user = u /\ r.role = "seller" /\ WrittenUnder(d) = id
        BY <2>1, <2>6 DEF SellerRow
      <3>2. u \in {Order[t.taker].user, Order[t.maker].user}
        BY <1>1, <2>4, <3>1
      <3>3. d \in TradesOf(u)
        BY <2>4, <3>2 DEF TradesOf
      <3>4. h = [trade |-> d, role |-> RoleIn(u, d)]
        BY <2>1, <2>2, <3>1 DEF RoleIn
      <3>5. QED
        BY <3>1, <3>3, <3>4
    <2>7. CASE r = BuyerRow(d) /\ ~WithOneself(d)
      <3>1. /\ Order[d.buyer].user = u /\ r.role = "buyer" /\ WrittenUnder(d) = id
            /\ Order[d.seller].user # u
        BY <2>1, <2>7 DEF BuyerRow, WithOneself
      <3>2. u \in {Order[t.taker].user, Order[t.maker].user}
        BY <1>1, <2>4, <3>1
      <3>3. d \in TradesOf(u)
        BY <2>4, <3>2 DEF TradesOf
      <3>4. h = [trade |-> d, role |-> RoleIn(u, d)]
        BY <2>1, <2>2, <3>1 DEF RoleIn
      <3>5. QED
        BY <3>1, <3>3, <3>4
    <2>8. QED
      BY <2>5, <2>6, <2>7
  <1>3. ASSUME NEW d \in TradesOf(u), WrittenUnder(d) = id
        PROVE  [trade |-> d, role |-> RoleIn(u, d)] \in get_trade_history(u, s)
    <2>1. PICK t \in trades : d = Trade(t.taker, t.maker) /\ u \in {Order[t.taker].user, Order[t.maker].user}
      BY DEF TradesOf
    <2>2. Written(d) /\ u \in {Order[d.buyer].user, Order[d.seller].user}
      BY <1>1, <2>1
    <2>3. ASSUME NEW r \in userTrades, r.user = u, r.symbol = id, r.trade = d,
                 RoleIn(u, d) = IF r.role = "buyer" THEN "BUYER" ELSE "SELLER"
          PROVE  [trade |-> d, role |-> RoleIn(u, d)] \in get_trade_history(u, s)
      BY <1>0, <2>3 DEF get_trade_history, get_user_trades
    <2>4. CASE Order[d.seller].user = u
      <3>1. PICK r : r = SellerRow(d)
        OBVIOUS
      <3>2. r \in userTrades /\ r.user = u /\ r.symbol = id /\ r.trade = d /\ r.role = "seller"
        BY <1>3, <2>2, <2>4, <3>1 DEF Written, SellerRow
      <3>3. RoleIn(u, d) = "SELLER"
        BY <2>4 DEF RoleIn
      <3>4. QED
        BY <2>3, <3>2, <3>3
    <2>5. CASE Order[d.seller].user # u
      <3>1. PICK r : r = BuyerRow(d)
        OBVIOUS
      <3>2. Order[d.buyer].user = u /\ ~WithOneself(d)
        BY <2>2, <2>5 DEF WithOneself
      <3>3. r \in userTrades /\ r.user = u /\ r.symbol = id /\ r.trade = d /\ r.role = "buyer"
        BY <1>3, <2>2, <3>1, <3>2 DEF Written, BuyerRow
      <3>4. RoleIn(u, d) = "BUYER"
        BY <2>5 DEF RoleIn
      <3>5. QED
        BY <2>3, <3>3, <3>4
    <2>6. QED
      BY <2>4, <2>5
  <1>4. QED
    BY <1>0, <1>2, <1>3 DEF AsShown

\* The symbols have different ids.
LEMMA IdsDiffer ==
    ASSUME NEW s \in Symbols, NEW t \in Symbols, get_symbol_id(s) = get_symbol_id(t)
    PROVE  s = t
  BY DEF Symbols, SymbolManager, get_symbol_id

\* an order that is open was not filled as it arrived
OpenLater == \A o \in OrderIds : book[o] = "open" => ~FilledOnArrival(o)

\* An order rests only with what its trades left of it, and trades it makes
\* later are not its own.
LEMMA OpenStep ==
    ASSUME HistInv, OpenLater, [Next]_vars
    PROVE  OpenLater'
  <1>1. EngineInv /\ \A t \in trades : TradeInv(t)
    BY DEF HistInv
  <1>2. ASSUME trades' = trades, \A o \in OrderIds : book'[o] = "open" => book[o] = "open"
        PROVE  OpenLater'
    <2>1. \A o : TakenBy(o)' = TakenBy(o)
      BY <1>2 DEF TakenBy
    <2>2. \A o : FilledOnArrival(o)' <=> FilledOnArrival(o)
      BY <2>1, FilledSame
    <2>3. QED
      BY <1>2, <2>2 DEF OpenLater
  <1>3. ASSUME NEW o \in OrderIds, RejectOrder(o) \/ CancelOrder(o)  PROVE OpenLater'
    BY <1>1, <1>2, <1>3 DEF RejectOrder, CancelOrder, EngineInv
  <1>4. ASSUME NEW o \in OrderIds, PlaceOrder(o)  PROVE OpenLater'
    <2>1. PICK C, n : Meets(o, C, n)
      BY <1>1, <1>4, PlaceOrderMeets
    <2>2. PICK sum : sum = SumFunctionOnSet(n, C)
      OBVIOUS
    <2>3. /\ FilledOnArrival(o)' <=> sum = Order[o].qty
          /\ \A y \in OrderIds : y # o => TakenBy(y)' = TakenBy(y)
      BY <1>1, <2>1, <2>2, PlacedTrades
    <2>4. /\ book[o] = "unsent" /\ sum \in Nat /\ left[o] = Order[o].qty
          /\ left'[o] = left[o] - sum /\ (book'[o] = "open" => left'[o] # 0)
      BY <1>1, <2>1, <2>2 DEF Meets, EngineInv
    <2>5. book'[o] = "open" => ~FilledOnArrival(o)'
      BY <2>3, <2>4, HistoryAssumption
    <2>6. ASSUME NEW y \in OrderIds, y # o, book'[y] = "open"  PROVE ~FilledOnArrival(y)'
      <3>1. book[y] = "open"
        BY <2>1, <2>6 DEF Meets
      <3>2. FilledOnArrival(y)' <=> FilledOnArrival(y)
        BY <2>3, <2>6, FilledSame
      <3>3. QED
        BY <3>1, <3>2 DEF OpenLater
    <2>7. QED
      BY <2>5, <2>6 DEF OpenLater
  <1>5. ASSUME UNCHANGED engineVars  PROVE OpenLater'
    BY <1>2, <1>5 DEF engineVars
  <1>6. CASE Next
    <2>1. ASSUME ReceiveUpdate \/ process_trade_fill \/ ServiceRestarts  PROVE UNCHANGED engineVars
      BY <2>1 DEF ReceiveUpdate, process_trade_fill, ServiceRestarts
    <2>2. ASSUME dispatch_to_writers \/ write_user_trades \/ ReceiveBatch \/ TrackOrder \/ BatchDone
          PROVE  UNCHANGED engineVars
      BY <2>2 DEF dispatch_to_writers, write_user_trades, ReceiveBatch, TrackOrder, BatchDone
    <2>3. ASSUME NEW i, NEW x, UpdateStep(i, x)  PROVE UNCHANGED engineVars
      BY <2>3 DEF UpdateStep
    <2>4. QED
      BY <1>3, <1>4, <1>5, <1>6, <2>1, <2>2, <2>3 DEF Next
  <1>7. QED
    BY <1>5, <1>6 DEF vars

\* When the writers have caught up, the users are shown what there is.
LEMMA HistComplete ==
    ASSUME HistInv, OpenLater
    PROVE  DerivedComplete
  <1> SUFFICES ASSUME CaughtUp, NEW u \in Users
               PROVE  /\ \A s \in Symbols :
                            LET mine == {o \in OrdersOf(u) : Order[o].symbol = s}
                                shown == {r.order : r \in get_active_orders(u, s)}
                            IN  /\ get_trade_history(u, s) =
                                     AsShown(u, {t \in TradesOf(u) : WrittenUnder(t) = get_symbol_id(s)})
                                /\ {o \in mine : book[o] = "open"} \subseteq shown
                                /\ shown \subseteq
                                     {o \in mine : book[o] \notin {"unsent", "rejected"}} \ AtOnce(u)
                      /\ db.stats[u].filled <= Cardinality(AtOnce(u))
                      /\ db.stats[u].rejected <= Count(u, "rejected")
                      /\ db.stats[u].total <= 1 + Cardinality({o \in OrdersOf(u) :
                                                                 /\ book[o] \notin {"unsent", "rejected"}
                                                                 /\ \A t \in trades : t.taker # o})
    BY DEF DerivedComplete
  <1>1. EngineInv /\ WritersInv /\ WritersShow
    BY DEF HistInv, WritersInv, CaughtUp
  <1>2. outTopic = <<>> /\ orderCh = <<>> /\ tradesCh = <<>> /\ working = <<>>
    BY DEF CaughtUp
  <1>3. \A o : ~Unwritten(o) /\ ~Uncounted(o) /\ ~Untracked(o)
    BY <1>2, NoQueue
  <1>4. Range(outTopic) = {} /\ Range(tradesCh) = {}
    BY <1>2 DEF Range
  <1>5. ASSUME NEW s
        PROVE  get_trade_history(u, s) =
                  AsShown(u, {t \in TradesOf(u) : WrittenUnder(t) = get_symbol_id(s)})
    <2>1. \A t \in trades : Written(Trade(t.taker, t.maker))
      BY <1>1, <1>4 DEF WritersShow
    <2>2. \A r \in userTrades : ShowsRow(r)
      BY <1>1 DEF WritersShow
    <2>3. QED
      BY <2>1, <2>2, RowsShown
  <1>6. \A o \in OrderIds : Placed(o) <=> book[o] \notin {"unsent", "rejected"}
    BY <1>1 DEF Placed, EngineInv
  <1>7. \A o \in OrderIds : listed[o] = "New" <=> Placed(o) /\ ~FilledOnArrival(o)
    <2>1. \A o \in OrderIds : ~Placed(o) => listed[o] = "none"
      BY <1>1 DEF WritersInv, SettledRows
    <2>2. \A o \in OrderIds : Placed(o) => listed[o] = IF FilledOnArrival(o) THEN "Filled" ELSE "New"
      BY <1>1, <1>3 DEF WritersShow
    <2>3. QED
      BY <2>1, <2>2
  <1>8. ASSUME NEW s \in Symbols
        PROVE  LET mine == {o \in OrdersOf(u) : Order[o].symbol = s}
                   shown == {r.order : r \in get_active_orders(u, s)}
               IN  /\ {o \in mine : book[o] = "open"} \subseteq shown
                   /\ shown \subseteq {o \in mine : book[o] \notin {"unsent", "rejected"}} \ AtOnce(u)
    <2>1. PICK S : S = select_active_orders(u, get_symbol_id(s))
      OBVIOUS
    <2>2. \A o : o \in S <=> /\ o \in OrdersOf(u) /\ Order[o].symbol = s
                             /\ book[o] \notin {"unsent", "rejected"} /\ ~FilledOnArrival(o)
      <3>1. \A o \in OrderIds : get_symbol_id(Order[o].symbol) = get_symbol_id(s) <=> Order[o].symbol = s
        BY HistoryAssumption, IdsDiffer
      <3>2. QED
        BY <1>6, <1>7, <2>1, <3>1 DEF select_active_orders, OrdersOf
    <2>3. {r.order : r \in get_active_orders(u, s)} = S
      <3> DEFINE row(o) == [order |-> o, side |-> SideShown(as_u8(Order[o].side)), status |-> listed[o]]
      <3>1. get_active_orders(u, s) = {row(o) : o \in S}
        BY <2>1 DEF get_active_orders
      <3>2. \A o : row(o).order = o
        OBVIOUS
      <3> HIDE DEF row
      <3>3. QED
        BY <3>1, <3>2
    <2>4. \A o \in OrdersOf(u) : book[o] = "open" => ~FilledOnArrival(o)
      BY DEF OpenLater, OrdersOf
    <2>5. QED
      BY <2>2, <2>3, <2>4 DEF AtOnce
  <1>9. Bounded(u, db.stats[u])
    BY <1>1 DEF WritersInv, CountersInv
  <1>10. AtOnceOf(u) = AtOnce(u)
    BY <1>3, <1>6 DEF AtOnceOf, AtOnce, OrdersOf
  <1>11. Cardinality(RefusedOf(u)) = Count(u, "rejected")
    <2>1. RefusedOf(u) = {o \in OrderIds : Order[o].user = u /\ book[o] = "rejected"}
      BY <1>3 DEF RefusedOf
    <2>2. QED
      BY <2>1 DEF Count
  <1>12. RestingOf(u) = {o \in OrdersOf(u) : /\ book[o] \notin {"unsent", "rejected"}
                                             /\ \A t \in trades : t.taker # o}
    <2>1. \A o : TakenBy(o) = {} <=> \A t \in trades : t.taker # o
      BY DEF TakenBy
    <2>2. QED
      BY <1>3, <1>6, <2>1 DEF RestingOf, OrdersOf
  <1>13. /\ db.stats[u].filled <= Cardinality(AtOnce(u))
         /\ db.stats[u].rejected <= Count(u, "rejected")
         /\ db.stats[u].total <= 1 + Cardinality({o \in OrdersOf(u) :
                                                    /\ book[o] \notin {"unsent", "rejected"}
                                                    /\ \A t \in trades : t.taker # o})
    BY <1>9, <1>10, <1>11, <1>12 DEF Bounded
  <1>14. QED
    BY <1>5, <1>8, <1>13

\* The engine, the tables and the reader that is deployed keep HistInv, whatever
\* statement fails, message is lost or update comes first.
THEOREM HistInvariant == Spec => []HistInv
  <1>1. Init => HistInv
    BY InitHist
  <1>2. HistInv /\ [Next]_vars => HistInv'
    BY HistStep
  <1>3. QED
    BY <1>1, <1>2, PTL DEF Spec

\* Every variable keeps its type, the channel to the order writer keeps to its
\* room, and no row of either table shows more than the order asked for.
THEOREM HistoryTypes == Spec => []TypeOK
  <1>1. HistInv => TypeOK
    BY HistTypes
  <1>2. QED
    BY <1>1, HistInvariant, PTL

\* Whatever statement of process_order_update fails and whatever a restart loses:
\* while an order is active, order_history neither says that it ended nor shows a
\* fill that active_orders has not.
THEOREM HistoryNeverAhead == Spec => []HistoryNotAhead
  <1>1. HistInv => HistoryNotAhead
    BY DEF HistInv, DbInv, HistoryNotAhead
  <1>2. QED
    BY <1>1, HistInvariant, PTL

\* The order history service that has caught up without a failure has exactly the
\* engine's open orders, filled as far as they are, and has counted every order
\* that ended once (process_order_update, process_trade_fill).
THEOREM ServiceMirrorsEngine == Spec => []MirrorsEngine
  <1>1. HistInv => MirrorsEngine
    BY HistMirrors
  <1>2. QED
    BY <1>1, HistInvariant, PTL

\* The settlement service's writers that have caught up without a failure have
\* written every trade of every user once, in the role they had and under the id
\* get_symbol_id_from_assets gives, and list every open order and no order that
\* was never placed or was filled as it arrived; the racing updates count no
\* order twice.
THEOREM DerivedTablesComplete == Spec => []DerivedComplete
  <1>1. Init => OpenLater
    BY DEF Init, OpenLater
  <1>2. HistInv /\ OpenLater /\ [Next]_vars => OpenLater'
    BY OpenStep
  <1>3. HistInv /\ OpenLater => DerivedComplete
    BY HistComplete
  <1>4. QED
    BY <1>1, <1>2, <1>3, HistInvariant, PTL DEF Spec
=============================================================================
