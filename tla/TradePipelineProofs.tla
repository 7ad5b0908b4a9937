------------------------- MODULE TradePipelineProofs -------------------------
(***************************************************************************)
(* Proofs about the engine server and the settlement service, for any      *)
(* topic, ring, batch and cache size and any number of crashes and failed  *)
(* writes: the source of truth never joins two histories, no order is      *)
(* executed twice in the life of an engine, no committed order is lost,    *)
(* and while nothing fails the settlement service passes over nothing that *)
(* it has not settled. Then about the order book that the engine server    *)
(* runs, for any orders, users and prices: price-time priority, an index   *)
(* that finds every order, and balance events that back the open orders.   *)
(***************************************************************************)
EXTENDS TradePipeline, MatchingEngine, SumTheorems, SequenceTheorems, TLAPS

(***************************************************************************)
(* verify_batch as a run over a sequence of outputs.                       *)
(***************************************************************************)

\* g is verify_batch's state after each of the first n outputs of s
IsRun(g, s, start, n) ==
    g = [i \in 0..n |-> IF i = 0 THEN start ELSE Verify(g[i - 1], s[i])]

Run(s, start) == CHOOSE g : IsRun(g, s, start, Len(s))

\* The recursive function exists for every sequence.
LEMMA RunFacts ==
    ASSUME NEW S, NEW s \in Seq(S), NEW start
    PROVE  /\ Run(s, start)[0] = start
           /\ \A i \in 1..Len(s) : Run(s, start)[i] = Verify(Run(s, start)[i - 1], s[i])
  <1> DEFINE Good == {n \in 0..Len(s) : \E g : IsRun(g, s, start, n)}
  <1>1. Len(s) \in Nat
    OBVIOUS
  <1>2. 0 \in Good
    <2>1. IsRun([i \in 0..0 |-> start], s, start, 0)
      BY DEF IsRun
    <2>2. QED
      BY <1>1, <2>1
  <1>3. ASSUME NEW n \in 0..Len(s), n \in Good, n < Len(s)
        PROVE  n + 1 \in Good
    <2>1. PICK g : IsRun(g, s, start, n)
      BY <1>3
    <2> DEFINE h == [i \in 0..(n + 1) |-> IF i = n + 1 THEN Verify(g[n], s[n + 1]) ELSE g[i]]
    <2>2. \A i \in 0..n : g[i] = IF i = 0 THEN start ELSE Verify(g[i - 1], s[i])
      BY <2>1 DEF IsRun
    <2>3. ASSUME NEW i \in 0..(n + 1)
          PROVE  h[i] = IF i = 0 THEN start ELSE Verify(h[i - 1], s[i])
      <3>1. CASE i = n + 1
        <4>1. h[i] = Verify(g[n], s[n + 1]) /\ h[i - 1] = g[n] /\ i # 0
          BY <3>1
        <4>2. QED
          BY <3>1, <4>1
      <3>2. CASE i = 0
        BY <2>2, <3>2
      <3>3. CASE i # n + 1 /\ i # 0
        <4>1. h[i] = g[i] /\ h[i - 1] = g[i - 1] /\ i \in 0..n
          BY <3>3
        <4>2. QED
          BY <2>2, <3>3, <4>1
      <3>4. QED
        BY <3>1, <3>2, <3>3
    <2>4. h = [i \in 0..(n + 1) |-> IF i = 0 THEN start ELSE Verify(h[i - 1], s[i])]
      BY <2>3
    <2> HIDE DEF h
    <2>5. IsRun(h, s, start, n + 1)
      BY <2>4 DEF IsRun
    <2>6. n + 1 \in 0..Len(s)
      BY <1>3
    <2>7. QED
      BY <2>5, <2>6
  <1>4. \A i \in 0..Len(s) : i \in Good
    <2> HIDE DEF Good
    <2>1. QED
      BY <1>1, <1>2, <1>3, UpToInduction
  <1>5. \E g : IsRun(g, s, start, Len(s))
    BY <1>1, <1>4
  <1>6. IsRun(Run(s, start), s, start, Len(s))
    BY <1>5 DEF Run
  <1>7. \A i \in 0..Len(s) : Run(s, start)[i] = IF i = 0 THEN start ELSE Verify(Run(s, start)[i - 1], s[i])
    BY <1>6 DEF IsRun
  <1>8. QED
    BY <1>1, <1>7

\* A longer sequence runs like the shorter one as far as that goes.
LEMMA RunPrefix ==
    ASSUME NEW S, NEW s \in Seq(S), NEW e \in S, NEW start
    PROVE  \A i \in 0..Len(s) : Run(Append(s, e), start)[i] = Run(s, start)[i]
  <1> DEFINE g == Run(s, start)
             h == Run(Append(s, e), start)
             Same == {i \in 0..Len(s) : h[i] = g[i]}
  <1>1. Len(s) \in Nat /\ Append(s, e) \in Seq(S) /\ Len(Append(s, e)) = Len(s) + 1
    OBVIOUS
  <1>2. \A i \in 1..Len(s) : Append(s, e)[i] = s[i]
    OBVIOUS
  <1>3. g[0] = start /\ \A i \in 1..Len(s) : g[i] = Verify(g[i - 1], s[i])
    BY RunFacts
  <1>4. h[0] = start /\ \A i \in 1..(Len(s) + 1) : h[i] = Verify(h[i - 1], Append(s, e)[i])
    <2>1. PICK t \in Seq(S) : t = Append(s, e)
      BY <1>1
    <2>2. Run(t, start)[0] = start /\ \A i \in 1..Len(t) : Run(t, start)[i] = Verify(Run(t, start)[i - 1], t[i])
      BY RunFacts
    <2>3. QED
      BY <1>1, <2>1, <2>2
  <1> HIDE DEF g, h
  <1>5. 0 \in Same
    BY <1>1, <1>3, <1>4
  <1>6. ASSUME NEW i \in 0..Len(s), i \in Same, i < Len(s)
        PROVE  i + 1 \in Same
    <2>1. i + 1 \in 1..Len(s) /\ i + 1 \in 1..(Len(s) + 1) /\ i + 1 - 1 = i /\ i + 1 \in 0..Len(s)
      BY <1>1, <1>6
    <2>2. h[i + 1] = Verify(h[i], Append(s, e)[i + 1]) /\ g[i + 1] = Verify(g[i], s[i + 1])
      BY <1>3, <1>4, <2>1
    <2>3. Append(s, e)[i + 1] = s[i + 1]
      BY <1>2, <2>1
    <2>4. QED
      BY <1>6, <2>1, <2>2, <2>3
  <1>7. \A i \in 0..Len(s) : i \in Same
    <2> HIDE DEF Same
    <2>1. QED
      BY <1>1, <1>5, <1>6, UpToInduction
  <1>8. QED
    BY <1>7 DEF g, h

-----------------------------------------------------------------------------
(***************************************************************************)
(* The history of a topic: what a service that never stops accepts of it.  *)
(***************************************************************************)

Genesis == [seq |-> 0, hash |-> GenesisHash, ok |-> <<>>]

\* a chain state, with rows that are linked, numbered differently and up to it,
\* and end in it
GoodChain(v) ==
    /\ v.seq \in Nat /\ v.hash \in Chain /\ v.ok \in Seq(Output)
    /\ \A r \in Range(v.ok) : r.seq <= v.seq /\ (r.seq = v.seq => Hash(r) = v.hash)
    /\ \A a, b \in Range(v.ok) : b.seq = a.seq + 1 => b.prev = Hash(a)
    /\ \A a, b \in Range(v.ok) : b.seq = a.seq => b = a

Accepts(v, output) ==
    /\ output.seq >= v.seq + 1
    /\ output.seq = v.seq + 1 => output.prev = v.hash

\* The hash of an output is a history.
LEMMA HashType ==
    ASSUME NEW x \in Output
    PROVE  Hash(x) \in Chain /\ x.seq \in Nat /\ x.symbol \in Symbol /\ x.order \in Orders /\ x.prev \in Chain
  BY DEF Output, Hash, Chain

\* The elements of a sequence and of one with an element more.
LEMMA RangeAppend ==
    ASSUME NEW S, NEW s \in Seq(S), NEW e \in S
    PROVE  Append(s, e) \in Seq(S) /\ Range(Append(s, e)) = Range(s) \cup {e} /\ Range(s) \subseteq S
  <1>1. /\ Append(s, e) \in Seq(S) /\ Len(s) \in Nat /\ DOMAIN s = 1..Len(s)
        /\ DOMAIN Append(s, e) = 1..(Len(s) + 1) /\ Append(s, e)[Len(s) + 1] = e
        /\ \A i \in DOMAIN s : i \in DOMAIN Append(s, e) /\ Append(s, e)[i] = s[i]
    OBVIOUS
  <1>2. \A i \in DOMAIN Append(s, e) : i \in DOMAIN s \/ i = Len(s) + 1
    BY <1>1
  <1>3. Len(s) + 1 \in DOMAIN Append(s, e)
    BY <1>1
  <1>4. \A x \in Range(Append(s, e)) : x \in Range(s) \cup {e}
    BY <1>1, <1>2 DEF Range
  <1>5. \A x \in Range(s) \cup {e} : x \in Range(Append(s, e))
    BY <1>1, <1>3 DEF Range
  <1>6. Range(s) \subseteq S
    BY DEF Range
  <1>7. QED
    BY <1>1, <1>4, <1>5, <1>6

\* What verify_batch does with one output.
LEMMA VerifyFacts ==
    ASSUME NEW v, v.seq \in Nat, NEW x \in Output
    PROVE  /\ Accepts(v, x) => Verify(v, x) = [seq |-> x.seq, hash |-> Hash(x), ok |-> Append(v.ok, x)]
           /\ ~Accepts(v, x) => Verify(v, x) = v
  <1>1. x.seq \in Nat
    BY HashType
  <1>2. CASE Accepts(v, x)
    <2>1. ~(x.seq < v.seq + 1) /\ ~(x.seq = v.seq + 1 /\ x.prev # v.hash)
      BY <1>1, <1>2 DEF Accepts
    <2>2. Verify(v, x) = Accept(v, x)
      BY <2>1 DEF Verify
    <2>3. QED
      BY <1>2, <2>2 DEF Accept
  <1>3. CASE ~Accepts(v, x)
    <2>1. x.seq < v.seq + 1 \/ (x.seq = v.seq + 1 /\ x.prev # v.hash)
      BY <1>1, <1>3 DEF Accepts
    <2>2. QED
      BY <1>3, <2>1 DEF Verify
  <1>4. QED
    BY <1>2, <1>3

\* One output keeps the history linked, and the chain state only moves on.
LEMMA VerifyGood ==
    ASSUME NEW v, GoodChain(v), NEW x \in Output, NEW w, w = Verify(v, x)
    PROVE  /\ GoodChain(w) /\ w.seq >= v.seq /\ (w.seq = v.seq => w.hash = v.hash)
           /\ Range(v.ok) \subseteq Range(w.ok)
           /\ \A r \in Range(w.ok) : r \in Range(v.ok) \/ (r.seq = w.seq /\ Hash(r) = w.hash)
  <1>1. v.seq \in Nat /\ v.ok \in Seq(Output) /\ x.seq \in Nat /\ Hash(x) \in Chain
    BY HashType DEF GoodChain
  <1>2. CASE Accepts(v, x)
    <2>1. w = [seq |-> x.seq, hash |-> Hash(x), ok |-> Append(v.ok, x)]
      BY <1>1, <1>2, VerifyFacts
    <2>2. w.seq = x.seq /\ w.hash = Hash(x) /\ w.ok = Append(v.ok, x)
      BY <2>1
    <2>3. w.ok \in Seq(Output) /\ Range(w.ok) = Range(v.ok) \cup {x} /\ Range(v.ok) \subseteq Output
      BY <1>1, <2>2, RangeAppend
    <2>4. x.seq > v.seq /\ (x.seq = v.seq + 1 => x.prev = v.hash)
      BY <1>1, <1>2 DEF Accepts
    <2>5. \A r \in Range(v.ok) : r.seq \in Nat /\ r.seq <= v.seq /\ (r.seq = v.seq => Hash(r) = v.hash)
      BY <2>3, HashType DEF GoodChain
    <2>6. \A r \in Range(w.ok) : r.seq <= w.seq /\ (r.seq = w.seq => Hash(r) = w.hash)
      BY <1>1, <2>2, <2>3, <2>4, <2>5
    <2>7. \A a, b \in Range(w.ok) : b.seq = a.seq + 1 => b.prev = Hash(a)
      <3>1. SUFFICES ASSUME NEW a \in Range(w.ok), NEW b \in Range(w.ok), b.seq = a.seq + 1
                     PROVE  b.prev = Hash(a)
        OBVIOUS
      <3>2. CASE a \in Range(v.ok) /\ b \in Range(v.ok)
        BY <3>1, <3>2 DEF GoodChain
      <3>3. CASE a \in Range(v.ok) /\ b = x
        <4>1. a.seq = v.seq /\ x.seq = v.seq + 1
          BY <1>1, <2>4, <2>5, <3>1, <3>3
        <4>2. QED
          BY <2>4, <2>5, <3>3, <4>1
      <3>4. CASE a = x
        <4>1. b.seq <= x.seq
          BY <2>2, <2>6
        <4>2. QED
          BY <1>1, <3>1, <3>4, <4>1
      <3>5. QED
        BY <2>3, <3>2, <3>3, <3>4
    <2>8. \A a, b \in Range(w.ok) : b.seq = a.seq => b = a
      <3>1. \A a, b \in Range(v.ok) : b.seq = a.seq => b = a
        BY DEF GoodChain
      <3>2. \A a \in Range(v.ok) : a.seq # x.seq
        BY <1>1, <2>4, <2>5
      <3>3. QED
        BY <2>3, <3>1, <3>2
    <2>9. GoodChain(w)
      BY <1>1, <2>2, <2>3, <2>6, <2>7, <2>8 DEF GoodChain
    <2>10. QED
      BY <1>1, <2>2, <2>3, <2>4, <2>9
  <1>3. CASE ~Accepts(v, x)
    <2>1. w = v
      BY <1>1, <1>3, VerifyFacts
    <2>2. QED
      BY <1>1, <2>1
  <1>4. QED
    BY <1>2, <1>3

\* the chain state after each output of a topic
Canon(s) == Run(s, Genesis)

\* The chain state starts empty and follows verify_batch, and stays good.
LEMMA CanonFacts ==
    ASSUME NEW s \in Seq(Output)
    PROVE  /\ Len(s) \in Nat /\ Canon(s)[0] = Genesis
           /\ \A i \in 1..Len(s) : s[i] \in Output /\ Canon(s)[i] = Verify(Canon(s)[i - 1], s[i])
           /\ \A i \in 0..Len(s) : GoodChain(Canon(s)[i])
  <1> DEFINE c == Canon(s)
             Good == {i \in 0..Len(s) : GoodChain(c[i])}
  <1>1. Len(s) \in Nat /\ \A i \in 1..Len(s) : s[i] \in Output
    OBVIOUS
  <1>2. c[0] = Genesis /\ \A i \in 1..Len(s) : c[i] = Verify(c[i - 1], s[i])
    BY RunFacts DEF Canon
  <1> HIDE DEF c
  <1>3. 0 \in Good
    <2>1. GenesisHash \in Chain
      BY DEF GenesisHash, Chain
    <2>2. Range(Genesis.ok) = {} /\ Genesis.ok \in Seq(Output) /\ Genesis.seq = 0 /\ Genesis.hash = GenesisHash
      BY DEF Genesis, Range
    <2>3. GoodChain(Genesis)
      BY <2>1, <2>2 DEF GoodChain
    <2>4. QED
      BY <1>1, <1>2, <2>3
  <1>4. ASSUME NEW i \in 0..Len(s), i \in Good, i < Len(s)
        PROVE  i + 1 \in Good
    <2>1. i + 1 \in 1..Len(s) /\ i + 1 - 1 = i /\ i + 1 \in 0..Len(s)
      BY <1>1, <1>4
    <2>2. c[i + 1] = Verify(c[i], s[i + 1]) /\ s[i + 1] \in Output
      BY <1>1, <1>2, <2>1
    <2>3. PICK v : v = c[i]
      OBVIOUS
    <2>4. PICK w : w = Verify(v, s[i + 1])
      OBVIOUS
    <2>5. GoodChain(v)
      BY <1>4, <2>3
    <2>6. GoodChain(w)
      BY <2>2, <2>4, <2>5, VerifyGood
    <2>7. QED
      BY <2>1, <2>2, <2>3, <2>4, <2>6
  <1>5. \A i \in 0..Len(s) : i \in Good
    <2> HIDE DEF Good
    <2>1. QED
      BY <1>1, <1>3, <1>4, UpToInduction
  <1>6. QED
    BY <1>1, <1>2, <1>5 DEF c

\* w is a later chain state than v
Later(v, w) ==
    /\ w.seq >= v.seq /\ (w.seq = v.seq => w.hash = v.hash)
    /\ Range(v.ok) \subseteq Range(w.ok)

\* The chain state only moves on.
LEMMA CanonLater ==
    ASSUME NEW s \in Seq(Output), NEW i \in 0..Len(s)
    PROVE  \A j \in 0..Len(s) : i <= j => Later(Canon(s)[i], Canon(s)[j])
  <1> DEFINE c == Canon(s)
             Good == {j \in 0..Len(s) : i <= j => Later(c[i], c[j])}
  <1>1. /\ Len(s) \in Nat /\ \A j \in 1..Len(s) : s[j] \in Output /\ c[j] = Verify(c[j - 1], s[j])
        /\ \A j \in 0..Len(s) : GoodChain(c[j])
    BY CanonFacts
  <1> HIDE DEF c
  <1>2. \A j \in 0..Len(s) : c[j].seq \in Nat
    BY <1>1 DEF GoodChain
  <1>3. Later(c[i], c[i])
    BY <1>2 DEF Later
  <1>4. 0 \in Good
    BY <1>1, <1>3
  <1>5. ASSUME NEW j \in 0..Len(s), j \in Good, j < Len(s)
        PROVE  j + 1 \in Good
    <2>1. j + 1 \in 1..Len(s) /\ j + 1 - 1 = j /\ j + 1 \in 0..Len(s)
      BY <1>1, <1>5
    <2>2. c[j + 1] = Verify(c[j], s[j + 1]) /\ s[j + 1] \in Output
      BY <1>1, <2>1
    <2>3. PICK v : v = c[j]
      OBVIOUS
    <2>4. PICK w : w = Verify(v, s[j + 1])
      OBVIOUS
    <2>5. GoodChain(v) /\ w = c[j + 1]
      BY <1>1, <2>2, <2>3, <2>4
    <2>6. w.seq >= v.seq /\ (w.seq = v.seq => w.hash = v.hash) /\ Range(v.ok) \subseteq Range(w.ok)
      BY <2>2, <2>4, <2>5, VerifyGood
    <2>7. CASE i <= j
      <3>1. Later(c[i], v)
        BY <1>5, <2>3, <2>7
      <3>2. c[i].seq \in Nat /\ v.seq \in Nat /\ w.seq \in Nat
        BY <1>2, <2>1, <2>3, <2>5
      <3>3. Later(c[i], w)
        BY <2>6, <3>1, <3>2 DEF Later
      <3>4. QED
        BY <2>1, <2>5, <3>3
    <2>8. CASE ~(i <= j)
      <3>1. i <= j + 1 => i = j + 1
        BY <2>8
      <3>2. QED
        BY <1>3, <2>1, <3>1
    <2>9. QED
      BY <2>7, <2>8
  <1>6. \A j \in 0..Len(s) : j \in Good
    <2> HIDE DEF Good
    <2>1. QED
      BY <1>1, <1>4, <1>5, UpToInduction
  <1>7. QED
    BY <1>6 DEF c

\* Every row of the history was the end of the chain once.
LEMMA CanonRows ==
    ASSUME NEW s \in Seq(Output)
    PROVE  \A i \in 0..Len(s) : \A r \in Range(Canon(s)[i].ok) :
              \E j \in 0..Len(s) : Canon(s)[j].seq = r.seq /\ Canon(s)[j].hash = Hash(r)
  <1> DEFINE c == Canon(s)
             Ends(r) == \E j \in 0..Len(s) : c[j].seq = r.seq /\ c[j].hash = Hash(r)
             Good == {i \in 0..Len(s) : \A r \in Range(c[i].ok) : Ends(r)}
  <1>1. /\ Len(s) \in Nat /\ c[0] = Genesis
        /\ \A j \in 1..Len(s) : s[j] \in Output /\ c[j] = Verify(c[j - 1], s[j])
        /\ \A j \in 0..Len(s) : GoodChain(c[j])
    BY CanonFacts
  <1> HIDE DEF c
  <1>2. 0 \in Good
    <2>1. Range(c[0].ok) = {}
      BY <1>1 DEF Genesis, Range
    <2>2. 0 \in 0..Len(s)
      BY <1>1
    <2> HIDE DEF Ends
    <2>3. QED
      BY <2>1, <2>2
  <1>3. ASSUME NEW i \in 0..Len(s), i \in Good, i < Len(s)
        PROVE  i + 1 \in Good
    <2>1. i + 1 \in 1..Len(s) /\ i + 1 - 1 = i /\ i + 1 \in 0..Len(s)
      BY <1>1, <1>3
    <2>2. PICK v : v = c[i]
      OBVIOUS
    <2>3. PICK w : w = c[i + 1]
      OBVIOUS
    <2>4. w = Verify(v, s[i + 1]) /\ GoodChain(v) /\ s[i + 1] \in Output
      BY <1>1, <2>1, <2>2, <2>3
    <2>5. \A r \in Range(w.ok) : r \in Range(v.ok) \/ (r.seq = w.seq /\ Hash(r) = w.hash)
      BY SMTT(30), <2>4, VerifyGood
    <2>6. \A r \in Range(w.ok) : Ends(r)
      BY <1>3, <2>1, <2>2, <2>3, <2>5
    <2> HIDE DEF Ends
    <2>7. QED
      BY <2>1, <2>3, <2>6
  <1>4. \A i \in 0..Len(s) : i \in Good
    <2> HIDE DEF Good
    <2>1. QED
      BY <1>1, <1>2, <1>3, UpToInduction
  <1>5. QED
    BY <1>4 DEF c

-----------------------------------------------------------------------------
(***************************************************************************)
(* A service that has read n outputs of the topic stands where the history *)
(* stands, at n or later: after a restart it is ahead of what it reads.    *)
(***************************************************************************)

Follows(s, v, n) ==
    /\ v.ok \in Seq(Output) /\ Range(v.ok) \subseteq Range(Canon(s)[Len(s)].ok)
    /\ \E p \in n..Len(s) : v.seq = Canon(s)[p].seq /\ v.hash = Canon(s)[p].hash

\* Reading the next output: accepted exactly if the history accepts it, unless
\* the service is ahead; then it is passed.
LEMMA FollowsStep ==
    ASSUME NEW s \in Seq(Output), NEW v, NEW n \in 0..Len(s), n < Len(s), Follows(s, v, n)
    PROVE  Follows(s, Verify(v, s[n + 1]), n + 1)
  <1> DEFINE c == Canon(s)
             x == s[n + 1]
  <1>1. /\ Len(s) \in Nat /\ \A i \in 1..Len(s) : s[i] \in Output /\ c[i] = Verify(c[i - 1], s[i])
        /\ \A i \in 0..Len(s) : GoodChain(c[i])
    BY CanonFacts
  <1>2. n + 1 \in 1..Len(s) /\ n + 1 - 1 = n /\ n + 1 \in 0..Len(s) /\ n \in Nat
    BY <1>1
  <1>3. x \in Output /\ x.seq \in Nat
    BY <1>1, <1>2, HashType
  <1>4. c[n + 1] = Verify(c[n], x)
    BY <1>1, <1>2
  <1>5. PICK p \in n..Len(s) : v.seq = c[p].seq /\ v.hash = c[p].hash
    BY DEF Follows
  <1>6. p \in 0..Len(s) /\ Len(s) \in 0..Len(s)
    BY <1>1, <1>2, <1>5
  <1>7. c[p].seq \in Nat /\ c[n].seq \in Nat /\ c[n + 1].seq \in Nat /\ v.seq \in Nat
    BY <1>1, <1>2, <1>5, <1>6 DEF GoodChain
  <1>8. v.ok \in Seq(Output) /\ Range(v.ok) \subseteq Range(c[Len(s)].ok)
    BY DEF Follows
  <1>9. \A i, j \in 0..Len(s) : i <= j => Later(c[i], c[j])
    BY CanonLater
  <1> HIDE DEF c, x
  <1>10. CASE p = n
    <2>1. Accepts(v, x) <=> Accepts(c[n], x)
      BY <1>5, <1>10 DEF Accepts
    <2>2. CASE Accepts(v, x)
      <3>1. Verify(v, x) = [seq |-> x.seq, hash |-> Hash(x), ok |-> Append(v.ok, x)]
        BY <1>3, <1>7, <2>2, VerifyFacts
      <3>2. c[n + 1] = [seq |-> x.seq, hash |-> Hash(x), ok |-> Append(c[n].ok, x)]
        BY <1>3, <1>4, <1>7, <2>1, <2>2, VerifyFacts
      <3>3. c[n].ok \in Seq(Output)
        BY <1>1 DEF GoodChain
      <3>4. x \in Range(c[n + 1].ok)
        BY <1>3, <3>2, <3>3, RangeAppend
      <3>5. Later(c[n + 1], c[Len(s)])
        BY <1>1, <1>2, <1>6, <1>9
      <3>6. x \in Range(c[Len(s)].ok)
        BY <3>4, <3>5 DEF Later
      <3>7. Append(v.ok, x) \in Seq(Output) /\ Range(Append(v.ok, x)) = Range(v.ok) \cup {x}
        BY <1>3, <1>8, RangeAppend
      <3>8. n + 1 \in (n + 1)..Len(s)
        BY <1>1, <1>2
      <3>9. PICK w : w = Verify(v, x)
        OBVIOUS
      <3>10. w.seq = c[n + 1].seq /\ w.hash = c[n + 1].hash /\ w.ok = Append(v.ok, x)
        BY <3>1, <3>2, <3>9
      <3>11. w.ok \in Seq(Output) /\ Range(w.ok) \subseteq Range(c[Len(s)].ok)
        BY <1>8, <3>6, <3>7, <3>10
      <3>12. Follows(s, w, n + 1)
        BY <3>8, <3>10, <3>11 DEF Follows, c
      <3>13. QED
        BY <3>9, <3>12 DEF x
    <2>3. CASE ~Accepts(v, x)
      <3>1. Verify(v, x) = v
        BY <1>3, <1>7, <2>3, VerifyFacts
      <3>2. c[n + 1] = c[n]
        BY <1>3, <1>4, <1>7, <2>1, <2>3, VerifyFacts
      <3>3. n + 1 \in (n + 1)..Len(s)
        BY <1>1, <1>2
      <3>4. QED
        BY <1>5, <1>8, <1>10, <3>1, <3>2, <3>3 DEF Follows, c, x
    <2>4. QED
      BY <2>2, <2>3
  <1>11. CASE p # n
    <2>1. p \in (n + 1)..Len(s)
      BY <1>1, <1>2, <1>5, <1>11
    <2>2. Later(c[n], c[p]) /\ Later(c[n + 1], c[p])
      BY <1>1, <1>2, <1>6, <1>9, <2>1
    <2>3. ~Accepts(v, x)
      <3>1. CASE Accepts(c[n], x)
        <4>1. c[n + 1].seq = x.seq
          BY <1>3, <1>4, <1>7, <3>1, VerifyFacts
        <4>2. x.seq <= v.seq
          BY <1>5, <1>7, <2>2, <4>1 DEF Later
        <4>3. QED
          BY <1>3, <1>7, <4>2 DEF Accepts
      <3>2. CASE ~Accepts(c[n], x)
        <4>1. x.seq <= c[n].seq \/ (x.seq = c[n].seq + 1 /\ x.prev # c[n].hash)
          BY <1>3, <1>7, <3>2 DEF Accepts
        <4>2. c[n].seq <= v.seq /\ (c[n].seq = v.seq => c[n].hash = v.hash)
          BY <1>5, <1>7, <2>2 DEF Later
        <4>3. QED
          BY <1>3, <1>7, <4>1, <4>2 DEF Accepts
      <3>3. QED
        BY <3>1, <3>2
    <2>4. Verify(v, x) = v
      BY <1>3, <1>7, <2>3, VerifyFacts
    <2>5. QED
      BY <1>5, <1>8, <2>1, <2>4 DEF Follows, c, x
  <1>12. QED
    BY <1>10, <1>11

\* The batch of the next k outputs.
LEMMA BatchRead ==
    ASSUME NEW s \in Seq(Output), NEW n \in 0..Len(s), NEW k \in Nat, n + k <= Len(s)
    PROVE  /\ SubSeq(s, n + 1, n + k) \in Seq(Output) /\ Len(SubSeq(s, n + 1, n + k)) = k
           /\ Len(s) \in Nat /\ n \in Nat
           /\ \A i \in 1..k : SubSeq(s, n + 1, n + k)[i] = s[n + i]
  <1>1. Len(s) \in Nat
    OBVIOUS
  <1>2. /\ n \in Nat /\ n + 1 \in 1..(Len(s) + 1) /\ n + k \in ((n + 1) - 1)..Len(s)
        /\ (n + k) - (n + 1) + 1 = k
    BY <1>1
  <1>3. PICK m, r : m = n + 1 /\ r = n + k
    OBVIOUS
  <1>4. m \in 1..(Len(s) + 1) /\ r \in (m - 1)..Len(s)
    BY <1>2, <1>3
  <1>5. /\ SubSeq(s, m, r) \in Seq(Output) /\ Len(SubSeq(s, m, r)) = r - m + 1
        /\ \A i \in 1..(r - m + 1) : SubSeq(s, m, r)[i] = s[m + i - 1]
    BY <1>4, SubSeqProperties
  <1>6. \A i \in 1..k : m + i - 1 = n + i
    BY <1>2, <1>3
  <1>7. r - m + 1 = k
    BY <1>2, <1>3
  <1>8. \A i \in 1..k : SubSeq(s, m, r)[i] = s[n + i]
    BY <1>5, <1>6, <1>7
  <1>9. QED
    BY <1>1, <1>2, <1>3, <1>5, <1>7, <1>8

\* Reading a batch.
LEMMA FollowsBatch ==
    ASSUME NEW s \in Seq(Output), NEW n \in 0..Len(s), NEW k \in Nat, n + k <= Len(s),
           NEW v, Follows(s, v, n), NEW batch, batch = SubSeq(s, n + 1, n + k)
    PROVE  Follows(s, Run(batch, v)[Len(batch)], n + k)
  <1> DEFINE g == Run(batch, v)
             Good == {i \in 0..k : Follows(s, g[i], n + i)}
  <1>1. /\ batch \in Seq(Output) /\ Len(batch) = k /\ Len(s) \in Nat /\ n \in Nat
        /\ \A i \in 1..k : batch[i] = s[n + i]
    BY BatchRead
  <1>2. g[0] = v /\ \A i \in 1..k : g[i] = Verify(g[i - 1], batch[i])
    <2>1. g[0] = v /\ \A i \in 1..Len(batch) : g[i] = Verify(g[i - 1], batch[i])
      <3>1. PICK t \in Seq(Output) : t = batch
        BY <1>1
      <3>2. /\ Run(t, v)[0] = v
            /\ \A i \in 1..Len(t) : Run(t, v)[i] = Verify(Run(t, v)[i - 1], t[i])
        BY RunFacts
      <3>3. QED
        BY <3>1, <3>2
    <2>2. QED
      BY <1>1, <2>1
  <1> HIDE DEF g
  <1>3. 0 \in Good
    <2>1. n + 0 = n /\ 0 \in 0..k
      BY <1>1
    <2>2. QED
      BY <1>2, <2>1
  <1>4. ASSUME NEW i \in 0..k, i \in Good, i < k
        PROVE  i + 1 \in Good
    <2>1. i + 1 \in 1..k /\ i + 1 - 1 = i /\ i + 1 \in 0..k /\ n + (i + 1) = (n + i) + 1
      <3>1. i \in Nat /\ i < k /\ n \in Nat /\ k \in Nat
        BY <1>1, <1>4
      <3> HIDE DEF Good
      <3>2. QED
        BY <3>1
    <2>2. n + i \in 0..Len(s) /\ n + i < Len(s)
      <3>1. i \in Nat /\ i < k /\ n \in Nat /\ Len(s) \in Nat /\ n + k <= Len(s)
        BY <1>1, <1>4
      <3> HIDE DEF Good
      <3>2. QED
        BY <3>1
    <2>3. g[i + 1] = Verify(g[i], s[(n + i) + 1])
      BY <1>1, <1>2, <2>1
    <2>4. Follows(s, Verify(g[i], s[(n + i) + 1]), (n + i) + 1)
      <3>1. PICK m \in 0..Len(s) : m = n + i
        BY <2>2
      <3>2. PICK w : w = g[i]
        OBVIOUS
      <3>3. Follows(s, w, m) /\ m < Len(s)
        BY <1>4, <2>2, <3>1, <3>2
      <3>4. Follows(s, Verify(w, s[m + 1]), m + 1)
        BY <3>3, FollowsStep
      <3>5. QED
        BY <3>1, <3>2, <3>4
    <2>5. QED
      BY <2>1, <2>3, <2>4
  <1>5. \A i \in 0..k : i \in Good
    <2> HIDE DEF Good
    <2>1. QED
      BY <1>3, <1>4, UpToInduction
  <1>6. k \in 0..k
    OBVIOUS
  <1>7. QED
    BY <1>1, <1>5, <1>6 DEF g

\* A topic that grows.
LEMMA FollowsGrows ==
    ASSUME NEW s \in Seq(Output), NEW e \in Output
    PROVE  /\ Range(Canon(s)[Len(s)].ok) \subseteq Range(Canon(Append(s, e))[Len(Append(s, e))].ok)
           /\ \A v, n : n \in Nat /\ Follows(s, v, n) => Follows(Append(s, e), v, n)
  <1> DEFINE c == Canon(s)
             t == Append(s, e)
             d == Canon(t)
  <1>1. Len(s) \in Nat /\ t \in Seq(Output) /\ Len(t) = Len(s) + 1
    OBVIOUS
  <1>2. \A i \in 0..Len(s) : d[i] = c[i]
    BY RunPrefix DEF Canon
  <1>3. Len(s) \in 0..Len(s) /\ Len(s) \in 0..Len(t) /\ Len(t) \in 0..Len(t) /\ Len(s) <= Len(t)
    BY <1>1
  <1> HIDE DEF t
  <1>4. Later(d[Len(s)], d[Len(t)])
    BY <1>1, <1>3, CanonLater
  <1> HIDE DEF c, d
  <1>5. Range(c[Len(s)].ok) \subseteq Range(d[Len(t)].ok)
    BY <1>2, <1>3, <1>4 DEF Later
  <1>6. ASSUME NEW v, NEW n \in Nat, Follows(s, v, n)
        PROVE  Follows(t, v, n)
    <2>1. PICK p \in n..Len(s) : v.seq = c[p].seq /\ v.hash = c[p].hash
      BY <1>6 DEF Follows, c
    <2>2. p \in 0..Len(s) /\ p \in n..Len(t)
      BY <1>1, <2>1
    <2>3. v.seq = d[p].seq /\ v.hash = d[p].hash
      BY <1>2, <2>1, <2>2
    <2>4. v.ok \in Seq(Output) /\ Range(v.ok) \subseteq Range(d[Len(t)].ok)
      BY <1>5, <1>6 DEF Follows, c
    <2>5. QED
      BY <2>2, <2>3, <2>4 DEF Follows, d
  <1>7. QED
    BY <1>5, <1>6 DEF c, d, t

-----------------------------------------------------------------------------
(***************************************************************************)
(* The orders of a batch.                                                  *)
(***************************************************************************)

\* g is what the poll thread has parsed after each of the first n messages
IsParse(g, s, n) ==
    g = [i \in 0..n |-> IF i = 0 THEN <<>>
                        ELSE IF s[i] = Bad THEN g[i - 1] ELSE Append(g[i - 1], s[i])]

Parse(s) == CHOOSE g : IsParse(g, s, Len(s))

\* The recursive function exists for every batch.
LEMMA ParseExists ==
    ASSUME NEW S, NEW s \in Seq(S)
    PROVE  /\ Parse(s)[0] = <<>>
           /\ \A i \in 1..Len(s) : Parse(s)[i] = IF s[i] = Bad THEN Parse(s)[i - 1]
                                                 ELSE Append(Parse(s)[i - 1], s[i])
  <1> DEFINE Good == {n \in 0..Len(s) : \E g : IsParse(g, s, n)}
             Step(g, i) == IF s[i] = Bad THEN g[i - 1] ELSE Append(g[i - 1], s[i])
  <1>1. Len(s) \in Nat
    OBVIOUS
  <1>2. 0 \in Good
    <2>1. IsParse([i \in 0..0 |-> <<>>], s, 0)
      BY DEF IsParse
    <2>2. QED
      BY <1>1, <2>1
  <1>3. ASSUME NEW n \in 0..Len(s), n \in Good, n < Len(s)
        PROVE  n + 1 \in Good
    <2>1. PICK g : IsParse(g, s, n)
      BY <1>3
    <2> DEFINE last == IF s[n + 1] = Bad THEN g[n] ELSE Append(g[n], s[n + 1])
               h == [i \in 0..(n + 1) |-> IF i = n + 1 THEN last ELSE g[i]]
    <2>2. \A i \in 0..n : g[i] = IF i = 0 THEN <<>> ELSE Step(g, i)
      BY <2>1 DEF IsParse
    <2>3. ASSUME NEW i \in 0..(n + 1)
          PROVE  h[i] = IF i = 0 THEN <<>> ELSE Step(h, i)
      <3>1. CASE i = n + 1
        <4>1. h[i] = last /\ h[i - 1] = g[n] /\ i # 0
          BY <3>1
        <4>2. QED
          BY <3>1, <4>1
      <3>2. CASE i = 0
        BY <2>2, <3>2
      <3>3. CASE i # n + 1 /\ i # 0
        <4>1. h[i] = g[i] /\ h[i - 1] = g[i - 1] /\ i \in 0..n
          BY <3>3
        <4>2. QED
          BY <2>2, <3>3, <4>1
      <3>4. QED
        BY <3>1, <3>2, <3>3
    <2>4. h = [i \in 0..(n + 1) |-> IF i = 0 THEN <<>> ELSE Step(h, i)]
      BY <2>3
    <2> HIDE DEF h
    <2>5. IsParse(h, s, n + 1)
      BY <2>4 DEF IsParse
    <2>6. n + 1 \in 0..Len(s)
      BY <1>3
    <2>7. QED
      BY <2>5, <2>6
  <1>4. \A i \in 0..Len(s) : i \in Good
    <2> HIDE DEF Good
    <2>1. QED
      BY <1>1, <1>2, <1>3, UpToInduction
  <1>5. \E g : IsParse(g, s, Len(s))
    BY <1>1, <1>4
  <1>6. IsParse(Parse(s), s, Len(s))
    BY <1>5 DEF Parse
  <1>7. \A i \in 0..Len(s) : Parse(s)[i] = IF i = 0 THEN <<>> ELSE Step(Parse(s), i)
    BY <1>6 DEF IsParse
  <1>8. QED
    BY <1>1, <1>7

\* The poll thread keeps the messages that parse: no more than the last of
\* them has before it, and every one of them.
LEMMA ParsedFacts ==
    ASSUME NEW s \in Seq(Orders \cup {Bad}), NEW m \in 1..Len(s),
           \A i \in 1..Len(s) : s[i] # Bad => i <= m
    PROVE  /\ Parsed(s) \in Seq(Orders) /\ Len(Parsed(s)) <= m
           /\ \A i \in 1..Len(s) : s[i] # Bad => s[i] \in Range(Parsed(s))
  <1> DEFINE g == Parse(s)
             Kept(i) == /\ g[i] \in Seq(Orders) /\ Len(g[i]) <= i /\ Len(g[i]) <= m
                        /\ \A j \in 1..i : s[j] # Bad => s[j] \in Range(g[i])
             Good == {i \in 0..Len(s) : Kept(i)}
  <1>1. Len(s) \in Nat /\ m \in Nat /\ \A i \in 1..Len(s) : s[i] \in Orders \cup {Bad}
    OBVIOUS
  <1>2. g[0] = <<>> /\ \A i \in 1..Len(s) : g[i] = IF s[i] = Bad THEN g[i - 1] ELSE Append(g[i - 1], s[i])
    BY ParseExists
  <1>3. Parsed(s) = g[Len(s)]
    BY DEF Parsed, Parse, IsParse
  <1> HIDE DEF g
  <1>4. 0 \in Good
    <2>1. <<>> \in Seq(Orders) /\ Len(<<>>) = 0 /\ 0 \in 0..Len(s) /\ 0 <= m /\ \A j \in 1..0 : FALSE
      BY <1>1
    <2>2. Kept(0)
      BY <1>2, <2>1
    <2> HIDE DEF Kept
    <2>3. QED
      BY <2>1, <2>2
  <1>5. ASSUME NEW i \in 0..Len(s), i \in Good, i < Len(s)
        PROVE  i + 1 \in Good
    <2>1. i + 1 \in 1..Len(s) /\ i + 1 - 1 = i /\ i + 1 \in 0..Len(s) /\ i \in Nat
      BY <1>1, <1>5
    <2>2. PICK u : u = g[i]
      OBVIOUS
    <2>3. PICK w : w = g[i + 1]
      OBVIOUS
    <2>4. PICK x : x = s[i + 1]
      OBVIOUS
    <2>0. w = IF x = Bad THEN u ELSE Append(u, x)
      <3>1. PICK k \in 1..Len(s) : k = i + 1
        BY <2>1
      <3>2. g[k] = IF s[k] = Bad THEN g[k - 1] ELSE Append(g[k - 1], s[k])
        BY <1>2
      <3>3. g[k - 1] = u
        BY <2>1, <2>2, <3>1
      <3>4. QED
        BY <2>3, <2>4, <3>1, <3>2, <3>3
    <2>5. /\ u \in Seq(Orders) /\ Len(u) \in Nat /\ Len(u) <= i /\ Len(u) <= m
          /\ \A j \in 1..i : s[j] # Bad => s[j] \in Range(u)
      BY <1>5, <2>2
    <2>6. /\ w \in Seq(Orders) /\ Len(w) <= i + 1 /\ Len(w) <= m
          /\ Range(u) \subseteq Range(w) /\ (x # Bad => x \in Range(w))
      <3>1. CASE x = Bad
        <4>1. w = u
          BY <2>0, <3>1
        <4>2. QED
          BY <2>1, <2>5, <3>1, <4>1
      <3>2. CASE x # Bad
        <4>1. w = Append(u, x)
          BY <2>0, <3>2
        <4>2. x \in Orders /\ i + 1 <= m
          BY <1>1, <2>1, <2>4, <3>2
        <4>3. w \in Seq(Orders) /\ Range(w) = Range(u) \cup {x} /\ Len(w) = Len(u) + 1
          BY <2>5, <4>1, <4>2, RangeAppend
        <4>4. QED
          BY <1>1, <2>1, <2>5, <4>2, <4>3
      <3>3. QED
        BY <3>1, <3>2
    <2>7. \A j \in 1..(i + 1) : s[j] # Bad => s[j] \in Range(w)
      <3>1. SUFFICES ASSUME NEW j \in 1..(i + 1), s[j] # Bad PROVE s[j] \in Range(w)
        OBVIOUS
      <3>2. CASE j = i + 1
        BY <2>4, <2>6, <3>1, <3>2
      <3>3. CASE j # i + 1
        <4>1. j \in 1..i
          BY <2>1, <3>3
        <4>2. QED
          BY <2>5, <2>6, <3>1, <4>1
      <3>4. QED
        BY <3>2, <3>3
    <2>8. QED
      BY <2>1, <2>3, <2>6, <2>7
  <1>6. \A i \in 0..Len(s) : i \in Good
    <2> HIDE DEF Good
    <2>1. QED
      BY <1>1, <1>4, <1>5, UpToInduction
  <1>7. Len(s) \in 0..Len(s)
    BY <1>1
  <1>8. QED
    BY <1>3, <1>6, <1>7

-----------------------------------------------------------------------------
(***************************************************************************)
(* The types of the server's state, and what a step does to the ring.      *)
(***************************************************************************)

Event == [orders : Seq(Orders), offset : 0..MaxMessages, outputs : Seq(Output)]

\* the event with number k
Ev(k) == ring[Slot(k)]

ServerTypes ==
    /\ topic \in [1..MaxMessages -> Orders \cup {Bad}]
    /\ committed \in Nat /\ position \in 0..MaxMessages /\ committed <= position
    /\ sent \in Nat /\ matched \in Nat /\ published \in Nat
    /\ ring \in [0..RingSize - 1 -> Event]
    /\ built \in Seq(Output) /\ at \in Nat /\ out \in Nat
    /\ outputSeq \in Nat /\ lastHash \in Chain
    /\ active \subseteq Orders /\ dedup \in Seq(Orders) /\ Len(dedup) <= DedupSize
    /\ outputs \in Seq(Output)
    /\ faults \in [FaultKind -> 0..MaxFaults]

\* A slot exists, and two events that are on the ring at the same time do not
\* share one.
LEMMA SlotFacts ==
    /\ \A k \in Nat : Slot(k) \in 0..RingSize - 1
    /\ \A a, b \in Nat : a # b /\ a - b < RingSize /\ b - a < RingSize => Slot(a) # Slot(b)
  <1>1. RingSize \in Nat \ {0}
    BY ServerAssumption
  <1>2. ASSUME NEW k \in Nat
        PROVE  /\ Slot(k) \in 0..RingSize - 1 /\ k \div RingSize \in Int
               /\ k = RingSize * (k \div RingSize) + Slot(k)
    BY <1>1 DEF Slot
  <1>3. ASSUME NEW a \in Nat, NEW b \in Nat, a # b, a - b < RingSize, b - a < RingSize, Slot(a) = Slot(b)
        PROVE  FALSE
    <2>1. PICK x \in Int, y \in Int, r \in Int : a = RingSize * x + r /\ b = RingSize * y + r
      BY <1>2, <1>3
    <2>2. PICK z \in Int : z = x - y
      OBVIOUS
    <2>3. a - b = RingSize * z
      BY <1>1, <2>1, <2>2
    <2>4. CASE z = 0
      BY <1>1, <1>3, <2>3, <2>4
    <2>5. CASE z >= 1
      <3>1. RingSize * z >= RingSize
        BY <1>1, <2>5
      <3>2. QED
        BY <1>1, <1>3, <2>3, <3>1
    <2>6. CASE z <= -1
      <3>1. RingSize * z <= -RingSize
        BY <1>1, <2>6
      <3>2. QED
        BY <1>1, <1>3, <2>3, <3>1
    <2>7. QED
      BY <2>4, <2>5, <2>6
  <1>4. QED
    BY <1>2, <1>3

\* The largest number of a set of positions in a batch.
LEMMA LastGood ==
    ASSUME NEW n \in Nat, NEW good, good \subseteq 1..n, good # {}
    PROVE  Max(good) \in good /\ \A i \in good : i <= Max(good)
  <1>1. IsFiniteSet(good)
    <2>1. IsFiniteSet(1..n)
      BY FS_Interval
    <2>2. QED
      BY <2>1, FS_Subset
  <1>2. \A x \in good : x \in Int
    OBVIOUS
  <1>3. \E x \in good : \A y \in good : x >= y
    BY <1>1, <1>2, Extremes
  <1>4. Max(good) \in good /\ \A y \in good : Max(good) >= y
    BY <1>3 DEF Max
  <1>5. QED
    BY <1>2, <1>4

\* A batch of the topic.
LEMMA BatchFacts ==
    ASSUME NEW N \in Nat, NEW S, NEW t \in [1..N -> S], NEW p \in Nat, NEW n \in Nat, p + n <= Len(t)
    PROVE  /\ t \in Seq(S) /\ Len(t) = N
           /\ SubSeq(t, p + 1, p + n) \in Seq(S) /\ Len(SubSeq(t, p + 1, p + n)) = n
           /\ \A i \in 1..n : SubSeq(t, p + 1, p + n)[i] = t[p + i]
  <1>1. t \in Seq(S)
    OBVIOUS
  <1>2. Len(t) = N
    BY <1>1
  <1>3. p + 1 \in 1..(Len(t) + 1) /\ p + n \in 0..Len(t)
    BY <1>2
  <1>4. SubSeq(t, p + 1, p + n) \in Seq(S) /\ Len(SubSeq(t, p + 1, p + n)) = n
    BY <1>1, <1>3
  <1>5. \A i \in 1..n : SubSeq(t, p + 1, p + n)[i] = t[p + i]
    BY <1>1, <1>3, <1>4
  <1>6. QED
    BY <1>1, <1>2, <1>4, <1>5

\* orders os of the topic go on the ring with the offset of message m
PutOn(os, m) ==
    ring' = [ring EXCEPT ![Slot(published)] =
               [orders |-> os, offset |-> m, outputs |-> ring[Slot(published)].outputs]]

\* What Poll does: it passes messages that do not parse, or puts those that do
\* on the ring.
LEMMA PollFacts ==
    ASSUME ServerTypes, NEW n \in 1..BatchSize, Poll(n)
    PROVE  /\ position' = position + n /\ position + n <= MaxMessages
           /\ \/ /\ published' = published /\ ring' = ring
                 /\ \A i \in (position + 1)..(position + n) : topic[i] = Bad
              \/ /\ published' = published + 1 /\ published - sent < RingSize
                 /\ \E m \in (position + 1)..(position + n), os \in Seq(Orders) :
                       /\ PutOn(os, m) /\ Len(os) <= m - position
                       /\ \A i \in (position + 1)..(position + n) :
                             topic[i] # Bad => i <= m /\ topic[i] \in Range(os)
  <1> DEFINE batch == SubSeq(topic, position + 1, position + n)
             good == {i \in 1..n : batch[i] # Bad}
  <1>1. n \in Nat /\ n \in 1..BatchSize /\ position \in Nat /\ MaxMessages \in Nat
    BY ServerAssumption, OutputAssumption DEF ServerTypes
  <1>2. /\ position + n <= Len(topic) /\ position' = position + n
        /\ good # {} => published - sent < RingSize
        /\ good = {} => UNCHANGED <<ring, published>>
        /\ good # {} => /\ ring' = [ring EXCEPT ![Slot(published)] =
                                     [@ EXCEPT !.orders = Parsed(batch),
                                               !.offset = position + Max(good)]]
                        /\ published' = published + 1
    BY DEF Poll
  <1>3. /\ Len(topic) = MaxMessages
        /\ batch \in Seq(Orders \cup {Bad}) /\ Len(batch) = n
        /\ \A i \in 1..n : batch[i] = topic[position + i]
    <2>1. topic \in [1..MaxMessages -> Orders \cup {Bad}]
      BY DEF ServerTypes
    <2>2. PICK S, t, p : S = Orders \cup {Bad} /\ t = topic /\ p = position
      OBVIOUS
    <2>3. p + n <= Len(t) /\ t \in [1..MaxMessages -> S] /\ p \in Nat
      BY <1>1, <1>2, <2>1, <2>2
    <2>4. /\ Len(t) = MaxMessages
          /\ SubSeq(t, p + 1, p + n) \in Seq(S) /\ Len(SubSeq(t, p + 1, p + n)) = n
          /\ \A i \in 1..n : SubSeq(t, p + 1, p + n)[i] = t[p + i]
      BY <1>1, <2>3, BatchFacts
    <2>5. QED
      BY <2>2, <2>4
  <1>4. \A i \in (position + 1)..(position + n) : i - position \in 1..n /\ topic[i] = batch[i - position]
    <2>1. SUFFICES ASSUME NEW i \in (position + 1)..(position + n)
                   PROVE  i - position \in 1..n /\ topic[i] = batch[i - position]
      OBVIOUS
    <2>2. i - position \in 1..n /\ position + (i - position) = i
      BY <1>1
    <2>3. QED
      BY <1>3, <2>2
  <1>5. CASE good = {}
    <2>1. \A i \in 1..n : batch[i] = Bad
      BY <1>5
    <2> HIDE DEF batch, good
    <2>2. QED
      BY <1>2, <1>3, <1>4, <1>5, <2>1
  <1>6. CASE good # {}
    <2>1. Max(good) \in good /\ \A i \in good : i <= Max(good)
      BY <1>1, <1>6, LastGood
    <2>2. PICK k \in 1..Len(batch) : k = Max(good)
      BY <1>3, <2>1
    <2>3. \A i \in 1..Len(batch) : batch[i] # Bad => i <= k
      BY <1>3, <2>1, <2>2
    <2>4. /\ Parsed(batch) \in Seq(Orders) /\ Len(Parsed(batch)) <= k
          /\ \A i \in 1..Len(batch) : batch[i] # Bad => batch[i] \in Range(Parsed(batch))
      <3>1. PICK s \in Seq(Orders \cup {Bad}) : s = batch
        BY <1>3
      <3>2. k \in 1..Len(s) /\ \A i \in 1..Len(s) : s[i] # Bad => i <= k
        BY <2>3, <3>1
      <3> HIDE DEF batch, good
      <3>3. /\ Parsed(s) \in Seq(Orders) /\ Len(Parsed(s)) <= k
            /\ \A i \in 1..Len(s) : s[i] # Bad => s[i] \in Range(Parsed(s))
        BY <3>2, ParsedFacts
      <3>4. QED
        BY <3>1, <3>3
    <2>5. PICK os \in Seq(Orders) : os = Parsed(batch)
      BY <2>4
    <2>6. PICK m : m = position + k
      OBVIOUS
    <2>7. m \in (position + 1)..(position + n) /\ m - position = k /\ k \in Nat
      <3>1. k \in 1..n
        BY <1>3, <2>2
      <3> HIDE DEF batch, good
      <3>2. QED
        BY <1>1, <2>6, <3>1
    <2>8. PutOn(os, m)
      <3>1. ring[Slot(published)] \in Event
        BY SlotFacts DEF ServerTypes
      <3>2. PICK e \in Event : e = ring[Slot(published)]
        BY <3>1
      <3>3. [e EXCEPT !.orders = os, !.offset = m] = [orders |-> os, offset |-> m, outputs |-> e.outputs]
        <4>1. m \in 0..MaxMessages
          <5>1. position + n <= MaxMessages /\ m \in (position + 1)..(position + n)
            BY <1>2, <1>3, <2>7
          <5> HIDE DEF batch, good
          <5>2. QED
            BY <1>1, <5>1
        <4>2. PICK d : d = [e EXCEPT !.orders = os, !.offset = m]
          OBVIOUS
        <4>3. d.orders = os /\ d.offset = m /\ d.outputs = e.outputs /\ d \in Event
          BY <4>1, <4>2 DEF Event
        <4>4. d = [orders |-> os, offset |-> m, outputs |-> e.outputs]
          BY <4>3 DEF Event
        <4>5. QED
          BY <4>2, <4>4
      <3> HIDE DEF batch, good
      <3>4. ring' = [ring EXCEPT ![Slot(published)] = [ring[Slot(published)] EXCEPT !.orders = os, !.offset = m]]
        BY <1>2, <1>6, <2>2, <2>5, <2>6
      <3>5. QED
        BY <3>2, <3>3, <3>4 DEF PutOn
    <2>9. \A i \in (position + 1)..(position + n) : topic[i] # Bad => i <= m /\ topic[i] \in Range(os)
      <3>1. SUFFICES ASSUME NEW i \in (position + 1)..(position + n), topic[i] # Bad
                     PROVE  i <= m /\ topic[i] \in Range(os)
        OBVIOUS
      <3>2. PICK j \in 1..Len(batch) : j = i - position /\ topic[i] = batch[j]
        BY <1>3, <1>4
      <3> HIDE DEF batch, good
      <3>3. j <= k /\ batch[j] \in Range(os)
        BY <2>3, <2>4, <2>5, <3>1, <3>2
      <3>4. i <= m
        BY <1>1, <2>6, <2>7, <3>2, <3>3
      <3>5. QED
        BY <3>2, <3>3, <3>4
    <2> HIDE DEF batch, good
    <2>10. Len(os) <= m - position
      BY <2>4, <2>5, <2>7
    <2>11. QED
      BY <1>2, <1>3, <1>6, <2>7, <2>8, <2>9, <2>10
  <1>7. QED
    BY <1>5, <1>6

\* Writing one slot.
LEMMA PutOnFacts ==
    ASSUME ServerTypes, NEW os \in Seq(Orders), NEW m \in 0..MaxMessages, PutOn(os, m)
    PROVE  /\ ring' \in [0..RingSize - 1 -> Event]
           /\ ring'[Slot(published)].orders = os /\ ring'[Slot(published)].offset = m
           /\ ring'[Slot(published)].outputs = ring[Slot(published)].outputs
           /\ \A i \in 0..RingSize - 1 : i # Slot(published) => ring'[i] = ring[i]
  <1>1. /\ ring \in [0..RingSize - 1 -> Event] /\ Slot(published) \in 0..RingSize - 1
        /\ ring[Slot(published)] \in Event
    BY SlotFacts DEF ServerTypes
  <1>2. PICK p, e : p = Slot(published) /\ e = [orders |-> os, offset |-> m, outputs |-> ring[p].outputs]
    OBVIOUS
  <1>3. e \in Event /\ e.orders = os /\ e.offset = m /\ e.outputs = ring[p].outputs
    BY <1>1, <1>2 DEF Event
  <1>4. ring' = [ring EXCEPT ![p] = e]
    BY <1>2 DEF PutOn
  <1>5. QED
    BY <1>1, <1>2, <1>3, <1>4

\* What the matcher leaves in the slot of an event it is done with.
LEMMA MatchDoneFacts ==
    ASSUME ServerTypes, MatchDone
    PROVE  /\ ring' \in [0..RingSize - 1 -> Event]
           /\ ring'[Slot(matched)].orders = ring[Slot(matched)].orders
           /\ ring'[Slot(matched)].offset = ring[Slot(matched)].offset
           /\ built = <<>> => ring'[Slot(matched)].outputs = ring[Slot(matched)].outputs
           /\ built # <<>> => ring'[Slot(matched)].outputs = built
           /\ \A i \in 0..RingSize - 1 : i # Slot(matched) => ring'[i] = ring[i]
  <1>1. /\ ring \in [0..RingSize - 1 -> Event] /\ Slot(matched) \in 0..RingSize - 1
        /\ ring[Slot(matched)] \in Event /\ built \in Seq(Output)
    BY SlotFacts DEF ServerTypes
  <1>2. ring' = IF built = <<>> THEN ring ELSE [ring EXCEPT ![Slot(matched)].outputs = built]
    BY DEF MatchDone
  <1>3. PICK p, e : p = Slot(matched) /\ e = [ring[p] EXCEPT !.outputs = built]
    OBVIOUS
  <1>4. e \in Event /\ e.orders = ring[p].orders /\ e.offset = ring[p].offset /\ e.outputs = built
    BY <1>1, <1>3 DEF Event
  <1>5. CASE built = <<>>
    BY <1>1, <1>2, <1>5
  <1>6. CASE built # <<>>
    <2>1. ring' = [ring EXCEPT ![p] = e]
      BY <1>2, <1>3, <1>6
    <2>2. QED
      BY <1>1, <1>3, <1>4, <1>6, <2>1
  <1>7. QED
    BY <1>5, <1>6

\* The kinds of faults are few.
LEMMA FaultKindFinite ==
    IsFiniteSet(FaultKind)
  <1>1. IsFiniteSet({})
    BY FS_EmptySet
  <1>2. IsFiniteSet({} \cup {"restart"})
    BY <1>1, FS_AddElement
  <1>3. IsFiniteSet(({} \cup {"restart"}) \cup {"unsent"})
    BY <1>2, FS_AddElement
  <1>4. IsFiniteSet((({} \cup {"restart"}) \cup {"unsent"}) \cup {"stop"})
    BY <1>3, FS_AddElement
  <1>5. IsFiniteSet(((({} \cup {"restart"}) \cup {"unsent"}) \cup {"stop"}) \cup {"sot"})
    BY <1>4, FS_AddElement
  <1>6. FaultKind = ((({} \cup {"restart"}) \cup {"unsent"}) \cup {"stop"}) \cup {"sot"}
    BY DEF FaultKind
  <1>7. QED
    BY <1>5, <1>6

\* A fault is counted, within the bound.
LEMMA FaultFacts ==
    ASSUME faults \in [FaultKind -> 0..MaxFaults], NEW k \in FaultKind, Fault(k)
    PROVE  /\ faults' \in [FaultKind -> 0..MaxFaults] /\ faults'[k] = faults[k] + 1
           /\ \A j \in FaultKind : j # k => faults'[j] = faults[j]
  <1>1. Faults < MaxFaults /\ faults' = [faults EXCEPT ![k] = @ + 1]
    BY DEF Fault
  <1>2. PICK f : f = faults
    OBVIOUS
  <1>3. \A x \in FaultKind : f[x] \in Nat
    BY <1>2
  <1>4. f[k] <= SumFunctionOnSet(f, FaultKind) /\ SumFunctionOnSet(f, FaultKind) \in Nat
    BY <1>3, FaultKindFinite, SumBounds
  <1>5. faults[k] \in Nat /\ faults[k] < MaxFaults /\ MaxFaults \in Nat
    BY <1>1, <1>2, <1>3, <1>4, OutputAssumption DEF Faults
  <1>6. QED
    BY <1>1, <1>5

\* Marking an order: it is remembered last, and only the oldest is forgotten.
LEMMA MarkFacts ==
    ASSUME dedup \in Seq(Orders), Len(dedup) <= DedupSize, NEW o \in Orders, NEW d, d = MarkProcessed(o)
    PROVE  /\ d \in Seq(Orders) /\ Len(d) <= DedupSize /\ Len(d) >= 1 /\ d[Len(d)] = o
           /\ Len(dedup) < DedupSize => Len(d) = Len(dedup) + 1 /\ \A i \in 1..Len(dedup) : d[i] = dedup[i]
           /\ Len(dedup) = DedupSize => Len(d) = DedupSize /\ \A i \in 1..(Len(d) - 1) : d[i] = dedup[i + 1]
           /\ Range(d) \subseteq Range(dedup) \cup {o}
  <1>1. DedupSize \in Nat \ {0} /\ Len(dedup) \in Nat
    BY ServerAssumption
  <1>2. CASE Len(dedup) < DedupSize
    <2>1. d = Append(dedup, o)
      BY <1>2 DEF MarkProcessed
    <2>2. Len(d) = Len(dedup) + 1 /\ d \in Seq(Orders) /\ d[Len(d)] = o /\ \A i \in 1..Len(dedup) : d[i] = dedup[i]
      BY <2>1
    <2>3. Range(d) = Range(dedup) \cup {o}
      BY <2>1, RangeAppend
    <2>4. QED
      BY <1>1, <1>2, <2>2, <2>3
  <1>3. CASE ~(Len(dedup) < DedupSize)
    <2>1. Len(dedup) = DedupSize /\ dedup # <<>>
      BY <1>1, <1>3
    <2>2. PICK t : t = Tail(dedup)
      OBVIOUS
    <2>3. t \in Seq(Orders) /\ Len(t) = Len(dedup) - 1 /\ \A i \in 1..Len(t) : t[i] = dedup[i + 1]
      BY <1>1, <2>1, <2>2
    <2>4. d = Append(t, o)
      BY <1>3, <2>2 DEF MarkProcessed
    <2>5. Len(d) = Len(t) + 1 /\ d \in Seq(Orders) /\ d[Len(d)] = o /\ \A i \in 1..Len(t) : d[i] = t[i]
      BY <2>3, <2>4
    <2>6. Range(d) = Range(t) \cup {o}
      BY <2>3, <2>4, RangeAppend
    <2>7. Range(t) \subseteq Range(dedup)
      <3>1. DOMAIN t = 1..Len(t) /\ DOMAIN dedup = 1..Len(dedup)
        BY <2>3
      <3>2. \A i \in 1..Len(t) : i + 1 \in 1..Len(dedup)
        BY <1>1, <2>3
      <3>3. QED
        BY <2>3, <3>1, <3>2 DEF Range
    <2>8. Len(d) = DedupSize /\ Len(d) - 1 = Len(t)
      BY <1>1, <2>1, <2>3, <2>5
    <2>9. QED
      BY <1>1, <2>1, <2>3, <2>5, <2>6, <2>7, <2>8
  <1>4. QED
    BY <1>2, <1>3

\* The order the matcher comes to.
Coming == ring[Slot(matched)].orders[at + 1]

\* the engine takes the order and makes an output of it
Taken ==
    \E x \in Output :
        /\ x.seq = outputSeq + 1 /\ x.prev = lastHash /\ x.order = Coming
        /\ lastHash' = Hash(x) /\ built' = Append(built, x)
        /\ Coming \in active' /\ active' \subseteq active \cup {Coming}

\* What MatchOrder does: it skips an order that the deduplicator remembers,
\* refuses one that is on the book, and takes any other.
LEMMA MatchFacts ==
    ASSUME ServerTypes, MatchOrder
    PROVE  /\ matched < published /\ at < Len(Ev(matched).orders) /\ at' = at + 1
           /\ Coming \in Orders /\ Ev(matched).orders \in Seq(Orders)
           /\ \/ /\ Coming \in Range(dedup)
                 /\ UNCHANGED <<dedup, outputSeq, lastHash, active, built>>
              \/ /\ Coming \notin Range(dedup) /\ dedup' = MarkProcessed(Coming)
                 /\ outputSeq' = outputSeq + 1
                 /\ \/ Coming \in active /\ UNCHANGED <<lastHash, active, built>>
                    \/ Taken
  <1>1. matched < published /\ at < Len(Ev(matched).orders) /\ at' = at + 1
    BY DEF MatchOrder, Ev
  <1>2. Coming \in Orders /\ Ev(matched).orders \in Seq(Orders)
    <2>1. ring[Slot(matched)] \in Event /\ at \in Nat
      BY SlotFacts DEF ServerTypes
    <2>2. PICK s : s = ring[Slot(matched)].orders
      OBVIOUS
    <2>3. s \in Seq(Orders) /\ at + 1 \in 1..Len(s)
      BY <1>1, <2>1, <2>2 DEF Event, Ev
    <2>4. s[at + 1] \in Orders
      BY <2>3
    <2>5. QED
      BY <2>2, <2>3, <2>4 DEF Coming, Ev
  <1>3. CASE Coming \in Range(dedup)
    BY <1>1, <1>2, <1>3 DEF MatchOrder, Coming
  <1>4. CASE Coming \notin Range(dedup)
    <2>1. /\ dedup' = MarkProcessed(Coming) /\ outputSeq' = outputSeq + 1
          /\ IF Coming \in active THEN UNCHANGED <<lastHash, active, built>> ELSE EngineAccepts(Coming)
      BY <1>4 DEF MatchOrder, Coming
    <2>2. ASSUME Coming \notin active
          PROVE  Taken
      <3>1. PICK filled \in SUBSET active, symbol \in Symbol :
                /\ active' = (active \ filled) \cup {Coming}
                /\ lastHash' = Hash([seq |-> outputSeq + 1, prev |-> lastHash, order |-> Coming, symbol |-> symbol])
                /\ built' = Append(built, [seq |-> outputSeq + 1, prev |-> lastHash,
                                           order |-> Coming, symbol |-> symbol])
        BY <2>1, <2>2 DEF EngineAccepts
      <3>2. PICK x : x = [seq |-> outputSeq + 1, prev |-> lastHash, order |-> Coming, symbol |-> symbol]
        OBVIOUS
      <3>3. x \in Output /\ x.seq = outputSeq + 1 /\ x.prev = lastHash /\ x.order = Coming
        <4>1. outputSeq + 1 \in Nat /\ lastHash \in Chain /\ symbol \in Symbol
          BY DEF ServerTypes
        <4>2. QED
          BY <1>2, <3>2, <4>1 DEF Output
      <3>4. Coming \in active' /\ active' \subseteq active \cup {Coming}
        BY <3>1
      <3>5. QED
        BY <3>1, <3>2, <3>3, <3>4 DEF Taken
    <2>3. QED
      BY <1>1, <1>2, <1>4, <2>1, <2>2
  <1>5. QED
    BY <1>3, <1>4

\* the four cursors of the ring, and where the threads are in their events
Cursors ==
    /\ sent <= matched /\ matched <= published /\ published - sent <= RingSize
    /\ matched < published => at <= Len(Ev(matched).orders)
    /\ matched = published => at = 0
    /\ sent < matched => out <= Len(Ev(sent).outputs)
    /\ sent = matched => out = 0
    /\ Len(built) <= at
    /\ \A i \in 0..RingSize - 1 : Len(ring[i].orders) <= BatchSize /\ Len(ring[i].outputs) <= BatchSize

\* an event reaches no further than the poll thread has read, and the engine
\* has counted no more orders than it was given
Counted ==
    /\ \A k \in sent..published - 1 : Ev(k).offset <= position
    /\ matched < published => outputSeq + (Len(Ev(matched).orders) - at) <= Ev(matched).offset
    /\ matched = published => outputSeq <= position
    /\ \A k \in matched + 1..published - 1 : Ev(k - 1).offset + Len(Ev(k).orders) <= Ev(k).offset

ServerInv == ServerTypes /\ Cursors /\ Counted

\* The types hold on every event.
LEMMA EventFacts ==
    ASSUME ServerTypes
    PROVE  \A k \in Nat : /\ Ev(k) \in Event /\ Ev(k).orders \in Seq(Orders) /\ Len(Ev(k).orders) \in Nat
                          /\ Ev(k).offset \in Nat /\ Ev(k).outputs \in Seq(Output) /\ Len(Ev(k).outputs) \in Nat
  <1>1. SUFFICES ASSUME NEW k \in Nat
                 PROVE  /\ Ev(k) \in Event /\ Ev(k).orders \in Seq(Orders) /\ Len(Ev(k).orders) \in Nat
                        /\ Ev(k).offset \in Nat /\ Ev(k).outputs \in Seq(Output) /\ Len(Ev(k).outputs) \in Nat
    OBVIOUS
  <1>2. Ev(k) \in Event
    BY SlotFacts DEF Ev, ServerTypes
  <1>3. Ev(k).orders \in Seq(Orders) /\ Ev(k).outputs \in Seq(Output) /\ Ev(k).offset \in 0..MaxMessages
    BY <1>2 DEF Event
  <1>4. QED
    BY <1>2, <1>3, OutputAssumption

-----------------------------------------------------------------------------
(***************************************************************************)
(* The server's invariant, step by step.                                   *)
(***************************************************************************)

\* Events on the ring are not touched when another is put on it.
LEMMA PollKeeps ==
    ASSUME ServerInv, published - sent < RingSize, NEW os \in Seq(Orders), NEW m \in 0..MaxMessages, PutOn(os, m)
    PROVE  \A k \in sent..published - 1 : ring'[Slot(k)] = ring[Slot(k)]
  <1>1. SUFFICES ASSUME NEW k \in sent..published - 1
                 PROVE  ring'[Slot(k)] = ring[Slot(k)]
    OBVIOUS
  <1>2. sent \in Nat /\ published \in Nat /\ k \in Nat /\ RingSize \in Nat
    BY ServerAssumption DEF ServerInv, ServerTypes
  <1>3. k # published /\ k - published < RingSize /\ published - k < RingSize
    BY <1>2
  <1>4. Slot(k) # Slot(published) /\ Slot(k) \in 0..RingSize - 1
    BY <1>2, <1>3, SlotFacts
  <1>5. QED
    BY <1>4, PutOnFacts DEF ServerInv

\* Reading messages.
LEMMA PollServer ==
    ASSUME ServerInv, NEW n \in 1..BatchSize, Poll(n)
    PROVE  ServerInv'
  <1>1. /\ ServerTypes /\ Cursors /\ Counted /\ n \in Nat /\ n <= BatchSize
        /\ BatchSize \in Nat /\ RingSize \in Nat /\ MaxMessages \in Nat
        /\ sent \in Nat /\ matched \in Nat /\ published \in Nat /\ position \in Nat /\ committed \in Nat
        /\ at \in Nat /\ outputSeq \in Nat /\ committed <= position
    BY ServerAssumption, OutputAssumption DEF ServerInv, ServerTypes
  <1>2. UNCHANGED <<topic, committed, matched, sent, built, at, out, outputSeq, lastHash, active, dedup, faults, outputs>>
    BY DEF Poll
  <1>3. position' = position + n /\ position + n <= MaxMessages
    BY <1>1, PollFacts
  <1>4. CASE published' = published /\ ring' = ring
    <2>1. ServerTypes'
      BY <1>1, <1>2, <1>3, <1>4 DEF ServerTypes
    <2>2. Cursors'
      BY <1>1, <1>2, <1>4 DEF Cursors, Ev
    <2>3. Counted'
      <3>1. \A k \in sent..published - 1 : Ev(k).offset \in Nat
        BY <1>1, EventFacts
      <3>2. \A k \in sent..published - 1 : Ev(k).offset <= position + n
        BY <1>1, <3>1 DEF Counted
      <3>3. QED
        BY <1>1, <1>2, <1>3, <1>4, <3>2 DEF Counted, Ev
    <2>4. QED
      BY <2>1, <2>2, <2>3 DEF ServerInv
  <1>5. ASSUME published' = published + 1, published - sent < RingSize,
               NEW m \in (position + 1)..(position + n), NEW os \in Seq(Orders),
               PutOn(os, m), Len(os) <= m - position
        PROVE  ServerInv'
    <2>1. m \in 0..MaxMessages /\ m <= position + n /\ m \in Nat /\ Len(os) \in Nat
      BY <1>1, <1>3, <1>5
    <2>2. /\ ring' \in [0..RingSize - 1 -> Event]
          /\ ring'[Slot(published)].orders = os /\ ring'[Slot(published)].offset = m
          /\ ring'[Slot(published)].outputs = ring[Slot(published)].outputs
          /\ \A i \in 0..RingSize - 1 : i # Slot(published) => ring'[i] = ring[i]
      BY <1>1, <1>5, <2>1, PutOnFacts
    <2>3. \A k \in sent..published - 1 : ring'[Slot(k)] = ring[Slot(k)]
      BY <1>5, <2>1, PollKeeps
    <2>4. ServerTypes'
      BY <1>1, <1>2, <1>3, <1>5, <2>2 DEF ServerTypes
    <2>5. Cursors'
      <3>1. sent' <= matched' /\ matched' <= published' /\ published' - sent' <= RingSize /\ matched' < published'
        BY <1>1, <1>2, <1>5 DEF Cursors
      <3>2. at' <= Len(Ev(matched).orders)'
        <4>1. CASE matched < published
          <5>1. matched \in sent..published - 1
            BY <1>1, <4>1 DEF Cursors
          <5>2. QED
            BY <1>1, <1>2, <2>3, <4>1, <5>1 DEF Cursors, Ev
        <4>2. CASE matched = published
          BY <1>1, <1>2, <2>1, <2>2, <4>2 DEF Cursors, Ev
        <4>3. QED
          BY <1>1, <4>1, <4>2 DEF Cursors
      <3>3. sent' < matched' => out' <= Len(Ev(sent).outputs)'
        <4>1. SUFFICES ASSUME sent < matched PROVE out' <= Len(Ev(sent).outputs)'
          BY <1>2
        <4>2. sent \in sent..published - 1
          BY <1>1, <4>1 DEF Cursors
        <4>3. QED
          BY <1>1, <1>2, <2>3, <4>1, <4>2 DEF Cursors, Ev
      <3>4. (sent' = matched' => out' = 0) /\ Len(built') <= at'
        BY <1>1, <1>2 DEF Cursors
      <3>5. \A i \in 0..RingSize - 1 : Len(ring'[i].orders) <= BatchSize /\ Len(ring'[i].outputs) <= BatchSize
        <4>1. SUFFICES ASSUME NEW i \in 0..RingSize - 1
                       PROVE  Len(ring'[i].orders) <= BatchSize /\ Len(ring'[i].outputs) <= BatchSize
          OBVIOUS
        <4>2. Len(ring[i].orders) <= BatchSize /\ Len(ring[i].outputs) <= BatchSize
          BY <1>1 DEF Cursors
        <4>3. CASE i = Slot(published)
          <5>1. Len(os) <= BatchSize
            BY <1>1, <1>5, <2>1
          <5>2. QED
            BY <2>2, <4>2, <4>3, <5>1
        <4>4. CASE i # Slot(published)
          BY <2>2, <4>2, <4>4
        <4>5. QED
          BY <4>3, <4>4
      <3>6. matched' # published'
        BY <1>1, <1>2, <1>5, <3>1
      <3>7. QED
        BY <3>1, <3>2, <3>3, <3>4, <3>5, <3>6 DEF Cursors
    <2>6. Counted'
      <3>1. \A k \in sent..published - 1 : Ev(k).offset \in Nat /\ Ev(k).offset <= position
        BY <1>1, EventFacts DEF Counted
      <3>2. ASSUME NEW k \in sent..published
            PROVE  ring'[Slot(k)].offset <= position + n
        <4>1. CASE k = published
          BY <2>1, <2>2, <4>1
        <4>2. CASE k # published
          <5>1. k \in sent..published - 1
            BY <1>1, <4>2
          <5>2. QED
            BY <1>1, <2>3, <3>1, <5>1 DEF Ev
        <4>3. QED
          BY <4>1, <4>2
      <3>3. outputSeq + (Len(ring'[Slot(matched)].orders) - at) <= ring'[Slot(matched)].offset
        <4>1. CASE matched < published
          <5>1. matched \in sent..published - 1
            BY <1>1, <4>1 DEF Cursors
          <5>2. QED
            BY <1>1, <2>3, <4>1, <5>1 DEF Counted, Ev
        <4>2. CASE matched = published
          <5>1. at = 0 /\ outputSeq <= position
            BY <1>1, <4>2 DEF Cursors, Counted
          <5>2. QED
            BY <1>1, <1>5, <2>1, <2>2, <4>2, <5>1
        <4>3. QED
          BY <1>1, <4>1, <4>2 DEF Cursors
      <3>4. ASSUME NEW k \in matched + 1..published
            PROVE  ring'[Slot(k - 1)].offset + Len(ring'[Slot(k)].orders) <= ring'[Slot(k)].offset
        <4>1. sent <= matched
          BY <1>1 DEF Cursors
        <4>2. k - 1 \in sent..published - 1
          BY <1>1, <4>1
        <4>3. CASE k = published
          <5>1. ring'[Slot(k - 1)].offset <= position /\ ring'[Slot(k - 1)].offset \in Nat
            BY <2>3, <3>1, <4>2 DEF Ev
          <5>2. QED
            BY <1>1, <1>5, <2>1, <2>2, <4>3, <5>1
        <4>4. CASE k # published
          <5>1. k \in sent..published - 1 /\ k \in matched + 1..published - 1
            BY <1>1, <4>1, <4>4
          <5>2. QED
            BY <1>1, <2>3, <4>2, <5>1 DEF Counted, Ev
        <4>5. QED
          BY <4>3, <4>4
      <3>5. published' - 1 = published /\ matched' # published'
        BY <1>1, <1>2, <1>5 DEF Cursors
      <3>6. QED
        BY <1>2, <1>3, <3>2, <3>3, <3>4, <3>5 DEF Counted, Ev
    <2>7. QED
      BY <2>4, <2>5, <2>6 DEF ServerInv
  <1>6. QED
    BY <1>1, <1>4, <1>5, PollFacts

\* Matching an order.
LEMMA MatchOrderServer ==
    ASSUME ServerInv, MatchOrder
    PROVE  ServerInv'
  <1>1. /\ ServerTypes /\ Cursors /\ Counted
        /\ sent \in Nat /\ matched \in Nat /\ published \in Nat /\ position \in Nat
        /\ at \in Nat /\ outputSeq \in Nat /\ built \in Seq(Output) /\ Len(built) \in Nat
        /\ dedup \in Seq(Orders) /\ Len(dedup) <= DedupSize /\ active \subseteq Orders /\ lastHash \in Chain
    BY DEF ServerInv, ServerTypes
  <1>2. UNCHANGED <<topic, committed, position, ring, published, matched, sent, out, faults, outputs>>
    BY DEF MatchOrder
  <1>3. /\ matched < published /\ at < Len(Ev(matched).orders) /\ at' = at + 1 /\ Coming \in Orders
        /\ Len(Ev(matched).orders) \in Nat /\ Ev(matched).offset \in Nat
    BY <1>1, MatchFacts, EventFacts
  <1>4. dedup' \in Seq(Orders) /\ Len(dedup') <= DedupSize
    <2>1. PICK d : d = MarkProcessed(Coming)
      OBVIOUS
    <2>2. d \in Seq(Orders) /\ Len(d) <= DedupSize
      BY <1>1, <1>3, <2>1, MarkFacts
    <2>3. QED
      BY <1>1, <2>1, <2>2, MatchFacts
  <1>5. outputSeq' \in Nat /\ outputSeq' <= outputSeq + 1
    BY <1>1, MatchFacts
  <1>6. lastHash' \in Chain /\ active' \subseteq Orders /\ built' \in Seq(Output) /\ Len(built') <= Len(built) + 1
    <2>1. CASE UNCHANGED <<lastHash, active, built>>
      BY <1>1, <2>1
    <2>2. CASE Taken
      <3>1. PICK x \in Output : lastHash' = Hash(x) /\ built' = Append(built, x) /\ active' \subseteq active \cup {Coming}
        BY <2>2 DEF Taken
      <3>2. lastHash' \in Chain
        BY <3>1, HashType
      <3>3. built' \in Seq(Output) /\ Len(built') = Len(built) + 1
        BY <1>1, <3>1
      <3>4. QED
        BY <1>1, <1>3, <3>1, <3>2, <3>3
    <2>3. QED
      BY <1>1, <2>1, <2>2, MatchFacts
  <1>7. ServerTypes'
    BY <1>1, <1>2, <1>3, <1>4, <1>5, <1>6 DEF ServerTypes
  <1>8. Cursors'
    <2>1. at' <= Len(Ev(matched).orders) /\ matched' # published'
      BY <1>1, <1>2, <1>3
    <2>2. Len(built') <= at'
      <3>1. Len(built) <= at /\ Len(built') \in Nat
        BY <1>1, <1>6 DEF Cursors
      <3>2. QED
        BY <1>1, <1>3, <1>6, <3>1
    <2>3. QED
      BY <1>1, <1>2, <2>1, <2>2 DEF Cursors, Ev
  <1>9. Counted'
    <2>1. outputSeq' + (Len(Ev(matched).orders) - at') <= Ev(matched).offset /\ matched' # published'
      <3>1. outputSeq + (Len(Ev(matched).orders) - at) <= Ev(matched).offset
        BY <1>1, <1>3 DEF Counted
      <3>2. QED
        BY <1>1, <1>2, <1>3, <1>5, <3>1
    <2>2. QED
      BY <1>1, <1>2, <2>1 DEF Counted, Ev
  <1>10. QED
    BY <1>7, <1>8, <1>9 DEF ServerInv

\* The other events are not touched when one is matched.
LEMMA MatchDoneKeeps ==
    ASSUME ServerInv, MatchDone
    PROVE  \A k \in sent..published - 1 : k # matched => ring'[Slot(k)] = ring[Slot(k)]
  <1>1. SUFFICES ASSUME NEW k \in sent..published - 1, k # matched
                 PROVE  ring'[Slot(k)] = ring[Slot(k)]
    OBVIOUS
  <1>2. /\ sent \in Nat /\ published \in Nat /\ matched \in Nat /\ k \in Nat /\ RingSize \in Nat
        /\ sent <= matched /\ matched < published /\ published - sent <= RingSize
    BY ServerAssumption DEF ServerInv, ServerTypes, Cursors, MatchDone
  <1>3. k - matched < RingSize /\ matched - k < RingSize
    BY <1>1, <1>2
  <1>4. Slot(k) # Slot(matched) /\ Slot(k) \in 0..RingSize - 1
    BY <1>1, <1>2, <1>3, SlotFacts
  <1>5. QED
    BY <1>4, MatchDoneFacts DEF ServerInv

\* Finishing an event.
LEMMA MatchDoneServer ==
    ASSUME ServerInv, MatchDone
    PROVE  ServerInv'
  <1>1. /\ ServerTypes /\ Cursors /\ Counted
        /\ sent \in Nat /\ matched \in Nat /\ published \in Nat /\ position \in Nat
        /\ at \in Nat /\ outputSeq \in Nat /\ built \in Seq(Output) /\ Len(built) \in Nat /\ out \in Nat
    BY DEF ServerInv, ServerTypes
  <1>2. /\ UNCHANGED <<topic, committed, position, published, sent, out, outputSeq, lastHash, active, dedup, faults, outputs>>
        /\ matched < published /\ at = Len(Ev(matched).orders) /\ matched' = matched + 1 /\ at' = 0 /\ built' = <<>>
    BY DEF MatchDone, Ev
  <1>3. /\ ring' \in [0..RingSize - 1 -> Event]
        /\ ring'[Slot(matched)].orders = Ev(matched).orders
        /\ ring'[Slot(matched)].offset = Ev(matched).offset
        /\ built = <<>> => ring'[Slot(matched)].outputs = Ev(matched).outputs
        /\ built # <<>> => ring'[Slot(matched)].outputs = built
        /\ \A i \in 0..RingSize - 1 : i # Slot(matched) => ring'[i] = ring[i]
    BY <1>1, MatchDoneFacts DEF Ev
  <1>4. \A k \in sent..published - 1 : k # matched => ring'[Slot(k)] = ring[Slot(k)]
    BY MatchDoneKeeps
  <1>5. \A k \in sent..published - 1 :
           ring'[Slot(k)].orders = Ev(k).orders /\ ring'[Slot(k)].offset = Ev(k).offset
    BY <1>3, <1>4 DEF Ev
  <1>6. sent <= matched /\ matched \in sent..published - 1
    BY <1>1, <1>2 DEF Cursors
  <1>7. \A k \in sent..published - 1 :
           Len(Ev(k).orders) \in Nat /\ Len(Ev(k).outputs) \in Nat /\ Ev(k).offset \in Nat
    BY <1>1, EventFacts
  <1>8. ServerTypes'
    <2>1. <<>> \in Seq(Output) /\ matched + 1 \in Nat /\ 0 \in Nat
      BY <1>1
    <2>2. QED
      BY <1>1, <1>2, <1>3, <2>1 DEF ServerTypes
  <1>9. Cursors'
    <2>1. sent' <= matched' /\ matched' <= published' /\ published' - sent' <= RingSize /\ sent' # matched'
      BY <1>1, <1>2, <1>6 DEF Cursors
    <2>2. matched' < published' => at' <= Len(ring'[Slot(matched + 1)].orders)
      <3>1. SUFFICES ASSUME matched + 1 < published PROVE 0 <= Len(ring'[Slot(matched + 1)].orders)
        BY <1>2
      <3>2. matched + 1 \in sent..published - 1
        BY <1>1, <1>6, <3>1
      <3>3. QED
        BY <1>5, <1>7, <3>2
    <2>3. out' <= Len(ring'[Slot(sent)].outputs)
      <3>1. CASE sent = matched
        <4>1. out = 0 /\ Len(ring'[Slot(sent)].outputs) \in Nat
          BY <1>1, <1>3, <1>6, <1>7, <3>1 DEF Cursors
        <4>2. QED
          BY <1>2, <4>1
      <3>2. CASE sent # matched
        <4>1. sent < matched /\ sent \in sent..published - 1
          BY <1>1, <1>2, <1>6, <3>2
        <4>2. QED
          BY <1>1, <1>2, <1>4, <3>2, <4>1 DEF Cursors, Ev
      <3>3. QED
        BY <3>1, <3>2
    <2>4. Len(built') <= at'
      BY <1>2
    <2>5. \A i \in 0..RingSize - 1 : Len(ring'[i].orders) <= BatchSize /\ Len(ring'[i].outputs) <= BatchSize
      <3>1. SUFFICES ASSUME NEW i \in 0..RingSize - 1
                     PROVE  Len(ring'[i].orders) <= BatchSize /\ Len(ring'[i].outputs) <= BatchSize
        OBVIOUS
      <3>2. Len(ring[i].orders) <= BatchSize /\ Len(ring[i].outputs) <= BatchSize
        BY <1>1 DEF Cursors
      <3>3. CASE i = Slot(matched)
        <4>1. Len(built) <= at /\ at <= BatchSize
          BY <1>1, <1>2, <3>2, <3>3 DEF Cursors, Ev
        <4>2. Len(built) <= BatchSize
          BY <1>1, <4>1, ServerAssumption
        <4>3. QED
          BY <1>3, <3>2, <3>3, <4>2 DEF Ev
      <3>4. CASE i # Slot(matched)
        BY <1>3, <3>2, <3>4
      <3>5. QED
        BY <3>3, <3>4
    <2>6. QED
      <3>1. matched' = published' => at' = 0
        BY <1>2
      <3>2. QED
        BY <1>2, <2>1, <2>2, <2>3, <2>4, <2>5, <3>1 DEF Cursors, Ev
  <1>10. Counted'
    <2>1. outputSeq <= Ev(matched).offset /\ Ev(matched).offset <= position
      BY <1>1, <1>2, <1>6, <1>7 DEF Counted
    <2>2. ASSUME matched + 1 < published
          PROVE  outputSeq + (Len(ring'[Slot(matched + 1)].orders) - 0) <= ring'[Slot(matched + 1)].offset
      <3>1. matched + 1 \in sent..published - 1 /\ matched + 1 \in matched + 1..published - 1 /\ matched + 1 - 1 = matched
        BY <1>1, <1>6, <2>2
      <3>2. Ev(matched).offset + Len(Ev(matched + 1).orders) <= Ev(matched + 1).offset
        BY <1>1, <3>1 DEF Counted
      <3>3. /\ ring'[Slot(matched + 1)].orders = Ev(matched + 1).orders
            /\ ring'[Slot(matched + 1)].offset = Ev(matched + 1).offset
            /\ Len(Ev(matched + 1).orders) \in Nat /\ Ev(matched + 1).offset \in Nat /\ Ev(matched).offset \in Nat
        BY <1>5, <1>6, <1>7, <3>1
      <3>4. QED
        BY <1>1, <2>1, <3>2, <3>3
    <2>3. ASSUME NEW k \in matched + 1 + 1..published - 1
          PROVE  ring'[Slot(k - 1)].offset + Len(ring'[Slot(k)].orders) <= ring'[Slot(k)].offset
      <3>1. k \in matched + 1..published - 1 /\ k \in sent..published - 1 /\ k - 1 \in sent..published - 1
        BY <1>1, <1>6, <2>3
      <3>2. QED
        BY <1>1, <1>5, <3>1 DEF Counted
    <2>4. outputSeq <= position
      BY <1>1, <1>6, <1>7, <2>1
    <2>5. \A k \in sent..published - 1 : ring'[Slot(k)].offset <= position
      BY <1>1, <1>5 DEF Counted
    <2>6. QED
      BY <1>2, <2>2, <2>3, <2>4, <2>5 DEF Counted, Ev
  <1>11. QED
    BY <1>8, <1>9, <1>10 DEF ServerInv

\* Sending an output, or failing to.
LEMMA PublishOutputServer ==
    ASSUME ServerInv, PublishOutput
    PROVE  /\ ServerInv'
           /\ ring[Slot(sent)].outputs[out + 1] \in Output
           /\ outputs' = outputs \/ outputs' = Append(outputs, ring[Slot(sent)].outputs[out + 1])
  <1>1. /\ ServerTypes /\ Cursors /\ Counted
        /\ sent \in Nat /\ matched \in Nat /\ published \in Nat /\ out \in Nat
    BY DEF ServerInv, ServerTypes
  <1>2. /\ UNCHANGED <<topic, committed, position, ring, published, matched, sent,
                       built, at, outputSeq, lastHash, active, dedup>>
        /\ sent < matched /\ out < Len(Ev(sent).outputs) /\ out' = out + 1
        /\ \/ outputs' = Append(outputs, Ev(sent).outputs[out + 1]) /\ UNCHANGED faults
           \/ Fault("unsent") /\ UNCHANGED outputs
    BY DEF PublishOutput, Ev
  <1>3. Ev(sent).outputs \in Seq(Output) /\ Len(Ev(sent).outputs) \in Nat
    BY <1>1, EventFacts
  <1>4. PICK x : x = Ev(sent).outputs[out + 1]
    OBVIOUS
  <1>5. x \in Output
    <2>1. PICK s : s = Ev(sent).outputs
      OBVIOUS
    <2>2. s \in Seq(Output) /\ out + 1 \in 1..Len(s)
      BY <1>1, <1>2, <1>3, <2>1
    <2>3. QED
      BY <1>4, <2>1, <2>2
  <1>6. outputs' = outputs \/ outputs' = Append(outputs, x)
    BY <1>2, <1>4
  <1>7. outputs' \in Seq(Output)
    <2>1. outputs \in Seq(Output)
      BY <1>1 DEF ServerTypes
    <2>2. Append(outputs, x) \in Seq(Output)
      BY <1>5, <2>1
    <2>3. QED
      BY <1>6, <2>1, <2>2
  <1>8. faults' \in [FaultKind -> 0..MaxFaults]
    <2>1. "unsent" \in FaultKind /\ faults \in [FaultKind -> 0..MaxFaults]
      BY <1>1 DEF FaultKind, ServerTypes
    <2>2. CASE UNCHANGED faults
      BY <2>1, <2>2
    <2>3. CASE Fault("unsent")
      BY <2>1, <2>3, FaultFacts
    <2>4. QED
      BY <1>2, <2>2, <2>3
  <1>9. out' \in Nat /\ out' <= Len(Ev(sent).outputs)
    BY <1>1, <1>2, <1>3
  <1>10. ServerTypes'
    BY <1>1, <1>2, <1>7, <1>8, <1>9 DEF ServerTypes
  <1>11. Cursors'
    <2>1. sent # matched
      BY <1>1, <1>2
    <2>2. QED
      BY <1>1, <1>2, <1>9, <2>1 DEF Cursors, Ev
  <1>12. Counted'
    BY <1>1, <1>2 DEF Counted, Ev
  <1>13. QED
    BY <1>4, <1>5, <1>6, <1>10, <1>11, <1>12 DEF ServerInv, Ev

\* Storing the offset.
LEMMA PublishDoneServer ==
    ASSUME ServerInv, PublishDone
    PROVE  ServerInv'
  <1>1. /\ ServerTypes /\ Cursors /\ Counted
        /\ sent \in Nat /\ matched \in Nat /\ published \in Nat /\ position \in Nat /\ committed \in Nat
        /\ committed <= position /\ RingSize \in Nat
    BY ServerAssumption DEF ServerInv, ServerTypes
  <1>2. /\ UNCHANGED <<topic, position, ring, published, matched, built, at,
                       outputSeq, lastHash, active, dedup, faults, outputs>>
        /\ sent < matched /\ sent' = sent + 1 /\ out' = 0 /\ committed' \in {committed, Ev(sent).offset}
    BY DEF PublishDone, Ev
  <1>3. sent <= matched /\ matched <= published /\ published - sent <= RingSize /\ sent \in sent..published - 1
    BY <1>1, <1>2 DEF Cursors
  <1>4. committed' \in Nat /\ committed' <= position
    <2>1. Ev(sent).offset \in Nat /\ Ev(sent).offset <= position
      BY <1>1, <1>3, EventFacts DEF Counted
    <2>2. QED
      BY <1>1, <1>2, <2>1
  <1>5. ServerTypes'
    <2>1. sent + 1 \in Nat /\ 0 \in Nat
      BY <1>1
    <2>2. QED
      BY <1>1, <1>2, <1>4, <2>1 DEF ServerTypes
  <1>6. Cursors'
    <2>1. sent' <= matched /\ published - sent' <= RingSize
      BY <1>1, <1>2, <1>3
    <2>2. sent' < matched => out' <= Len(ring[Slot(sent')].outputs)
      <3>1. SUFFICES ASSUME sent + 1 < matched PROVE 0 <= Len(ring[Slot(sent + 1)].outputs)
        BY <1>2
      <3>2. Len(Ev(sent + 1).outputs) \in Nat
        <4>1. PICK k \in Nat : k = sent + 1
          BY <1>1
        <4>2. Len(Ev(k).outputs) \in Nat
          BY <1>1, EventFacts
        <4>3. QED
          BY <4>1, <4>2
      <3>3. QED
        BY <3>2 DEF Ev
    <2>3. QED
      BY <1>1, <1>2, <1>3, <2>1, <2>2 DEF Cursors, Ev
  <1>7. Counted'
    <2>1. \A k \in sent + 1..published - 1 : k \in sent..published - 1
      BY <1>1
    <2>2. QED
      BY <1>1, <1>2, <2>1 DEF Counted, Ev
  <1>8. QED
    BY <1>5, <1>6, <1>7 DEF ServerInv

\* The empty server.
LEMMA EmptyServer ==
    /\ <<>> \in Seq(Output) /\ <<>> \in Seq(Orders) /\ Len(<<>>) = 0
    /\ GenesisHash \in Chain /\ EmptyEvent \in Event
    /\ [i \in 0..RingSize - 1 |-> EmptyEvent] \in [0..RingSize - 1 -> Event]
    /\ EmptyEvent.orders = <<>> /\ EmptyEvent.outputs = <<>>
  <1>1. /\ <<>> \in Seq(Output) /\ <<>> \in Seq(Orders) /\ Len(<<>>) = 0 /\ GenesisHash \in Chain
        /\ 0 \in 0..MaxMessages
    BY OutputAssumption DEF GenesisHash, Chain
  <1>2. EmptyEvent \in Event
    BY <1>1 DEF EmptyEvent, Event
  <1>3. EmptyEvent.orders = <<>> /\ EmptyEvent.outputs = <<>>
    BY DEF EmptyEvent
  <1>4. QED
    BY <1>1, <1>2, <1>3

\* Starting again.
LEMMA RestartServer ==
    ASSUME ServerInv, Restart
    PROVE  ServerInv'
  <1>1. /\ ServerTypes /\ committed \in Nat /\ position \in 0..MaxMessages /\ committed <= position
        /\ MaxMessages \in Nat /\ RingSize \in Nat /\ BatchSize \in Nat /\ DedupSize \in Nat
    BY ServerAssumption, OutputAssumption DEF ServerInv, ServerTypes
  <1>2. /\ Fault("restart") /\ position' = committed /\ ring' = [i \in 0..RingSize - 1 |-> EmptyEvent]
        /\ published' = 0 /\ matched' = 0 /\ sent' = 0
        /\ built' = <<>> /\ at' = 0 /\ out' = 0
        /\ outputSeq' = 0 /\ lastHash' = GenesisHash
        /\ active' = {} /\ dedup' = <<>>
        /\ UNCHANGED <<topic, committed, outputs>>
    BY DEF Restart
  <1>3. faults' \in [FaultKind -> 0..MaxFaults]
    <2>1. "restart" \in FaultKind /\ faults \in [FaultKind -> 0..MaxFaults]
      BY <1>1 DEF FaultKind, ServerTypes
    <2>2. QED
      BY <1>2, <2>1, FaultFacts
  <1>4. ServerTypes'
    <2>1. ring' \in [0..RingSize - 1 -> Event] /\ position' \in 0..MaxMessages /\ committed' <= position'
      BY <1>1, <1>2, EmptyServer
    <2>2. Len(dedup') <= DedupSize /\ active' \subseteq Orders
      BY <1>1, <1>2
    <2>3. QED
      BY <1>1, <1>2, <1>3, <2>1, <2>2, EmptyServer DEF ServerTypes
  <1>5. Cursors'
    <2>1. \A i \in 0..RingSize - 1 : ring'[i] = EmptyEvent
      BY <1>2
    <2>2. \A i \in 0..RingSize - 1 : Len(ring'[i].orders) <= BatchSize /\ Len(ring'[i].outputs) <= BatchSize
      BY <1>1, <2>1, EmptyServer
    <2>3. QED
      BY <1>1, <1>2, <2>2 DEF Cursors
  <1>6. Counted'
    <2>1. \A k \in 0..0 - 1 : FALSE
      OBVIOUS
    <2>2. \A k \in 0 + 1..0 - 1 : FALSE
      OBVIOUS
    <2>3. QED
      BY <1>1, <1>2, <2>1, <2>2 DEF Counted
  <1>7. QED
    BY <1>4, <1>5, <1>6 DEF ServerInv

\* Everything is empty when the server starts for the first time.
LEMMA InitServer ==
    ASSUME ServerInit
    PROVE  ServerInv
  <1>1. MaxMessages \in Nat /\ RingSize \in Nat /\ BatchSize \in Nat /\ DedupSize \in Nat /\ MaxFaults \in Nat
    BY ServerAssumption, OutputAssumption
  <1>2. /\ topic \in [1..MaxMessages -> Orders \cup {Bad}]
        /\ committed = 0 /\ position = 0 /\ ring = [i \in 0..RingSize - 1 |-> EmptyEvent]
        /\ published = 0 /\ matched = 0 /\ sent = 0 /\ built = <<>> /\ at = 0 /\ out = 0
        /\ outputSeq = 0 /\ lastHash = GenesisHash /\ active = {} /\ dedup = <<>>
        /\ faults = [k \in FaultKind |-> 0] /\ outputs = <<>>
    BY DEF ServerInit, MemoryInit, EngineInit
  <1>3. ServerTypes
    <2>1. faults \in [FaultKind -> 0..MaxFaults] /\ position \in 0..MaxMessages /\ Len(dedup) <= DedupSize
      BY <1>1, <1>2
    <2>2. QED
      BY <1>1, <1>2, <2>1, EmptyServer DEF ServerTypes
  <1>4. Cursors
    <2>1. \A i \in 0..RingSize - 1 : ring[i] = EmptyEvent
      BY <1>2
    <2>2. \A i \in 0..RingSize - 1 : Len(ring[i].orders) <= BatchSize /\ Len(ring[i].outputs) <= BatchSize
      BY <1>1, <2>1, EmptyServer
    <2>3. QED
      BY <1>1, <1>2, <2>2 DEF Cursors
  <1>5. Counted
    <2>1. \A k \in 0..0 - 1 : FALSE
      OBVIOUS
    <2>2. \A k \in 0 + 1..0 - 1 : FALSE
      OBVIOUS
    <2>3. QED
      BY <1>1, <1>2, <2>1, <2>2 DEF Counted
  <1>6. QED
    BY <1>3, <1>4, <1>5 DEF ServerInv

\* Steps of the settlement service do not disturb the server.
LEMMA ServerKept ==
    ASSUME ServerInv, UNCHANGED <<topic, committed, memory, outputs>>, faults' \in [FaultKind -> 0..MaxFaults]
    PROVE  ServerInv'
  <1>1. ServerTypes'
    BY DEF ServerInv, ServerTypes, memory
  <1>2. Cursors'
    BY DEF ServerInv, Cursors, memory, Ev
  <1>3. Counted'
    BY DEF ServerInv, Counted, memory, Ev
  <1>4. QED
    BY <1>1, <1>2, <1>3 DEF ServerInv

\* The server's invariant is preserved by every step, and a step leaves the
\* topic engine.outputs alone or appends to it.
LEMMA ServerStep ==
    ASSUME ServerInv, [Next]_vars
    PROVE  ServerInv' /\ (outputs' = outputs \/ \E x \in Output : outputs' = Append(outputs, x))
  <1>1. ASSUME NEW n \in 1..BatchSize, Poll(n)
        PROVE  ServerInv' /\ outputs' = outputs
    BY <1>1, PollServer DEF Poll
  <1>2. CASE MatchOrder
    BY <1>2, MatchOrderServer DEF MatchOrder
  <1>3. CASE MatchDone
    BY <1>3, MatchDoneServer DEF MatchDone
  <1>4. CASE PublishOutput
    BY <1>4, PublishOutputServer
  <1>5. CASE PublishDone
    BY <1>5, PublishDoneServer DEF PublishDone
  <1>6. CASE Restart
    BY <1>6, RestartServer DEF Restart
  <1>7. CASE SettlementNext /\ UNCHANGED <<topic, committed, memory>>
    <2>1. UNCHANGED outputs
      BY <1>7 DEF SettlementNext, Receive, WriteShard, WriteFails, Dispatch, Stop
    <2>2. faults \in [FaultKind -> 0..MaxFaults] /\ "sot" \in FaultKind /\ "stop" \in FaultKind
      BY DEF ServerInv, ServerTypes, FaultKind
    <2>3. UNCHANGED faults \/ Fault("sot") \/ Fault("stop")
      BY <1>7 DEF SettlementNext, Receive, WriteShard, WriteFails, Dispatch, Stop
    <2>4. faults' \in [FaultKind -> 0..MaxFaults]
      BY <2>2, <2>3, FaultFacts
    <2>5. QED
      BY <1>7, <2>1, <2>4, ServerKept
  <1>8. CASE UNCHANGED vars
    <2>1. UNCHANGED <<topic, committed, memory, outputs, faults>>
      BY <1>8 DEF vars, serverVars
    <2>2. QED
      BY <2>1, ServerKept DEF ServerInv, ServerTypes
  <1>9. QED
    BY <1>1, <1>2, <1>3, <1>4, <1>5, <1>6, <1>7, <1>8 DEF Next, ServerNext

-----------------------------------------------------------------------------
(***************************************************************************)
(* The settlement service.  Whatever it restarts from, it stands on the    *)
(* history of the topic, and writes only rows of that history.             *)
(***************************************************************************)

\* the rows of the history of engine.outputs
Rows == Range(Canon(outputs)[Len(outputs)].ok)

\* the chain state the next batch is verified from
Held == [seq |-> lastSeq, hash |-> chainHash, ok |-> <<>>]

SettlementInv ==
    /\ SettlementTypeOK
    /\ Follows(outputs, Held, read)
    /\ sot \subseteq Rows /\ Range(verified) \subseteq Rows

\* A state of verify_batch on the history, with no rows in hand.
LEMMA FollowsHeld ==
    ASSUME NEW s \in Seq(Output), NEW v, NEW n, Follows(s, v, n), NEW w,
           w = [seq |-> v.seq, hash |-> v.hash, ok |-> <<>>]
    PROVE  Follows(s, w, n)
  <1>1. w.seq = v.seq /\ w.hash = v.hash /\ w.ok = <<>>
    OBVIOUS
  <1>2. w.ok \in Seq(Output) /\ Range(w.ok) = {}
    BY <1>1 DEF Range
  <1>3. QED
    BY <1>1, <1>2 DEF Follows

\* What a state on the history is made of.
LEMMA FollowsTypes ==
    ASSUME NEW s \in Seq(Output), NEW v, NEW n \in Nat, Follows(s, v, n)
    PROVE  v.seq \in Nat /\ v.hash \in Chain /\ n <= Len(s)
  <1>1. PICK p \in n..Len(s) : v.seq = Canon(s)[p].seq /\ v.hash = Canon(s)[p].hash
    BY DEF Follows
  <1>2. p \in 0..Len(s) /\ n <= Len(s)
    BY <1>1
  <1>3. GoodChain(Canon(s)[p])
    BY <1>2, CanonFacts
  <1>4. QED
    BY <1>1, <1>2, <1>3 DEF GoodChain

\* The rows are outputs, with different and bounded numbers, linked, and each
\* was the end of the chain once.
LEMMA RowsFacts ==
    ASSUME outputs \in Seq(Output)
    PROVE  /\ Rows \subseteq Output
           /\ \E m \in Nat : \A r \in Rows : r.seq \in 0..m
           /\ \A a, b \in Rows : b.seq = a.seq + 1 => b.prev = Hash(a)
           /\ \A a, b \in Rows : b.seq = a.seq => b = a
           /\ \A r \in Rows : \E p \in 0..Len(outputs) :
                 Canon(outputs)[p].seq = r.seq /\ Canon(outputs)[p].hash = Hash(r)
  <1>1. PICK s \in Seq(Output) : s = outputs
    OBVIOUS
  <1>2. PICK v : v = Canon(s)[Len(s)]
    OBVIOUS
  <1>3. Len(s) \in 0..Len(s)
    OBVIOUS
  <1>4. GoodChain(v)
    BY <1>2, <1>3, CanonFacts
  <1>5. Range(v.ok) \subseteq Output
    BY <1>4 DEF GoodChain, Range
  <1>6. \A r \in Range(v.ok) : r.seq \in 0..v.seq
    BY <1>4, <1>5, HashType DEF GoodChain
  <1>7. \A r \in Range(v.ok) : \E p \in 0..Len(s) : Canon(s)[p].seq = r.seq /\ Canon(s)[p].hash = Hash(r)
    BY <1>2, <1>3, CanonRows
  <1>8. /\ v.seq \in Nat /\ \A a, b \in Range(v.ok) : b.seq = a.seq + 1 => b.prev = Hash(a)
        /\ \A a, b \in Range(v.ok) : b.seq = a.seq => b = a
    BY <1>4 DEF GoodChain
  <1>9. Rows = Range(v.ok)
    BY <1>1, <1>2 DEF Rows
  <1>10. QED
    BY <1>1, <1>5, <1>6, <1>7, <1>8, <1>9

\* A fresh chain is where the history begins.
LEMMA FreshFollows ==
    ASSUME outputs \in Seq(Output)
    PROVE  Follows(outputs, [seq |-> 0, hash |-> GenesisHash, ok |-> <<>>], 0)
  <1>1. PICK w : w = [seq |-> 0, hash |-> GenesisHash, ok |-> <<>>]
    OBVIOUS
  <1>2. w.seq = 0 /\ w.hash = GenesisHash /\ w.ok \in Seq(Output) /\ Range(w.ok) = {}
    BY <1>1 DEF Range
  <1>3. Canon(outputs)[0] = Genesis /\ Len(outputs) \in Nat
    BY CanonFacts
  <1>4. w.seq = Canon(outputs)[0].seq /\ w.hash = Canon(outputs)[0].hash
    BY <1>2, <1>3 DEF Genesis
  <1>5. Follows(outputs, w, 0)
    BY <1>2, <1>3, <1>4 DEF Follows
  <1>6. QED
    BY <1>1, <1>5

\* get_chain_state finds a place on the history, whatever was written.
LEMMA RecoveredFollows ==
    ASSUME outputs \in Seq(Output), sot \subseteq Rows
    PROVE  Follows(outputs, [seq |-> Recovered.seq, hash |-> Recovered.hash, ok |-> <<>>], 0)
  <1> DEFINE rows == {r \in sot : r.symbol = 0}
             IsNewest(x) == x \in rows /\ \A y \in rows : y.seq <= x.seq
             newest == CHOOSE x \in rows : \A y \in rows : y.seq <= x.seq
  <1>1. PICK w : w = [seq |-> Recovered.seq, hash |-> Recovered.hash, ok |-> <<>>]
    OBVIOUS
  <1>2. w.seq = Recovered.seq /\ w.hash = Recovered.hash /\ w.ok = <<>>
    BY <1>1
  <1>3. w.ok \in Seq(Output) /\ Range(w.ok) = {}
    BY <1>2 DEF Range
  <1>4. Len(outputs) \in Nat
    OBVIOUS
  <1>5. \E p \in 0..Len(outputs) : w.seq = Canon(outputs)[p].seq /\ w.hash = Canon(outputs)[p].hash
    <2>1. CASE rows = {}
      <3>1. Recovered = [seq |-> 0, hash |-> GenesisHash]
        BY <2>1 DEF Recovered
      <3>2. Canon(outputs)[0] = Genesis
        BY CanonFacts
      <3>3. w.seq = Canon(outputs)[0].seq /\ w.hash = Canon(outputs)[0].hash
        BY <1>2, <3>1, <3>2 DEF Genesis
      <3>4. QED
        BY <1>4, <3>3
    <2>2. CASE rows # {}
      <3>1. Recovered = [seq |-> newest.seq, hash |-> Hash(newest)]
        BY <2>2 DEF Recovered
      <3>2. \E x \in rows : \A y \in rows : y.seq <= x.seq
        <4> DEFINE S == {x.seq : x \in rows}
        <4>1. PICK m \in Nat : \A r \in Rows : r.seq \in 0..m
          BY RowsFacts
        <4>2. S \subseteq 0..m
          BY <4>1
        <4>3. IsFiniteSet(S)
          <5>1. IsFiniteSet(0..m)
            BY FS_Interval
          <5> HIDE DEF S
          <5>2. QED
            BY <4>2, <5>1, FS_Subset
        <4>4. S # {} /\ \A x \in S : x \in Int
          BY <2>2, <4>2
        <4>5. PICK z \in S : \A y \in S : z >= y
          <5> HIDE DEF S
          <5>1. QED
            BY <4>3, <4>4, Extremes
        <4>6. PICK x \in rows : x.seq = z
          OBVIOUS
        <4>7. \A y \in rows : y.seq \in S
          OBVIOUS
        <4>8. \A y \in rows : y.seq <= x.seq
          <5> HIDE DEF S, rows
          <5>1. QED
            BY <4>2, <4>5, <4>6, <4>7
        <4>9. QED
          BY <4>8
      <3>3. newest \in rows
        BY <3>2
      <3>4. newest \in Rows
        BY <3>3
      <3> HIDE DEF rows, newest
      <3>5. PICK p \in 0..Len(outputs) : Canon(outputs)[p].seq = newest.seq /\ Canon(outputs)[p].hash = Hash(newest)
        BY <3>4, RowsFacts
      <3>6. QED
        BY <1>2, <3>1, <3>5
    <2>3. QED
      BY <2>1, <2>2
  <1>6. Follows(outputs, w, 0)
    BY <1>3, <1>5 DEF Follows
  <1>7. QED
    BY <1>1, <1>6

\* Receiving a batch keeps the service on the history, and what it accepts is
\* part of it.
LEMMA ReceiveFollows ==
    ASSUME outputs \in Seq(Output), read \in Nat, NEW n \in Nat, read + n <= Len(outputs),
           Follows(outputs, Held, read), NEW w, w = VerifyBatch(SubSeq(outputs, read + 1, read + n))
    PROVE  Follows(outputs, w, read + n)
  <1>1. PICK s, m, v, batch : s = outputs /\ m = read /\ v = Held /\ batch = SubSeq(outputs, read + 1, read + n)
    OBVIOUS
  <1>2. s \in Seq(Output) /\ m \in 0..Len(s) /\ m + n <= Len(s) /\ Follows(s, v, m) /\ batch = SubSeq(s, m + 1, m + n)
    BY <1>1
  <1>3. Follows(s, Run(batch, v)[Len(batch)], m + n)
    BY <1>2, FollowsBatch
  <1>4. w = Run(batch, v)[Len(batch)]
    BY <1>1 DEF VerifyBatch, Run, IsRun, Held
  <1>5. QED
    BY <1>1, <1>3, <1>4

\* An empty service stands at the start of the history.
LEMMA InitSettlement ==
    ASSUME ServerInit, SettlementInit
    PROVE  SettlementInv
  <1>1. /\ outputs = <<>> /\ read = 0 /\ lastSeq = 0 /\ chainHash = GenesisHash
        /\ verified = <<>> /\ writing = {} /\ sending = FALSE /\ sot = {} /\ derived = {}
    BY DEF ServerInit, SettlementInit
  <1>2. outputs \in Seq(Output) /\ Len(outputs) = 0 /\ Range(verified) = {}
    BY <1>1 DEF Range
  <1>3. SettlementTypeOK
    <2>1. read \in 0..Len(outputs) /\ lastSeq \in Nat
      BY <1>1, <1>2
    <2>2. chainHash \in Chain /\ verified \in Seq(Output)
      BY <1>1, EmptyServer
    <2>3. writing \subseteq Symbol /\ sending \in BOOLEAN /\ sot \subseteq Output /\ derived \subseteq Output
      BY <1>1
    <2>4. QED
      BY <2>1, <2>2, <2>3 DEF SettlementTypeOK
  <1>4. Recovered = [seq |-> 0, hash |-> GenesisHash]
    BY <1>1 DEF Recovered
  <1>5. Held = [seq |-> Recovered.seq, hash |-> Recovered.hash, ok |-> <<>>]
    BY <1>1, <1>4 DEF Held
  <1>6. Follows(outputs, Held, read)
    BY <1>1, <1>2, <1>5, RecoveredFollows
  <1>7. QED
    BY <1>1, <1>2, <1>3, <1>6 DEF SettlementInv

\* The topic may grow under the service.
LEMMA SettlementGrows ==
    ASSUME outputs \in Seq(Output), SettlementInv, UNCHANGED settlementVars,
           NEW x \in Output, outputs' = Append(outputs, x)
    PROVE  SettlementInv'
  <1>0. PICK s \in Seq(Output) : s = outputs
    OBVIOUS
  <1>1. PICK t : s = outputs /\ t = Append(s, x)
    BY <1>0
  <1>2. Range(Canon(s)[Len(s)].ok) \subseteq Range(Canon(t)[Len(t)].ok)
    BY <1>1, FollowsGrows
  <1>3. \A v, n : n \in Nat /\ Follows(s, v, n) => Follows(t, v, n)
    BY <1>1, FollowsGrows
  <1>4. SettlementTypeOK'
    <2>1. read \in 0..Len(outputs) /\ Len(outputs') = Len(outputs) + 1 /\ Len(outputs) \in Nat
      BY DEF SettlementInv, SettlementTypeOK
    <2>2. read \in 0..Len(outputs')
      BY <2>1
    <2>3. QED
      BY <2>2 DEF SettlementInv, SettlementTypeOK, settlementVars
  <1>5. Follows(outputs', Held, read)
    <2>1. read \in Nat /\ Follows(s, Held, read)
      BY <1>1 DEF SettlementInv, SettlementTypeOK
    <2>2. PICK v, n : v = Held /\ n = read
      OBVIOUS
    <2>3. Follows(t, v, n)
      BY <1>3, <2>1, <2>2
    <2>4. QED
      BY <1>1, <2>2, <2>3
  <1>6. Held' = Held /\ read' = read /\ sot' = sot /\ verified' = verified
    BY DEF settlementVars, Held
  <1>7. Follows(outputs, Held, read)'
    BY <1>5, <1>6
  <1>8. Rows \subseteq Rows'
    BY <1>1, <1>2 DEF Rows
  <1>9. QED
    BY <1>4, <1>6, <1>7, <1>8 DEF SettlementInv

\* Every operation of the service.
LEMMA SettlementSteps ==
    ASSUME outputs \in Seq(Output), SettlementInv, SettlementNext
    PROVE  SettlementInv'
  <1>1. /\ SettlementTypeOK /\ Follows(outputs, Held, read) /\ sot \subseteq Rows /\ Range(verified) \subseteq Rows
        /\ read \in 0..Len(outputs) /\ read \in Nat /\ Len(outputs) \in Nat
        /\ Rows \subseteq Output
    BY RowsFacts DEF SettlementInv, SettlementTypeOK
  <1>2. UNCHANGED outputs
    BY DEF SettlementNext, Receive, WriteShard, WriteFails, Dispatch, Stop
  <1>3. Rows' = Rows
    BY <1>2 DEF Rows
  <1>4. ASSUME NEW n \in 1..MaxReceived, Receive(n)
        PROVE  SettlementInv'
    <2>1. n \in Nat
      BY SettlementAssumption
    <2>2. PICK w : w = VerifyBatch(SubSeq(outputs, read + 1, read + n))
      OBVIOUS
    <2>3. /\ read + n <= Len(outputs) /\ read' = read + n /\ lastSeq' = w.seq /\ chainHash' = w.hash /\ verified' = w.ok
          /\ writing' = {output.symbol : output \in Range(w.ok)} /\ sending' = (w.ok # <<>>)
          /\ UNCHANGED <<sot, derived>>
      BY <1>4, <2>2 DEF Receive
    <2>4. Follows(outputs, w, read + n)
      BY <1>1, <2>1, <2>2, <2>3, ReceiveFollows
    <2>5. w.ok \in Seq(Output) /\ Range(w.ok) \subseteq Rows
      BY <2>4 DEF Follows, Rows
    <2>6. PICK v : v = [seq |-> w.seq, hash |-> w.hash, ok |-> <<>>]
      OBVIOUS
    <2>7. Follows(outputs, v, read + n)
      BY <2>4, <2>6, FollowsHeld
    <2>8. Held' = v
      BY <2>3, <2>6 DEF Held
    <2>9. Follows(outputs, Held, read)'
      BY <1>2, <2>3, <2>7, <2>8
    <2>10. w.seq \in Nat /\ w.hash \in Chain
      <3>1. PICK m \in Nat : m = read + n
        BY <1>1, <2>1
      <3>2. QED
        BY <2>4, <3>1, FollowsTypes
    <2>11. {output.symbol : output \in Range(w.ok)} \subseteq Symbol
      BY <1>1, <2>5, HashType
    <2>12. read + n \in 0..Len(outputs)
      BY <1>1, <2>1, <2>3
    <2>13. SettlementTypeOK'
      BY <1>1, <1>2, <2>3, <2>5, <2>10, <2>11, <2>12 DEF SettlementTypeOK
    <2>14. QED
      BY <1>1, <1>3, <2>3, <2>5, <2>9, <2>13 DEF SettlementInv
  <1>5. ASSUME NEW s \in Symbol, WriteShard(s)
        PROVE  SettlementInv'
    <2>1. /\ writing' = writing \ {s} /\ sot' = Upsert(Shard(s))
          /\ UNCHANGED <<read, lastSeq, chainHash, verified, sending, derived>>
      BY <1>5 DEF WriteShard
    <2>2. sot' \subseteq Rows
      BY <1>1, <2>1 DEF Upsert, Shard
    <2>3. SettlementTypeOK'
      BY <1>1, <1>2, <2>1, <2>2 DEF SettlementTypeOK
    <2>4. QED
      BY <1>1, <1>2, <1>3, <2>1, <2>2, <2>3 DEF SettlementInv, Held
  <1>6. ASSUME NEW s \in Symbol, WriteFails(s)
        PROVE  SettlementInv'
    <2>1. writing' = writing \ {s} /\ UNCHANGED <<read, lastSeq, chainHash, verified, sending, sot, derived>>
      BY <1>6 DEF WriteFails
    <2>2. SettlementTypeOK'
      BY <1>1, <1>2, <2>1 DEF SettlementTypeOK
    <2>3. QED
      BY <1>1, <1>2, <1>3, <2>1, <2>2 DEF SettlementInv, Held
  <1>7. CASE Dispatch
    <2>1. /\ sending' = FALSE /\ derived' = derived \cup Range(verified)
          /\ UNCHANGED <<read, lastSeq, chainHash, verified, writing, sot>>
      BY <1>7 DEF Dispatch
    <2>2. SettlementTypeOK'
      BY <1>1, <1>2, <2>1 DEF SettlementTypeOK
    <2>3. QED
      BY <1>1, <1>2, <1>3, <2>1, <2>2 DEF SettlementInv, Held
  <1>8. CASE Stop
    <2>0. PICK chain \in LoadedStates : lastSeq' = chain.seq /\ chainHash' = chain.hash
      BY <1>8 DEF Stop
    <2>1. /\ read' = 0 /\ lastSeq' = chain.seq /\ chainHash' = chain.hash
          /\ verified' = <<>> /\ writing' = {} /\ sending' = FALSE /\ UNCHANGED <<sot, derived>>
      BY <1>8, <2>0 DEF Stop
    <2>2. PICK v : v = [seq |-> chain.seq, hash |-> chain.hash, ok |-> <<>>]
      OBVIOUS
    <2>3. Follows(outputs, v, 0)
      <3>1. CASE chain = Recovered
        BY <1>1, <2>2, <3>1, RecoveredFollows
      <3>2. CASE chain = [seq |-> 0, hash |-> GenesisHash]
        <4>1. v = [seq |-> 0, hash |-> GenesisHash, ok |-> <<>>]
          BY <2>2, <3>2
        <4>2. QED
          BY <1>1, <4>1, FreshFollows
      <3>3. QED
        BY <2>0, <3>1, <3>2 DEF LoadedStates
    <2>4. Held' = v
      BY <2>1, <2>2 DEF Held
    <2>5. v.seq \in Nat /\ v.hash \in Chain
      BY <2>3, FollowsTypes
    <2>6. SettlementTypeOK'
      <3>1. 0 \in 0..Len(outputs) /\ <<>> \in Seq(Output)
        BY <1>1
      <3>2. lastSeq' \in Nat /\ chainHash' \in Chain
        BY <2>1, <2>2, <2>5
      <3>3. QED
        BY <1>1, <1>2, <2>1, <3>1, <3>2 DEF SettlementTypeOK
    <2>7. Follows(outputs, Held, read)'
      BY <1>2, <2>1, <2>3, <2>4
    <2>8. Range(verified') = {}
      BY <2>1 DEF Range
    <2>9. QED
      BY <1>1, <1>3, <2>1, <2>6, <2>7, <2>8 DEF SettlementInv
  <1>9. QED
    BY <1>4, <1>5, <1>6, <1>7, <1>8 DEF SettlementNext

\* The invariant of server and service together.
PipelineInv == ServerInv /\ SettlementInv

\* Holds initially.
LEMMA PipelineInit ==
    Init => PipelineInv
  BY InitServer, InitSettlement DEF Init, PipelineInv

\* Every step keeps it.
LEMMA PipelineStep ==
    PipelineInv /\ [Next]_vars => PipelineInv'
  <1>1. SUFFICES ASSUME PipelineInv, [Next]_vars PROVE PipelineInv'
    OBVIOUS
  <1>2. ServerInv' /\ (outputs' = outputs \/ \E x \in Output : outputs' = Append(outputs, x))
    BY <1>1, ServerStep DEF PipelineInv
  <1>3. outputs \in Seq(Output) /\ SettlementInv
    BY <1>1 DEF PipelineInv, ServerInv, ServerTypes
  <1>4. CASE UNCHANGED settlementVars
    <2>1. CASE outputs' = outputs
      BY <1>2, <1>3, <1>4, <2>1 DEF PipelineInv, SettlementInv, SettlementTypeOK, settlementVars, Rows, Held
    <2>2. CASE \E x \in Output : outputs' = Append(outputs, x)
      BY <1>2, <1>3, <1>4, <2>2, SettlementGrows DEF PipelineInv
    <2>3. QED
      BY <1>2, <2>1, <2>2
  <1>5. CASE SettlementNext
    BY <1>2, <1>3, <1>5, SettlementSteps DEF PipelineInv
  <1>6. QED
    BY <1>1, <1>4, <1>5 DEF Next, vars

\* The invariant of the server and of the settlement service, for every size
\* of topic, ring, batch and cache and any number of faults.
THEOREM PipelineInvHolds == Spec => []PipelineInv
  <1>1. QED
    BY PipelineInit, PipelineStep, PTL DEF Spec

\* Type correctness of server and service: in particular the cursors of the
\* ring stay in order and within its size, and the engine's output number
\* within the number of messages.
THEOREM TypeCorrect == Spec => []TypeOK
  <1>1. PipelineInv => TypeOK
    <2>1. SUFFICES ASSUME PipelineInv PROVE TypeOK
      OBVIOUS
    <2>2. /\ ServerTypes /\ Cursors /\ Counted /\ SettlementTypeOK
          /\ MaxMessages \in Nat /\ BatchSize \in Nat /\ RingSize \in Nat
      BY <2>1, ServerAssumption, OutputAssumption DEF PipelineInv, ServerInv, SettlementInv
    <2>3. topic \in Seq(Orders \cup {Bad}) /\ Len(topic) = MaxMessages
      BY <2>2 DEF ServerTypes
    <2>4. \A i \in DOMAIN ring : /\ ring[i].orders \in Seq(Orders) /\ ring[i].offset \in 0..MaxMessages
                                 /\ ring[i].outputs \in Seq(Output)
      BY <2>2 DEF ServerTypes, Event
    <2>5. /\ sent \in Nat /\ matched \in Nat /\ published \in Nat /\ at \in Nat /\ out \in Nat
          /\ sent <= matched /\ matched <= published /\ outputSeq \in Nat /\ position \in 0..MaxMessages
      BY <2>2 DEF ServerTypes, Cursors
    <2>6. Slot(matched) \in 0..RingSize - 1 /\ Slot(sent) \in 0..RingSize - 1
      BY <2>5, SlotFacts
    <2>7. /\ Len(Ev(matched).orders) \in Nat /\ Len(Ev(sent).outputs) \in Nat /\ Ev(matched).offset \in Nat
      BY <2>2, <2>5, EventFacts
    <2>8. at \in 0..BatchSize
      <3>1. CASE matched < published
        <4>1. at <= Len(Ev(matched).orders) /\ Len(Ev(matched).orders) <= BatchSize
          BY <2>2, <2>6, <3>1 DEF Cursors, Ev
        <4>2. QED
          BY <2>2, <2>5, <2>7, <4>1
      <3>2. CASE matched = published
        BY <2>2, <3>2 DEF Cursors
      <3>3. QED
        BY <2>5, <3>1, <3>2
    <2>9. out \in 0..BatchSize
      <3>1. CASE sent < matched
        <4>1. out <= Len(Ev(sent).outputs) /\ Len(Ev(sent).outputs) <= BatchSize
          BY <2>2, <2>6, <3>1 DEF Cursors, Ev
        <4>2. QED
          BY <2>2, <2>5, <2>7, <4>1
      <3>2. CASE sent = matched
        BY <2>2, <3>2 DEF Cursors
      <3>3. QED
        BY <2>5, <3>1, <3>2
    <2>10. outputSeq \in 0..MaxMessages
      <3>1. CASE matched < published
        <4>1. /\ outputSeq + (Len(Ev(matched).orders) - at) <= Ev(matched).offset /\ at <= Len(Ev(matched).orders)
              /\ Ev(matched).offset <= position
          BY <2>2, <2>5, <3>1 DEF Counted, Cursors
        <4>2. QED
          BY <2>2, <2>5, <2>7, <4>1
      <3>2. CASE matched = published
        BY <2>2, <2>5, <3>2 DEF Counted
      <3>3. QED
        BY <2>5, <3>1, <3>2
    <2>11. /\ 0 <= committed /\ committed <= position /\ position <= Len(topic)
           /\ 0 <= sent /\ sent <= matched /\ matched <= published /\ published - sent <= RingSize
      BY <2>2, <2>3, <2>5 DEF ServerTypes, Cursors
    <2>12. ServerTypeOK
      BY <2>2, <2>3, <2>4, <2>8, <2>9, <2>10, <2>11 DEF ServerTypes, ServerTypeOK
    <2>13. QED
      BY <2>2, <2>12 DEF TypeOK
  <1>2. QED
    BY <1>1, PipelineInvHolds, PTL

\* The source of truth never joins two histories: of two rows with consecutive
\* numbers the second carries the hash of the first, through any engine
\* restarts, lost and repeated outputs, failed writes and service restarts.
THEOREM RowsLinked == Spec => []SotLinked
  <1>1. PipelineInv => SotLinked
    <2>1. SUFFICES ASSUME PipelineInv PROVE SotLinked
      OBVIOUS
    <2>2. outputs \in Seq(Output) /\ sot \subseteq Rows
      BY <2>1 DEF PipelineInv, ServerInv, ServerTypes, SettlementInv
    <2>3. QED
      BY <2>2, RowsFacts DEF SotLinked
  <1>2. QED
    BY <1>1, PipelineInvHolds, PTL

-----------------------------------------------------------------------------
(***************************************************************************)
(* No order is executed twice.  The deduplicator's queue holds the last    *)
(* orders the engine has counted: an executed order stands in it at the    *)
(* distance of its number from the engine's, until it falls out.           *)
(***************************************************************************)

QueueLength == Len(dedup) = IF outputSeq < DedupSize THEN outputSeq ELSE DedupSize

Remembered ==
    \A i \in DOMAIN lastHash :
        /\ lastHash[i].seq \in 1..outputSeq
        /\ outputSeq - lastHash[i].seq < Len(dedup) =>
              dedup[Len(dedup) - (outputSeq - lastHash[i].seq)] = lastHash[i].order

OnceInv == QueueLength /\ Remembered /\ ExecutedOnce

\* An order that is counted pushes the others one place back.
LEMMA QueueMoves ==
    ASSUME ServerInv, OnceInv, NEW o \in Orders, dedup' = MarkProcessed(o), outputSeq' = outputSeq + 1
    PROVE  /\ QueueLength' /\ Len(dedup') \in Nat /\ Len(dedup') >= 1 /\ dedup'[Len(dedup')] = o
           /\ \A i \in DOMAIN lastHash :
                 /\ lastHash[i].seq \in 1..outputSeq'
                 /\ outputSeq' - lastHash[i].seq < Len(dedup') =>
                       dedup'[Len(dedup') - (outputSeq' - lastHash[i].seq)] = lastHash[i].order
  <1>1. /\ dedup \in Seq(Orders) /\ Len(dedup) \in Nat /\ Len(dedup) <= DedupSize
        /\ outputSeq \in Nat /\ DedupSize \in Nat \ {0}
    BY ServerAssumption DEF ServerInv, ServerTypes
  <1>2. PICK d, D, N, L : d = dedup' /\ D = DedupSize /\ N = outputSeq /\ L = Len(dedup)
    OBVIOUS
  <1>3. /\ d \in Seq(Orders) /\ Len(d) <= D /\ Len(d) >= 1 /\ d[Len(d)] = o /\ Len(d) \in Nat
        /\ L < D => Len(d) = L + 1 /\ \A i \in 1..L : d[i] = dedup[i]
        /\ L = D => Len(d) = D /\ \A i \in 1..(Len(d) - 1) : d[i] = dedup[i + 1]
    BY SMTT(30), <1>1, <1>2, MarkFacts
  <1>4. L \in Nat /\ N \in Nat /\ D \in Nat /\ D # 0 /\ L <= D /\ L = (IF N < D THEN N ELSE D)
    BY <1>1, <1>2 DEF OnceInv, QueueLength
  <1>5. Len(d) = IF N + 1 < D THEN N + 1 ELSE D
    BY <1>3, <1>4
  <1>6. ASSUME NEW i \in DOMAIN lastHash
        PROVE  /\ lastHash[i].seq \in 1..(N + 1)
               /\ (N + 1) - lastHash[i].seq < Len(d) => d[Len(d) - ((N + 1) - lastHash[i].seq)] = lastHash[i].order
    <2>1. PICK q, a : q = lastHash[i].seq /\ a = lastHash[i].order
      OBVIOUS
    <2>2. q \in 1..N /\ (N - q < L => dedup[L - (N - q)] = a)
      BY <1>2, <2>1 DEF OnceInv, Remembered
    <2>3. ASSUME (N + 1) - q < Len(d)
          PROVE  d[Len(d) - ((N + 1) - q)] = a
      <3>1. CASE L < D
        <4>1. L = N /\ Len(d) = N + 1
          BY <1>3, <1>4, <3>1
        <4>2. Len(d) - ((N + 1) - q) = q /\ N - q < L /\ L - (N - q) = q /\ q \in 1..L
          BY <1>4, <2>2, <4>1
        <4>3. QED
          BY <1>3, <2>2, <3>1, <4>2
      <3>2. CASE L = D
        <4>1. Len(d) = D
          BY <1>3, <3>2
        <4>2. PICK j : j = Len(d) - ((N + 1) - q)
          OBVIOUS
        <4>3. j \in 1..(Len(d) - 1) /\ j + 1 = L - (N - q) /\ N - q < L
          BY <1>4, <2>2, <2>3, <3>2, <4>1, <4>2
        <4>4. d[j] = dedup[j + 1]
          BY <1>3, <3>2, <4>3
        <4>5. QED
          BY <2>2, <4>2, <4>3, <4>4
      <3>3. QED
        BY <1>4, <3>1, <3>2
    <2>4. q \in 1..(N + 1)
      BY <1>4, <2>2
    <2>5. QED
      BY <2>1, <2>3, <2>4
  <1>7. /\ Len(dedup') = Len(d) /\ outputSeq' = N + 1
        /\ \A i \in DOMAIN lastHash :
              /\ lastHash[i].seq \in 1..outputSeq'
              /\ outputSeq' - lastHash[i].seq < Len(dedup') =>
                    dedup'[Len(dedup') - (outputSeq' - lastHash[i].seq)] = lastHash[i].order
    <2>1. outputSeq' = N + 1 /\ dedup' = d
      BY <1>2
    <2>2. QED
      BY <1>6, <2>1, Zenon
  <1>8. QueueLength'
    BY <1>2, <1>5, <1>7 DEF QueueLength
  <1>9. QED
    BY <1>2, <1>3, <1>7, <1>8

\* The engine's history with one more entry.
LEMMA ChainGrows ==
    ASSUME ServerInv, NEW x \in Output, x.prev = lastHash, lastHash' = Hash(x)
    PROVE  /\ Len(lastHash) \in Nat /\ Len(lastHash') = Len(lastHash) + 1
           /\ DOMAIN lastHash = 1..Len(lastHash) /\ DOMAIN lastHash' = 1..(Len(lastHash) + 1)
           /\ \A i \in 1..Len(lastHash) : lastHash'[i] = lastHash[i]
           /\ lastHash'[Len(lastHash) + 1].seq = x.seq /\ lastHash'[Len(lastHash) + 1].order = x.order
  <1>1. PICK h, e, S : h = lastHash /\ e = [seq |-> x.seq, order |-> x.order, symbol |-> x.symbol]
                       /\ S = [seq : Nat, order : Orders, symbol : Symbol]
    OBVIOUS
  <1>2. h \in Seq(S)
    BY <1>1 DEF ServerInv, ServerTypes, Chain
  <1>3. e \in S /\ e.seq = x.seq /\ e.order = x.order
    BY <1>1, HashType
  <1>4. lastHash' = Append(h, e)
    BY <1>1 DEF Hash
  <1>5. QED
    BY <1>1, <1>2, <1>3, <1>4

\* The matcher does not execute what the queue remembers.
LEMMA MatchOnce ==
    ASSUME ServerInv, OnceInv, MatchOrder
    PROVE  OnceInv'
  <1>1. ServerTypes /\ Coming \in Orders /\ outputSeq \in Nat /\ Len(dedup) \in Nat /\ DedupSize \in Nat
    BY ServerAssumption, MatchFacts DEF ServerInv, ServerTypes
  <1>2. CASE UNCHANGED <<dedup, outputSeq, lastHash, active, built>>
    BY <1>2 DEF OnceInv, QueueLength, Remembered, ExecutedOnce
  <1>3. CASE Coming \notin Range(dedup) /\ dedup' = MarkProcessed(Coming) /\ outputSeq' = outputSeq + 1
    <2>1. PICK o \in Orders : o = Coming
      BY <1>1
    <2>2. /\ QueueLength' /\ Len(dedup') \in Nat /\ Len(dedup') >= 1 /\ dedup'[Len(dedup')] = o
          /\ \A i \in DOMAIN lastHash :
                /\ lastHash[i].seq \in 1..outputSeq'
                /\ outputSeq' - lastHash[i].seq < Len(dedup') =>
                       dedup'[Len(dedup') - (outputSeq' - lastHash[i].seq)] = lastHash[i].order
      BY <1>3, <2>1, QueueMoves
    <2>3. CASE UNCHANGED <<lastHash, active, built>>
      BY <2>2, <2>3 DEF OnceInv, Remembered, ExecutedOnce
    <2>4. CASE Taken
      <3>1. PICK x \in Output : x.seq = outputSeq + 1 /\ x.prev = lastHash /\ x.order = Coming /\ lastHash' = Hash(x)
        BY <2>4 DEF Taken
      <3>2. PICK n : n = Len(lastHash) + 1
        OBVIOUS
      <3>3. /\ n \in Nat /\ DOMAIN lastHash = 1..(n - 1) /\ DOMAIN lastHash' = 1..n
            /\ \A i \in 1..(n - 1) : lastHash'[i] = lastHash[i]
            /\ lastHash'[n].seq = outputSeq + 1 /\ lastHash'[n].order = o
        BY <2>1, <3>1, <3>2, ChainGrows
      <3>4. \A i \in 1..n : i \in 1..(n - 1) \/ i = n
        BY <3>3
      <3>5. Remembered'
        <4>1. ASSUME NEW i \in 1..n
              PROVE  /\ lastHash'[i].seq \in 1..outputSeq'
                     /\ outputSeq' - lastHash'[i].seq < Len(dedup') =>
                           dedup'[Len(dedup') - (outputSeq' - lastHash'[i].seq)] = lastHash'[i].order
          <5>1. CASE i \in 1..(n - 1)
            BY <2>2, <3>3, <5>1
          <5>2. CASE i = n
            <6>1. lastHash'[i].seq = outputSeq' /\ outputSeq' \in 1..outputSeq'
              BY <1>1, <1>3, <3>3, <5>2
            <6>2. Len(dedup') - (outputSeq' - lastHash'[i].seq) = Len(dedup')
              BY <1>1, <1>3, <2>2, <6>1
            <6>3. QED
              BY <2>2, <3>3, <5>2, <6>1, <6>2
          <5>3. QED
            BY <3>4, <5>1, <5>2
        <4>2. QED
          BY <3>3, <4>1 DEF Remembered
      <3>6. ASSUME NEW i \in 1..(n - 1), lastHash[i].order = o
            PROVE  (outputSeq + 1) - lastHash[i].seq > DedupSize
        <4>1. PICK q, L : q = lastHash[i].seq /\ L = Len(dedup)
          OBVIOUS
        <4>2. q \in 1..outputSeq /\ (outputSeq - q < L => dedup[L - (outputSeq - q)] = o)
          BY <3>3, <3>6, <4>1 DEF OnceInv, Remembered
        <4>3. ~(outputSeq - q < L)
          <5>1. SUFFICES ASSUME outputSeq - q < L PROVE FALSE
            OBVIOUS
          <5>2. L - (outputSeq - q) \in 1..L /\ L \in Nat
            BY <1>1, <4>1, <4>2, <5>1
          <5>3. DOMAIN dedup = 1..L
            BY <1>1, <4>1 DEF ServerTypes
          <5>4. o \in Range(dedup)
            BY <4>2, <5>1, <5>2, <5>3 DEF Range
          <5>5. QED
            BY <1>3, <2>1, <5>4
        <4>4. L = (IF outputSeq < DedupSize THEN outputSeq ELSE DedupSize)
          BY <4>1 DEF OnceInv, QueueLength
        <4>5. QED
          BY <1>1, <4>1, <4>2, <4>3, <4>4
      <3>7. ExecutedOnce'
        <4>1. SUFFICES ASSUME NEW i \in 1..n, NEW j \in 1..n, i < j, lastHash'[i].order = lastHash'[j].order
                       PROVE  lastHash'[j].seq - lastHash'[i].seq > DedupSize
          BY <3>3 DEF ExecutedOnce
        <4>2. i \in 1..(n - 1)
          BY <3>3, <4>1
        <4>3. CASE j = n
          <5>1. lastHash'[i] = lastHash[i] /\ lastHash'[j].seq = outputSeq + 1 /\ lastHash[i].order = o
            BY <3>3, <4>1, <4>2, <4>3
          <5>2. (outputSeq + 1) - lastHash[i].seq > DedupSize
            BY <3>6, <4>2, <5>1
          <5>3. QED
            BY <5>1, <5>2, Zenon
        <4>4. CASE j \in 1..(n - 1)
          <5>1. ExecutedOnce
            BY DEF OnceInv
          <5>2. QED
            BY <3>3, <4>1, <4>2, <4>4, <5>1 DEF ExecutedOnce
        <4>5. QED
          BY <3>4, <4>3, <4>4
      <3>8. QED
        BY <2>2, <3>5, <3>7 DEF OnceInv
    <2>5. QED
      BY <1>1, <1>3, <2>3, <2>4, MatchFacts
  <1>4. QED
    BY <1>1, <1>2, <1>3, MatchFacts

\* A new engine remembers and has executed nothing.
LEMMA EmptyOnce ==
    ASSUME outputSeq = 0, lastHash = GenesisHash, dedup = <<>>
    PROVE  OnceInv
  <1>1. DOMAIN lastHash = {} /\ Len(dedup) = 0
    BY DEF GenesisHash
  <1>2. DedupSize \in Nat \ {0}
    BY ServerAssumption
  <1>3. QED
    BY <1>1, <1>2 DEF OnceInv, QueueLength, Remembered, ExecutedOnce

\* The deduplicator's queue and the engine's history agree at all times.
THEOREM OnceInvHolds == Spec => []OnceInv
  <1>1. Init => OnceInv
    BY EmptyOnce DEF Init, ServerInit, MemoryInit, EngineInit
  <1>2. PipelineInv /\ OnceInv /\ [Next]_vars => OnceInv'
    <2>1. SUFFICES ASSUME PipelineInv, OnceInv, [Next]_vars PROVE OnceInv'
      OBVIOUS
    <2>2. CASE MatchOrder
      BY <2>1, <2>2, MatchOnce DEF PipelineInv
    <2>3. CASE Restart
      <3>1. outputSeq' = 0 /\ lastHash' = GenesisHash /\ dedup' = <<>>
        BY <2>3 DEF Restart
      <3>2. DOMAIN lastHash' = {} /\ Len(dedup') = 0
        BY <3>1 DEF GenesisHash
      <3>3. DedupSize \in Nat \ {0}
        BY ServerAssumption
      <3>4. QED
        BY <3>1, <3>2, <3>3 DEF OnceInv, QueueLength, Remembered, ExecutedOnce
    <2>4. CASE UNCHANGED <<outputSeq, lastHash, dedup>>
      BY <2>1, <2>4 DEF OnceInv, QueueLength, Remembered, ExecutedOnce
    <2>5. MatchOrder \/ Restart \/ UNCHANGED <<outputSeq, lastHash, dedup>>
      BY <2>1 DEF Next, ServerNext, Poll, MatchDone, PublishOutput, PublishDone, vars, serverVars, memory
    <2>6. QED
      BY <2>2, <2>3, <2>4, <2>5
  <1>3. QED
    BY <1>1, <1>2, PipelineInvHolds, PTL DEF Spec

\* An order that is delivered again is not executed again in the life of an
\* engine, unless the deduplicator has counted DedupSize others since.
THEOREM NoDoubleExecution == Spec => []ExecutedOnce
  <1>1. OnceInv => ExecutedOnce
    BY DEF OnceInv
  <1>2. QED
    BY <1>1, OnceInvHolds, PTL

-----------------------------------------------------------------------------
(***************************************************************************)
(* No committed order is lost.  An order the poll thread has read is in    *)
(* the topic engine.outputs, or in the outputs of an event on its way to   *)
(* the publisher, or in the event the matcher is at, or still to be        *)
(* matched; and it is no further back than the first event whose offset    *)
(* covers it.                                                              *)
(***************************************************************************)

\* the outputs s report order o
Sends(s, o) == \E x \in Range(s) : x.order = o

\* o is in the topic, or waits for the publisher in an event up to k
Waits(o, k) == Sends(outputs, o) \/ \E e \in sent..k : e < matched /\ Sends(Ev(e).outputs, o)

\* o is still to be matched, in an event up to k
ToMatch(o, k) ==
    \E f \in matched..k : \E j \in 1..Len(Ev(f).orders) : (f = matched => j > at) /\ Ev(f).orders[j] = o

Safe(o, k) == Waits(o, k) \/ Sends(built, o) \/ ToMatch(o, k)

MatchedSafe ==
    \A e \in sent..matched - 1 : \A i \in 1..Ev(e).offset : \A o \in Orders : topic[i] = o => Waits(o, e)

QueuedSafe ==
    \A e \in matched..published - 1 : \A i \in 1..Ev(e).offset : \A o \in Orders : topic[i] = o => Safe(o, e)

ReadSafe ==
    \A i \in 1..position : \A o \in Orders : topic[i] = o => Safe(o, published - 1)

KnownSafe ==
    \A o \in Orders : o \in Range(dedup) \cup active => Waits(o, matched - 1) \/ Sends(built, o)

SentSafe ==
    sent < matched => \A j \in 1..out : \A o \in Orders : Ev(sent).outputs[j].order = o => Sends(outputs, o)

CommittedSafe ==
    \A i \in 1..committed : \A o \in Orders : topic[i] = o => Sends(outputs, o)

AllSafe == MatchedSafe /\ QueuedSafe /\ ReadSafe /\ KnownSafe /\ SentSafe /\ CommittedSafe

DeliveredInv == faults["unsent"] = 0 => AllSafe

\* An event further on covers no less.
LEMMA SafeLater ==
    ASSUME NEW o, NEW k \in Int, NEW m \in Int, k <= m, sent \in Nat, matched \in Nat
    PROVE  (Waits(o, k) => Waits(o, m)) /\ (Safe(o, k) => Safe(o, m))
  <1>1. (\A e \in sent..k : e \in sent..m) /\ (\A e \in matched..k : e \in matched..m)
    OBVIOUS
  <1>2. Waits(o, k) => Waits(o, m)
    BY <1>1 DEF Waits
  <1>3. ToMatch(o, k) => ToMatch(o, m)
    BY <1>1 DEF ToMatch
  <1>4. QED
    BY <1>2, <1>3 DEF Safe

\* Outputs are only added.
LEMMA SendsMore ==
    ASSUME NEW s \in Seq(Output), NEW x \in Output
    PROVE  \A o : Sends(Append(s, x), o) <=> Sends(s, o) \/ x.order = o
  <1>1. Range(Append(s, x)) = Range(s) \cup {x}
    BY RangeAppend
  <1>2. QED
    BY <1>1 DEF Sends

\* Reading messages.
LEMMA PollSafe ==
    ASSUME ServerInv, AllSafe, NEW n \in 1..BatchSize, Poll(n)
    PROVE  AllSafe'
  <1>1. /\ ServerTypes /\ Cursors /\ n \in Nat
        /\ BatchSize \in Nat /\ RingSize \in Nat /\ MaxMessages \in Nat
        /\ sent \in Nat /\ matched \in Nat /\ published \in Nat /\ position \in Nat /\ at \in Nat
        /\ sent <= matched /\ matched <= published
    BY ServerAssumption, OutputAssumption DEF ServerInv, ServerTypes, Cursors
  <1>2. UNCHANGED <<topic, committed, matched, sent, built, at, out, outputSeq, lastHash, active, dedup, faults, outputs>>
    BY DEF Poll
  <1>3. position' = position + n /\ position + n <= MaxMessages
    BY <1>1, PollFacts
  <1>4. \A i \in 1..(position + n) : i \in 1..position \/ i \in (position + 1)..(position + n)
    BY <1>1
  <1>5. Bad \notin Orders
    BY ServerAssumption
  <1>6. CASE published' = published /\ ring' = ring /\ \A i \in (position + 1)..(position + n) : topic[i] = Bad
    <2>1. \A o, k : (Waits(o, k)' <=> Waits(o, k)) /\ (Safe(o, k)' <=> Safe(o, k))
      BY <1>2, <1>6 DEF Waits, Safe, ToMatch, Ev
    <2>2. MatchedSafe' /\ QueuedSafe' /\ KnownSafe' /\ SentSafe' /\ CommittedSafe'
      BY <1>2, <1>6, <2>1 DEF AllSafe, MatchedSafe, QueuedSafe, KnownSafe, SentSafe, CommittedSafe, Ev
    <2>3. ReadSafe'
      <3>1. \A i \in 1..(position + n) : \A o \in Orders : topic[i] = o => i \in 1..position
        BY <1>4, <1>5, <1>6
      <3>2. QED
        BY <1>2, <1>3, <1>6, <2>1, <3>1 DEF AllSafe, ReadSafe
    <2>4. QED
      BY <2>2, <2>3 DEF AllSafe
  <1>7. ASSUME published' = published + 1, published - sent < RingSize,
               NEW m \in (position + 1)..(position + n), NEW os \in Seq(Orders),
               PutOn(os, m),
               \A i \in (position + 1)..(position + n) : topic[i] # Bad => i <= m /\ topic[i] \in Range(os)
        PROVE  AllSafe'
    <2>1. m \in 0..MaxMessages /\ m <= position + n /\ m \in Nat
      BY <1>1, <1>3, <1>7
    <2>2. ring'[Slot(published)].orders = os /\ ring'[Slot(published)].offset = m
      BY <1>1, <1>7, <2>1, PutOnFacts
    <2>3. \A k \in sent..published - 1 : ring'[Slot(k)] = ring[Slot(k)]
      BY <1>7, <2>1, PollKeeps
    <2>4. ASSUME NEW o, NEW k \in Int
          PROVE  Waits(o, k) => Waits(o, k)'
      <3>1. ASSUME NEW e \in sent..k, e < matched
            PROVE  ring'[Slot(e)] = ring[Slot(e)]
        <4>1. e \in sent..published - 1
          BY <1>1, <3>1
        <4>2. QED
          BY <2>3, <4>1
      <3>2. QED
        BY <1>2, <3>1 DEF Waits, Ev
    <2>5. ASSUME NEW o, NEW k \in Int, k <= published - 1
          PROVE  Safe(o, k) => Safe(o, k)'
      <3>1. \A f \in matched..k : ring'[Slot(f)] = ring[Slot(f)]
        <4>1. \A f \in matched..k : f \in sent..published - 1
          BY <1>1, <2>5
        <4>2. QED
          BY <2>3, <4>1
      <3>2. ToMatch(o, k) => ToMatch(o, k)'
        BY <1>2, <3>1 DEF ToMatch, Ev
      <3>3. QED
        BY <1>2, <2>4, <3>2 DEF Safe
    <2>6. PICK p \in Nat : p = published
      BY <1>1
    <2>7. ASSUME NEW o \in Orders, NEW i \in 1..(position + n), topic[i] = o
          PROVE  Safe(o, p)'
      <3>1. CASE i \in 1..position
        <4>1. PICK k \in Int : k = published - 1
          BY <1>1
        <4>2. Safe(o, k)
          BY <2>7, <3>1, <4>1 DEF AllSafe, ReadSafe
        <4>3. Safe(o, k)'
          BY <1>1, <2>5, <4>1, <4>2
        <4>4. (\A e \in sent..k : e \in sent..p) /\ (\A e \in matched..k : e \in matched..p)
          BY <1>1, <2>6, <4>1
        <4>5. QED
          BY <1>2, <4>3, <4>4 DEF Safe, Waits, ToMatch
      <3>2. CASE i \in (position + 1)..(position + n)
        <4>1. o \in Range(os)
          BY <1>5, <1>7, <2>7, <3>2
        <4>2. PICK j \in 1..Len(os) : os[j] = o
          BY <4>1 DEF Range
        <4>3. p = matched => j > at
          BY <1>1, <2>6, <4>2 DEF Cursors
        <4>4. p \in matched..p
          BY <1>1, <2>6
        <4>5. ToMatch(o, p)'
          BY <1>2, <2>2, <2>6, <4>2, <4>3, <4>4 DEF ToMatch, Ev
        <4>6. QED
          BY <4>5 DEF Safe
      <3>3. QED
        BY <1>4, <2>7, <3>1, <3>2
    <2>8. ReadSafe'
      <3>1. published' - 1 = p
        BY <1>1, <1>7, <2>6
      <3>2. SUFFICES ASSUME NEW i \in 1..(position + n), NEW o \in Orders, topic[i] = o
                     PROVE  Safe(o, published - 1)'
        BY <1>2, <1>3 DEF ReadSafe
      <3>3. Safe(o, p)'
        BY <2>7, <3>2
      <3>4. QED
        BY <3>1, <3>3 DEF Safe, Waits, ToMatch
    <2>9. QueuedSafe'
      <3>1. SUFFICES ASSUME NEW e \in matched..p, NEW i \in 1..ring'[Slot(e)].offset, NEW o \in Orders, topic[i] = o
                     PROVE  Safe(o, e)'
        <4>1. published' - 1 = p
          BY <1>1, <1>7, <2>6
        <4>2. QED
          BY <1>2, <4>1 DEF QueuedSafe, Ev
      <3>2. CASE e = p
        <4>1. i \in 1..(position + n)
          BY <1>1, <2>1, <2>2, <2>6, <3>2
        <4>2. QED
          BY <2>7, <3>1, <3>2, <4>1
      <3>3. CASE e # p
        <4>1. e \in sent..published - 1 /\ e \in matched..published - 1 /\ e \in Int /\ e <= published - 1
          BY <1>1, <2>6, <3>3
        <4>2. ring'[Slot(e)] = ring[Slot(e)]
          BY <2>3, <4>1
        <4>3. Safe(o, e)
          BY <3>1, <4>1, <4>2 DEF AllSafe, QueuedSafe, Ev
        <4>4. QED
          BY <2>5, <4>1, <4>3
      <3>4. QED
        BY <3>2, <3>3
    <2>10. MatchedSafe'
      <3>1. SUFFICES ASSUME NEW e \in sent..matched - 1, NEW i \in 1..ring'[Slot(e)].offset, NEW o \in Orders, topic[i] = o
                     PROVE  Waits(o, e)'
        BY <1>2 DEF MatchedSafe, Ev
      <3>2. e \in sent..published - 1 /\ e \in Int
        BY <1>1
      <3>3. ring'[Slot(e)] = ring[Slot(e)]
        BY <2>3, <3>2
      <3>4. Waits(o, e)
        BY <3>1, <3>3 DEF AllSafe, MatchedSafe, Ev
      <3>5. QED
        BY <2>4, <3>2, <3>4
    <2>11. KnownSafe'
      <3>1. SUFFICES ASSUME NEW o \in Orders, o \in Range(dedup) \cup active
                     PROVE  Waits(o, matched - 1)' \/ Sends(built, o)'
        BY <1>2 DEF KnownSafe
      <3>2. PICK k \in Int : k = matched - 1
        BY <1>1
      <3>3. Waits(o, k) \/ Sends(built, o)
        BY <3>1, <3>2 DEF AllSafe, KnownSafe
      <3>4. Waits(o, k)' \/ Sends(built, o)'
        BY <1>2, <2>4, <3>3
      <3>5. QED
        BY <1>2, <3>2, <3>4 DEF Waits
    <2>12. SentSafe'
      <3>1. SUFFICES ASSUME sent < matched, NEW j \in 1..out, NEW o \in Orders, ring'[Slot(sent)].outputs[j].order = o
                     PROVE  Sends(outputs, o)
        BY <1>2 DEF SentSafe, Ev
      <3>2. sent \in sent..published - 1
        BY <1>1, <3>1
      <3>3. QED
        BY <2>3, <3>1, <3>2 DEF AllSafe, SentSafe, Ev
    <2>13. CommittedSafe'
      BY <1>2 DEF AllSafe, CommittedSafe
    <2>14. QED
      BY <2>8, <2>9, <2>10, <2>11, <2>12, <2>13 DEF AllSafe
  <1>8. QED
    BY <1>1, <1>6, <1>7, PollFacts

\* Matching an order: what the engine does not take, it knows.
LEMMA MatchOrderSafe ==
    ASSUME ServerInv, AllSafe, MatchOrder
    PROVE  AllSafe'
  <1>1. /\ ServerTypes /\ sent \in Nat /\ matched \in Nat /\ published \in Nat /\ at \in Nat
        /\ sent <= matched /\ matched < published /\ built \in Seq(Output)
        /\ at' = at + 1 /\ Coming \in Orders /\ Ev(matched).orders \in Seq(Orders)
        /\ dedup \in Seq(Orders) /\ Len(dedup) <= DedupSize
    BY MatchFacts DEF ServerInv, ServerTypes, Cursors
  <1>2. UNCHANGED <<topic, committed, position, ring, published, matched, sent, out, faults, outputs>>
    BY DEF MatchOrder
  <1>3. PICK c \in Orders, b \in Int : c = Coming /\ b = matched - 1
    BY <1>1
  <1>4. \A o, k : Waits(o, k)' <=> Waits(o, k)
    BY <1>2 DEF Waits, Ev
  <1>5. /\ \A o : Sends(built, o) => Sends(built, o)'
        /\ Range(dedup') \subseteq Range(dedup) \cup {c} /\ active' \subseteq active \cup {c}
        /\ Waits(c, b) \/ Sends(built, c)'
    <2>1. ASSUME c \in Range(dedup) \cup active
          PROVE  Waits(c, b) \/ Sends(built, c)
      BY <1>3, <2>1 DEF AllSafe, KnownSafe
    <2>2. PICK d : d = MarkProcessed(c)
      OBVIOUS
    <2>3. Range(d) \subseteq Range(dedup) \cup {c}
      BY <1>1, <1>3, <2>2, MarkFacts
    <2>4. CASE c \in Range(dedup) /\ UNCHANGED <<dedup, outputSeq, lastHash, active, built>>
      <3>1. \A o : Sends(built, o)' <=> Sends(built, o)
        BY <2>4
      <3>2. QED
        BY <2>1, <2>4, <3>1
    <2>5. CASE dedup' = d /\ c \in active /\ UNCHANGED <<lastHash, active, built>>
      <3>1. \A o : Sends(built, o)' <=> Sends(built, o)
        BY <2>5
      <3>2. QED
        BY <2>1, <2>3, <2>5, <3>1
    <2>6. CASE dedup' = d /\ Taken
      <3>1. PICK x \in Output : x.order = Coming /\ built' = Append(built, x) /\ active' \subseteq active \cup {Coming}
        BY <2>6 DEF Taken
      <3>s. PICK s \in Seq(Output) : s = built
        BY <1>1
      <3>2. PICK t : s = built /\ t = Append(s, x)
        BY <3>s
      <3>3. \A o : Sends(t, o) <=> Sends(s, o) \/ x.order = o
        BY <3>2, SendsMore
      <3>4. built' = t
        BY <3>1, <3>2
      <3>5. QED
        BY <1>3, <2>3, <2>6, <3>1, <3>2, <3>3, <3>4
    <2>7. QED
      BY <1>1, <1>3, <2>2, <2>4, <2>5, <2>6, MatchFacts
  <1>6. ASSUME NEW o, NEW k \in Int, k >= matched
        PROVE  Safe(o, k) => Safe(o, k)'
    <2>1. CASE Waits(o, k)
      BY <1>4, <2>1 DEF Safe
    <2>2. CASE Sends(built, o)
      BY <1>5, <2>2 DEF Safe
    <2>3. CASE ToMatch(o, k)
      <3>0. PICK f \in matched..k : \E j \in 1..Len(Ev(f).orders) : (f = matched => j > at) /\ Ev(f).orders[j] = o
        BY <2>3 DEF ToMatch
      <3>1. PICK j \in 1..Len(Ev(f).orders) : (f = matched => j > at) /\ Ev(f).orders[j] = o
        BY <3>0
      <3>2. CASE f = matched /\ j = at + 1
        <4>1. o = c
          BY <1>3, <3>1, <3>2 DEF Coming, Ev
        <4>2. Waits(c, b) => Waits(c, k)
          BY <1>1, <1>3, <1>6, SafeLater
        <4>3. QED
          BY <1>4, <1>5, <4>1, <4>2 DEF Safe
      <3>3. CASE ~(f = matched /\ j = at + 1)
        <4>1. f = matched => j > at + 1
          <5>1. SUFFICES ASSUME f = matched PROVE j > at + 1
            OBVIOUS
          <5>2. j > at /\ j # at + 1 /\ j \in Int
            BY <1>1, <3>1, <3>3, <5>1
          <5>3. QED
            BY <1>1, <5>2
        <4>2. ToMatch(o, k)'
          BY <1>1, <1>2, <3>1, <4>1 DEF ToMatch, Ev
        <4>3. QED
          BY <4>2 DEF Safe
      <3>4. QED
        BY <3>2, <3>3
    <2>4. QED
      BY <2>1, <2>2, <2>3 DEF Safe
  <1>7. MatchedSafe'
    BY <1>2, <1>4 DEF AllSafe, MatchedSafe, Ev
  <1>8. QueuedSafe'
    <2>1. SUFFICES ASSUME NEW e \in matched..published - 1, NEW i \in 1..Ev(e).offset, NEW o \in Orders, topic[i] = o
                   PROVE  Safe(o, e)'
      BY <1>2 DEF QueuedSafe, Ev
    <2>2. Safe(o, e) /\ e \in Int /\ e >= matched
      BY <1>1, <2>1 DEF AllSafe, QueuedSafe
    <2>3. QED
      BY <1>6, <2>2
  <1>9. ReadSafe'
    <2>1. PICK k \in Int : k = published - 1
      BY <1>1
    <2>2. SUFFICES ASSUME NEW i \in 1..position, NEW o \in Orders, topic[i] = o
                   PROVE  Safe(o, published - 1)'
      BY <1>2 DEF ReadSafe
    <2>3. Safe(o, k) /\ k >= matched
      BY <1>1, <2>1, <2>2 DEF AllSafe, ReadSafe
    <2>4. Safe(o, k)'
      BY <1>6, <2>3
    <2>5. published' - 1 = k
      BY <1>2, <2>1
    <2>6. QED
      BY <2>4, <2>5 DEF Safe, Waits, ToMatch
  <1>10. KnownSafe'
    <2>1. SUFFICES ASSUME NEW o \in Orders, o \in Range(dedup') \cup active'
                   PROVE  Waits(o, matched - 1)' \/ Sends(built, o)'
      BY DEF KnownSafe
    <2>2. Waits(o, b) \/ Sends(built, o)'
      <3>1. CASE o = c
        BY <1>5, <3>1
      <3>2. CASE o \in Range(dedup) \cup active
        BY <1>3, <1>5, <3>2 DEF AllSafe, KnownSafe
      <3>3. QED
        BY <1>5, <2>1, <3>1, <3>2
    <2>3. matched' - 1 = b
      BY <1>2, <1>3
    <2>4. Waits(o, b)' \/ Sends(built, o)'
      BY <1>4, <2>2
    <2>5. QED
      BY <2>3, <2>4 DEF Waits
  <1>11. SentSafe' /\ CommittedSafe'
    BY <1>2 DEF AllSafe, SentSafe, CommittedSafe, Ev
  <1>12. QED
    BY <1>7, <1>8, <1>9, <1>10, <1>11 DEF AllSafe

\* Finishing an event: what was built is now its outputs.
LEMMA MatchDoneSafe ==
    ASSUME ServerInv, AllSafe, MatchDone
    PROVE  AllSafe'
  <1>1. /\ ServerTypes /\ Cursors /\ sent \in Nat /\ matched \in Nat /\ published \in Nat /\ at \in Nat
        /\ sent <= matched /\ built \in Seq(Output)
    BY DEF ServerInv, ServerTypes, Cursors
  <1>2. /\ UNCHANGED <<topic, committed, position, published, sent, out, outputSeq, lastHash, active, dedup, faults, outputs>>
        /\ matched < published /\ at = Len(Ev(matched).orders) /\ matched' = matched + 1 /\ at' = 0 /\ built' = <<>>
    BY DEF MatchDone, Ev
  <1>3. /\ ring'[Slot(matched)].orders = Ev(matched).orders
        /\ ring'[Slot(matched)].offset = Ev(matched).offset
        /\ built # <<>> => ring'[Slot(matched)].outputs = built
    BY <1>1, MatchDoneFacts DEF Ev
  <1>4. \A k \in sent..published - 1 : k # matched => ring'[Slot(k)] = ring[Slot(k)]
    BY MatchDoneKeeps
  <1>5. \A k \in sent..published - 1 :
           ring'[Slot(k)].orders = Ev(k).orders /\ ring'[Slot(k)].offset = Ev(k).offset
    BY <1>3, <1>4 DEF Ev
  <1>6. PICK b \in Nat : b = matched
    BY <1>1
  <1>7. ASSUME NEW o, NEW k \in Int
        PROVE  Waits(o, k) => Waits(o, k)'
    <2>1. ASSUME NEW e \in sent..k, e < matched
          PROVE  ring'[Slot(e)] = ring[Slot(e)] /\ e < matched'
      <3>1. e \in sent..published - 1 /\ e # matched /\ e < matched + 1
        BY <1>1, <1>2, <2>1
      <3>2. QED
        BY <1>2, <1>4, <3>1
    <2>2. QED
      BY <1>2, <2>1 DEF Waits, Ev
  <1>8. ASSUME NEW o, NEW k \in Int, k >= matched, Sends(built, o)
        PROVE  Waits(o, k)'
    <2>1. built # <<>>
      BY <1>8 DEF Sends, Range
    <2>2. b \in sent..k /\ b < matched + 1
      BY <1>1, <1>6, <1>8
    <2>3. Sends(ring'[Slot(b)].outputs, o)
      BY <1>3, <1>6, <1>8, <2>1
    <2>4. QED
      BY <1>2, <2>2, <2>3 DEF Waits, Ev
  <1>9. ASSUME NEW o, ToMatch(o, b)
        PROVE  FALSE
    <2>0. PICK f \in matched..b : \E j \in 1..Len(Ev(f).orders) : f = matched => j > at
      BY <1>9 DEF ToMatch
    <2>1. PICK j \in 1..Len(Ev(f).orders) : f = matched => j > at
      BY <2>0
    <2>2. f = matched
      BY <1>1, <1>6
    <2>3. Len(Ev(matched).orders) \in Nat
      BY <1>1, EventFacts
    <2>4. QED
      BY <1>2, <2>1, <2>2, <2>3
  <1>10. ASSUME NEW o, NEW k \in Int, k >= matched, k <= published - 1
         PROVE  Safe(o, k) => Safe(o, k)'
    <2>1. CASE Waits(o, k)
      BY <1>7, <2>1 DEF Safe
    <2>2. CASE Sends(built, o)
      BY <1>8, <1>10, <2>2 DEF Safe
    <2>3. CASE ToMatch(o, k)
      <3>0. PICK f \in matched..k : \E j \in 1..Len(Ev(f).orders) : (f = matched => j > at) /\ Ev(f).orders[j] = o
        BY <2>3 DEF ToMatch
      <3>1. PICK j \in 1..Len(Ev(f).orders) : (f = matched => j > at) /\ Ev(f).orders[j] = o
        BY <3>0
      <3>2. f # matched
        <4>1. Len(Ev(matched).orders) \in Nat
          BY <1>1, EventFacts
        <4>2. QED
          BY <1>2, <3>1, <4>1
      <3>3. f \in matched + 1..k /\ f \in sent..published - 1
        BY <1>1, <1>10, <3>1, <3>2
      <3>4. ring'[Slot(f)] = ring[Slot(f)]
        BY <1>4, <3>2, <3>3
      <3>5. j > 0
        OBVIOUS
      <3>6. ToMatch(o, k)'
        BY <1>2, <3>1, <3>3, <3>4, <3>5 DEF ToMatch, Ev
      <3>7. QED
        BY <3>6 DEF Safe
    <2>4. QED
      BY <2>1, <2>2, <2>3 DEF Safe
  <1>11. MatchedSafe'
    <2>1. SUFFICES ASSUME NEW e \in sent..b, NEW i \in 1..ring'[Slot(e)].offset, NEW o \in Orders, topic[i] = o
                   PROVE  Waits(o, e)'
      <3>1. matched' - 1 = b
        BY <1>1, <1>2, <1>6
      <3>2. QED
        BY <1>2, <3>1 DEF MatchedSafe, Ev
    <2>2. e \in sent..published - 1 /\ e \in Int
      BY <1>1, <1>2, <1>6
    <2>3. i \in 1..Ev(e).offset
      BY <1>5, <2>1, <2>2
    <2>4. CASE e = b
      <3>1. b \in matched..published - 1 /\ b >= matched
        BY <1>1, <1>2, <1>6
      <3>2. Safe(o, b)
        BY <2>1, <2>3, <2>4, <3>1 DEF AllSafe, QueuedSafe
      <3>3. Waits(o, b) \/ Sends(built, o)
        BY <1>9, <3>2 DEF Safe
      <3>4. Waits(o, b)'
        BY <1>7, <1>8, <3>1, <3>3
      <3>5. QED
        BY <2>4, <3>4
    <2>5. CASE e # b
      <3>1. e \in sent..matched - 1
        BY <1>1, <1>6, <2>5
      <3>2. Waits(o, e)
        BY <2>1, <2>3, <3>1 DEF AllSafe, MatchedSafe
      <3>3. QED
        BY <1>7, <2>2, <3>2
    <2>6. QED
      BY <2>4, <2>5
  <1>12. QueuedSafe'
    <2>1. SUFFICES ASSUME NEW e \in b + 1..published - 1, NEW i \in 1..ring'[Slot(e)].offset, NEW o \in Orders, topic[i] = o
                   PROVE  Safe(o, e)'
      BY <1>2, <1>6 DEF QueuedSafe, Ev
    <2>2. e \in sent..published - 1 /\ e \in matched..published - 1 /\ e \in Int /\ e >= matched /\ e <= published - 1
      BY <1>1, <1>6
    <2>3. i \in 1..Ev(e).offset
      BY <1>5, <2>1, <2>2
    <2>4. Safe(o, e)
      BY <2>1, <2>2, <2>3 DEF AllSafe, QueuedSafe
    <2>5. QED
      BY <1>10, <2>2, <2>4
  <1>13. ReadSafe'
    <2>1. PICK k \in Int : k = published - 1
      BY <1>1
    <2>2. SUFFICES ASSUME NEW i \in 1..position, NEW o \in Orders, topic[i] = o
                   PROVE  Safe(o, published - 1)'
      BY <1>2 DEF ReadSafe
    <2>3. Safe(o, k) /\ k >= matched /\ k <= published - 1
      BY <1>1, <1>2, <2>1, <2>2 DEF AllSafe, ReadSafe
    <2>4. Safe(o, k)'
      BY <1>10, <2>3
    <2>5. published' - 1 = k
      BY <1>2, <2>1
    <2>6. QED
      BY <2>4, <2>5 DEF Safe, Waits, ToMatch
  <1>14. KnownSafe'
    <2>1. SUFFICES ASSUME NEW o \in Orders, o \in Range(dedup) \cup active
                   PROVE  Waits(o, matched - 1)'
      BY <1>2 DEF KnownSafe
    <2>2. PICK k \in Int : k = matched - 1
      BY <1>1
    <2>3. Waits(o, k) \/ Sends(built, o)
      BY <2>1, <2>2 DEF AllSafe, KnownSafe
    <2>4. b \in Int /\ b >= matched /\ k <= b
      BY <1>1, <1>6, <2>2
    <2>5. Waits(o, k) => Waits(o, b)
      BY <1>1, <2>4, SafeLater
    <2>6. Waits(o, b)'
      BY <1>7, <1>8, <2>3, <2>4, <2>5
    <2>7. matched' - 1 = b
      BY <1>1, <1>2, <1>6
    <2>8. QED
      BY <2>6, <2>7 DEF Waits
  <1>15. SentSafe'
    <2>1. SUFFICES ASSUME NEW j \in 1..out, NEW o \in Orders, ring'[Slot(sent)].outputs[j].order = o
                   PROVE  Sends(outputs, o)
      BY <1>2 DEF SentSafe, Ev
    <2>2. CASE sent = matched
      <3>1. out = 0
        BY <1>1, <2>2 DEF Cursors
      <3>2. QED
        BY <2>1, <3>1
    <2>3. CASE sent < matched
      <3>1. sent \in sent..published - 1 /\ sent # matched
        BY <1>1, <1>2, <2>3
      <3>2. ring'[Slot(sent)] = ring[Slot(sent)]
        BY <1>4, <3>1
      <3>3. QED
        BY <2>1, <2>3, <3>2 DEF AllSafe, SentSafe, Ev
    <2>4. QED
      BY <1>1, <2>2, <2>3
  <1>16. CommittedSafe'
    BY <1>2 DEF AllSafe, CommittedSafe
  <1>17. QED
    BY <1>11, <1>12, <1>13, <1>14, <1>15, <1>16 DEF AllSafe

\* Sending an output.
LEMMA PublishOutputSafe ==
    ASSUME ServerInv, AllSafe, PublishOutput, outputs' = Append(outputs, Ev(sent).outputs[out + 1])
    PROVE  AllSafe'
  <1>1. /\ ServerTypes /\ sent \in Nat /\ matched \in Nat /\ published \in Nat /\ out \in Nat /\ outputs \in Seq(Output)
    BY DEF ServerInv, ServerTypes
  <1>2. /\ UNCHANGED <<topic, committed, position, ring, published, matched, sent,
                       built, at, outputSeq, lastHash, active, dedup>>
        /\ out' = out + 1
    BY DEF PublishOutput
  <1>3. PICK x \in Output : x = Ev(sent).outputs[out + 1]
    BY PublishOutputServer DEF Ev
  <1>4. \A o : Sends(outputs, o)' <=> Sends(outputs, o) \/ x.order = o
    <2>0. PICK s \in Seq(Output) : s = outputs
      BY <1>1
    <2>1. PICK t : s = outputs /\ t = Append(s, x)
      BY <2>0
    <2>2. \A o : Sends(t, o) <=> Sends(s, o) \/ x.order = o
      BY <2>1, SendsMore
    <2>3. outputs' = t
      BY <1>3, <2>1
    <2>4. QED
      BY <2>1, <2>2, <2>3
  <1>5. \A o, k : Waits(o, k) => Waits(o, k)'
    BY <1>2, <1>4 DEF Waits, Ev
  <1>6. \A o, k : Safe(o, k) => Safe(o, k)'
    BY <1>2, <1>5 DEF Safe, ToMatch, Ev
  <1>7. MatchedSafe'
    BY <1>2, <1>5 DEF AllSafe, MatchedSafe, Ev
  <1>8. QueuedSafe'
    BY <1>2, <1>6 DEF AllSafe, QueuedSafe, Ev
  <1>9. ReadSafe'
    <2>1. PICK k : k = published - 1
      OBVIOUS
    <2>2. \A i \in 1..position : \A o \in Orders : topic[i] = o => Safe(o, k)'
      BY <1>6, <2>1 DEF AllSafe, ReadSafe
    <2>3. published' - 1 = k
      BY <1>2, <2>1
    <2>4. QED
      BY <1>2, <2>2, <2>3 DEF ReadSafe, Safe, Waits, ToMatch
  <1>10. KnownSafe'
    <2>1. PICK k : k = matched - 1
      OBVIOUS
    <2>2. \A o \in Orders : o \in Range(dedup) \cup active => Waits(o, k)' \/ Sends(built, o)'
      BY <1>2, <1>5, <2>1 DEF AllSafe, KnownSafe
    <2>3. matched' - 1 = k
      BY <1>2, <2>1
    <2>4. QED
      BY <1>2, <2>2, <2>3 DEF KnownSafe, Waits
  <1>11. SentSafe'
    <2>1. SUFFICES ASSUME sent < matched, NEW j \in 1..(out + 1), NEW o \in Orders, Ev(sent).outputs[j].order = o
                   PROVE  Sends(outputs, o)'
      BY <1>2 DEF SentSafe, Ev
    <2>2. CASE j = out + 1
      BY <1>3, <1>4, <2>1, <2>2
    <2>3. CASE j # out + 1
      <3>1. j \in 1..out
        BY <1>1, <2>3
      <3>2. QED
        BY <1>4, <2>1, <3>1 DEF AllSafe, SentSafe
    <2>4. QED
      BY <2>2, <2>3
  <1>12. CommittedSafe'
    BY <1>2, <1>4 DEF AllSafe, CommittedSafe
  <1>13. QED
    BY <1>7, <1>8, <1>9, <1>10, <1>11, <1>12 DEF AllSafe

\* Storing the offset: every output of the event has been sent.
LEMMA PublishDoneSafe ==
    ASSUME ServerInv, AllSafe, PublishDone
    PROVE  AllSafe'
  <1>1. /\ ServerTypes /\ sent \in Nat /\ matched \in Nat /\ published \in Nat /\ out \in Nat
    BY DEF ServerInv, ServerTypes
  <1>2. /\ UNCHANGED <<topic, position, ring, published, matched, built, at,
                       outputSeq, lastHash, active, dedup, faults, outputs>>
        /\ sent < matched /\ out = Len(Ev(sent).outputs)
        /\ sent' = sent + 1 /\ out' = 0 /\ committed' \in {committed, Ev(sent).offset}
    BY DEF PublishDone, Ev
  <1>3. PICK b \in Nat, s \in Seq(Output) : b = sent /\ s = Ev(sent).outputs
    BY <1>1, EventFacts
  <1>4. \A o : Sends(s, o) => Sends(outputs, o)
    <2>1. SUFFICES ASSUME NEW o, Sends(s, o) PROVE Sends(outputs, o)
      OBVIOUS
    <2>2. PICK x \in Range(s) : x.order = o
      BY <2>1 DEF Sends
    <2>3. PICK j \in 1..Len(s) : s[j] = x
      BY <2>2 DEF Range
    <2>4. x \in Output /\ o \in Orders
      BY <2>2, <2>3, HashType
    <2>5. j \in 1..out /\ Ev(sent).outputs[j].order = o
      BY <1>2, <1>3, <2>2, <2>3
    <2>6. QED
      BY <1>2, <2>4, <2>5 DEF AllSafe, SentSafe
  <1>5. ASSUME NEW o, NEW k
        PROVE  Waits(o, k) => Waits(o, k)'
    <2>1. CASE Sends(outputs, o)
      BY <1>2, <2>1 DEF Waits
    <2>2. ASSUME NEW e \in sent..k, e < matched, Sends(Ev(e).outputs, o)
          PROVE  Waits(o, k)'
      <3>1. CASE e = sent
        BY <1>2, <1>3, <1>4, <2>2, <3>1 DEF Waits
      <3>2. CASE e # sent
        <4>1. e \in sent + 1..k
          BY <1>1, <2>2, <3>2
        <4>2. QED
          BY <1>2, <2>2, <4>1 DEF Waits, Ev
      <3>3. QED
        BY <3>1, <3>2
    <2>3. QED
      BY <2>1, <2>2 DEF Waits
  <1>6. \A o, k : Safe(o, k) => Safe(o, k)'
    BY <1>2, <1>5 DEF Safe, ToMatch, Ev
  <1>7. MatchedSafe'
    <2>1. SUFFICES ASSUME NEW e \in b + 1..matched - 1, NEW i \in 1..Ev(e).offset, NEW o \in Orders, topic[i] = o
                   PROVE  Waits(o, e)'
      BY <1>2, <1>3 DEF MatchedSafe, Ev
    <2>2. e \in sent..matched - 1
      BY <1>1, <1>3
    <2>3. Waits(o, e)
      BY <2>1, <2>2 DEF AllSafe, MatchedSafe
    <2>4. QED
      BY <1>5, <2>3
  <1>8. QueuedSafe'
    BY <1>2, <1>6 DEF AllSafe, QueuedSafe, Ev
  <1>9. ReadSafe'
    <2>1. PICK k : k = published - 1
      OBVIOUS
    <2>2. \A i \in 1..position : \A o \in Orders : topic[i] = o => Safe(o, k)'
      BY <1>6, <2>1 DEF AllSafe, ReadSafe
    <2>3. published' - 1 = k
      BY <1>2, <2>1
    <2>4. QED
      BY <1>2, <2>2, <2>3 DEF ReadSafe, Safe, Waits, ToMatch
  <1>10. KnownSafe'
    <2>1. PICK k : k = matched - 1
      OBVIOUS
    <2>2. \A o \in Orders : o \in Range(dedup) \cup active => Waits(o, k)' \/ Sends(built, o)'
      BY <1>2, <1>5, <2>1 DEF AllSafe, KnownSafe
    <2>3. matched' - 1 = k
      BY <1>2, <2>1
    <2>4. QED
      BY <1>2, <2>2, <2>3 DEF KnownSafe, Waits
  <1>11. SentSafe'
    <2>1. \A j \in 1..0 : FALSE
      OBVIOUS
    <2>2. QED
      BY <1>2, <2>1 DEF SentSafe
  <1>12. CommittedSafe'
    <2>1. CASE committed' = committed
      BY <1>2, <2>1 DEF AllSafe, CommittedSafe
    <2>2. CASE committed' = Ev(sent).offset
      <3>1. SUFFICES ASSUME NEW i \in 1..Ev(sent).offset, NEW o \in Orders, topic[i] = o
                     PROVE  Sends(outputs, o)
        BY <1>2, <2>2 DEF CommittedSafe
      <3>2. sent \in sent..matched - 1
        BY <1>1, <1>2
      <3>3. Waits(o, b)
        BY <1>3, <3>1, <3>2 DEF AllSafe, MatchedSafe
      <3>4. \A e \in sent..b : e = sent
        BY <1>1, <1>3
      <3>5. QED
        BY <1>3, <1>4, <3>3, <3>4 DEF Waits
    <2>3. QED
      BY <1>2, <2>1, <2>2
  <1>13. QED
    BY <1>7, <1>8, <1>9, <1>10, <1>11, <1>12 DEF AllSafe

\* Starting again from the committed offset.
LEMMA RestartSafe ==
    ASSUME ServerInv, AllSafe, Restart
    PROVE  AllSafe'
  <1>1. /\ position' = committed /\ published' = 0 /\ matched' = 0 /\ sent' = 0
        /\ out' = 0 /\ active' = {} /\ dedup' = <<>> /\ UNCHANGED <<topic, committed, outputs>>
    BY DEF Restart
  <1>2. \A k \in 0..0 - 1 : FALSE
    OBVIOUS
  <1>3. MatchedSafe' /\ QueuedSafe'
    BY <1>1, <1>2 DEF MatchedSafe, QueuedSafe
  <1>4. CommittedSafe'
    BY <1>1 DEF AllSafe, CommittedSafe
  <1>5. ReadSafe'
    BY <1>1, <1>4 DEF ReadSafe, CommittedSafe, Safe, Waits
  <1>6. KnownSafe'
    <2>1. Range(dedup') = {}
      BY <1>1 DEF Range
    <2>2. QED
      BY <1>1, <2>1 DEF KnownSafe
  <1>7. SentSafe'
    BY <1>1 DEF SentSafe
  <1>8. QED
    BY <1>3, <1>4, <1>5, <1>6, <1>7 DEF AllSafe

\* Nothing changes for the server.
LEMMA SafeKept ==
    ASSUME AllSafe, UNCHANGED <<topic, committed, memory, outputs>>
    PROVE  AllSafe'
  BY DEF AllSafe, MatchedSafe, QueuedSafe, ReadSafe, KnownSafe, SentSafe, CommittedSafe, Safe, Waits, ToMatch, Ev, memory

\* An empty server has nothing to lose.
LEMMA InitSafe ==
    ASSUME ServerInit
    PROVE  AllSafe
  <1>1. /\ committed = 0 /\ position = 0 /\ published = 0 /\ matched = 0 /\ sent = 0 /\ out = 0
        /\ active = {} /\ dedup = <<>>
    BY DEF ServerInit, MemoryInit, EngineInit
  <1>2. (\A k \in 0..0 - 1 : FALSE) /\ (\A k \in 1..0 : FALSE)
    OBVIOUS
  <1>3. Range(dedup) = {}
    BY <1>1 DEF Range
  <1>4. QED
    BY <1>1, <1>2, <1>3 DEF AllSafe, MatchedSafe, QueuedSafe, ReadSafe, KnownSafe, SentSafe, CommittedSafe

\* Every step keeps it, as long as no output is refused.
LEMMA DeliveredStep ==
    PipelineInv /\ DeliveredInv /\ [Next]_vars => DeliveredInv'
  <1>1. SUFFICES ASSUME PipelineInv, DeliveredInv, [Next]_vars, faults'["unsent"] = 0 PROVE AllSafe'
    BY DEF DeliveredInv
  <1>2. ServerInv /\ faults \in [FaultKind -> 0..MaxFaults] /\ MaxFaults \in Nat
    BY <1>1, OutputAssumption DEF PipelineInv, ServerInv, ServerTypes
  <1>3. {"restart", "unsent", "stop", "sot"} = FaultKind
    BY DEF FaultKind
  <1>4. ~Fault("unsent")
    <2>1. SUFFICES ASSUME Fault("unsent") PROVE FALSE
      OBVIOUS
    <2>2. faults'["unsent"] = faults["unsent"] + 1 /\ faults["unsent"] \in Nat
      BY <1>2, <1>3, <2>1, FaultFacts
    <2>3. QED
      BY <1>1, <2>2
  <1>5. ASSUME UNCHANGED faults \/ Fault("restart") \/ Fault("stop") \/ Fault("sot")
        PROVE  AllSafe
    <2>1. ASSUME NEW k \in FaultKind, k # "unsent", Fault(k)
          PROVE  faults["unsent"] = 0
      BY <1>1, <1>2, <1>3, <2>1, FaultFacts
    <2>2. faults["unsent"] = 0
      BY <1>1, <1>3, <1>5, <2>1
    <2>3. QED
      BY <1>1, <2>2 DEF DeliveredInv
  <1>6. ASSUME NEW n \in 1..BatchSize, Poll(n)
        PROVE  AllSafe'
    <2>1. UNCHANGED faults
      BY <1>6 DEF Poll
    <2>2. QED
      BY <1>2, <1>5, <1>6, <2>1, PollSafe
  <1>7. CASE MatchOrder
    <2>1. UNCHANGED faults
      BY <1>7 DEF MatchOrder
    <2>2. QED
      BY <1>2, <1>5, <1>7, <2>1, MatchOrderSafe
  <1>8. CASE MatchDone
    <2>1. UNCHANGED faults
      BY <1>8 DEF MatchDone
    <2>2. QED
      BY <1>2, <1>5, <1>8, <2>1, MatchDoneSafe
  <1>9. CASE PublishOutput
    <2>1. UNCHANGED faults /\ outputs' = Append(outputs, Ev(sent).outputs[out + 1])
      BY <1>4, <1>9 DEF PublishOutput, Ev
    <2>2. QED
      BY <1>2, <1>5, <1>9, <2>1, PublishOutputSafe
  <1>10. CASE PublishDone
    <2>1. UNCHANGED faults
      BY <1>10 DEF PublishDone
    <2>2. QED
      BY <1>2, <1>5, <1>10, <2>1, PublishDoneSafe
  <1>11. CASE Restart
    <2>1. Fault("restart")
      BY <1>11 DEF Restart
    <2>2. QED
      BY <1>2, <1>5, <1>11, <2>1, RestartSafe
  <1>12. CASE SettlementNext /\ UNCHANGED <<topic, committed, memory>>
    <2>1. UNCHANGED outputs
      BY <1>12 DEF SettlementNext, Receive, WriteShard, WriteFails, Dispatch, Stop
    <2>2. UNCHANGED faults \/ Fault("sot") \/ Fault("stop")
      BY <1>12 DEF SettlementNext, Receive, WriteShard, WriteFails, Dispatch, Stop
    <2>3. QED
      BY <1>5, <1>12, <2>1, <2>2, SafeKept
  <1>13. CASE UNCHANGED vars
    <2>1. UNCHANGED <<topic, committed, memory, outputs, faults>>
      BY <1>13 DEF vars, serverVars
    <2>2. QED
      BY <1>5, <2>1, SafeKept
  <1>14. QED
    BY <1>1, <1>6, <1>7, <1>8, <1>9, <1>10, <1>11, <1>12, <1>13 DEF Next, ServerNext

\* The offset of an order is committed only when its output is in Kafka: a
\* crash anywhere between poll, matcher and publisher loses no order, unless
\* Kafka refused an output.
THEOREM NoOrderLost == Spec => []AtLeastOnce
  <1>1. Init => DeliveredInv
    BY InitSafe DEF Init, DeliveredInv
  <1>2. PipelineInv /\ DeliveredInv => AtLeastOnce
    <2>1. SUFFICES ASSUME PipelineInv, DeliveredInv, faults["unsent"] = 0, NEW i \in 1..committed, topic[i] # Bad
                   PROVE  \E k \in DOMAIN outputs : outputs[k].order = topic[i]
      BY DEF AtLeastOnce
    <2>2. /\ topic \in [1..MaxMessages -> Orders \cup {Bad}] /\ committed \in Nat /\ position \in 0..MaxMessages
          /\ committed <= position /\ MaxMessages \in Nat
      BY <2>1, OutputAssumption DEF PipelineInv, ServerInv, ServerTypes
    <2>3. i \in 1..MaxMessages
      BY <2>2
    <2>4. PICK o \in Orders : o = topic[i]
      BY <2>1, <2>2, <2>3
    <2>5. Sends(outputs, o)
      BY <2>1, <2>4 DEF DeliveredInv, AllSafe, CommittedSafe
    <2>6. QED
      BY <2>4, <2>5 DEF Sends, Range
  <1>3. QED
    BY <1>1, <1>2, DeliveredStep, PipelineInvHolds, PTL DEF Spec

-----------------------------------------------------------------------------
(***************************************************************************)
(* While both services are up and every write succeeds.  The engine's      *)
(* history lastHash is then the one history there is: every output is a    *)
(* prefix of it, and the topic takes them in its order, with repetitions   *)
(* where a reused slot of the ring sends old outputs again.                *)
(***************************************************************************)

\* the place of an output in the engine's history
Idx(x) == Len(x.prev) + 1

\* h is how the engine's history starts
Begins(h) == Len(h) <= Len(lastHash) /\ \A i \in 1..Len(h) : h[i] = lastHash[i]

Own(x) == Begins(Hash(x))

\* the chain state after the whole topic, and how much of the history it covers
Tip == Canon(outputs)[Len(outputs)]
Top == Len(Tip.hash)

\* the outputs of event e that the publisher has still to send
Pend(e) == {j \in 1..Len(Ev(e).outputs) : e = sent => j > out}

\* numbers grow along the history
Rising == \A i, j \in DOMAIN lastHash : i < j => lastHash[i].seq < lastHash[j].seq

\* all outputs anywhere are of the engine's history
AllOwn ==
    /\ \A i \in 0..RingSize - 1 : \A x \in Range(ring[i].outputs) : Own(x)
    /\ \A j \in 1..Len(built) : Own(built[j]) /\ Idx(built[j]) = (Len(lastHash) - Len(built)) + j

\* the topic covers the history from its start, and repeats only what it covers
HeadOwn ==
    /\ Begins(Tip.hash) /\ Tip.seq = IF Top = 0 THEN 0 ELSE lastHash[Top].seq
    /\ \A i \in 1..Top : \E r \in Rows : Own(r) /\ Idx(r) = i
    /\ \A k \in 1..Len(outputs) : outputs[k] \in Range(Canon(outputs)[k].ok)

\* what follows is on the ring, each output behind its predecessor
NoGap ==
    /\ \A i \in Top + 1..Len(lastHash) - Len(built) :
          \E e \in sent..matched - 1 : \E j \in Pend(e) : Idx(Ev(e).outputs[j]) = i
    /\ \A e \in sent..matched - 1 : \A j \in Pend(e) :
          Idx(Ev(e).outputs[j]) > Top + 1 =>
              \E f \in sent..e : \E k \in Pend(f) :
                  (f = e => k < j) /\ Idx(Ev(f).outputs[k]) = Idx(Ev(e).outputs[j]) - 1

\* what the publisher has sent, and what a slot that waits for its next event
\* still holds, is covered
OldCovered ==
    /\ sent < matched => \A j \in 1..out : Idx(Ev(sent).outputs[j]) <= Top
    /\ \A i \in 0..RingSize - 1 : (\A e \in sent..matched - 1 : Slot(e) # i) =>
          \A x \in Range(ring[i].outputs) : Idx(x) <= Top

ChainInv == Rising /\ AllOwn /\ HeadOwn /\ NoGap /\ OldCovered

\* An output of the history: its number, its place, and what comes before.
LEMMA OwnFacts ==
    ASSUME ServerTypes, NEW x \in Output
    PROVE  /\ Len(x.prev) \in Nat /\ Idx(x) \in Nat /\ Idx(x) >= 1 /\ Hash(x) \in Chain /\ Len(Hash(x)) = Idx(x)
           /\ Len(lastHash) \in Nat /\ DOMAIN lastHash = 1..Len(lastHash)
           /\ Own(x) => /\ Idx(x) <= Len(lastHash) /\ lastHash[Idx(x)].seq = x.seq
                        /\ \A i \in 1..Len(x.prev) : x.prev[i] = lastHash[i]
  <1>1. PICK h, e, S : h = x.prev /\ e = [seq |-> x.seq, order |-> x.order, symbol |-> x.symbol]
                       /\ S = [seq : Nat, order : Orders, symbol : Symbol]
    OBVIOUS
  <1>2. h \in Seq(S) /\ e \in S /\ e.seq = x.seq /\ x.prev \in Chain /\ Hash(x) \in Chain
    BY <1>1, HashType DEF Chain
  <1>3. lastHash \in Seq(S)
    BY <1>1 DEF ServerTypes, Chain
  <1>4. Hash(x) = Append(h, e)
    BY <1>1 DEF Hash
  <1>5. Len(h) \in Nat /\ Len(Hash(x)) = Len(h) + 1 /\ Idx(x) = Len(h) + 1
    BY <1>1, <1>2, <1>4 DEF Idx
  <1>6. Hash(x)[Len(h) + 1] = e /\ \A i \in 1..Len(h) : Hash(x)[i] = h[i]
    BY <1>2, <1>4
  <1>7. ASSUME Own(x)
        PROVE  /\ Idx(x) <= Len(lastHash) /\ lastHash[Idx(x)].seq = x.seq
               /\ \A i \in 1..Len(x.prev) : x.prev[i] = lastHash[i]
    <2>1. Idx(x) <= Len(lastHash) /\ \A i \in 1..(Len(h) + 1) : Hash(x)[i] = lastHash[i]
      BY <1>5, <1>7 DEF Own, Begins
    <2>2. Len(h) + 1 \in 1..(Len(h) + 1) /\ \A i \in 1..Len(h) : i \in 1..(Len(h) + 1)
      BY <1>5
    <2>3. lastHash[Idx(x)] = e
      BY <1>5, <1>6, <2>1, <2>2
    <2>4. QED
      BY <1>1, <1>2, <1>6, <2>1, <2>2, <2>3
  <1>8. QED
    BY <1>1, <1>2, <1>3, <1>5, <1>7

\* Two beginnings of the same length are the same.
LEMMA SameBeginning ==
    ASSUME NEW g \in Chain, NEW h \in Chain, Begins(g), Begins(h), Len(g) = Len(h)
    PROVE  g = h
  <1>1. \A i \in 1..Len(g) : g[i] = h[i]
    BY DEF Begins
  <1>2. QED
    BY <1>1 DEF Chain

\* An output is determined by its place.
LEMMA SameOutput ==
    ASSUME ServerTypes, NEW x \in Output, NEW y \in Output, Own(x), Own(y), Idx(x) = Idx(y)
    PROVE  x = y
  <1>1. Hash(x) = Hash(y)
    BY OwnFacts, SameBeginning DEF Own
  <1>2. PICK g, h, d, e, S : /\ g = x.prev /\ d = [seq |-> x.seq, order |-> x.order, symbol |-> x.symbol]
                             /\ h = y.prev /\ e = [seq |-> y.seq, order |-> y.order, symbol |-> y.symbol]
                             /\ S = [seq : Nat, order : Orders, symbol : Symbol]
    OBVIOUS
  <1>3. g \in Seq(S) /\ h \in Seq(S) /\ d \in S /\ e \in S
    BY <1>2, HashType DEF Chain
  <1>4. Append(g, d) = Append(h, e)
    BY <1>1, <1>2 DEF Hash
  <1>5. Len(g) = Len(h)
    BY <1>2, <1>3, <1>4
  <1>6. d = e
    BY <1>3, <1>4, <1>5
  <1>7. g = h
    <2>1. \A i \in 1..Len(g) : Append(g, d)[i] = g[i] /\ Append(h, e)[i] = h[i]
      BY <1>3, <1>5
    <2>2. \A i \in 1..Len(g) : g[i] = h[i]
      BY <1>4, <2>1
    <2>3. QED
      BY <1>3, <1>5, <2>2
  <1>8. x.seq = y.seq /\ x.order = y.order /\ x.symbol = y.symbol /\ x.prev = y.prev
    BY <1>2, <1>6, <1>7
  <1>9. QED
    BY <1>8 DEF Output

\* The head of the history.
LEMMA HeadFacts ==
    ASSUME ServerTypes
    PROVE  /\ GoodChain(Tip) /\ Top \in Nat /\ Tip.hash \in Chain /\ Tip.seq \in Nat
           /\ Rows = Range(Tip.ok) /\ Rows \subseteq Output /\ Len(outputs) \in Nat
  <1>1. outputs \in Seq(Output) /\ Len(outputs) \in Nat /\ Len(outputs) \in 0..Len(outputs)
    BY DEF ServerTypes
  <1>2. GoodChain(Tip)
    BY <1>1, CanonFacts DEF Tip
  <1>3. Tip.hash \in Chain /\ Tip.seq \in Nat
    BY <1>2 DEF GoodChain
  <1>4. Top \in Nat
    BY <1>3 DEF Top, Chain
  <1>5. QED
    BY <1>1, <1>2, <1>3, <1>4, RowsFacts DEF Rows, Tip

\* An output that waits for the publisher.
LEMMA PendFacts ==
    ASSUME ServerTypes, AllOwn, NEW e \in Nat, NEW j \in Pend(e)
    PROVE  /\ j \in 1..Len(Ev(e).outputs) /\ Ev(e).outputs[j] \in Output /\ Own(Ev(e).outputs[j])
           /\ Idx(Ev(e).outputs[j]) \in Nat
  <1>1. j \in 1..Len(Ev(e).outputs)
    BY DEF Pend
  <1>2. PICK s \in Seq(Output) : s = Ev(e).outputs
    BY EventFacts
  <1>3. PICK x \in Output : x = s[j] /\ x \in Range(s)
    BY <1>1, <1>2 DEF Range
  <1>4. Own(x)
    BY <1>2, <1>3, SlotFacts DEF AllOwn, Ev
  <1>5. Idx(x) \in Nat
    BY OwnFacts
  <1>6. QED
    BY <1>1, <1>2, <1>3, <1>4, <1>5

\* Steps that leave the outputs on the ring and the publisher alone.
LEMMA ChainSame ==
    ASSUME ServerInv, ChainInv, UNCHANGED <<sent, matched, out, built, lastHash, outputs>>,
           \A i \in 0..RingSize - 1 : ring'[i].outputs = ring[i].outputs
    PROVE  ChainInv'
  <1>1. sent \in Nat /\ matched \in Nat /\ sent <= matched
    BY DEF ServerInv, ServerTypes, Cursors
  <1>2. \A e \in Nat : ring'[Slot(e)].outputs = ring[Slot(e)].outputs
    BY SlotFacts
  <1>3. \A e \in sent..matched - 1 : e \in Nat /\ \A f \in sent..e : f \in Nat
    BY <1>1
  <1>4. \A e \in Nat : Pend(e)' = Pend(e) /\ Ev(e)'.outputs = Ev(e).outputs
    BY <1>2 DEF Pend, Ev
  <1>5. Top' = Top /\ Tip' = Tip /\ Rows' = Rows /\ \A x : Own(x)' <=> Own(x)
    BY DEF Top, Tip, Rows, Own, Begins
  <1>6. Rising' /\ AllOwn'
    BY <1>5 DEF ChainInv, Rising, AllOwn, Own, Begins
  <1>7. HeadOwn'
    BY <1>5 DEF ChainInv, HeadOwn, Begins
  <1>8. NoGap'
    <2>1. \A e \in sent..matched - 1 : Pend(e)' = Pend(e) /\ Ev(e)'.outputs = Ev(e).outputs
      BY <1>3, <1>4
    <2>2. \A e \in sent..matched - 1 : \A f \in sent..e : Pend(f)' = Pend(f) /\ Ev(f)'.outputs = Ev(f).outputs
      BY <1>3, <1>4
    <2>3. QED
      BY <1>5, <2>1, <2>2 DEF ChainInv, NoGap
  <1>9. OldCovered'
    BY <1>1, <1>2, <1>5 DEF ChainInv, OldCovered, Ev
  <1>10. QED
    BY <1>6, <1>7, <1>8, <1>9 DEF ChainInv

\* The engine takes an order.
LEMMA ChainTaken ==
    ASSUME ServerInv, Remembered, ChainInv, UNCHANGED <<sent, matched, out, ring, outputs>>,
           NEW x \in Output, x.seq = outputSeq + 1, x.prev = lastHash,
           lastHash' = Hash(x), built' = Append(built, x)
    PROVE  ChainInv'
  <1>1. /\ ServerTypes /\ sent \in Nat /\ matched \in Nat /\ built \in Seq(Output) /\ Len(built) \in Nat /\ outputSeq \in Nat
    BY DEF ServerInv, ServerTypes
  <1>2. PICK n \in Nat : n = Len(lastHash)
    BY <1>1, ChainGrows
  <1>3. /\ Len(lastHash') = n + 1 /\ DOMAIN lastHash = 1..n /\ DOMAIN lastHash' = 1..(n + 1)
        /\ \A i \in 1..n : lastHash'[i] = lastHash[i] /\ lastHash[i].seq \in 1..outputSeq
        /\ lastHash'[n + 1].seq = outputSeq + 1
    BY <1>2, ChainGrows DEF Remembered
  <1>4. ASSUME NEW h \in Chain, Begins(h)
        PROVE  Begins(h)' /\ Len(h) \in Nat /\ Len(h) <= n
    <2>1. Len(h) \in Nat /\ Len(h) <= n
      BY <1>2, <1>4 DEF Begins, Chain
    <2>2. \A i \in 1..Len(h) : i \in 1..n
      BY <2>1
    <2>3. Len(h) <= Len(lastHash')
      BY <1>3, <2>1
    <2>4. QED
      BY <1>3, <1>4, <2>1, <2>2, <2>3 DEF Begins
  <1>5. \A y \in Output : Own(y) => Own(y)'
    BY <1>4, HashType DEF Own
  <1>6. Top' = Top /\ Tip' = Tip /\ Rows' = Rows /\ Top \in Nat /\ Tip.hash \in Chain /\ Rows \subseteq Output
    BY <1>1, HeadFacts DEF Top, Tip, Rows
  <1>7. Rising'
    <2>1. SUFFICES ASSUME NEW i \in 1..(n + 1), NEW j \in 1..(n + 1), i < j
                   PROVE  lastHash'[i].seq < lastHash'[j].seq
      BY <1>3 DEF Rising
    <2>2. i \in 1..n
      BY <2>1
    <2>3. CASE j = n + 1
      <3>1. lastHash'[i].seq \in 1..outputSeq /\ lastHash'[j].seq = outputSeq + 1
        BY <1>3, <2>2, <2>3
      <3>2. QED
        BY <1>1, <3>1
    <2>4. CASE j # n + 1
      <3>1. j \in 1..n
        BY <2>4
      <3>2. QED
        BY <1>3, <2>1, <2>2, <3>1 DEF ChainInv, Rising
    <2>5. QED
      BY <2>3, <2>4
  <1>8. AllOwn'
    <2>1. \A i \in 0..RingSize - 1 : \A y \in Range(ring[i].outputs) : Own(y)'
      <3>1. SUFFICES ASSUME NEW i \in 0..RingSize - 1, NEW y \in Range(ring[i].outputs)
                     PROVE  Own(y)'
        OBVIOUS
      <3>2. Own(y) /\ ring[i] \in Event
        BY <1>1 DEF ChainInv, AllOwn, ServerTypes
      <3>3. PICK s \in Seq(Output) : s = ring[i].outputs
        BY <3>2 DEF Event
      <3>4. y \in Output
        BY <3>3 DEF Range
      <3>5. QED
        BY <1>5, <3>2, <3>4
    <2>2. PICK L \in Nat : L = Len(built)
      BY <1>1
    <2>3. Len(built') = L + 1 /\ built'[L + 1] = x /\ \A j \in 1..L : built'[j] = built[j] /\ built[j] \in Output
      BY <1>1, <2>2
    <2>4. ASSUME NEW j \in 1..(L + 1)
          PROVE  \E y \in Output : y = built'[j] /\ Own(y)' /\ Idx(y) = ((n + 1) - (L + 1)) + j
      <3>1. CASE j = L + 1
        <4>1. Idx(x) = n + 1
          BY <1>2 DEF Idx
        <4>2. Own(x)'
          <5>1. \A i \in 1..Len(Hash(x)) : Hash(x)[i] = lastHash'[i]
            OBVIOUS
          <5>2. Len(Hash(x)) = n + 1
            BY <1>3
          <5>3. QED
            BY <1>3, <5>1, <5>2 DEF Own, Begins
        <4>3. ((n + 1) - (L + 1)) + j = n + 1
          BY <1>2, <2>2, <3>1
        <4>4. built'[j] = x
          BY <2>3, <3>1
        <4>5. QED
          BY <4>1, <4>2, <4>3, <4>4
      <3>2. CASE j # L + 1
        <4>1. j \in 1..L
          BY <2>2, <3>2
        <4>2. PICK y \in Output : y = built[j]
          BY <2>3, <4>1
        <4>3. Own(y) /\ Idx(y) = (n - L) + j
          BY <1>2, <2>2, <4>1, <4>2 DEF ChainInv, AllOwn
        <4>4. Own(y)'
          BY <1>5, <4>3
        <4>5. built'[j] = y
          BY <2>3, <4>1, <4>2
        <4>6. (n - L) + j = ((n + 1) - (L + 1)) + j
          BY <1>2, <2>2
        <4>7. QED
          BY <4>3, <4>4, <4>5, <4>6
      <3>3. QED
        BY <3>1, <3>2
    <2>5. Len(lastHash') = n + 1 /\ ring' = ring
      BY <1>3
    <2>6. \A j \in 1..Len(built') : Own(built[j])' /\ Idx(built[j])' = (Len(lastHash') - Len(built')) + j
      <3>1. SUFFICES ASSUME NEW j \in 1..(L + 1)
                     PROVE  Own(built[j])' /\ Idx(built[j])' = ((n + 1) - (L + 1)) + j
        BY <2>3, <2>5
      <3>2. PICK y \in Output : y = built'[j] /\ Own(y)' /\ Idx(y) = ((n + 1) - (L + 1)) + j
        BY <2>4
      <3>3. QED
        BY <3>2 DEF Own, Begins, Idx
    <2>7. QED
      BY <2>1, <2>5, <2>6 DEF AllOwn
  <1>9. HeadOwn'
    <2>1. Begins(Tip.hash) /\ Tip.seq = IF Top = 0 THEN 0 ELSE lastHash[Top].seq
      BY DEF ChainInv, HeadOwn
    <2>2. PICK h \in Chain : h = Tip.hash
      BY <1>6
    <2>3. Begins(h)' /\ Len(h) <= n /\ Top = Len(h)
      BY <1>4, <2>1, <2>2 DEF Top
    <2>4. Begins(Tip.hash)'
      BY <1>6, <2>2, <2>3 DEF Begins
    <2>5. Tip.seq = IF Top = 0 THEN 0 ELSE lastHash'[Top].seq
      <3>1. CASE Top = 0
        BY <2>1, <3>1
      <3>2. CASE Top # 0
        <4>1. Top \in 1..n
          BY <1>6, <2>3, <3>2
        <4>2. QED
          BY <1>3, <2>1, <3>2, <4>1
      <3>3. QED
        BY <3>1, <3>2
    <2>6. \A i \in 1..Top : \E r \in Rows : Own(r)' /\ Idx(r) = i
      BY <1>5, <1>6 DEF ChainInv, HeadOwn
    <2>7. \A k \in 1..Len(outputs') : outputs'[k] \in Range(Canon(outputs')[k].ok)
      BY DEF ChainInv, HeadOwn
    <2>8. QED
      BY <1>6, <2>4, <2>5, <2>6, <2>7 DEF HeadOwn
  <1>10. NoGap'
    <2>1. Len(lastHash') - Len(built') = Len(lastHash) - Len(built)
      BY <1>1, <1>2, <1>3
    <2>2. \A e : Pend(e)' = Pend(e) /\ Ev(e)' = Ev(e)
      BY DEF Pend, Ev
    <2>3. QED
      BY SMTT(30), <1>6, <2>1, <2>2 DEF ChainInv, NoGap
  <1>11. OldCovered'
    BY <1>6 DEF ChainInv, OldCovered, Ev
  <1>12. QED
    BY <1>7, <1>8, <1>9, <1>10, <1>11 DEF ChainInv

\* The publisher is done with an event: its slot holds only what is covered.
LEMMA ChainPublishDone ==
    ASSUME ServerInv, ChainInv, PublishDone
    PROVE  ChainInv'
  <1>1. /\ ServerTypes /\ sent \in Nat /\ matched \in Nat /\ out \in Nat /\ out = Len(Ev(sent).outputs)
        /\ sent < matched /\ sent' = sent + 1 /\ out' = 0
        /\ UNCHANGED <<matched, ring, built, lastHash, outputs>>
    BY DEF ServerInv, ServerTypes, PublishDone, Ev
  <1>2. Top' = Top /\ Tip' = Tip /\ Rows' = Rows /\ (\A x : Own(x)' <=> Own(x)) /\ \A e : Ev(e)' = Ev(e)
    BY <1>1 DEF Top, Tip, Rows, Own, Begins, Ev
  <1>3. Pend(sent) = {}
    BY <1>1 DEF Pend
  <1>4. \A e \in sent + 1..matched - 1 : Pend(e)' = Pend(e) /\ e # sent /\ e \in sent..matched - 1
    <2>1. SUFFICES ASSUME NEW e \in sent + 1..matched - 1
                   PROVE  Pend(e)' = Pend(e) /\ e # sent /\ e \in sent..matched - 1
      OBVIOUS
    <2>2. e # sent /\ e \in sent..matched - 1
      BY <1>1
    <2>3. Pend(e)' = {j \in 1..Len(Ev(e).outputs) : e = sent + 1 => j > 0}
      BY <1>1, <1>2 DEF Pend
    <2>4. \A j \in 1..Len(Ev(e).outputs) : j > 0
      BY <1>1
    <2>5. QED
      BY <2>2, <2>3, <2>4 DEF Pend
  <1>5. Rising' /\ AllOwn'
    BY <1>1, <1>2 DEF ChainInv, Rising, AllOwn, Own, Begins
  <1>6. HeadOwn'
    BY <1>1, <1>2 DEF ChainInv, HeadOwn, Begins
  <1>7. NoGap'
    <2>1. ASSUME NEW i \in Top + 1..Len(lastHash) - Len(built)
          PROVE  \E e \in sent + 1..matched - 1 : \E j \in Pend(e)' : Idx(Ev(e).outputs[j]) = i
      <3>1. PICK e \in sent..matched - 1 : \E j \in Pend(e) : Idx(Ev(e).outputs[j]) = i
        BY DEF ChainInv, NoGap
      <3>2. e \in sent + 1..matched - 1
        BY <1>1, <1>3, <3>1
      <3>3. QED
        BY <1>4, <3>1, <3>2
    <2>2. ASSUME NEW e \in sent + 1..matched - 1, NEW j \in Pend(e)', Idx(Ev(e).outputs[j]) > Top + 1
          PROVE  \E f \in sent + 1..e : \E k \in Pend(f)' :
                     (f = e => k < j) /\ Idx(Ev(f).outputs[k]) = Idx(Ev(e).outputs[j]) - 1
      <3>1. e \in sent..matched - 1 /\ j \in Pend(e)
        BY <1>4
      <3>2. PICK f \in sent..e : \E k \in Pend(f) :
                     (f = e => k < j) /\ Idx(Ev(f).outputs[k]) = Idx(Ev(e).outputs[j]) - 1
        BY <2>2, <3>1 DEF ChainInv, NoGap
      <3>3. f \in sent + 1..e /\ f \in sent + 1..matched - 1
        BY <1>1, <1>3, <3>2
      <3>4. QED
        BY <1>4, <3>2, <3>3
    <2>3. QED
      BY <1>1, <1>2, <2>1, <2>2 DEF NoGap
  <1>8. OldCovered'
    <2>1. ASSUME NEW i \in 0..RingSize - 1, \A e \in sent + 1..matched - 1 : Slot(e) # i,
                 NEW x \in Range(ring[i].outputs)
          PROVE  Idx(x) <= Top
      <3>1. CASE Slot(sent) = i
        <4>1. PICK s \in Seq(Output) : s = Ev(sent).outputs /\ s = ring[i].outputs
          BY <1>1, <3>1, EventFacts DEF Ev
        <4>2. PICK j \in 1..Len(s) : x = s[j]
          BY <2>1, <4>1 DEF Range
        <4>3. QED
          BY <1>1, <4>1, <4>2 DEF ChainInv, OldCovered
      <3>2. CASE Slot(sent) # i
        <4>1. \A e \in sent..matched - 1 : e = sent \/ e \in sent + 1..matched - 1
          BY <1>1
        <4>2. \A e \in sent..matched - 1 : Slot(e) # i
          BY <2>1, <3>2, <4>1
        <4>3. QED
          BY <2>1, <4>2 DEF ChainInv, OldCovered
      <3>3. QED
        BY <3>1, <3>2
    <2>2. \A j \in 1..0 : FALSE
      OBVIOUS
    <2>3. QED
      BY <1>1, <1>2, <2>1, <2>2 DEF OldCovered
  <1>9. QED
    BY <1>5, <1>6, <1>7, <1>8 DEF ChainInv

\* The matcher leaves the outputs of an event in its slot, or an old list where
\* the event made none.
LEMMA ChainMatchDone ==
    ASSUME ServerInv, ChainInv, MatchDone
    PROVE  ChainInv'
  <1>1. /\ ServerTypes /\ sent \in Nat /\ matched \in Nat /\ published \in Nat /\ out \in Nat /\ RingSize \in Nat
        /\ built \in Seq(Output) /\ Len(built) \in Nat /\ Len(lastHash) \in Nat
        /\ sent <= matched /\ matched < published /\ published - sent <= RingSize /\ (sent = matched => out = 0)
        /\ matched' = matched + 1 /\ built' = <<>> /\ UNCHANGED <<sent, out, lastHash, outputs>>
    <2>1. /\ ServerTypes /\ sent \in Nat /\ matched \in Nat /\ published \in Nat /\ out \in Nat /\ RingSize \in Nat
          /\ built \in Seq(Output) /\ lastHash \in Chain
      BY ServerAssumption DEF ServerInv, ServerTypes
    <2>2. Len(built) \in Nat /\ Len(lastHash) \in Nat
      BY <2>1 DEF Chain
    <2>3. /\ sent <= matched /\ matched < published /\ published - sent <= RingSize /\ (sent = matched => out = 0)
          /\ matched' = matched + 1 /\ built' = <<>> /\ UNCHANGED <<sent, out, lastHash, outputs>>
      BY DEF ServerInv, Cursors, MatchDone
    <2>4. QED
      BY <2>1, <2>2, <2>3
  <1>2. PICK os : os = ring'[Slot(matched)].outputs
    OBVIOUS
  <1>3. /\ built = <<>> => os = Ev(matched).outputs
        /\ built # <<>> => os = built
        /\ \A i \in 0..RingSize - 1 : i # Slot(matched) => ring'[i] = ring[i]
        /\ Ev(matched).outputs \in Seq(Output) /\ os \in Seq(Output) /\ Len(os) \in Nat
        /\ Slot(matched) \in 0..RingSize - 1
    <2>1. Ev(matched).outputs \in Seq(Output) /\ Slot(matched) \in 0..RingSize - 1
      BY <1>1, EventFacts, SlotFacts
    <2>2. /\ built = <<>> => os = Ev(matched).outputs
          /\ built # <<>> => os = built
          /\ \A i \in 0..RingSize - 1 : i # Slot(matched) => ring'[i] = ring[i]
      BY <1>1, <1>2, MatchDoneFacts DEF Ev
    <2>3. os \in Seq(Output)
      BY <1>1, <2>1, <2>2
    <2>4. QED
      BY <2>1, <2>2, <2>3
  <1>4. \A e \in sent..matched - 1 : Ev(e)' = Ev(e) /\ e # matched /\ Slot(e) # Slot(matched)
    <2>1. SUFFICES ASSUME NEW e \in sent..matched - 1
                   PROVE  Ev(e)' = Ev(e) /\ e # matched /\ Slot(e) # Slot(matched)
      OBVIOUS
    <2>2. e \in Nat /\ e # matched /\ e - matched < RingSize /\ matched - e < RingSize /\ e \in sent..published - 1
      BY <1>1
    <2>3. ring'[Slot(e)] = ring[Slot(e)]
      BY <2>2, MatchDoneKeeps
    <2>4. Slot(e) # Slot(matched)
      BY <1>1, <2>2, SlotFacts
    <2>5. QED
      BY <2>2, <2>3, <2>4 DEF Ev
  <1>5. \A e : Ev(e)' = ring'[Slot(e)]
    BY <1>1 DEF Ev
  <1>6. PICK P : P = [e \in sent..matched |-> {j \in 1..Len(ring'[Slot(e)].outputs) : e = sent => j > out}]
    OBVIOUS
  <1>7. /\ \A e \in sent..matched : Pend(e)' = P[e]
        /\ \A e \in sent..matched - 1 : P[e] = Pend(e) /\ e \in sent..matched
        /\ P[matched] = 1..Len(os) /\ matched \in sent..matched
    <2>1. \A e \in sent..matched : Pend(e)' = P[e]
      BY <1>1, <1>5, <1>6 DEF Pend
    <2>2. \A e \in sent..matched - 1 : e \in sent..matched
      BY <1>1
    <2>3. \A e \in sent..matched - 1 : P[e] = Pend(e)
      BY <1>4, <1>5, <1>6, <2>2 DEF Pend
    <2>4. matched \in sent..matched
      BY <1>1
    <2>5. P[matched] = {j \in 1..Len(os) : matched = sent => j > out}
      BY <1>2, <1>6, <2>4
    <2>6. \A j \in 1..Len(os) : matched = sent => j > out
      BY <1>1, <1>3
    <2>7. QED
      BY <2>1, <2>2, <2>3, <2>4, <2>5, <2>6
  <1>8. Top' = Top /\ Tip' = Tip /\ Rows' = Rows /\ (\A x : Own(x)' <=> Own(x)) /\ Top \in Nat
    BY <1>1, HeadFacts DEF Top, Tip, Rows, Own, Begins
  <1>9. Rising' /\ HeadOwn'
    BY <1>1, <1>8 DEF ChainInv, Rising, HeadOwn, Begins
  <1>10. PICK B \in Int : B = Len(lastHash) - Len(built)
    BY <1>1
  <1>11. \A j \in 1..Len(built) : Own(built[j]) /\ Idx(built[j]) = B + j
    BY <1>10 DEF ChainInv, AllOwn
  <1>12. AllOwn'
    <2>1. \A x \in Range(os) : Own(x)
      <3>1. CASE built = <<>>
        BY <1>3, <3>1 DEF ChainInv, AllOwn, Ev
      <3>2. CASE built # <<>>
        BY <1>1, <1>3, <1>11, <3>2 DEF Range
      <3>3. QED
        BY <3>1, <3>2
    <2>2. \A i \in 0..RingSize - 1 : \A x \in Range(ring'[i].outputs) : Own(x)
      BY <1>2, <1>3, <2>1 DEF ChainInv, AllOwn
    <2>3. \A j \in 1..Len(built') : FALSE
      BY <1>1
    <2>4. QED
      BY <1>8, <2>2, <2>3 DEF AllOwn
  <1>13. ASSUME NEW i \in Top + 1..B
         PROVE  \E e \in sent..matched - 1 : \E j \in Pend(e) : Idx(Ev(e).outputs[j]) = i
    BY <1>10 DEF ChainInv, NoGap
  <1>14. NoGap'
    <2>1. ASSUME NEW i \in Top + 1..Len(lastHash)
          PROVE  \E e \in sent..matched : \E j \in P[e] : Idx(ring'[Slot(e)].outputs[j]) = i
      <3>1. CASE i <= B
        <4>1. i \in Top + 1..B
          BY <1>8, <3>1
        <4>2. PICK e \in sent..matched - 1 : \E j \in Pend(e) : Idx(Ev(e).outputs[j]) = i
          BY <1>13, <4>1
        <4>3. QED
          BY <1>4, <1>5, <1>7, <4>2
      <3>2. CASE i > B
        <4>1. PICK j \in 1..Len(built) : i = B + j
          <5>1. i - B \in 1..Len(built) /\ i = B + (i - B)
            BY <1>1, <1>8, <1>10, <3>2
          <5>2. QED
            BY <5>1
        <4>2. os = built
          BY <1>1, <1>3, <4>1
        <4>3. j \in P[matched] /\ Idx(ring'[Slot(matched)].outputs[j]) = i
          BY <1>2, <1>7, <1>11, <4>1, <4>2
        <4>4. QED
          BY <1>7, <4>3
      <3>3. QED
        BY <1>8, <1>10, <3>1, <3>2
    <2>2. ASSUME NEW e \in sent..matched, NEW j \in P[e], Idx(ring'[Slot(e)].outputs[j]) > Top + 1
          PROVE  \E f \in sent..e : \E k \in P[f] :
                    (f = e => k < j) /\ Idx(ring'[Slot(f)].outputs[k]) = Idx(ring'[Slot(e)].outputs[j]) - 1
      <3>1. CASE e # matched
        <4>1. e \in sent..matched - 1 /\ j \in Pend(e) /\ Idx(Ev(e).outputs[j]) > Top + 1 /\ ring'[Slot(e)] = Ev(e)
          <5>1. e \in sent..matched - 1
            BY <1>1, <3>1
          <5>2. QED
            BY <1>4, <1>5, <1>7, <2>2, <5>1
        <4>2. PICK f \in sent..e : \E k \in Pend(f) :
                    (f = e => k < j) /\ Idx(Ev(f).outputs[k]) = Idx(Ev(e).outputs[j]) - 1
          BY <4>1 DEF ChainInv, NoGap
        <4>3. f \in sent..matched - 1
          BY <1>1, <4>1, <4>2
        <4>4. QED
          BY <1>4, <1>5, <1>7, <4>1, <4>2, <4>3
      <3>2. CASE e = matched /\ built = <<>>
        <4>1. j \in 1..Len(os) /\ os = ring[Slot(matched)].outputs /\ Idx(os[j]) > Top + 1
          BY <1>2, <1>3, <1>7, <2>2, <3>2 DEF Ev
        <4>2. os[j] \in Range(os) /\ os[j] \in Output
          BY <1>3, <4>1 DEF Range
        <4>3. Idx(os[j]) <= Top
          BY <1>3, <1>4, <4>1, <4>2 DEF ChainInv, OldCovered
        <4>4. Idx(os[j]) \in Nat
          BY <1>1, <4>2, OwnFacts
        <4>5. QED
          BY <1>8, <4>1, <4>3, <4>4
      <3>3. CASE e = matched /\ built # <<>>
        <4>1. j \in 1..Len(built) /\ os = built /\ B + j > Top + 1 /\ Idx(ring'[Slot(e)].outputs[j]) = B + j
          BY <1>2, <1>3, <1>7, <1>11, <2>2, <3>3
        <4>2. CASE j = 1
          <5>1. B \in Top + 1..B /\ B + j - 1 = B
            BY <1>8, <1>10, <4>1, <4>2
          <5>2. PICK f \in sent..matched - 1 : \E k \in Pend(f) : Idx(Ev(f).outputs[k]) = B
            BY <1>13, <5>1
          <5>3. f \in sent..e /\ f # e
            BY <1>1, <3>3, <5>2
          <5>4. QED
            BY <1>4, <1>5, <1>7, <4>1, <5>1, <5>2, <5>3
        <4>3. CASE j # 1
          <5>1. j - 1 \in 1..Len(built) /\ j - 1 < j /\ B + (j - 1) = B + j - 1
            BY <1>1, <1>10, <4>1, <4>3
          <5>2. j - 1 \in P[e] /\ Idx(ring'[Slot(e)].outputs[j - 1]) = B + (j - 1)
            BY <1>2, <1>7, <1>11, <3>3, <4>1, <5>1
          <5>3. e \in sent..e
            BY <1>1, <3>3
          <5>4. QED
            BY <4>1, <5>1, <5>2, <5>3
        <4>4. QED
          BY <4>2, <4>3
      <3>4. QED
        BY <3>1, <3>2, <3>3
    <2>3. /\ sent' = sent /\ (matched + 1) - 1 = matched /\ Top' = Top
          /\ Len(lastHash') - Len(built') = Len(lastHash)
      BY <1>1, <1>8
    <2>4. \A e \in sent..matched : \A f \in sent..e : f \in sent..matched
      BY <1>1
    <2>5. \A i \in Top + 1..Len(lastHash) : \E e \in sent..matched : \E j \in Pend(e)' : Idx(ring'[Slot(e)].outputs[j]) = i
      BY <1>7, <2>1
    <2>6. \A e \in sent..matched : \A j \in Pend(e)' : Idx(ring'[Slot(e)].outputs[j]) > Top + 1 =>
             \E f \in sent..e : \E k \in Pend(f)' :
                (f = e => k < j) /\ Idx(ring'[Slot(f)].outputs[k]) = Idx(ring'[Slot(e)].outputs[j]) - 1
      BY <1>7, <2>2, <2>4
    <2>7. QED
      BY <1>1, <1>5, <2>3, <2>5, <2>6 DEF NoGap
  <1>15. OldCovered'
    <2>1. \A j \in 1..out : Idx(ring'[Slot(sent)].outputs[j]) <= Top
      <3>1. CASE sent = matched
        BY <1>1, <3>1
      <3>2. CASE sent # matched
        <4>1. sent < matched /\ sent \in sent..matched - 1
          BY <1>1, <3>2
        <4>2. QED
          BY <1>4, <1>5, <4>1 DEF ChainInv, OldCovered
      <3>3. QED
        BY <3>1, <3>2
    <2>2. ASSUME NEW i \in 0..RingSize - 1, \A e \in sent..matched : Slot(e) # i
          PROVE  \A x \in Range(ring'[i].outputs) : Idx(x) <= Top
      <3>1. ring'[i] = ring[i] /\ \A e \in sent..matched - 1 : Slot(e) # i
        BY <1>3, <1>7, <2>2
      <3>2. QED
        BY <3>1 DEF ChainInv, OldCovered
    <2>3. sent' = sent /\ (matched + 1) - 1 = matched
      BY <1>1
    <2>4. QED
      BY <1>1, <1>5, <1>8, <2>1, <2>2, <2>3 DEF OldCovered
  <1>16. QED
    BY <1>9, <1>12, <1>14, <1>15 DEF ChainInv

\* The chain state after one more output.
LEMMA HeadGrows ==
    ASSUME ServerTypes, NEW x \in Output, outputs' = Append(outputs, x)
    PROVE  /\ Tip' = Verify(Tip, x) /\ Len(outputs') = Len(outputs) + 1 /\ outputs'[Len(outputs) + 1] = x
           /\ \A i \in 1..Len(outputs) : outputs'[i] = outputs[i]
           /\ \A i \in 0..Len(outputs) : Canon(outputs')[i] = Canon(outputs)[i]
  <1>1. PICK s \in Seq(Output), t \in Seq(Output), n \in Nat : s = outputs /\ t = outputs' /\ n = Len(s)
    <2>1. outputs \in Seq(Output)
      BY DEF ServerTypes
    <2>2. Append(outputs, x) \in Seq(Output) /\ Len(outputs) \in Nat
      BY <2>1
    <2>3. QED
      BY <2>1, <2>2
  <1>2. t = Append(s, x) /\ Len(t) = n + 1 /\ t[n + 1] = x /\ \A i \in 1..n : t[i] = s[i]
    BY <1>1
  <1>3. \A i \in 0..n : Canon(t)[i] = Canon(s)[i]
    BY <1>1, <1>2, RunPrefix DEF Canon
  <1>4. n \in 0..n /\ n + 1 \in 1..Len(t) /\ n + 1 - 1 = n
    BY <1>2
  <1>5. Canon(t)[n + 1] = Verify(Canon(t)[n + 1 - 1], t[n + 1])
    BY <1>4, CanonFacts
  <1>6. Canon(t)[n + 1] = Verify(Canon(s)[n], x)
    BY <1>2, <1>3, <1>4, <1>5
  <1>7. QED
    BY <1>1, <1>2, <1>3, <1>6 DEF Tip

\* An output of the history that does not skip any: the next one moves the
\* head on, an earlier one is passed and is a row already.
LEMMA HeadNext ==
    ASSUME ServerTypes, Remembered, Rising, HeadOwn, UNCHANGED lastHash, NEW x \in Output, Own(x),
           Idx(x) <= Top + 1, outputs' = Append(outputs, x)
    PROVE  HeadOwn' /\ Top' = (IF Idx(x) = Top + 1 THEN Top + 1 ELSE Top)
  <1>0. PICK n \in Nat, p \in Nat, T \in Nat : n = Len(outputs) /\ p = Idx(x) /\ T = Top
    BY HeadFacts, OwnFacts
  <1>1. PICK H : n = Len(outputs) /\ p = Idx(x) /\ T = Top /\ H = Tip
    BY <1>0
  <1>2. /\ p >= 1 /\ p <= T + 1 /\ Len(x.prev) = p - 1 /\ Len(Hash(x)) = p /\ p <= Len(lastHash)
        /\ lastHash[p].seq = x.seq /\ Len(lastHash) \in Nat /\ DOMAIN lastHash = 1..Len(lastHash)
        /\ Begins(x.prev) /\ x.prev \in Chain /\ x.seq \in Nat /\ Hash(x) \in Chain
    <2>1. /\ Len(x.prev) \in Nat /\ Idx(x) >= 1 /\ Idx(x) <= Len(lastHash) /\ lastHash[Idx(x)].seq = x.seq
          /\ (\A i \in 1..Len(x.prev) : x.prev[i] = lastHash[i]) /\ Len(Hash(x)) = Idx(x)
          /\ Len(lastHash) \in Nat /\ DOMAIN lastHash = 1..Len(lastHash)
      BY OwnFacts
    <2>2. Len(x.prev) = p - 1 /\ Len(x.prev) <= Len(lastHash)
      BY <1>1, <2>1 DEF Idx
    <2>3. x.prev \in Chain /\ x.seq \in Nat /\ Hash(x) \in Chain
      BY HashType
    <2>4. QED
      BY <1>1, <2>1, <2>2, <2>3 DEF Begins
  <1>3. /\ GoodChain(H) /\ H.hash \in Chain /\ H.seq \in Nat /\ H.ok \in Seq(Output)
        /\ Rows = Range(H.ok) /\ Rows \subseteq Output
        /\ Begins(H.hash) /\ Len(H.hash) = T /\ T <= Len(lastHash)
        /\ H.seq = IF T = 0 THEN 0 ELSE lastHash[T].seq
    <2>1. GoodChain(H) /\ H.hash \in Chain /\ H.seq \in Nat /\ Rows = Range(H.ok) /\ Rows \subseteq Output
      BY <1>1, HeadFacts
    <2>2. H.ok \in Seq(Output)
      BY <2>1 DEF GoodChain
    <2>3. Begins(H.hash) /\ Len(H.hash) = T /\ H.seq = IF T = 0 THEN 0 ELSE lastHash[T].seq
      BY <1>1 DEF HeadOwn, Top
    <2>4. QED
      BY <2>1, <2>2, <2>3 DEF Begins
  <1>4. /\ Tip' = Verify(H, x) /\ Len(outputs') = n + 1 /\ outputs'[n + 1] = x
        /\ \A i \in 1..n : outputs'[i] = outputs[i]
        /\ \A i \in 0..n : Canon(outputs')[i] = Canon(outputs)[i]
    BY <1>1, HeadGrows
  <1>5. \A i \in 1..Len(lastHash) : lastHash[i].seq \in Nat /\ lastHash[i].seq >= 1
    BY <1>2 DEF Remembered
  <1>6. PICK G : G = Tip'
    OBVIOUS
  <1>7. Range(G.ok) = Rows' /\ Len(G.hash) = Top' /\ G = Canon(outputs')[n + 1]
    BY <1>4, <1>6 DEF Rows, Top, Tip
  <1>8. \A y : Own(y)' <=> Own(y)
    BY DEF Own, Begins
  <1>9. /\ \A r \in Rows : r \in Output
        /\ \A i \in 1..T : \E r \in Rows : Own(r) /\ Idx(r) = i
        /\ \A k \in 1..n : outputs[k] \in Range(Canon(outputs)[k].ok)
    BY <1>1, <1>3 DEF HeadOwn
  <1>10. \A k \in 1..n : outputs'[k] \in Range(Canon(outputs')[k].ok)
    <2>1. \A k \in 1..n : k \in 0..n
      OBVIOUS
    <2>2. QED
      BY <1>4, <1>9, <2>1
  <1>11. ASSUME x \in Range(G.ok)
         PROVE  \A k \in 1..Len(outputs') : outputs'[k] \in Range(Canon(outputs')[k].ok)
    <2>1. \A k \in 1..(n + 1) : k \in 1..n \/ k = n + 1
      OBVIOUS
    <2>2. QED
      BY <1>4, <1>7, <1>10, <1>11, <2>1
  <1>12. CASE p = T + 1
    <2>1. x.prev = H.hash
      BY <1>2, <1>3, <1>12, SameBeginning
    <2>2. x.seq >= H.seq + 1
      <3>1. CASE T = 0
        BY <1>2, <1>3, <1>5, <1>12, <3>1
      <3>2. CASE T # 0
        <4>1. T \in 1..Len(lastHash) /\ p \in 1..Len(lastHash) /\ T < p
          BY <1>2, <1>3, <1>12, <3>2
        <4>2. lastHash[T].seq < lastHash[p].seq
          BY <1>2, <4>1 DEF Rising
        <4>3. QED
          BY <1>2, <1>3, <1>5, <3>2, <4>1, <4>2
      <3>3. QED
        BY <3>1, <3>2
    <2>3. G = [seq |-> x.seq, hash |-> Hash(x), ok |-> Append(H.ok, x)]
      <3>1. Accepts(H, x)
        BY <2>1, <2>2 DEF Accepts
      <3>2. QED
        BY <1>3, <1>4, <1>6, <3>1, VerifyFacts
    <2>4. G.seq = x.seq /\ G.hash = Hash(x) /\ Range(G.ok) = Rows \cup {x}
      <3>1. G.seq = x.seq /\ G.hash = Hash(x) /\ G.ok = Append(H.ok, x)
        BY <2>3
      <3>2. Range(Append(H.ok, x)) = Range(H.ok) \cup {x}
        BY <1>3, RangeAppend
      <3>3. QED
        BY <1>3, <3>1, <3>2
    <2>5. Top' = T + 1 /\ T + 1 # 0
      BY <1>2, <1>7, <1>12, <2>4
    <2>6. Begins(Tip.hash)'
      <3>1. Begins(G.hash)'
        BY <2>4 DEF Own, Begins
      <3>2. QED
        BY <1>6, <3>1 DEF Begins
    <2>7. Tip'.seq = lastHash[T + 1].seq
      BY <1>2, <1>6, <1>12, <2>4
    <2>8. \A i \in 1..(T + 1) : \E r \in Rows' : Own(r)' /\ Idx(r) = i
      <3>1. SUFFICES ASSUME NEW i \in 1..(T + 1)
                     PROVE  \E r \in Rows' : Own(r) /\ Idx(r) = i
        BY <1>8
      <3>2. CASE i = T + 1
        BY <1>1, <1>7, <1>12, <2>4, <3>2
      <3>3. CASE i # T + 1
        <4>1. i \in 1..T
          BY <3>3
        <4>2. QED
          BY <1>7, <1>9, <2>4, <4>1
      <3>4. QED
        BY <3>2, <3>3
    <2>9. \A k \in 1..Len(outputs') : outputs'[k] \in Range(Canon(outputs')[k].ok)
      BY <1>11, <2>4
    <2>10. HeadOwn'
      BY <2>5, <2>6, <2>7, <2>8, <2>9 DEF HeadOwn
    <2>11. QED
      BY <1>1, <1>12, <2>5, <2>10
  <1>13. CASE p # T + 1
    <2>1. p \in 1..T /\ T \in 1..Len(lastHash) /\ p \in 1..Len(lastHash)
      BY <1>2, <1>3, <1>13
    <2>2. x.seq <= H.seq
      <3>1. H.seq = lastHash[T].seq
        BY <1>3, <2>1
      <3>2. CASE p = T
        BY <1>2, <1>3, <3>1, <3>2
      <3>3. CASE p # T
        <4>1. p < T
          BY <2>1, <3>3
        <4>2. lastHash[p].seq < lastHash[T].seq
          BY <1>2, <2>1, <4>1 DEF Rising
        <4>3. QED
          BY <1>2, <1>5, <2>1, <3>1, <4>2
      <3>4. QED
        BY <3>2, <3>3
    <2>3. G = H
      <3>1. ~Accepts(H, x)
        BY <1>2, <1>3, <2>2 DEF Accepts
      <3>2. QED
        BY <1>3, <1>4, <1>6, <3>1, VerifyFacts
    <2>4. Rows' = Rows /\ Top' = T
      BY <1>3, <1>7, <2>3
    <2>5. x \in Rows
      <3>1. PICK r \in Rows : Own(r) /\ Idx(r) = p
        BY <1>9, <2>1
      <3>2. r \in Output
        BY <1>9
      <3>3. r = x
        BY <1>1, <3>1, <3>2, SameOutput
      <3>4. QED
        BY <3>3
    <2>6. \A k \in 1..Len(outputs') : outputs'[k] \in Range(Canon(outputs')[k].ok)
      BY <1>7, <1>11, <2>4, <2>5
    <2>7. Begins(Tip.hash)'
      BY <1>3, <1>6, <2>3 DEF Begins
    <2>8. Tip'.seq = IF T = 0 THEN 0 ELSE lastHash[T].seq
      BY <1>3, <1>6, <2>3
    <2>9. \A i \in 1..T : \E r \in Rows' : Own(r)' /\ Idx(r) = i
      BY <1>8, <1>9, <2>4
    <2>10. HeadOwn'
      BY <2>4, <2>6, <2>7, <2>8, <2>9 DEF HeadOwn
    <2>11. QED
      BY <1>1, <1>13, <2>4, <2>10
  <1>14. QED
    BY <1>12, <1>13

\* The publisher sends the next output of its event.
LEMMA ChainPublish ==
    ASSUME ServerInv, Remembered, ChainInv, PublishOutput, outputs' = Append(outputs, Ev(sent).outputs[out + 1])
    PROVE  ChainInv'
  <1>1. /\ ServerTypes /\ sent \in Nat /\ matched \in Nat /\ out \in Nat /\ sent < matched
        /\ out < Len(Ev(sent).outputs) /\ out' = out + 1 /\ UNCHANGED <<sent, matched, ring, built, lastHash>>
    BY DEF ServerInv, ServerTypes, PublishOutput, Ev
  <1>2. Rising /\ AllOwn /\ HeadOwn /\ NoGap /\ OldCovered
    BY DEF ChainInv
  <1>3. PICK x : x = Ev(sent).outputs[out + 1]
    OBVIOUS
  <1>4. out + 1 \in Pend(sent) /\ sent \in sent..matched - 1 /\ Len(Ev(sent).outputs) \in Nat
    <2>1. Len(Ev(sent).outputs) \in Nat
      BY <1>1, EventFacts
    <2>2. out + 1 \in 1..Len(Ev(sent).outputs) /\ out + 1 > out /\ sent \in sent..matched - 1
      BY <1>1, <2>1
    <2>3. QED
      BY <2>1, <2>2 DEF Pend
  <1>5. x \in Output /\ Own(x) /\ Idx(x) \in Nat
    <2>1. PICK j \in Pend(sent) : j = out + 1
      BY <1>4
    <2>2. QED
      BY <1>1, <1>2, <1>3, <2>1, PendFacts
  <1>6. Top \in Nat
    BY <1>1, HeadFacts
  <1>7. Idx(x) <= Top + 1
    <2>1. SUFFICES ASSUME Idx(x) > Top + 1 PROVE FALSE
      BY <1>5, <1>6
    <2>2. PICK f \in sent..sent : \E k \in Pend(f) : (f = sent => k < out + 1)
      BY <1>2, <1>3, <1>4, <2>1 DEF NoGap
    <2>3. f = sent
      BY <1>1, <2>2
    <2>4. PICK k \in Pend(sent) : k < out + 1
      BY <2>2, <2>3
    <2>5. k > out /\ k \in Nat
      BY <1>4 DEF Pend
    <2>6. QED
      BY <1>1, <2>4, <2>5
  <1>8. HeadOwn' /\ Top' = (IF Idx(x) = Top + 1 THEN Top + 1 ELSE Top)
    BY <1>1, <1>2, <1>3, <1>5, <1>7, HeadNext
  <1>9. Top' \in Nat /\ Top <= Top' /\ Idx(x) <= Top'
    BY <1>5, <1>6, <1>7, <1>8
  <1>10. /\ \A y : Own(y)' <=> Own(y)
         /\ \A e : Ev(e)' = Ev(e)
    BY <1>1 DEF Own, Begins, Ev
  <1>11. Rising' /\ AllOwn'
    BY <1>1, <1>2, <1>10 DEF Rising, AllOwn, Own, Begins
  <1>12. \A e \in sent..matched - 1 : \A j : j \in Pend(e)' <=> j \in Pend(e) /\ ~(e = sent /\ j = out + 1)
    <2>1. \A e : Pend(e)' = {j \in 1..Len(Ev(e).outputs) : e = sent => j > out + 1}
      BY <1>1, <1>10 DEF Pend
    <2>2. \A j \in 1..Len(Ev(sent).outputs) : j > out + 1 <=> j > out /\ j # out + 1
      BY <1>1, <1>4
    <2>3. QED
      BY <2>1, <2>2 DEF Pend
  <1>13. ASSUME NEW e \in sent..matched - 1, NEW j \in Pend(e), Idx(Ev(e).outputs[j]) > Top'
         PROVE  j \in Pend(e)'
    <2>1. Idx(Ev(e).outputs[j]) \in Nat
      <3>1. e \in Nat
        BY <1>1
      <3>2. QED
        BY <1>1, <1>2, <3>1, PendFacts
    <2>2. ~(e = sent /\ j = out + 1)
      BY <1>3, <1>5, <1>9, <1>13, <2>1
    <2>3. QED
      BY <1>12, <2>2
  <1>14. \A e \in sent..matched - 1 : \A j \in Pend(e)' : j \in Pend(e)
    BY <1>12
  <1>15. NoGap'
    <2>1. ASSUME NEW i \in Top' + 1..Len(lastHash) - Len(built)
          PROVE  \E e \in sent..matched - 1 : \E j \in Pend(e)' : Idx(Ev(e).outputs[j]) = i
      <3>1. i \in Top + 1..Len(lastHash) - Len(built) /\ i > Top'
        <4>1. Len(lastHash) \in Nat /\ Len(built) \in Nat
          BY <1>1 DEF ServerTypes, Chain
        <4>2. PICK L \in Int : L = Len(lastHash) - Len(built)
          BY <4>1
        <4>3. PICK U \in Nat : U = Top'
          BY <1>9
        <4>4. PICK T \in Nat : T = Top
          BY <1>6
        <4>5. T <= U /\ i \in U + 1..L
          BY <1>9, <4>2, <4>3, <4>4
        <4>6. i \in T + 1..L /\ i > U
          BY <4>5
        <4>7. QED
          BY <4>2, <4>3, <4>4, <4>6
      <3>2. PICK e \in sent..matched - 1 : \E j \in Pend(e) : Idx(Ev(e).outputs[j]) = i
        BY <1>2, <3>1 DEF NoGap
      <3>3. QED
        BY <1>13, <3>1, <3>2
    <2>2. ASSUME NEW e \in sent..matched - 1, NEW j \in Pend(e)', Idx(Ev(e).outputs[j]) > Top' + 1
          PROVE  \E f \in sent..e : \E k \in Pend(f)' :
                    (f = e => k < j) /\ Idx(Ev(f).outputs[k]) = Idx(Ev(e).outputs[j]) - 1
      <3>1. j \in Pend(e) /\ e \in Nat
        BY <1>1, <1>14
      <3>2. PICK q \in Nat : q = Idx(Ev(e).outputs[j])
        BY <1>1, <1>2, <3>1, PendFacts
      <3>3. q > Top + 1 /\ q - 1 > Top'
        BY <1>6, <1>9, <2>2, <3>2
      <3>4. PICK f \in sent..e : \E k \in Pend(f) : (f = e => k < j) /\ Idx(Ev(f).outputs[k]) = q - 1
        BY <1>2, <3>1, <3>2, <3>3 DEF NoGap
      <3>5. PICK k \in Pend(f) : (f = e => k < j) /\ Idx(Ev(f).outputs[k]) = q - 1
        BY <3>4
      <3>6. f \in sent..matched - 1
        BY <1>1, <3>1, <3>4
      <3>7. k \in Pend(f)'
        BY <1>13, <3>3, <3>5, <3>6
      <3>8. QED
        BY <3>2, <3>5, <3>7
    <2>3. QED
      BY SMTT(30), <1>1, <1>10, <2>1, <2>2 DEF NoGap
  <1>16. OldCovered'
    <2>1. ASSUME NEW j \in 1..(out + 1)
          PROVE  Idx(Ev(sent).outputs[j]) <= Top'
      <3>1. CASE j = out + 1
        BY <1>3, <1>9, <3>1
      <3>2. CASE j # out + 1
        <4>1. j \in 1..out /\ j \in 1..Len(Ev(sent).outputs)
          BY <1>1, <1>4, <3>2
        <4>2. Idx(Ev(sent).outputs[j]) <= Top
          BY <1>1, <1>2, <4>1 DEF OldCovered
        <4>3. PICK s \in Seq(Output) : s = Ev(sent).outputs
          BY <1>1, EventFacts
        <4>4. s[j] \in Output
          BY <4>1, <4>3
        <4>5. Idx(s[j]) \in Nat
          BY <1>1, <4>4, OwnFacts
        <4>6. QED
          BY <1>6, <1>9, <4>2, <4>3, <4>5
      <3>3. QED
        BY <3>1, <3>2
    <2>2. ASSUME NEW i \in 0..RingSize - 1, \A e \in sent..matched - 1 : Slot(e) # i,
                 NEW y \in Range(ring[i].outputs)
          PROVE  Idx(y) <= Top'
      <3>1. Idx(y) <= Top
        BY <1>2, <2>2 DEF OldCovered
      <3>2. PICK s \in Seq(Output) : s = ring[i].outputs
        BY <1>1 DEF ServerTypes, Event
      <3>3. y \in Output
        BY <2>2, <3>2 DEF Range
      <3>4. Idx(y) \in Nat
        BY <1>1, <3>3, OwnFacts
      <3>5. QED
        BY <1>6, <1>9, <3>1, <3>4
    <2>3. QED
      BY <1>1, <1>10, <2>1, <2>2 DEF OldCovered
  <1>17. QED
    BY <1>8, <1>11, <1>15, <1>16 DEF ChainInv

\* Nothing has gone wrong when nothing has gone wrong after the step.
LEMMA NothingFailed ==
    ASSUME ServerInv, [Next]_vars, Faults' = 0
    PROVE  UNCHANGED faults /\ Faults = 0 /\ \A k \in FaultKind : ~Fault(k)
  <1>1. faults \in [FaultKind -> 0..MaxFaults] /\ MaxFaults \in Nat
    BY OutputAssumption DEF ServerInv, ServerTypes
  <1>2. ASSUME NEW k \in FaultKind, Fault(k)
        PROVE  FALSE
    <2>1. faults' \in [FaultKind -> 0..MaxFaults] /\ faults'[k] = faults[k] + 1 /\ faults[k] \in Nat
      BY <1>1, <1>2, FaultFacts
    <2>2. PICK f : f = faults'
      OBVIOUS
    <2>3. \A x \in FaultKind : f[x] \in Nat
      BY <1>1, <2>1, <2>2
    <2>4. f[k] <= SumFunctionOnSet(f, FaultKind)
      BY <2>3, FaultKindFinite, SumBounds
    <2>5. f[k] <= 0
      BY <2>2, <2>4 DEF Faults
    <2>6. QED
      BY <2>1, <2>2, <2>5
  <1>3. "restart" \in FaultKind /\ "unsent" \in FaultKind /\ "stop" \in FaultKind /\ "sot" \in FaultKind
    BY DEF FaultKind
  <1>4. UNCHANGED faults \/ Fault("restart") \/ Fault("unsent") \/ Fault("stop") \/ Fault("sot")
    BY DEF Next, ServerNext, SettlementNext, Poll, MatchOrder, MatchDone, PublishOutput, PublishDone, Restart,
           Receive, WriteShard, WriteFails, Dispatch, Stop, vars, serverVars
  <1>5. UNCHANGED faults
    BY <1>2, <1>3, <1>4
  <1>6. QED
    BY <1>2, <1>5 DEF Faults

\* Every step keeps the history in order, as long as nothing fails.
LEMMA ChainStep ==
    ASSUME ServerInv, Remembered, ChainInv, [Next]_vars, \A k \in FaultKind : ~Fault(k)
    PROVE  ChainInv'
  <1>1. ServerTypes
    BY DEF ServerInv
  <1>2. "restart" \in FaultKind /\ "unsent" \in FaultKind
    BY DEF FaultKind
  <1>3. ASSUME NEW n \in 1..BatchSize, Poll(n)
        PROVE  ChainInv'
    <2>1. UNCHANGED <<sent, matched, out, built, lastHash, outputs>>
      BY <1>3 DEF Poll
    <2>2. \A i \in 0..RingSize - 1 : ring'[i].outputs = ring[i].outputs
      <3>1. CASE ring' = ring
        BY <3>1
      <3>2. CASE ring' # ring
        <4>1. PICK m \in (position + 1)..(position + n), os \in Seq(Orders) : PutOn(os, m)
          BY <1>1, <1>3, <3>2, PollFacts
        <4>2. m \in 0..MaxMessages
          <5>1. position \in Nat /\ n \in Nat /\ MaxMessages \in Nat /\ position + n <= MaxMessages
            BY <1>1, <1>3, PollFacts, ServerAssumption, OutputAssumption DEF ServerTypes
          <5>2. QED
            BY <4>1, <5>1
        <4>3. QED
          BY <1>1, <4>1, <4>2, PutOnFacts
      <3>3. QED
        BY <3>1, <3>2
    <2>3. QED
      BY <2>1, <2>2, ChainSame
  <1>4. CASE MatchOrder
    <2>1. UNCHANGED <<sent, matched, out, ring, outputs>>
      BY <1>4 DEF MatchOrder
    <2>2. CASE UNCHANGED <<lastHash, built>>
      BY <2>1, <2>2, ChainSame
    <2>3. CASE Taken
      <3>1. PICK x \in Output : x.seq = outputSeq + 1 /\ x.prev = lastHash /\ lastHash' = Hash(x) /\ built' = Append(built, x)
        BY <2>3 DEF Taken
      <3>2. QED
        BY <2>1, <3>1, ChainTaken
    <2>4. QED
      BY <1>1, <1>4, <2>2, <2>3, MatchFacts
  <1>5. CASE PublishOutput
    <2>1. outputs' = Append(outputs, Ev(sent).outputs[out + 1])
      BY <1>2, <1>5 DEF PublishOutput, Ev
    <2>2. QED
      BY <1>5, <2>1, ChainPublish
  <1>6. CASE Restart
    BY <1>2, <1>6 DEF Restart
  <1>7. CASE UNCHANGED <<memory, outputs>>
    <2>1. UNCHANGED <<sent, matched, out, built, lastHash, outputs, ring>>
      BY <1>7 DEF memory
    <2>2. QED
      BY <2>1, ChainSame
  <1>8. SettlementNext => UNCHANGED outputs
    BY DEF SettlementNext, Receive, WriteShard, WriteFails, Dispatch, Stop
  <1>9. UNCHANGED vars => UNCHANGED <<memory, outputs>>
    BY DEF vars, serverVars
  <1>10. QED
    BY <1>3, <1>4, <1>5, <1>6, <1>7, <1>8, <1>9, ChainMatchDone, ChainPublishDone DEF Next, ServerNext

\* At the start there is no history.
LEMMA InitChain ==
    ASSUME Init
    PROVE  ChainInv
  <1>1. /\ ring = [i \in 0..RingSize - 1 |-> EmptyEvent] /\ sent = 0 /\ matched = 0 /\ out = 0 /\ built = <<>>
        /\ lastHash = <<>> /\ outputs = <<>>
    BY DEF Init, ServerInit, MemoryInit, EngineInit, GenesisHash
  <1>2. DOMAIN lastHash = {} /\ Len(lastHash) = 0 /\ Len(built) = 0 /\ Len(outputs) = 0
    BY <1>1
  <1>3. outputs \in Seq(Output)
    BY <1>1
  <1>4. Tip = Genesis
    BY <1>2, <1>3, CanonFacts DEF Tip
  <1>5. Tip.hash = <<>> /\ Tip.seq = 0 /\ Top = 0
    BY <1>4 DEF Genesis, GenesisHash, Top
  <1>6. \A i \in 0..RingSize - 1 : Range(ring[i].outputs) = {}
    BY <1>1 DEF EmptyEvent, Range
  <1>7. Rising /\ AllOwn
    BY <1>2, <1>6 DEF Rising, AllOwn
  <1>8. HeadOwn
    BY <1>2, <1>5 DEF HeadOwn, Begins
  <1>9. (\A e \in sent..matched - 1 : FALSE) /\ \A i \in Top + 1..Len(lastHash) - Len(built) : FALSE
    BY <1>1, <1>2, <1>5
  <1>10. NoGap
    BY <1>9 DEF NoGap
  <1>11. OldCovered
    BY <1>1, <1>6 DEF OldCovered
  <1>12. QED
    BY <1>7, <1>8, <1>10, <1>11 DEF ChainInv

-----------------------------------------------------------------------------
(***************************************************************************)
(* What the settlement service has passed while nothing failed: it stands  *)
(* exactly where the history stands after what it has read.                *)
(***************************************************************************)

\* u has accepted base and, from there, the outputs v has
Beside(u, v, base) ==
    /\ v.seq = u.seq /\ v.hash = u.hash /\ v.ok \in Seq(Output)
    /\ Range(u.ok) = base \cup Range(v.ok)

\* Both take the next output, or both pass it.
LEMMA VerifyBeside ==
    ASSUME NEW u, GoodChain(u), NEW v, NEW base, Beside(u, v, base), NEW x \in Output
    PROVE  Beside(Verify(u, x), Verify(v, x), base)
  <1>1. /\ u.seq \in Nat /\ u.ok \in Seq(Output) /\ v.seq = u.seq /\ v.hash = u.hash
        /\ v.ok \in Seq(Output) /\ Range(u.ok) = base \cup Range(v.ok)
    BY DEF GoodChain, Beside
  <1>2. CASE Accepts(u, x)
    <2>1. Accepts(v, x)
      BY <1>1, <1>2 DEF Accepts
    <2>2. PICK a, b : a = Verify(u, x) /\ b = Verify(v, x)
      OBVIOUS
    <2>3. a = [seq |-> x.seq, hash |-> Hash(x), ok |-> Append(u.ok, x)]
      BY <1>1, <1>2, <2>2, VerifyFacts
    <2>4. b = [seq |-> x.seq, hash |-> Hash(x), ok |-> Append(v.ok, x)]
      BY <1>1, <2>1, <2>2, VerifyFacts
    <2>5. b.seq = a.seq /\ b.hash = a.hash /\ a.ok = Append(u.ok, x) /\ b.ok = Append(v.ok, x)
      BY <2>3, <2>4
    <2>6. Range(Append(u.ok, x)) = Range(u.ok) \cup {x}
      BY <1>1, RangeAppend
    <2>7. Range(Append(v.ok, x)) = Range(v.ok) \cup {x} /\ Append(v.ok, x) \in Seq(Output)
      BY <1>1, RangeAppend
    <2>8. Range(a.ok) = base \cup Range(b.ok) /\ b.ok \in Seq(Output)
      BY <1>1, <2>5, <2>6, <2>7
    <2>9. Beside(a, b, base)
      BY <2>5, <2>8 DEF Beside
    <2>10. QED
      BY <2>2, <2>9
  <1>3. CASE ~Accepts(u, x)
    <2>1. ~Accepts(v, x)
      BY <1>1, <1>3 DEF Accepts
    <2>2. Verify(u, x) = u
      BY <1>1, <1>3, VerifyFacts
    <2>3. Verify(v, x) = v
      BY <1>1, <2>1, VerifyFacts
    <2>4. QED
      BY <2>2, <2>3
  <1>4. QED
    BY <1>2, <1>3

\* A batch that is read from where the history stands.
LEMMA BatchBeside ==
    ASSUME NEW s \in Seq(Output), NEW n \in 0..Len(s), NEW k \in Nat, n + k <= Len(s), NEW v, NEW base,
           Beside(Canon(s)[n], v, base), NEW batch, batch = SubSeq(s, n + 1, n + k)
    PROVE  Beside(Canon(s)[n + k], Run(batch, v)[Len(batch)], base)
  <1> DEFINE g == Run(batch, v)
             c == Canon(s)
             Good == {i \in 0..k : Beside(c[n + i], g[i], base)}
  <1>1. /\ batch \in Seq(Output) /\ Len(batch) = k /\ Len(s) \in Nat /\ n \in Nat
        /\ \A i \in 1..k : batch[i] = s[n + i]
    BY BatchRead
  <1>2. g[0] = v /\ \A i \in 1..k : g[i] = Verify(g[i - 1], batch[i])
    <2>1. PICK t \in Seq(Output) : t = batch
      BY <1>1
    <2>2. /\ Run(t, v)[0] = v
          /\ \A i \in 1..Len(t) : Run(t, v)[i] = Verify(Run(t, v)[i - 1], t[i])
      BY RunFacts
    <2>3. QED
      BY <1>1, <2>1, <2>2
  <1>3. /\ \A i \in 1..Len(s) : s[i] \in Output /\ c[i] = Verify(c[i - 1], s[i])
        /\ \A i \in 0..Len(s) : GoodChain(c[i])
    BY CanonFacts
  <1> HIDE DEF g, c
  <1>4. 0 \in Good
    <2>1. n + 0 = n /\ 0 \in 0..k
      BY <1>1
    <2>2. Beside(c[n], v, base)
      BY DEF c
    <2>3. QED
      BY <1>2, <2>1, <2>2
  <1>5. ASSUME NEW i \in 0..k, i \in Good, i < k
        PROVE  i + 1 \in Good
    <2>1. /\ i + 1 \in 1..k /\ i + 1 - 1 = i /\ i + 1 \in 0..k /\ n + (i + 1) = (n + i) + 1
          /\ n + i \in 0..Len(s) /\ (n + i) + 1 \in 1..Len(s) /\ (n + i) + 1 - 1 = n + i
      <3>1. i \in Nat /\ i < k /\ n \in Nat /\ Len(s) \in Nat /\ n + k <= Len(s)
        BY <1>1, <1>5
      <3> HIDE DEF Good
      <3>2. QED
        BY <3>1
    <2>2. PICK u, w, x : u = c[n + i] /\ w = g[i] /\ x = s[(n + i) + 1]
      OBVIOUS
    <2>3. GoodChain(u) /\ x \in Output /\ Beside(u, w, base)
      BY <1>3, <1>5, <2>1, <2>2
    <2>4. Beside(Verify(u, x), Verify(w, x), base)
      BY <2>3, VerifyBeside
    <2>5. g[i + 1] = Verify(w, x)
      BY <1>1, <1>2, <2>1, <2>2
    <2>6. c[n + (i + 1)] = Verify(u, x)
      BY <1>3, <2>1, <2>2
    <2>7. QED
      BY <2>1, <2>4, <2>5, <2>6
  <1>6. \A i \in 0..k : i \in Good
    <2> HIDE DEF Good
    <2>1. QED
      BY <1>4, <1>5, UpToInduction
  <1>7. k \in 0..k
    OBVIOUS
  <1>8. QED
    BY <1>1, <1>6, <1>7 DEF g, c

\* the service stands where the history stands, and has settled its rows
SettledInv ==
    /\ lastSeq = Canon(outputs)[read].seq /\ chainHash = Canon(outputs)[read].hash
    /\ \A r \in Range(Canon(outputs)[read].ok) : InSot(r) /\ InDerived(r)

\* Every operation of the service, as long as nothing fails.
LEMMA SettledSteps ==
    ASSUME outputs \in Seq(Output), SettlementInv, SettledInv, SettlementNext, \A k \in FaultKind : ~Fault(k)
    PROVE  SettledInv'
  <1>1. /\ read \in 0..Len(outputs) /\ read \in Nat /\ Len(outputs) \in Nat /\ UNCHANGED outputs
        /\ sot \subseteq Rows /\ Range(verified) \subseteq Rows
    <2>1. read \in 0..Len(outputs) /\ Len(outputs) \in Nat /\ sot \subseteq Rows /\ Range(verified) \subseteq Rows
      BY DEF SettlementInv, SettlementTypeOK
    <2>2. UNCHANGED outputs
      BY DEF SettlementNext, Receive, WriteShard, WriteFails, Dispatch, Stop
    <2>3. QED
      BY <2>1, <2>2
  <1>2. PICK C : C = Range(Canon(outputs)[read].ok)
    OBVIOUS
  <1>3. \A r \in C : InSot(r) /\ InDerived(r)
    BY <1>2 DEF SettledInv
  <1>4. ASSUME read' = read, lastSeq' = lastSeq, chainHash' = chainHash, \A r \in C : InSot(r)' /\ InDerived(r)'
        PROVE  SettledInv'
    BY <1>1, <1>2, <1>4 DEF SettledInv
  <1>5. ASSUME NEW n \in 1..MaxReceived, Receive(n)
        PROVE  SettledInv'
    <2>0. PICK s \in Seq(Output), m \in Nat, k \in Nat : s = outputs /\ m = read /\ k = n
      <3>1. n \in Nat
        BY SettlementAssumption
      <3> QED  BY <1>1, <3>1
    <2>1. PICK v, batch :
              s = outputs /\ m = read /\ k = n /\ v = Held /\ batch = SubSeq(outputs, read + 1, read + n)
      BY <2>0
    <2>2. PICK w : w = VerifyBatch(batch)
      OBVIOUS
    <2>3. /\ Idle /\ m + k <= Len(s) /\ read' = m + k /\ lastSeq' = w.seq /\ chainHash' = w.hash /\ verified' = w.ok
          /\ writing' = {output.symbol : output \in Range(w.ok)} /\ sending' = (w.ok # <<>>)
          /\ UNCHANGED <<sot, derived>>
      BY <1>5, <2>1, <2>2 DEF Receive
    <2>4. w = Run(batch, v)[Len(batch)]
      BY <2>1, <2>2 DEF VerifyBatch, Run, IsRun, Held
    <2>5. Beside(Canon(s)[m], v, C)
      <3>1. v.seq = lastSeq /\ v.hash = chainHash /\ v.ok = <<>>
        BY <2>1 DEF Held
      <3>2. v.ok \in Seq(Output) /\ Range(v.ok) = {}
        BY <3>1 DEF Range
      <3>3. QED
        BY <1>2, <2>1, <3>1, <3>2 DEF Beside, SettledInv
    <2>6. Beside(Canon(s)[m + k], w, C)
      <3>1. m \in 0..Len(s) /\ batch = SubSeq(s, m + 1, m + k)
        BY <1>1, <2>1
      <3>2. QED
        BY <2>3, <2>4, <2>5, <3>1, BatchBeside
    <2>7. /\ w.seq = Canon(s)[m + k].seq /\ w.hash = Canon(s)[m + k].hash
          /\ Range(Canon(s)[m + k].ok) = C \cup Range(w.ok)
      BY <2>6 DEF Beside
    <2>8. ASSUME NEW r \in C
          PROVE  InSot(r)' /\ InDerived(r)'
      <3>1. r \in sot /\ r \in derived
        BY <1>3, <2>3 DEF InSot, InDerived, Idle
      <3>2. QED
        BY <2>3, <3>1 DEF InSot, InDerived
    <2>9. ASSUME NEW r \in Range(w.ok)
          PROVE  InSot(r)' /\ InDerived(r)'
      <3>1. w.ok # <<>>
        BY <2>9 DEF Range
      <3>2. QED
        BY <2>3, <2>9, <3>1 DEF InSot, InDerived
    <2>10. QED
      BY <1>1, <2>1, <2>3, <2>7, <2>8, <2>9 DEF SettledInv
  <1>6. ASSUME NEW s \in Symbol, WriteShard(s)
        PROVE  SettledInv'
    <2>1. /\ writing' = writing \ {s} /\ sot' = Upsert(Shard(s))
          /\ UNCHANGED <<read, lastSeq, chainHash, verified, sending, derived>>
      BY <1>6 DEF WriteShard
    <2>2. Shard(s) \subseteq Range(verified) /\ Shard(s) \subseteq sot'
      BY <2>1 DEF Shard, Upsert
    <2>3. sot \subseteq sot'
      <3>1. SUFFICES ASSUME NEW r \in sot PROVE r \in sot'
        OBVIOUS
      <3>2. CASE \E x \in Shard(s) : <<x.symbol, x.seq>> = <<r.symbol, r.seq>>
        <4>1. PICK x \in Shard(s) : x.seq = r.seq
          BY <3>2
        <4>2. x = r
          BY <1>1, <2>2, <4>1, RowsFacts
        <4>3. QED
          BY <2>2, <4>2
      <3>3. CASE ~\E x \in Shard(s) : <<x.symbol, x.seq>> = <<r.symbol, r.seq>>
        BY <2>1, <3>3 DEF Upsert
      <3>4. QED
        BY <3>2, <3>3
    <2>4. ASSUME NEW r \in C
          PROVE  InSot(r)' /\ InDerived(r)'
      <3>1. InDerived(r)'
        BY <1>3, <2>1 DEF InDerived
      <3>2. CASE r \in sot
        BY <2>3, <3>1, <3>2 DEF InSot
      <3>3. CASE r \in Range(verified) /\ r.symbol \in writing
        <4>1. r.symbol = s => r \in Shard(s)
          BY <3>3 DEF Shard
        <4>2. QED
          BY <2>1, <2>2, <3>1, <3>3, <4>1 DEF InSot
      <3>4. QED
        BY <1>3, <3>2, <3>3 DEF InSot
    <2>5. QED
      BY <1>4, <2>1, <2>4
  <1>7. CASE Dispatch
    <2>1. /\ derived' = derived \cup Range(verified) /\ UNCHANGED <<read, lastSeq, chainHash, verified, writing, sot>>
      BY <1>7 DEF Dispatch
    <2>2. \A r \in C : InSot(r)' /\ InDerived(r)'
      BY <1>3, <2>1 DEF InSot, InDerived
    <2>3. QED
      BY <1>4, <2>1, <2>2
  <1>8. "sot" \in FaultKind /\ "stop" \in FaultKind
    BY DEF FaultKind
  <1>9. ~Stop /\ \A s \in Symbol : ~WriteFails(s)
    BY <1>8 DEF Stop, WriteFails
  <1>10. QED
    BY <1>5, <1>6, <1>7, <1>9 DEF SettlementNext

\* The topic may grow under the service.
LEMMA SettledGrows ==
    ASSUME ServerTypes, SettlementInv, SettledInv, UNCHANGED settlementVars, NEW x \in Output,
           outputs' = Append(outputs, x)
    PROVE  SettledInv'
  <1>1. read \in 0..Len(outputs) /\ UNCHANGED <<read, lastSeq, chainHash, verified, writing, sending, sot, derived>>
    BY DEF SettlementInv, SettlementTypeOK, settlementVars
  <1>2. Canon(outputs')[read] = Canon(outputs)[read]
    BY <1>1, HeadGrows
  <1>3. \A r : InSot(r)' = InSot(r) /\ InDerived(r)' = InDerived(r)
    BY <1>1 DEF InSot, InDerived
  <1>4. QED
    BY <1>1, <1>2, <1>3 DEF SettledInv

\* as long as nothing has gone wrong
UpInv == Faults = 0 => ChainInv /\ SettledInv

\* As long as neither service dies and every write succeeds, nothing the
\* settlement service passes over is missing in the source of truth or with
\* the derived writers.
THEOREM NothingMissing == Spec => []SettledWhileUp
  <1>1. Init => UpInv
    <2>1. SUFFICES ASSUME Init PROVE ChainInv /\ SettledInv
      BY DEF UpInv
    <2>2. outputs = <<>> /\ read = 0 /\ lastSeq = 0 /\ chainHash = GenesisHash
      BY <2>1 DEF Init, ServerInit, SettlementInit
    <2>3. outputs \in Seq(Output)
      BY <2>2
    <2>4. Canon(outputs)[read] = Genesis
      BY <2>2, <2>3, CanonFacts
    <2>5. Range(Canon(outputs)[read].ok) = {}
      BY <2>4 DEF Genesis, Range
    <2>6. SettledInv
      BY <2>2, <2>4, <2>5 DEF SettledInv, Genesis
    <2>7. QED
      BY <2>1, <2>6, InitChain
  <1>2. PipelineInv /\ OnceInv /\ UpInv /\ [Next]_vars => UpInv'
    <2>1. SUFFICES ASSUME PipelineInv, OnceInv, UpInv, [Next]_vars, Faults' = 0 PROVE ChainInv' /\ SettledInv'
      BY DEF UpInv
    <2>2. /\ ServerInv /\ SettlementInv /\ ServerTypes /\ Remembered /\ outputs \in Seq(Output)
      BY <2>1 DEF PipelineInv, ServerInv, ServerTypes, OnceInv
    <2>3. ChainInv /\ SettledInv /\ \A k \in FaultKind : ~Fault(k)
      BY <2>1, <2>2, NothingFailed DEF UpInv
    <2>4. ChainInv'
      BY <2>1, <2>2, <2>3, ChainStep
    <2>5. CASE SettlementNext
      BY <2>2, <2>3, <2>4, <2>5, SettledSteps
    <2>6. CASE UNCHANGED settlementVars
      <3>1. outputs' = outputs \/ \E x \in Output : outputs' = Append(outputs, x)
        BY <2>1, <2>2, ServerStep
      <3>2. CASE outputs' = outputs
        BY <2>3, <2>4, <2>6, <3>2 DEF SettledInv, settlementVars, InSot, InDerived
      <3>3. CASE \E x \in Output : outputs' = Append(outputs, x)
        BY <2>2, <2>3, <2>4, <2>6, <3>3, SettledGrows
      <3>4. QED
        BY <3>1, <3>2, <3>3
    <2>7. QED
      BY <2>1, <2>5, <2>6 DEF Next, vars
  <1>3. PipelineInv /\ UpInv => SettledWhileUp
    <2>1. SUFFICES ASSUME PipelineInv, UpInv, Faults = 0, NEW i \in 1..read
                   PROVE  InSot(outputs[i]) /\ InDerived(outputs[i])
      BY DEF SettledWhileUp, PassedIsSettled
    <2>2. PICK s \in Seq(Output) : s = outputs
      BY <2>1 DEF PipelineInv, ServerInv, ServerTypes
    <2>3. read \in 0..Len(s) /\ Len(s) \in Nat /\ i \in 0..Len(s) /\ i <= read /\ i \in 1..Len(s)
      BY <2>1, <2>2 DEF PipelineInv, SettlementInv, SettlementTypeOK
    <2>4. ChainInv /\ SettledInv
      BY <2>1 DEF UpInv
    <2>5. s[i] \in Range(Canon(s)[i].ok)
      BY <2>2, <2>3, <2>4 DEF ChainInv, HeadOwn
    <2>6. Later(Canon(s)[i], Canon(s)[read])
      BY <2>3, CanonLater
    <2>7. s[i] \in Range(Canon(s)[read].ok)
      BY <2>5, <2>6 DEF Later
    <2>8. QED
      BY <2>2, <2>4, <2>7 DEF SettledInv
  <1>4. QED
    BY <1>1, <1>2, <1>3, PipelineInvHolds, OnceInvHolds, PTL DEF Spec

-----------------------------------------------------------------------------
(***************************************************************************)
(* The order book.                                                         *)
(***************************************************************************)

\* The index and the loop know the orders they name.
KnownIds ==
    /\ \A o \in index : orders[o] \in Order
    /\ taker # NoOrder => taker \in index

\* Even while an order is being matched: the book without it is not crossed.
NotCrossed == \A p \in LevelPrices("buy"), r \in LevelPrices("sell") : p < r

BookInv == BookTypeOK /\ BookIndexed /\ KnownIds /\ NotCrossed

-----------------------------------------------------------------------------
(***************************************************************************)
(* Numbers and sequences.                                                  *)
(***************************************************************************)

\* The best price of a side that has orders is one of its prices, and none of
\* them is better.
LEMMA BestFacts ==
    ASSUME NEW s \in Side, LevelPrices(s) # {}
    PROVE  /\ BestPrice(s) \in LevelPrices(s)
           /\ \A p \in LevelPrices(s) : IF s = "sell" THEN BestPrice(s) <= p ELSE BestPrice(s) >= p
  <1>1. LevelPrices(s) \subseteq Prices /\ Prices \subseteq Int /\ IsFiniteSet(Prices)
    BY EngineAssumption DEF LevelPrices
  <1>2. IsFiniteSet(LevelPrices(s)) /\ LevelPrices(s) \subseteq Int
    BY <1>1, FS_Subset
  <1>3. /\ \E x \in LevelPrices(s) : \A y \in LevelPrices(s) : x <= y
        /\ \E x \in LevelPrices(s) : \A y \in LevelPrices(s) : x >= y
    BY <1>2, Extremes
  <1>4. QED
    BY <1>3 DEF BestPrice, Min, Max

\* The head of a level, and what is behind it.
LEMMA HeadTail ==
    ASSUME NEW S, NEW s \in Seq(S), s # <<>>
    PROVE  /\ Len(s) \in Nat /\ 1 \in DOMAIN s /\ Head(s) = s[1] /\ Head(s) \in S
           /\ Tail(s) \in Seq(S) /\ Len(Tail(s)) = Len(s) - 1
           /\ \A i \in DOMAIN Tail(s) : i + 1 \in DOMAIN s /\ Tail(s)[i] = s[i + 1]
           /\ \A i \in DOMAIN s : i > 1 => i - 1 \in DOMAIN Tail(s) /\ Tail(s)[i - 1] = s[i]
  OBVIOUS

\* Removing one position closes the gap.
LEMMA RemoveAtFacts ==
    ASSUME NEW S, NEW s \in Seq(S), NEW k \in DOMAIN s
    PROVE  /\ RemoveAt(s, k) \in Seq(S) /\ Len(RemoveAt(s, k)) = Len(s) - 1
           /\ \A i \in 1..(Len(s) - 1) : RemoveAt(s, k)[i] = IF i < k THEN s[i] ELSE s[i + 1]
  <1>1. Len(s) \in Nat /\ k \in 1..Len(s)
    OBVIOUS
  <1> DEFINE a == SubSeq(s, 1, k - 1)
             b == SubSeq(s, k + 1, Len(s))
  <1>2. a \in Seq(S) /\ Len(a) = k - 1 /\ \A i \in 1..(k - 1) : a[i] = s[i]
    BY <1>1
  <1>3. b \in Seq(S) /\ Len(b) = Len(s) - k /\ \A i \in 1..(Len(s) - k) : b[i] = s[k + i]
    BY <1>1
  <1>4. RemoveAt(s, k) = a \o b
    BY DEF RemoveAt
  <1> HIDE DEF a, b
  <1>5. a \o b \in Seq(S) /\ Len(a \o b) = Len(s) - 1
    BY <1>1, <1>2, <1>3
  <1>6. ASSUME NEW i \in 1..(Len(s) - 1)
        PROVE  (a \o b)[i] = IF i < k THEN s[i] ELSE s[i + 1]
    <2>1. CASE i < k
      BY <1>1, <1>2, <1>3, <2>1
    <2>2. CASE ~(i < k)
      <3>1. (a \o b)[i] = b[i - (k - 1)]
        BY SMTT(30), <1>1, <1>2, <1>3, <2>2
      <3>2. i - (k - 1) \in 1..(Len(s) - k) /\ k + (i - (k - 1)) = i + 1
        BY <1>1, <2>2
      <3>3. QED
        BY <1>3, <2>2, <3>1, <3>2
    <2>3. QED
      BY <2>1, <2>2
  <1>7. QED
    BY <1>4, <1>5, <1>6

-----------------------------------------------------------------------------
(***************************************************************************)
(* Steps of the book.                                                      *)
(***************************************************************************)

\* The smaller of two quantities.
LEMMA SmallerOf ==
    ASSUME NEW m \in Nat, NEW n \in Nat
    PROVE  Min({m, n}) = IF m <= n THEN m ELSE n
  <1>1. \E x \in {m, n} : \A y \in {m, n} : x <= y
    OBVIOUS
  <1>2. QED
    BY <1>1 DEF Min

\* A step that replaces one level leaves the others.
LEMMA LevelUpdate ==
    ASSUME NEW qs \in [Side -> [Prices -> Seq(OrderIds)]], NEW s \in Side, NEW p \in Prices,
           NEW L \in Seq(OrderIds), NEW after, after = [qs EXCEPT ![s][p] = L]
    PROVE  /\ after \in [Side -> [Prices -> Seq(OrderIds)]]
           /\ after[s][p] = L
           /\ \A t \in Side, r \in Prices : t # s \/ r # p => after[t][r] = qs[t][r]
  OBVIOUS

\* An order on the book is at its side and price only.
LEMMA OnBookFacts ==
    ASSUME BookTypeOK, BookIndexed, KnownIds, NEW s \in Side, NEW p \in Prices,
           NEW o \in Range(queue[s][p])
    PROVE  /\ o \in OrderIds /\ o \in index /\ o # taker /\ orders[o] \in Order
           /\ orders[o].side = s /\ orders[o].price = p /\ orders[o].qty > 0
  <1>1. queue[s][p] \in Seq(OrderIds)
    BY DEF BookTypeOK
  <1>2. o \in OrderIds
    BY <1>1 DEF Range
  <1>3. /\ o \in index /\ o # taker
        /\ orders[o].side = s /\ orders[o].price = p /\ orders[o].qty > 0
    BY DEF BookIndexed
  <1>4. QED
    BY <1>2, <1>3 DEF KnownIds

\* one turn of the matching loop, with what it chooses: the taker trades q with
\* the maker m, the oldest order of the best price p of side s
Trade(s, p, m, q) ==
    /\ s \in Side /\ p \in Prices /\ m \in OrderIds /\ q \in Nat /\ q > 0
    /\ taker \in OrderIds /\ taker # m /\ m \in index
    /\ orders[taker] \in Order /\ orders[m] \in Order
    /\ s = Opposite(orders[taker].side) /\ orders[m].side = s /\ orders[m].price = p
    /\ q <= orders[taker].qty /\ q <= orders[m].qty
    /\ Crosses(s, p, orders[taker].price)
    /\ p = BestPrice(s) /\ LevelPrices(s) # {} /\ queue[s][p] # <<>> /\ m = Head(queue[s][p])
    /\ orders' = [orders EXCEPT ![taker].qty = @ - q, ![m].qty = @ - q]
    /\ queue' = [queue EXCEPT ![s][p] = LevelAfter(@, orders[m].qty - q)]
    /\ index' = IF orders[m].qty - q > 0 THEN index ELSE index \ {m}
    /\ IF s = "sell" THEN Clears(taker, m, p, q) ELSE Clears(m, taker, p, q)
    /\ UNCHANGED <<api, taker, placed>>

\* Match is such a turn.
LEMMA MatchTrades ==
    ASSUME BookInv, Match
    PROVE  \E s, p, m, q : Trade(s, p, m, q)
  <1> DEFINE s == Opposite(orders[taker].side)
             p == BestPrice(s)
             m == Head(queue[s][p])
             q == TradeQty(taker, m)
  <1>1. taker # NoOrder /\ orders[taker].qty > 0 /\ Matchable(taker)
    BY DEF Match
  <1>2. taker \in OrderIds /\ orders[taker] \in Order
    BY <1>1 DEF BookInv, BookTypeOK, KnownIds
  <1>3. s \in Side
    BY <1>2 DEF Opposite, Side, Order
  <1>4. LevelPrices(s) # {} /\ Crosses(s, p, orders[taker].price)
    BY <1>1 DEF Matchable
  <1>5. p \in LevelPrices(s)
    BY <1>3, <1>4, BestFacts
  <1>6. p \in Prices /\ queue[s][p] # <<>>
    BY <1>5 DEF LevelPrices
  <1>7. queue[s][p] \in Seq(OrderIds)
    BY <1>3, <1>6 DEF BookInv, BookTypeOK
  <1>8. m \in Range(queue[s][p])
    <2>1. 1 \in DOMAIN queue[s][p] /\ m = queue[s][p][1]
      BY <1>6, <1>7, HeadTail
    <2>2. QED
      BY <2>1 DEF Range
  <1>9. /\ m \in OrderIds /\ m \in index /\ m # taker /\ orders[m] \in Order
        /\ orders[m].side = s /\ orders[m].price = p /\ orders[m].qty > 0
    BY <1>3, <1>6, <1>8, OnBookFacts DEF BookInv
  <1>10. orders[taker].qty \in Nat /\ orders[m].qty \in Nat
    BY SMTT(60), <1>2, <1>9 DEF Order
  <1>11. q \in Nat /\ q > 0 /\ q <= orders[taker].qty /\ q <= orders[m].qty
    <2>1. q = IF orders[taker].qty <= orders[m].qty THEN orders[taker].qty ELSE orders[m].qty
      BY <1>10, SmallerOf DEF TradeQty
    <2>2. PICK x \in Nat, y \in Nat : x = orders[taker].qty /\ y = orders[m].qty /\ x > 0 /\ y > 0
      BY <1>1, <1>9, <1>10
    <2>3. q = IF x <= y THEN x ELSE y
      BY <2>1, <2>2
    <2> HIDE DEF s, p, m, q
    <2>4. QED
      BY <2>2, <2>3
  <1>12. /\ orders' = [orders EXCEPT ![taker].qty = @ - q, ![m].qty = @ - q]
         /\ queue' = [queue EXCEPT ![s][p] = LevelAfter(@, orders[m].qty - q)]
         /\ index' = (IF orders[m].qty - q > 0 THEN index ELSE index \ {m})
         /\ IF s = "sell" THEN Clears(taker, m, p, q) ELSE Clears(m, taker, p, q)
         /\ UNCHANGED <<api, taker, placed>>
    BY DEF Match
  <1> HIDE DEF s, p, m, q
  <1>13. s = Opposite(orders[taker].side) /\ p = BestPrice(s) /\ m = Head(queue[s][p])
    BY DEF s, p, m
  <1>14. Trade(s, p, m, q)
    BY <1>2, <1>3, <1>4, <1>6, <1>9, <1>11, <1>12, <1>13 DEF Trade
  <1>15. QED
    BY <1>14

\* What a trade does to the orders.
LEMMA TradeOrders ==
    ASSUME BookInv, NEW s, NEW p, NEW m, NEW q, Trade(s, p, m, q)
    PROVE  /\ orders' \in [OrderIds -> Order \cup {NoOrder}]
           /\ \A o \in OrderIds : o # taker /\ o # m => orders'[o] = orders[o]
           /\ \A o \in {taker, m} :
                 /\ orders'[o] \in Order
                 /\ orders'[o].user = orders[o].user /\ orders'[o].side = orders[o].side
                 /\ orders'[o].price = orders[o].price /\ orders'[o].qty = orders[o].qty - q
  <1>1. orders \in [OrderIds -> Order \cup {NoOrder}]
    BY DEF BookInv, BookTypeOK
  <1>2. /\ taker \in OrderIds /\ m \in OrderIds /\ taker # m
        /\ orders[taker] \in Order /\ orders[m] \in Order
        /\ q \in Nat /\ q <= orders[taker].qty /\ q <= orders[m].qty
        /\ orders' = [orders EXCEPT ![taker].qty = @ - q, ![m].qty = @ - q]
    BY DEF Trade
  <1>3. /\ orders'[taker] = [orders[taker] EXCEPT !.qty = @ - q]
        /\ orders'[m] = [orders[m] EXCEPT !.qty = @ - q]
        /\ \A o \in OrderIds : o # taker /\ o # m => orders'[o] = orders[o]
        /\ DOMAIN orders' = OrderIds
    BY <1>1, <1>2
  <1>4. ASSUME NEW x \in Order, q <= x.qty
        PROVE  /\ [x EXCEPT !.qty = @ - q] \in Order
               /\ [x EXCEPT !.qty = @ - q].user = x.user /\ [x EXCEPT !.qty = @ - q].side = x.side
               /\ [x EXCEPT !.qty = @ - q].price = x.price /\ [x EXCEPT !.qty = @ - q].qty = x.qty - q
    BY <1>2, <1>4, EngineAssumption DEF Order
  <1>5. \A o \in {taker, m} :
                 /\ orders'[o] \in Order
                 /\ orders'[o].user = orders[o].user /\ orders'[o].side = orders[o].side
                 /\ orders'[o].price = orders[o].price /\ orders'[o].qty = orders[o].qty - q
    <2>1. ASSUME NEW o \in {taker, m}
          PROVE  orders[o] \in Order /\ q <= orders[o].qty /\ orders'[o] = [orders[o] EXCEPT !.qty = @ - q]
      BY <1>2, <1>3
    <2>2. QED
      BY <1>4, <2>1, Zenon
  <1>6. orders' \in [OrderIds -> Order \cup {NoOrder}]
    <2>1. \A o \in OrderIds : orders'[o] \in Order \cup {NoOrder}
      BY <1>1, <1>3, <1>5
    <2>2. orders' = [o \in OrderIds |-> orders'[o]]
      BY <1>1, <1>2
    <2>3. QED
      BY <2>1, <2>2
  <1>7. QED
    BY <1>3, <1>5, <1>6

\* What a trade does to the book: the maker's level keeps it or loses its head.
LEMMA TradeLevels ==
    ASSUME BookInv, NEW s, NEW p, NEW m, NEW q, Trade(s, p, m, q)
    PROVE  /\ queue' \in [Side -> [Prices -> Seq(OrderIds)]]
           /\ \A t \in Side, r \in Prices : t # s \/ r # p => queue'[t][r] = queue[t][r]
           /\ orders[m].qty - q > 0 => queue'[s][p] = queue[s][p]
           /\ ~(orders[m].qty - q > 0) => queue'[s][p] = Tail(queue[s][p])
           /\ queue[s][p] \in Seq(OrderIds) /\ queue[s][p] # <<>>
  <1>1. queue \in [Side -> [Prices -> Seq(OrderIds)]]
    BY DEF BookInv, BookTypeOK
  <1>2. /\ s \in Side /\ p \in Prices /\ queue[s][p] # <<>>
        /\ queue' = [queue EXCEPT ![s][p] = LevelAfter(queue[s][p], orders[m].qty - q)]
    BY DEF Trade
  <1>3. queue[s][p] \in Seq(OrderIds)
    BY <1>1, <1>2
  <1>4. Tail(queue[s][p]) \in Seq(OrderIds)
    BY <1>2, <1>3, HeadTail
  <1>5. /\ LevelAfter(queue[s][p], orders[m].qty - q) \in Seq(OrderIds)
        /\ orders[m].qty - q > 0 => LevelAfter(queue[s][p], orders[m].qty - q) = queue[s][p]
        /\ ~(orders[m].qty - q > 0) => LevelAfter(queue[s][p], orders[m].qty - q) = Tail(queue[s][p])
    BY <1>3, <1>4 DEF LevelAfter
  <1>6. PICK L \in Seq(OrderIds) : L = LevelAfter(queue[s][p], orders[m].qty - q)
    BY <1>5
  <1>7. queue' = [queue EXCEPT ![s][p] = L]
    BY <1>2, <1>6
  <1>8. /\ queue' \in [Side -> [Prices -> Seq(OrderIds)]] /\ queue'[s][p] = L
        /\ \A t \in Side, r \in Prices : t # s \/ r # p => queue'[t][r] = queue[t][r]
    BY <1>1, <1>2, <1>7, LevelUpdate
  <1>9. QED
    BY <1>2, <1>3, <1>5, <1>6, <1>8

\* Deltas stay numbers.
LEMMA ShiftType ==
    ASSUME NEW table \in [Users -> [Asset -> Int]], NEW u \in Users, NEW a \in Asset, NEW n \in Int
    PROVE  Shift(table, u, a, n) \in [Users -> [Asset -> Int]]
  BY DEF Shift

\* What an order locks is a quantity of one of the two assets.
LEMMA LockFacts ==
    ASSUME NEW s \in Side, NEW p \in Prices, NEW q \in Nat
    PROVE  LockAsset(s) \in Asset /\ LockAmount(s, p, q) \in Nat
  <1>1. p \in Nat
    BY EngineAssumption
  <1>2. p * q \in Nat
    BY <1>1
  <1>3. QED
    BY <1>2 DEF LockAsset, LockAmount, Asset

\* No new price level, nothing new to cross.
LEMMA ShrinkKeeps ==
    ASSUME NotCrossed,
           \A t \in Side, r \in Prices : queue[t][r] = <<>> => queue'[t][r] = <<>>
    PROVE  NotCrossed'
  <1>1. \A t \in Side : LevelPrices(t)' \subseteq LevelPrices(t)
    BY DEF LevelPrices
  <1>2. "buy" \in Side /\ "sell" \in Side
    BY DEF Side
  <1>3. QED
    BY <1>1, <1>2 DEF NotCrossed

\* An order enters under an id that is not on the book.
LEMMA EntersKeeps ==
    ASSUME BookInv, NEW o \in OrderIds, NEW u \in Users, NEW s \in Side, NEW p \in Prices,
           NEW q \in 1..MaxQty, o \notin index, Enters(o, u, s, p, q),
           avail' \in [Users -> [Asset -> Int]], frozen' \in [Users -> [Asset -> Int]]
    PROVE  BookInv'
  <1>1. /\ taker = NoOrder /\ placed < MaxPlaced /\ placed' = placed + 1 /\ index' = index \cup {o}
        /\ orders' = [orders EXCEPT ![o] = [user |-> u, side |-> s, price |-> p, qty |-> q]]
        /\ taker' = o /\ UNCHANGED <<api, queue>>
    BY DEF Enters
  <1>2. [user |-> u, side |-> s, price |-> p, qty |-> q] \in Order
    <2>1. q \in 0..MaxQty
      BY EngineAssumption
    <2>2. QED
      BY <2>1 DEF Order
  <1>3. /\ orders' \in [OrderIds -> Order \cup {NoOrder}] /\ orders'[o] \in Order
        /\ \A x \in OrderIds : x # o => orders'[x] = orders[x]
    BY <1>1, <1>2 DEF BookInv, BookTypeOK
  <1>4. placed' \in 0..MaxPlaced
    BY <1>1, EngineAssumption DEF BookInv, BookTypeOK
  <1>5. BookTypeOK'
    BY <1>1, <1>3, <1>4 DEF BookInv, BookTypeOK
  <1>6. BookIndexed'
    <2>1. ASSUME NEW t \in Side, NEW r \in Prices
          PROVE  /\ IsInjective(queue'[t][r])
                 /\ \A x \in Range(queue'[t][r]) :
                       /\ x \in index' /\ x # taker'
                       /\ orders'[x].side = t /\ orders'[x].price = r /\ orders'[x].qty > 0
      <3>1. IsInjective(queue'[t][r]) /\ queue'[t][r] = queue[t][r]
        BY <1>1 DEF BookInv, BookIndexed
      <3>2. ASSUME NEW x \in Range(queue[t][r])
            PROVE  /\ x \in index' /\ x # taker'
                   /\ orders'[x].side = t /\ orders'[x].price = r /\ orders'[x].qty > 0
        <4>1. /\ x \in OrderIds /\ x \in index
              /\ orders[x].side = t /\ orders[x].price = r /\ orders[x].qty > 0
          BY OnBookFacts DEF BookInv
        <4>2. QED
          BY <1>1, <1>3, <4>1
      <3>3. QED
        BY <3>1, <3>2
    <2>2. QED
      BY <2>1 DEF BookIndexed
  <1>7. KnownIds'
    BY <1>1, <1>3 DEF BookInv, KnownIds, BookTypeOK
  <1>8. NotCrossed'
    BY <1>1 DEF BookInv, NotCrossed, LevelPrices
  <1>9. QED
    BY <1>5, <1>6, <1>7, <1>8 DEF BookInv

\* A trade takes the head of a level, or leaves it there with less.
LEMMA TradeKeeps ==
    ASSUME BookInv, NEW s, NEW p, NEW m, NEW q, Trade(s, p, m, q),
           avail' \in [Users -> [Asset -> Int]], frozen' \in [Users -> [Asset -> Int]]
    PROVE  BookInv'
  <1>1. /\ s \in Side /\ p \in Prices /\ m \in OrderIds /\ taker \in OrderIds /\ taker # m
        /\ orders[m].side = s /\ orders[m].price = p /\ orders[m] \in Order
        /\ m = Head(queue[s][p]) /\ m \in index
        /\ index' = (IF orders[m].qty - q > 0 THEN index ELSE index \ {m})
        /\ UNCHANGED <<api, taker, placed>>
    BY DEF Trade
  <1>2. /\ orders' \in [OrderIds -> Order \cup {NoOrder}]
        /\ \A o \in OrderIds : o # taker /\ o # m => orders'[o] = orders[o]
        /\ \A o \in {taker, m} :
              /\ orders'[o] \in Order
              /\ orders'[o].user = orders[o].user /\ orders'[o].side = orders[o].side
              /\ orders'[o].price = orders[o].price /\ orders'[o].qty = orders[o].qty - q
    BY TradeOrders
  <1>3. /\ queue' \in [Side -> [Prices -> Seq(OrderIds)]]
        /\ \A t \in Side, r \in Prices : t # s \/ r # p => queue'[t][r] = queue[t][r]
        /\ orders[m].qty - q > 0 => queue'[s][p] = queue[s][p]
        /\ ~(orders[m].qty - q > 0) => queue'[s][p] = Tail(queue[s][p])
        /\ queue[s][p] \in Seq(OrderIds) /\ queue[s][p] # <<>>
    BY TradeLevels
  <1>4. BookTypeOK'
    BY <1>1, <1>2, <1>3 DEF BookInv, BookTypeOK
  <1>5. ASSUME NEW t \in Side, NEW r \in Prices
        PROVE  /\ IsInjective(queue'[t][r])
               /\ \A x \in Range(queue'[t][r]) : /\ x \in Range(queue[t][r])
                                                 /\ x = m => orders[m].qty - q > 0
    <2>1. IsInjective(queue[t][r]) /\ IsInjective(queue[s][p])
      BY <1>1 DEF BookInv, BookIndexed
    <2>2. CASE t # s \/ r # p
      <3>1. queue'[t][r] = queue[t][r]
        BY <1>3, <2>2
      <3>2. \A x \in Range(queue[t][r]) : x # m
        BY <1>1, <2>2, OnBookFacts DEF BookInv
      <3>3. QED
        BY <2>1, <3>1, <3>2
    <2>3. CASE t = s /\ r = p /\ orders[m].qty - q > 0
      BY <1>3, <2>1, <2>3
    <2>4. CASE t = s /\ r = p /\ ~(orders[m].qty - q > 0)
      <3>1. queue'[t][r] = Tail(queue[t][r]) /\ m = queue[t][r][1] /\ 1 \in DOMAIN queue[t][r]
        BY <1>1, <1>3, <2>4, HeadTail
      <3>2. \A i \in DOMAIN queue'[t][r] : /\ i + 1 \in DOMAIN queue[t][r] /\ i \in Nat
                                           /\ queue'[t][r][i] = queue[t][r][i + 1] /\ i + 1 # 1
        <4>1. Tail(queue[t][r]) \in Seq(OrderIds)
          BY <1>3, <2>4, HeadTail
        <4>2. \A i \in DOMAIN Tail(queue[t][r]) : i \in Nat /\ i + 1 # 1
          BY <4>1
        <4>3. QED
          BY <1>3, <2>4, <3>1, <4>2, HeadTail
      <3>3. IsInjective(queue'[t][r])
        <4>0. \A a, b \in Nat : a + 1 = b + 1 => a = b
          OBVIOUS
        <4>1. SUFFICES ASSUME NEW i \in DOMAIN queue'[t][r], NEW j \in DOMAIN queue'[t][r],
                              queue'[t][r][i] = queue'[t][r][j]
                       PROVE  i = j
          BY DEF IsInjective
        <4>2. i + 1 = j + 1 /\ i \in Nat /\ j \in Nat
          <5>1. /\ i + 1 \in DOMAIN queue[t][r] /\ j + 1 \in DOMAIN queue[t][r] /\ i \in Nat /\ j \in Nat
                /\ queue[t][r][i + 1] = queue[t][r][j + 1]
            BY <3>2, <4>1
          <5>2. QED
            BY <2>1, <5>1 DEF IsInjective
        <4>3. QED
          BY <4>0, <4>2, Zenon
      <3>4. ASSUME NEW i \in DOMAIN queue'[t][r]
            PROVE  queue'[t][r][i] \in Range(queue[t][r]) /\ queue'[t][r][i] # m
        <4>1. /\ i + 1 \in DOMAIN queue[t][r] /\ queue'[t][r][i] = queue[t][r][i + 1] /\ i + 1 # 1
          BY <3>2
        <4>2. queue[t][r][i + 1] # queue[t][r][1]
          BY <2>1, <3>1, <4>1 DEF IsInjective
        <4>3. QED
          BY <3>1, <4>1, <4>2 DEF Range
      <3>5. QED
        BY <3>3, <3>4 DEF Range
    <2>5. QED
      BY <2>2, <2>3, <2>4
  <1>6. BookIndexed'
    <2>1. ASSUME NEW t \in Side, NEW r \in Prices, NEW x \in Range(queue'[t][r])
          PROVE  /\ x \in index' /\ x # taker'
                 /\ orders'[x].side = t /\ orders'[x].price = r /\ orders'[x].qty > 0
      <3>1. x \in Range(queue[t][r]) /\ (x = m => orders[m].qty - q > 0)
        BY <1>5
      <3>2. /\ x \in OrderIds /\ x \in index /\ x # taker
            /\ orders[x].side = t /\ orders[x].price = r /\ orders[x].qty > 0
        BY <3>1, OnBookFacts DEF BookInv
      <3>3. CASE x = m
        BY <1>1, <1>2, <3>1, <3>2, <3>3
      <3>4. CASE x # m
        BY <1>1, <1>2, <3>2, <3>4
      <3>5. QED
        BY <3>3, <3>4
    <2>2. QED
      BY <1>5, <2>1 DEF BookIndexed
  <1>7. KnownIds'
    <2>1. taker' \in index'
      BY <1>1, EngineAssumption DEF BookInv, KnownIds
    <2>2. ASSUME NEW o \in index' PROVE orders'[o] \in Order
      <3>1. o \in index /\ o \in OrderIds
        BY <1>1 DEF BookInv, BookTypeOK
      <3>2. QED
        BY <1>2, <3>1 DEF BookInv, KnownIds
    <2>3. QED
      BY <2>1, <2>2 DEF KnownIds
  <1>8. NotCrossed'
    <2>1. ASSUME NEW t \in Side, NEW r \in Prices, queue[t][r] = <<>>
          PROVE  queue'[t][r] = <<>>
      BY <1>3, <2>1
    <2>2. QED
      BY <2>1, ShrinkKeeps DEF BookInv
  <1>9. QED
    BY <1>4, <1>6, <1>7, <1>8 DEF BookInv

\* The events of a trade are numbers.
LEMMA ClearsType ==
    ASSUME BookInv, NEW b \in OrderIds, NEW s \in OrderIds, NEW p \in Prices, NEW q \in Nat,
           orders[b] \in Order, orders[s] \in Order, Clears(b, s, p, q)
    PROVE  avail' \in [Users -> [Asset -> Int]] /\ frozen' \in [Users -> [Asset -> Int]]
  <1>1. avail \in [Users -> [Asset -> Int]] /\ frozen \in [Users -> [Asset -> Int]]
    BY DEF BookInv, BookTypeOK
  <1>2. /\ orders[b].user \in Users /\ orders[s].user \in Users /\ p \in Int /\ q \in Int
        /\ orders[b].price \in Int
    <2>1. orders[b].user \in Users /\ orders[s].user \in Users /\ orders[b].price \in Prices
      BY DEF Order
    <2>2. \A x \in Prices : x \in Int
      BY EngineAssumption
    <2>3. QED
      BY <2>1, <2>2
  <1>3. "base" \in Asset /\ "quote" \in Asset
    BY DEF Asset
  <1>4. p * q \in Int /\ Refund(b, p, q) \in Int
    <2>1. orders[b].price - p \in Int
      BY <1>2
    <2>2. (orders[b].price - p) * q \in Int
      BY <1>2, <2>1
    <2>3. QED
      BY <1>2, <2>2 DEF Refund
  <1>5. CASE api = "batch" /\ BatchedTrade
    BY <1>1, <1>5 DEF BatchedTrade
  <1>6. CASE api = "output" /\ TradeEvents(b, s, p, q)
    <2> DEFINE ub == orders[b].user
               us == orders[s].user
               cost == p * q
               ref == Refund(b, p, q)
               a1 == Shift(avail, ub, "quote", ref)
               a2 == Shift(a1, ub, "base", q)
               f1 == Shift(frozen, ub, "quote", -(cost + ref))
    <2>1. avail' = Shift(a2, us, "quote", cost) /\ frozen' = Shift(f1, us, "base", -q)
      BY <1>6 DEF TradeEvents
    <2>2. ub \in Users /\ us \in Users /\ cost \in Int /\ ref \in Int /\ -(cost + ref) \in Int /\ -q \in Int
      BY <1>2, <1>4
    <2> HIDE DEF ub, us, cost, ref
    <2>3. a1 \in [Users -> [Asset -> Int]] /\ f1 \in [Users -> [Asset -> Int]]
      BY <1>1, <1>3, <2>2, ShiftType
    <2> HIDE DEF a1, f1
    <2>4. a2 \in [Users -> [Asset -> Int]]
      BY <1>2, <1>3, <2>2, <2>3, ShiftType
    <2> HIDE DEF a2
    <2>5. QED
      BY <1>2, <1>3, <2>1, <2>2, <2>3, <2>4, ShiftType
  <1>7. QED
    BY <1>5, <1>6 DEF Clears

\* A turn of the matching loop keeps the book in order.
LEMMA MatchKeeps ==
    ASSUME BookInv, Match
    PROVE  BookInv'
  <1>1. PICK s, p, m, q : Trade(s, p, m, q)
    BY MatchTrades
  <1>2. /\ m \in OrderIds /\ taker \in OrderIds /\ p \in Prices /\ q \in Nat
        /\ orders[taker] \in Order /\ orders[m] \in Order
        /\ IF s = "sell" THEN Clears(taker, m, p, q) ELSE Clears(m, taker, p, q)
    BY <1>1 DEF Trade
  <1>3. avail' \in [Users -> [Asset -> Int]] /\ frozen' \in [Users -> [Asset -> Int]]
    BY <1>2, ClearsType
  <1>4. QED
    BY <1>1, <1>3, TradeKeeps

\* The last order of a level.
LEMMA AppendFacts ==
    ASSUME NEW S, NEW s \in Seq(S), NEW e \in S
    PROVE  /\ Append(s, e) \in Seq(S) /\ Len(s) \in Nat /\ DOMAIN s = 1..Len(s)
           /\ DOMAIN Append(s, e) = 1..(Len(s) + 1) /\ Append(s, e)[Len(s) + 1] = e
           /\ \A i \in DOMAIN s : i \in DOMAIN Append(s, e) /\ Append(s, e)[i] = s[i]
           /\ Range(Append(s, e)) = Range(s) \cup {e}
           /\ IsInjective(s) /\ e \notin Range(s) => IsInjective(Append(s, e))
  <1>1. /\ Append(s, e) \in Seq(S) /\ Len(s) \in Nat /\ DOMAIN s = 1..Len(s)
        /\ DOMAIN Append(s, e) = 1..(Len(s) + 1) /\ Append(s, e)[Len(s) + 1] = e
        /\ \A i \in DOMAIN s : i \in DOMAIN Append(s, e) /\ Append(s, e)[i] = s[i]
    OBVIOUS
  <1>2. \A i \in DOMAIN Append(s, e) : i \in DOMAIN s \/ i = Len(s) + 1
    BY <1>1
  <1>3. Range(Append(s, e)) = Range(s) \cup {e}
    <2>1. ASSUME NEW x \in Range(Append(s, e)) PROVE x \in Range(s) \cup {e}
      BY <1>1, <1>2 DEF Range
    <2>2. ASSUME NEW x \in Range(s) PROVE x \in Range(Append(s, e))
      BY <1>1 DEF Range
    <2>3. e \in Range(Append(s, e))
      <3>1. Len(s) + 1 \in DOMAIN Append(s, e)
        BY <1>1
      <3>2. QED
        BY <1>1, <3>1 DEF Range
    <2>4. QED
      BY <2>1, <2>2, <2>3
  <1>4. ASSUME IsInjective(s), e \notin Range(s) PROVE IsInjective(Append(s, e))
    <2>1. \A i \in DOMAIN s : s[i] # e
      BY <1>4 DEF Range
    <2>2. QED
      BY <1>1, <1>2, <1>4, <2>1 DEF IsInjective
  <1>5. QED
    BY <1>1, <1>3, <1>4

\* What is left of the taker rests behind its price; nothing on the other side
\* could trade with it.
LEMMA RestKeeps ==
    ASSUME BookInv, Rest
    PROVE  BookInv'
  <1> DEFINE s == orders[taker].side
             p == orders[taker].price
             L == Append(queue[s][p], taker)
  <1>1. /\ taker # NoOrder /\ orders[taker].qty > 0 /\ ~Matchable(taker) /\ taker' = NoOrder
        /\ queue' = [queue EXCEPT ![s][p] = L]
        /\ UNCHANGED <<api, orders, index, avail, frozen, placed>>
    BY DEF Rest
  <1>2. taker \in OrderIds /\ taker \in index /\ orders[taker] \in Order
    BY <1>1 DEF BookInv, BookTypeOK, KnownIds
  <1>3. s \in Side /\ p \in Prices
    BY <1>2 DEF Order
  <1>4. queue \in [Side -> [Prices -> Seq(OrderIds)]] /\ queue[s][p] \in Seq(OrderIds)
    BY <1>3 DEF BookInv, BookTypeOK
  <1>5. IsInjective(queue[s][p]) /\ taker \notin Range(queue[s][p])
    BY <1>3 DEF BookInv, BookIndexed
  <1>6. /\ L \in Seq(OrderIds) /\ IsInjective(L) /\ Range(L) = Range(queue[s][p]) \cup {taker}
    BY <1>2, <1>4, <1>5, AppendFacts
  <1>7. s = orders[taker].side /\ p = orders[taker].price
    OBVIOUS
  <1> HIDE DEF s, p, L
  <1>8. /\ queue' \in [Side -> [Prices -> Seq(OrderIds)]] /\ queue'[s][p] = L
        /\ \A t \in Side, r \in Prices : t # s \/ r # p => queue'[t][r] = queue[t][r]
    BY <1>1, <1>3, <1>4, <1>6, LevelUpdate
  <1>9. BookTypeOK'
    BY <1>1, <1>8 DEF BookInv, BookTypeOK
  <1>10. BookIndexed'
    <2>1. ASSUME NEW t \in Side, NEW r \in Prices
          PROVE  /\ IsInjective(queue'[t][r])
                 /\ \A x \in Range(queue'[t][r]) :
                       /\ x \in index' /\ x # taker'
                       /\ orders'[x].side = t /\ orders'[x].price = r /\ orders'[x].qty > 0
      <3>1. IsInjective(queue'[t][r])
        <4>1. IsInjective(queue[t][r])
          BY DEF BookInv, BookIndexed
        <4>2. CASE t = s /\ r = p
          BY <1>6, <1>8, <4>2
        <4>3. CASE ~(t = s /\ r = p)
          <5>1. queue'[t][r] = queue[t][r]
            BY <1>8, <4>3
          <5>2. QED
            BY <4>1, <5>1
        <4>4. QED
          BY <4>2, <4>3
      <3>2. ASSUME NEW x \in Range(queue'[t][r])
            PROVE  /\ x \in index' /\ x # taker'
                   /\ orders'[x].side = t /\ orders'[x].price = r /\ orders'[x].qty > 0
        <4>1. CASE x \in Range(queue[t][r])
          <5>1. /\ x \in OrderIds /\ x \in index
                /\ orders[x].side = t /\ orders[x].price = r /\ orders[x].qty > 0
            BY <4>1, OnBookFacts DEF BookInv
          <5>2. QED
            BY <1>1, <5>1, EngineAssumption
        <4>2. CASE x \notin Range(queue[t][r])
          <5>1. t = s /\ r = p /\ x = taker
            BY <1>6, <1>8, <4>2
          <5>2. QED
            BY <1>1, <1>2, <1>7, <5>1
        <4>3. QED
          BY <4>1, <4>2
      <3>3. QED
        BY <3>1, <3>2
    <2>2. QED
      BY <2>1 DEF BookIndexed
  <1>11. KnownIds'
    BY <1>1 DEF BookInv, KnownIds
  <1>12. NotCrossed'
    <2>1. \A x \in Prices : x \in Int
      BY EngineAssumption
    <2>2. \A t \in Side : LevelPrices(t)' \subseteq IF t = s THEN LevelPrices(t) \cup {p} ELSE LevelPrices(t)
      BY <1>3, <1>8 DEF LevelPrices
    <2>3. \A t \in Side : LevelPrices(t) \subseteq Prices
      BY DEF LevelPrices
    <2>4. "buy" \in Side /\ "sell" \in Side
      BY DEF Side
    <2>5. SUFFICES ASSUME NEW x \in LevelPrices("buy")', NEW y \in LevelPrices("sell")'
                   PROVE  x < y
      BY DEF NotCrossed
    <2>6. CASE s = "buy"
      <3>1. y \in LevelPrices("sell") /\ (x \in LevelPrices("buy") \/ x = p)
        BY <2>2, <2>4, <2>6
      <3>2. CASE x \in LevelPrices("buy")
        BY <3>1, <3>2 DEF BookInv, NotCrossed
      <3>3. CASE x = p
        <4>1. Opposite(s) = "sell" /\ LevelPrices("sell") # {}
          BY <2>6, <3>1 DEF Opposite
        <4>2. ~Crosses("sell", BestPrice("sell"), p)
          BY <1>1, <1>7, <4>1 DEF Matchable
        <4>3. BestPrice("sell") \in LevelPrices("sell") /\ BestPrice("sell") <= y
          BY <2>4, <3>1, <4>1, BestFacts
        <4>4. BestPrice("sell") \in Int /\ y \in Int /\ p \in Int
          BY <1>3, <2>1, <2>3, <2>4, <3>1, <4>3
        <4>5. ~(BestPrice("sell") <= p)
          BY <4>2 DEF Crosses
        <4>6. QED
          BY <3>3, <4>3, <4>4, <4>5
      <3>4. QED
        BY <3>1, <3>2, <3>3
    <2>7. CASE s = "sell"
      <3>1. x \in LevelPrices("buy") /\ (y \in LevelPrices("sell") \/ y = p)
        BY <2>2, <2>4, <2>7
      <3>2. CASE y \in LevelPrices("sell")
        BY <3>1, <3>2 DEF BookInv, NotCrossed
      <3>3. CASE y = p
        <4>1. Opposite(s) = "buy" /\ LevelPrices("buy") # {}
          BY <2>7, <3>1 DEF Opposite
        <4>2. ~Crosses("buy", BestPrice("buy"), p)
          BY <1>1, <1>7, <4>1 DEF Matchable
        <4>3. BestPrice("buy") \in LevelPrices("buy") /\ BestPrice("buy") >= x
          BY <2>4, <3>1, <4>1, BestFacts
        <4>4. BestPrice("buy") \in Int /\ x \in Int /\ p \in Int
          BY <1>3, <2>1, <2>3, <2>4, <3>1, <4>3
        <4>5. ~(BestPrice("buy") >= p)
          BY <4>2 DEF Crosses
        <4>6. QED
          BY <3>3, <4>3, <4>4, <4>5
      <3>4. QED
        BY <3>1, <3>2, <3>3
    <2>8. QED
      BY <1>3, <2>6, <2>7 DEF Side
  <1>13. QED
    BY <1>9, <1>10, <1>11, <1>12 DEF BookInv

\* A level without the order at one position.
LEMMA RemovedFacts ==
    ASSUME NEW S, NEW s \in Seq(S), IsInjective(s), NEW o \in Range(s)
    PROVE  /\ RemoveAt(s, Position(s, o)) \in Seq(S)
           /\ IsInjective(RemoveAt(s, Position(s, o)))
           /\ Range(RemoveAt(s, Position(s, o))) = Range(s) \ {o}
  <1> DEFINE k == Position(s, o)
             R == RemoveAt(s, k)
  <1>1. PICK i \in DOMAIN s : s[i] = o
    BY DEF Range
  <1>2. \A j \in 1..(i - 1) : s[j] # o
    BY <1>1 DEF IsInjective
  <1>3. k \in DOMAIN s /\ s[k] = o
    BY <1>1, <1>2 DEF Position
  <1> HIDE DEF k
  <1>4. /\ R \in Seq(S) /\ Len(R) = Len(s) - 1
        /\ \A j \in 1..(Len(s) - 1) : R[j] = IF j < k THEN s[j] ELSE s[j + 1]
    BY <1>3, RemoveAtFacts
  <1> HIDE DEF R
  <1>5. Len(s) \in Nat /\ DOMAIN s = 1..Len(s) /\ DOMAIN R = 1..(Len(s) - 1) /\ k \in 1..Len(s)
    BY <1>3, <1>4
  <1>6. ASSUME NEW j \in DOMAIN R
        PROVE  \E n \in DOMAIN s : R[j] = s[n] /\ n # k /\ n = IF j < k THEN j ELSE j + 1
    <2>1. CASE j < k
      <3>1. j \in DOMAIN s /\ j # k /\ R[j] = s[j]
        BY <1>4, <1>5, <2>1
      <3>2. QED
        BY <2>1, <3>1
    <2>2. CASE ~(j < k)
      <3>1. j + 1 \in DOMAIN s /\ j + 1 # k /\ R[j] = s[j + 1]
        BY <1>4, <1>5, <2>2
      <3>2. QED
        BY <2>2, <3>1
    <2>3. QED
      BY <2>1, <2>2
  <1>7. IsInjective(R)
    <2>1. SUFFICES ASSUME NEW x \in DOMAIN R, NEW y \in DOMAIN R, R[x] = R[y] PROVE x = y
      BY DEF IsInjective
    <2>2. PICK n \in DOMAIN s : R[x] = s[n] /\ n = IF x < k THEN x ELSE x + 1
      BY <1>6
    <2>3. PICK l \in DOMAIN s : R[y] = s[l] /\ l = IF y < k THEN y ELSE y + 1
      BY <1>6
    <2>4. n = l
      BY <2>1, <2>2, <2>3 DEF IsInjective
    <2>5. QED
      BY <1>5, <2>2, <2>3, <2>4
  <1>8. Range(R) \subseteq Range(s) \ {o}
    <2>1. ASSUME NEW j \in DOMAIN R PROVE R[j] \in Range(s) /\ R[j] # o
      BY <1>3, <1>6 DEF IsInjective, Range
    <2>2. QED
      BY <2>1 DEF Range
  <1>9. Range(s) \ {o} \subseteq Range(R)
    <2>1. SUFFICES ASSUME NEW n \in DOMAIN s, s[n] # o PROVE s[n] \in Range(R)
      BY DEF Range
    <2>2. n # k
      BY <1>3, <2>1
    <2>3. CASE n < k
      <3>1. n \in DOMAIN R /\ R[n] = s[n]
        BY <1>4, <1>5, <2>3
      <3>2. QED
        BY <3>1 DEF Range
    <2>4. CASE ~(n < k)
      <3>1. n - 1 \in DOMAIN R /\ ~(n - 1 < k) /\ n - 1 + 1 = n
        BY <1>5, <2>2, <2>4
      <3>2. R[n - 1] = s[n]
        BY <1>4, <1>5, <3>1
      <3>3. QED
        BY <3>1, <3>2 DEF Range
    <2>5. QED
      BY <2>3, <2>4
  <1>10. QED
    BY <1>4, <1>7, <1>8, <1>9 DEF k, R

\* What Cancel does to the book and to the events.
LEMMA CancelLevels ==
    ASSUME BookInv, NEW o \in OrderIds, Cancel(o)
    PROVE  /\ o \in index /\ orders[o] \in Order
           /\ queue' \in [Side -> [Prices -> Seq(OrderIds)]]
           /\ avail' \in [Users -> [Asset -> Int]] /\ frozen' \in [Users -> [Asset -> Int]]
           /\ \A t \in Side, r \in Prices :
                 /\ IsInjective(queue'[t][r])
                 /\ Range(queue'[t][r]) = Range(queue[t][r]) \ {o}
                 /\ \/ queue'[t][r] = queue[t][r]
                    \/ /\ o \in Range(queue[t][r])
                       /\ queue'[t][r] = RemoveAt(queue[t][r], Position(queue[t][r], o))
  <1> DEFINE s == orders[o].side
             p == orders[o].price
  <1>1. o \in index /\ orders[o] \in Order
    BY DEF Cancel, BookInv, KnownIds
  <1>2. s \in Side /\ p \in Prices /\ orders[o].user \in Users /\ orders[o].qty \in Nat
    BY <1>1 DEF Order
  <1>3. /\ queue \in [Side -> [Prices -> Seq(OrderIds)]] /\ queue[s][p] \in Seq(OrderIds)
        /\ avail \in [Users -> [Asset -> Int]] /\ frozen \in [Users -> [Asset -> Int]]
    BY <1>2 DEF BookInv, BookTypeOK
  <1>4. \A t \in Side, r \in Prices : IsInjective(queue[t][r])
    BY DEF BookInv, BookIndexed
  <1>5. \A t \in Side, r \in Prices : t # s \/ r # p => o \notin Range(queue[t][r])
    BY OnBookFacts DEF BookInv
  <1>6. CASE o \in Range(queue[s][p])
    <2> DEFINE L == RemoveAt(queue[s][p], Position(queue[s][p], o))
               n == LockAmount(s, p, orders[o].qty)
    <2>1. Release(o)
      BY <1>6 DEF Cancel
    <2>2. /\ queue' = [queue EXCEPT ![s][p] = L]
          /\ avail' = Shift(avail, orders[o].user, LockAsset(s), n)
          /\ frozen' = Shift(frozen, orders[o].user, LockAsset(s), -n)
      BY <2>1 DEF Release
    <2>3. L \in Seq(OrderIds) /\ IsInjective(L) /\ Range(L) = Range(queue[s][p]) \ {o}
      BY <1>2, <1>3, <1>4, <1>6, RemovedFacts
    <2>4. LockAsset(s) \in Asset /\ n \in Nat
      BY <1>2, LockFacts
    <2>5. n \in Int /\ -n \in Int
      BY <2>4
    <2>6. L = RemoveAt(queue[s][p], Position(queue[s][p], o))
      OBVIOUS
    <2> HIDE DEF s, p, L, n
    <2>7. avail' \in [Users -> [Asset -> Int]] /\ frozen' \in [Users -> [Asset -> Int]]
      BY <1>2, <1>3, <2>2, <2>4, <2>5, ShiftType
    <2>8. /\ queue' \in [Side -> [Prices -> Seq(OrderIds)]] /\ queue'[s][p] = L
          /\ \A t \in Side, r \in Prices : t # s \/ r # p => queue'[t][r] = queue[t][r]
      BY <1>2, <1>3, <2>2, <2>3, LevelUpdate
    <2>9. ASSUME NEW t \in Side, NEW r \in Prices
          PROVE  /\ IsInjective(queue'[t][r])
                 /\ Range(queue'[t][r]) = Range(queue[t][r]) \ {o}
                 /\ \/ queue'[t][r] = queue[t][r]
                    \/ /\ o \in Range(queue[t][r])
                       /\ queue'[t][r] = RemoveAt(queue[t][r], Position(queue[t][r], o))
      <3>1. CASE t = s /\ r = p
        BY <1>6, <2>3, <2>6, <2>8, <3>1
      <3>2. CASE t # s \/ r # p
        <4>1. queue'[t][r] = queue[t][r] /\ o \notin Range(queue[t][r])
          BY <1>5, <2>8, <3>2
        <4>2. QED
          BY <1>4, <4>1
      <3>3. QED
        BY <3>1, <3>2
    <2>10. QED
      BY <1>1, <2>7, <2>8, <2>9
  <1>7. CASE o \notin Range(queue[s][p])
    <2>1. UNCHANGED <<queue, avail, frozen>>
      BY <1>7 DEF Cancel
    <2>2. \A t \in Side, r \in Prices : o \notin Range(queue[t][r])
      BY <1>5, <1>7
    <2>3. \A t \in Side, r \in Prices : Range(queue[t][r]) = Range(queue[t][r]) \ {o}
      BY <2>2
    <2> HIDE DEF s, p
    <2>4. QED
      BY <1>1, <1>3, <1>4, <2>1, <2>3
  <1>8. QED
    BY <1>6, <1>7

\* A cancelled order leaves the index and the book together.
LEMMA CancelKeeps ==
    ASSUME BookInv, NEW o \in OrderIds, Cancel(o)
    PROVE  BookInv'
  <1>1. /\ taker = NoOrder /\ index' = index \ {o}
        /\ UNCHANGED <<api, orders, taker, placed>>
    BY DEF Cancel
  <1>2. /\ o \in index /\ orders[o] \in Order
        /\ queue' \in [Side -> [Prices -> Seq(OrderIds)]]
        /\ avail' \in [Users -> [Asset -> Int]] /\ frozen' \in [Users -> [Asset -> Int]]
        /\ \A t \in Side, r \in Prices :
              /\ IsInjective(queue'[t][r])
              /\ Range(queue'[t][r]) = Range(queue[t][r]) \ {o}
    BY CancelLevels
  <1>3. BookTypeOK'
    BY <1>1, <1>2 DEF BookInv, BookTypeOK
  <1>4. BookIndexed'
    <2>1. ASSUME NEW t \in Side, NEW r \in Prices, NEW x \in Range(queue'[t][r])
          PROVE  /\ x \in index' /\ x # taker'
                 /\ orders'[x].side = t /\ orders'[x].price = r /\ orders'[x].qty > 0
      <3>1. x \in Range(queue[t][r]) /\ x # o
        BY <1>2
      <3>2. /\ x \in OrderIds /\ x \in index /\ x # taker
            /\ orders[x].side = t /\ orders[x].price = r /\ orders[x].qty > 0
        BY <3>1, OnBookFacts DEF BookInv
      <3>3. QED
        BY <1>1, <3>1, <3>2
    <2>2. QED
      BY <1>2, <2>1 DEF BookIndexed
  <1>5. KnownIds'
    BY <1>1 DEF BookInv, KnownIds
  <1>6. NotCrossed'
    <2>1. ASSUME NEW t \in Side, NEW r \in Prices, queue[t][r] = <<>>
          PROVE  queue'[t][r] = <<>>
      <3>1. Range(queue'[t][r]) = {}
        <4>1. Range(queue[t][r]) = {}
          BY <2>1 DEF Range
        <4>2. Range(queue'[t][r]) = Range(queue[t][r]) \ {o}
          BY <1>2
        <4>3. QED
          BY <4>1, <4>2
      <3>2. queue'[t][r] \in Seq(OrderIds)
        BY <1>2
      <3>3. queue'[t][r] # <<>> => 1 \in DOMAIN queue'[t][r]
        BY <3>2
      <3>4. QED
        BY <3>1, <3>3 DEF Range
    <2>2. QED
      BY <2>1, ShrinkKeeps DEF BookInv
  <1>7. QED
    BY <1>3, <1>4, <1>5, <1>6 DEF BookInv

\* At the start the book is empty.
LEMMA BookInvInit == BookInit => BookInv
  <1> SUFFICES ASSUME BookInit PROVE BookInv
    OBVIOUS
  <1>1. BookTypeOK
    BY EngineAssumption DEF BookInit, BookTypeOK, Side, Asset
  <1>2. \A t \in Side, r \in Prices : queue[t][r] = <<>>
    BY DEF BookInit
  <1>3. IsInjective(<<>>) /\ Range(<<>>) = {}
    BY DEF IsInjective, Range
  <1>4. BookIndexed
    BY <1>2, <1>3 DEF BookIndexed
  <1>5. KnownIds
    BY DEF KnownIds, BookInit
  <1>6. NotCrossed
    BY <1>2 DEF NotCrossed, LevelPrices, Side
  <1>7. QED
    BY <1>1, <1>4, <1>5, <1>6 DEF BookInv

\* Every step keeps the book in order.
LEMMA BookInvNext == BookInv /\ [BookNext]_bookVars => BookInv'
  <1> SUFFICES ASSUME BookInv, [BookNext]_bookVars PROVE BookInv'
    OBVIOUS
  <1>1. ASSUME NEW o \in OrderIds, NEW u \in Users, NEW s \in Side, NEW p \in Prices,
               NEW q \in 1..MaxQty, Place(o, u, s, p, q)
        PROVE  BookInv'
    <2>1. o \notin index /\ Enters(o, u, s, p, q) /\ LockEvents(u, s, p, q)
      BY <1>1 DEF Place
    <2>2. q \in Nat
      BY EngineAssumption
    <2>3. LockAsset(s) \in Asset /\ LockAmount(s, p, q) \in Nat
      BY <2>2, LockFacts
    <2>4. LockAmount(s, p, q) \in Int /\ -LockAmount(s, p, q) \in Int
      BY <2>3
    <2>5. avail' \in [Users -> [Asset -> Int]] /\ frozen' \in [Users -> [Asset -> Int]]
      BY <2>1, <2>3, <2>4, ShiftType DEF LockEvents, BookInv, BookTypeOK
    <2>6. QED
      BY <2>1, <2>5, EntersKeeps
  <1>2. ASSUME NEW o \in OrderIds, NEW u \in Users, NEW s \in Side, NEW p \in Prices,
               NEW q \in 1..MaxQty, PlaceInBatch(o, u, s, p, q) \/ add_order(o, u, s, p, q)
        PROVE  BookInv'
    <2>1. o \notin index /\ Enters(o, u, s, p, q) /\ UNCHANGED <<avail, frozen>>
      BY <1>2 DEF PlaceInBatch, add_order, process_order_logic
    <2>2. avail' \in [Users -> [Asset -> Int]] /\ frozen' \in [Users -> [Asset -> Int]]
      BY <2>1 DEF BookInv, BookTypeOK
    <2>3. QED
      BY <2>1, <2>2, EntersKeeps
  <1>3. CASE Match
    BY <1>3, MatchKeeps
  <1>4. CASE Rest
    BY <1>4, RestKeeps
  <1>5. CASE Filled
    <2>1. taker' = NoOrder /\ UNCHANGED <<api, orders, queue, index, avail, frozen, placed>>
      BY <1>5 DEF Filled
    <2>2. BookTypeOK' /\ KnownIds' /\ NotCrossed'
      BY <2>1 DEF BookInv, BookTypeOK, KnownIds, NotCrossed, LevelPrices
    <2>3. \A t \in Side, r \in Prices : \A x \in Range(queue[t][r]) : x # NoOrder
      BY OnBookFacts, EngineAssumption DEF BookInv
    <2>4. BookIndexed'
      BY <2>1, <2>3 DEF BookInv, BookIndexed
    <2>5. QED
      BY <2>2, <2>4 DEF BookInv
  <1>6. ASSUME NEW o \in OrderIds, Cancel(o)
        PROVE  BookInv'
    BY <1>6, CancelKeeps
  <1>7. CASE UNCHANGED bookVars
    BY <1>7 DEF bookVars, BookInv, BookTypeOK, BookIndexed, KnownIds, NotCrossed, LevelPrices
  <1>8. QED
    BY <1>1, <1>2, <1>3, <1>4, <1>5, <1>6, <1>7 DEF BookNext

\* The inductive invariant of the book.
THEOREM BookInvHolds == BookSpec => []BookInv
  BY BookInvInit, BookInvNext, PTL DEF BookSpec

\* The types hold in every reachable state.
THEOREM BookTypeCorrect == BookSpec => []BookTypeOK
  <1>1. BookInv => BookTypeOK
    BY DEF BookInv
  <1>2. QED
    BY <1>1, BookInvHolds, PTL

\* add_order keeps order_index and the levels together: every order on the book
\* rests once, at the side and price the index gives, with a quantity left.
THEOREM IndexFindsOrders == BookSpec => []BookIndexed
  <1>1. BookInv => BookIndexed
    BY DEF BookInv
  <1>2. QED
    BY <1>1, BookInvHolds, PTL

\* When no order is being matched, the best bid is below the best ask.
THEOREM BookNotCrossed == BookSpec => []NeverCrossed
  <1>1. BookInv => NeverCrossed
    <2>1. "buy" \in Side /\ "sell" \in Side
      BY DEF Side
    <2>2. QED
      BY <2>1, BestFacts DEF BookInv, NotCrossed, NeverCrossed
  <1>2. QED
    BY <1>1, BookInvHolds, PTL

-----------------------------------------------------------------------------
(***************************************************************************)
(* Price-time priority.                                                    *)
(***************************************************************************)

Earlier(level, a, b) ==
    \E i, j \in DOMAIN level : level[i] = a /\ level[j] = b /\ i < j

\* orders that stay at a level stay in their order
Kept(level, after) ==
    \A a, b : Earlier(level, a, b) /\ a \in Range(after) /\ b \in Range(after) => Earlier(after, a, b)

\* A level that does not change keeps its order.
LEMMA KeptSame ==
    ASSUME NEW L
    PROVE  Kept(L, L)
  BY DEF Kept

\* So does one that gets an order at its end.
LEMMA KeptAppend ==
    ASSUME NEW S, NEW L \in Seq(S), NEW e \in S
    PROVE  Kept(L, Append(L, e))
  BY AppendFacts DEF Kept, Earlier

\* The head leaves.
LEMMA KeptTail ==
    ASSUME NEW S, NEW L \in Seq(S), L # <<>>, IsInjective(L)
    PROVE  Kept(L, Tail(L))
  <1>1. SUFFICES ASSUME NEW a, NEW b, NEW i \in DOMAIN L, NEW j \in DOMAIN L,
                        L[i] = a, L[j] = b, i < j, a \in Range(Tail(L))
                 PROVE  Earlier(Tail(L), a, b)
    BY DEF Kept, Earlier
  <1>2. PICK k \in DOMAIN Tail(L) : Tail(L)[k] = a
    BY <1>1 DEF Range
  <1>3. k + 1 \in DOMAIN L /\ L[k + 1] = a
    BY <1>2, HeadTail
  <1>4. i = k + 1
    BY <1>1, <1>3 DEF IsInjective
  <1>5. i \in Nat /\ j \in Nat /\ k \in Nat /\ k > 0 /\ j > 1 /\ k < j - 1
    <2>1. Len(L) \in Nat /\ DOMAIN L = 1..Len(L) /\ DOMAIN Tail(L) = 1..Len(Tail(L)) /\ Len(Tail(L)) = Len(L) - 1
      BY HeadTail
    <2>2. QED
      BY <1>1, <1>2, <1>4, <2>1
  <1>6. j - 1 \in DOMAIN Tail(L) /\ Tail(L)[j - 1] = b
    BY <1>1, <1>5, HeadTail
  <1>7. QED
    BY <1>2, <1>5, <1>6 DEF Earlier

\* An order from the middle leaves.
LEMMA KeptRemove ==
    ASSUME NEW S, NEW L \in Seq(S), IsInjective(L), NEW k \in DOMAIN L
    PROVE  Kept(L, RemoveAt(L, k))
  <1> DEFINE R == RemoveAt(L, k)
  <1>1. SUFFICES ASSUME NEW a, NEW b, NEW i \in DOMAIN L, NEW j \in DOMAIN L,
                        L[i] = a, L[j] = b, i < j, a \in Range(R), b \in Range(R)
                 PROVE  Earlier(R, a, b)
    BY DEF Kept, Earlier
  <1>2. /\ R \in Seq(S) /\ Len(R) = Len(L) - 1
        /\ \A n \in 1..(Len(L) - 1) : R[n] = IF n < k THEN L[n] ELSE L[n + 1]
    BY RemoveAtFacts
  <1> HIDE DEF R
  <1>3. Len(L) \in Nat /\ DOMAIN L = 1..Len(L) /\ DOMAIN R = 1..(Len(L) - 1) /\ k \in 1..Len(L)
    BY <1>2
  <1>4. PICK x \in DOMAIN R : R[x] = a
    BY <1>1 DEF Range
  <1>5. PICK y \in DOMAIN R : R[y] = b
    BY <1>1 DEF Range
  <1>6. i = IF x < k THEN x ELSE x + 1
    <2>1. CASE x < k
      BY <1>1, <1>2, <1>3, <1>4, <2>1 DEF IsInjective
    <2>2. CASE ~(x < k)
      <3>1. x + 1 \in DOMAIN L /\ L[x + 1] = a
        BY <1>2, <1>3, <1>4, <2>2
      <3>2. QED
        BY <1>1, <2>2, <3>1 DEF IsInjective
    <2>3. QED
      BY <2>1, <2>2
  <1>7. j = IF y < k THEN y ELSE y + 1
    <2>1. CASE y < k
      BY <1>1, <1>2, <1>3, <1>5, <2>1 DEF IsInjective
    <2>2. CASE ~(y < k)
      <3>1. y + 1 \in DOMAIN L /\ L[y + 1] = b
        BY <1>2, <1>3, <1>5, <2>2
      <3>2. QED
        BY <1>1, <2>2, <3>1 DEF IsInjective
    <2>3. QED
      BY <2>1, <2>2
  <1>8. x < y
    BY <1>1, <1>3, <1>6, <1>7
  <1>9. QED
    BY <1>4, <1>5, <1>8 DEF Earlier

\* Orders that stay on the book at their prices stay in their order.
LEMMA KeepsAhead ==
    ASSUME BookInv, BookInv', NEW a \in OrderIds, NEW b \in OrderIds, Ahead(a, b),
           OnBook(a)', OnBook(b)',
           \A x \in {a, b} : orders'[x].side = orders[x].side /\ orders'[x].price = orders[x].price,
           \A t \in Side, r \in Prices : Kept(queue[t][r], queue'[t][r])
    PROVE  Ahead(a, b)'
  <1>1. PICK s \in Side, p \in Prices, r \in Prices :
            /\ a \in Range(queue[s][p]) /\ b \in Range(queue[s][r])
            /\ Better(s, p, r) \/ (p = r /\ Earlier(queue[s][p], a, b))
    BY DEF Ahead, Earlier
  <1>2. /\ orders[a].side = s /\ orders[a].price = p
        /\ orders[b].side = s /\ orders[b].price = r
    BY <1>1, OnBookFacts DEF BookInv
  <1>3. ASSUME NEW x \in {a, b}
        PROVE  x \in Range(queue'[orders[x].side][orders[x].price])
    <2>1. PICK t \in Side, v \in Prices : x \in Range(queue'[t][v])
      BY DEF OnBook
    <2>2. orders'[x].side = t /\ orders'[x].price = v
      BY <2>1 DEF BookInv, BookIndexed
    <2>3. QED
      BY <2>1, <2>2
  <1>4. a \in Range(queue'[s][p]) /\ b \in Range(queue'[s][r])
    BY <1>2, <1>3
  <1>5. p = r /\ Earlier(queue[s][p], a, b) => Earlier(queue'[s][p], a, b)
    <2>1. Kept(queue[s][p], queue'[s][p])
      OBVIOUS
    <2>2. QED
      BY <1>4, <2>1 DEF Kept
  <1>6. QED
    BY <1>1, <1>4, <1>5 DEF Ahead, Earlier

\* No trade touches an order that another is ahead of: the maker is first.
LEMMA TradeTakesFirst ==
    ASSUME BookInv, NEW s, NEW p, NEW m, NEW q, Trade(s, p, m, q),
           NEW a \in OrderIds, NEW b \in OrderIds, Ahead(a, b)
    PROVE  b # m
  <1>1. PICK t \in Side, v \in Prices, r \in Prices :
            /\ a \in Range(queue[t][v]) /\ b \in Range(queue[t][r])
            /\ Better(t, v, r) \/ (v = r /\ Earlier(queue[t][v], a, b))
    BY DEF Ahead, Earlier
  <1>2. SUFFICES ASSUME b = m PROVE FALSE
    OBVIOUS
  <1>3. /\ s \in Side /\ p \in Prices /\ LevelPrices(s) # {} /\ p = BestPrice(s)
        /\ orders[m].side = s /\ orders[m].price = p
        /\ queue[s][p] # <<>> /\ m = Head(queue[s][p])
    BY DEF Trade
  <1>4. t = s /\ r = p
    BY <1>1, <1>2, <1>3, OnBookFacts DEF BookInv
  <1>5. queue[s][p] \in Seq(OrderIds) /\ IsInjective(queue[s][p])
    BY <1>3 DEF BookInv, BookTypeOK, BookIndexed
  <1>6. CASE Better(t, v, r)
    <2>1. queue[s][v] # <<>>
      BY <1>1, <1>4 DEF Range
    <2>2. v \in LevelPrices(s)
      BY <2>1 DEF LevelPrices
    <2>3. IF s = "sell" THEN p <= v ELSE p >= v
      BY <1>3, <2>2, BestFacts
    <2>4. p \in Int /\ v \in Int
      BY <1>3, EngineAssumption
    <2>5. QED
      BY <1>4, <1>6, <2>3, <2>4 DEF Better
  <1>7. CASE v = r /\ Earlier(queue[t][v], a, b)
    <2>1. PICK i, j \in DOMAIN queue[s][p] : queue[s][p][j] = m /\ i < j
      BY <1>2, <1>4, <1>7 DEF Earlier
    <2>2. 1 \in DOMAIN queue[s][p] /\ queue[s][p][1] = m
      BY <1>3, <1>5, HeadTail
    <2>3. j = 1
      BY <1>5, <2>1, <2>2 DEF IsInjective
    <2>4. i \in Nat /\ i > 0
      BY <1>5, <2>1
    <2>5. QED
      BY <2>1, <2>3, <2>4
  <1>8. QED
    BY <1>1, <1>6, <1>7

\* One step respects the priorities that hold before it.
LEMMA PriorityStep ==
    ASSUME BookInv, BookInv', [BookNext]_bookVars, NEW a \in OrderIds, NEW b \in OrderIds, Ahead(a, b)
    PROVE  /\ orders'[b] = orders[b]
           /\ OnBook(a)' /\ OnBook(b)' => Ahead(a, b)'
  <1>1. a \in index /\ b \in index /\ a # taker /\ b # taker
    BY OnBookFacts DEF Ahead, BookInv
  <1>2. \A t \in Side, r \in Prices : queue[t][r] \in Seq(OrderIds) /\ IsInjective(queue[t][r])
    BY DEF BookInv, BookTypeOK, BookIndexed
  <1> DEFINE Respected == /\ \A x \in {a, b} : orders'[x].side = orders[x].side /\ orders'[x].price = orders[x].price
                          /\ orders'[b] = orders[b]
                          /\ \A t \in Side, r \in Prices : Kept(queue[t][r], queue'[t][r])
  <1>3. SUFFICES Respected
    BY KeepsAhead
  <1>4. ASSUME NEW o \in OrderIds, NEW u \in Users, NEW s \in Side, NEW p \in Prices, NEW q \in 1..MaxQty,
               o \notin index, Enters(o, u, s, p, q)
        PROVE  Respected
    <2>1. orders'[a] = orders[a] /\ orders'[b] = orders[b] /\ queue' = queue
      BY <1>1, <1>4 DEF Enters, BookInv, BookTypeOK
    <2>2. QED
      BY <2>1, KeptSame
  <1>5. CASE Match
    <2>1. PICK s, p, m, q : Trade(s, p, m, q)
      BY <1>5, MatchTrades
    <2>2. b # m /\ m \in OrderIds
      BY <2>1, TradeTakesFirst DEF Trade
    <2>3. orders'[b] = orders[b] /\ (a # m => orders'[a] = orders[a])
      BY <1>1, <2>1, <2>2, TradeOrders
    <2>4. orders'[m].side = orders[m].side /\ orders'[m].price = orders[m].price
      BY <2>1, TradeOrders
    <2>5. ASSUME NEW t \in Side, NEW r \in Prices
          PROVE  Kept(queue[t][r], queue'[t][r])
      <3>1. \/ queue'[t][r] = queue[t][r]
            \/ /\ queue'[t][r] = Tail(queue[t][r])
               /\ queue[t][r] # <<>>
        BY <2>1, TradeLevels
      <3>2. CASE queue'[t][r] = queue[t][r]
        BY <3>2, KeptSame
      <3>3. CASE queue'[t][r] = Tail(queue[t][r]) /\ queue[t][r] # <<>>
        <4>1. Kept(queue[t][r], Tail(queue[t][r]))
          BY <1>2, <3>3, KeptTail
        <4>2. QED
          BY <3>3, <4>1
      <3>4. QED
        BY <3>1, <3>2, <3>3
    <2>6. QED
      BY <2>3, <2>4, <2>5
  <1>6. CASE Rest
    <2>1. orders' = orders
      BY <1>6 DEF Rest
    <2>2. taker \in OrderIds /\ orders[taker] \in Order
      BY <1>6 DEF Rest, BookInv, BookTypeOK, KnownIds
    <2>3. ASSUME NEW t \in Side, NEW r \in Prices
          PROVE  Kept(queue[t][r], queue'[t][r])
      <3>1. queue'[t][r] = queue[t][r] \/ queue'[t][r] = Append(queue[t][r], taker)
        BY <1>6 DEF Rest, BookInv, BookTypeOK
      <3>2. Kept(queue[t][r], Append(queue[t][r], taker))
        BY <1>2, <2>2, KeptAppend
      <3>3. QED
        BY <3>1, <3>2, KeptSame
    <2>4. QED
      BY <2>1, <2>3
  <1>7. CASE Filled
    <2>1. orders' = orders /\ queue' = queue
      BY <1>7 DEF Filled
    <2>2. QED
      BY <2>1, KeptSame
  <1>8. ASSUME NEW o \in OrderIds, Cancel(o)
        PROVE  Respected
    <2>1. orders' = orders
      BY <1>8 DEF Cancel
    <2>2. ASSUME NEW t \in Side, NEW r \in Prices
          PROVE  Kept(queue[t][r], queue'[t][r])
      <3>1. \/ queue'[t][r] = queue[t][r]
            \/ /\ o \in Range(queue[t][r])
               /\ queue'[t][r] = RemoveAt(queue[t][r], Position(queue[t][r], o))
        BY <1>8, CancelLevels
      <3>2. CASE queue'[t][r] = queue[t][r]
        BY <3>2, KeptSame
      <3>3. CASE /\ o \in Range(queue[t][r])
                 /\ queue'[t][r] = RemoveAt(queue[t][r], Position(queue[t][r], o))
        <4>1. PICK k : k = Position(queue[t][r], o)
          OBVIOUS
        <4>2. k \in DOMAIN queue[t][r]
          <5>1. PICK i \in DOMAIN queue[t][r] : queue[t][r][i] = o
            BY <3>3 DEF Range
          <5>2. \A j \in 1..(i - 1) : queue[t][r][j] # o
            BY <1>2, <5>1 DEF IsInjective
          <5>3. QED
            BY <4>1, <5>1, <5>2 DEF Position
        <4>3. Kept(queue[t][r], RemoveAt(queue[t][r], k))
          BY <1>2, <4>2, KeptRemove
        <4>4. QED
          BY <3>3, <4>1, <4>3
      <3>4. QED
        BY <3>1, <3>2, <3>3
    <2>3. QED
      BY <2>1, <2>2
  <1>9. CASE UNCHANGED bookVars
    <2>1. orders' = orders /\ queue' = queue
      BY <1>9 DEF bookVars
    <2>2. QED
      BY <2>1, KeptSame
  <1>10. QED
    <2> HIDE DEF Respected
    <2>1. ASSUME NEW o \in OrderIds, NEW u \in Users, NEW s \in Side, NEW p \in Prices, NEW q \in 1..MaxQty,
                 Place(o, u, s, p, q) \/ PlaceInBatch(o, u, s, p, q) \/ add_order(o, u, s, p, q)
          PROVE  Respected
      BY <1>4, <2>1 DEF Place, PlaceInBatch, add_order, process_order_logic
    <2>2. QED
      BY <1>5, <1>6, <1>7, <1>8, <1>9, <2>1 DEF BookNext

\* "it has priority" (the matching loop takes the first order of the best
\* price): in no step does an order trade while another is ahead of it, and
\* orders that stay on the book are never overtaken.
THEOREM PriorityKept == BookSpec => PriceTimePriority
  <1>1. BookInv /\ BookInv' /\ [BookNext]_bookVars =>
           [\A a, b \in OrderIds :
               Ahead(a, b) => /\ orders'[b] = orders[b]
                              /\ OnBook(a)' /\ OnBook(b)' => Ahead(a, b)']_bookVars
    BY PriorityStep
  <1>2. QED
    BY <1>1, BookInvHolds, PTL DEF BookSpec, PriceTimePriority

-----------------------------------------------------------------------------
(***************************************************************************)
(* The balance events.                                                     *)
(***************************************************************************)

Tables == [Users -> [Asset -> Int]]

\* t2 is t1 with n more in one entry
Moves(t1, t2, u, a, n) ==
    \A v \in Users, b \in Asset : t2[v][b] = t1[v][b] + (IF v = u /\ b = a THEN n ELSE 0)

\* A delta changes one entry.
LEMMA ShiftMoves ==
    ASSUME NEW table \in Tables, NEW u \in Users, NEW a \in Asset, NEW n \in Int
    PROVE  Shift(table, u, a, n) \in Tables /\ Moves(table, Shift(table, u, a, n), u, a, n)
  BY DEF Shift, Moves, Tables

\* One entry moves the total of its asset by as much, and no other total.
LEMMA TotalChange ==
    ASSUME NEW t1 \in Tables, NEW t2 \in Tables, NEW u \in Users, NEW a \in Asset, NEW n \in Int,
           Moves(t1, t2, u, a, n), NEW b \in Asset
    PROVE  Total(t1, b) \in Int /\ Total(t2, b) = Total(t1, b) + (IF b = a THEN n ELSE 0)
  <1> DEFINE f == [v \in Users |-> t1[v][b]]
             g == [v \in Users |-> t2[v][b]]
  <1>1. IsFiniteSet(Users)
    BY EngineAssumption
  <1>2. \A v \in Users : f[v] \in Int /\ g[v] \in Int /\ (v # u => g[v] = f[v])
    BY DEF Moves, Tables
  <1>3. g[u] - f[u] = IF b = a THEN n ELSE 0
    BY DEF Moves, Tables
  <1>4. Total(t1, b) = SumFunctionOnSet(f, Users) /\ Total(t2, b) = SumFunctionOnSet(g, Users)
    BY DEF Total
  <1> HIDE DEF f, g
  <1>5. SumFunctionOnSet(g, Users) = SumFunctionOnSet(f, Users) + (g[u] - f[u])
    BY <1>1, <1>2, SumChange
  <1>6. SumFunctionOnSet(f, Users) \in Int
    BY <1>1, <1>2, SumInt
  <1>7. QED
    BY <1>3, <1>4, <1>5, <1>6

Live(o) == OnBook(o) \/ o = taker

\* An order on the book or being matched is an order the engine knows.
LEMMA LiveFacts ==
    ASSUME BookInv, NEW o \in OrderIds, Live(o)
    PROVE  o \in index /\ orders[o] \in Order
  <1>1. CASE OnBook(o)
    BY <1>1, OnBookFacts DEF OnBook, BookInv
  <1>2. CASE o = taker
    BY <1>2, EngineAssumption DEF BookInv, KnownIds
  <1>3. QED
    BY <1>1, <1>2 DEF Live

\* What an order needs is a number, and only its user and asset need any.
LEMMA NeedFacts ==
    ASSUME BookInv, NEW o \in OrderIds, NEW u, NEW a
    PROVE  /\ Need(o, u, a) \in Int
           /\ ~Live(o) => Need(o, u, a) = 0
           /\ Live(o) => Need(o, u, a) = IF u = orders[o].user /\ a = LockAsset(orders[o].side)
                                           THEN LockAmount(orders[o].side, orders[o].price, orders[o].qty)
                                           ELSE 0
  <1>1. CASE ~Live(o)
    BY <1>1 DEF Need, Live
  <1>2. CASE Live(o)
    <2>1. orders[o].side \in Side /\ orders[o].price \in Prices /\ orders[o].qty \in Nat
      BY <1>2, LiveFacts DEF Order
    <2>2. LockAmount(orders[o].side, orders[o].price, orders[o].qty) \in Int
      BY <2>1, LockFacts
    <2>3. QED
      BY <1>2, <2>2 DEF Need, Live
  <1>3. QED
    BY <1>1, <1>2

\* what NeedFacts says of every order
NeedsKnown ==
    \A o \in OrderIds, u \in Users, a \in Asset :
        /\ Need(o, u, a) \in Int
        /\ ~Live(o) => Need(o, u, a) = 0
        /\ Live(o) => Need(o, u, a) = IF u = orders[o].user /\ a = LockAsset(orders[o].side)
                                        THEN LockAmount(orders[o].side, orders[o].price, orders[o].qty)
                                        ELSE 0

\* NeedFacts as one formula, for the state before a step and the one after.
LEMMA NeedsKnownHolds == BookInv => NeedsKnown
  <1>1. SUFFICES ASSUME BookInv, NEW o \in OrderIds, NEW u \in Users, NEW a \in Asset
                 PROVE  /\ Need(o, u, a) \in Int
                        /\ ~Live(o) => Need(o, u, a) = 0
                        /\ Live(o) => Need(o, u, a)
                              = IF u = orders[o].user /\ a = LockAsset(orders[o].side)
                                  THEN LockAmount(orders[o].side, orders[o].price, orders[o].qty)
                                  ELSE 0
    BY DEF NeedsKnown
  <1>2. QED
    BY <1>1, NeedFacts

\* The same for the state after a step.
LEMMA NeedFactsNext == BookInv' => NeedsKnown'
  BY NeedsKnownHolds, PTL

\* The needs of a user change by what one order's need changes.
LEMMA NeedsChange ==
    ASSUME BookInv, BookInv', NEW o \in OrderIds, NEW u \in Users, NEW a \in Asset,
           \A x \in OrderIds : x # o => Need(x, u, a)' = Need(x, u, a)
    PROVE  /\ Needs(u, a) \in Int
           /\ Needs(u, a)' = Needs(u, a) + (Need(o, u, a)' - Need(o, u, a))
  <1> DEFINE f == [x \in OrderIds |-> Need(x, u, a)]
             g == [x \in OrderIds |-> Need(x, u, a)']
  <1>1. IsFiniteSet(OrderIds)
    BY EngineAssumption
  <1>2. \A x \in OrderIds : Need(x, u, a) \in Int
    BY NeedFacts
  <1>3. \A x \in OrderIds : Need(x, u, a)' \in Int
    BY NeedFactsNext DEF NeedsKnown
  <1>4. Needs(u, a) = SumFunctionOnSet(f, OrderIds) /\ Needs(u, a)' = SumFunctionOnSet(g, OrderIds)
    BY DEF Needs
  <1>5. /\ \A x \in OrderIds : f[x] \in Int /\ g[x] \in Int
        /\ \A x \in OrderIds : x # o => g[x] = f[x]
        /\ f[o] = Need(o, u, a) /\ g[o] = Need(o, u, a)'
    BY <1>2, <1>3
  <1> HIDE DEF f, g
  <1>6. SumFunctionOnSet(g, OrderIds) = SumFunctionOnSet(f, OrderIds) + (g[o] - f[o])
    BY <1>1, <1>5, SumChange
  <1>7. SumFunctionOnSet(f, OrderIds) \in Int
    BY <1>1, <1>5, SumInt
  <1>8. QED
    BY <1>4, <1>5, <1>6, <1>7

\* An order whose record and whose place did not change needs what it needed.
LEMMA SameNeed ==
    ASSUME NEW x, NEW u, NEW a, Live(x)' <=> Live(x), orders'[x] = orders[x]
    PROVE  Need(x, u, a)' = Need(x, u, a)
  BY DEF Need, Live

\* One order locks n more, and the events move n from avail to frozen.
LEMMA LockBacked ==
    ASSUME BookInv, BookInv', FrozenIsBacked, api = "output",
           NEW o \in OrderIds, NEW u \in Users, NEW la \in Asset, NEW n \in Int,
           Moves(frozen, frozen', u, la, n), Moves(avail, avail', u, la, -n),
           \A x \in OrderIds : x # o => (Live(x)' <=> Live(x)) /\ orders'[x] = orders[x],
           \A v \in Users, a \in Asset :
              Need(o, v, a)' = Need(o, v, a) + (IF v = u /\ a = la THEN n ELSE 0)
    PROVE  FrozenIsBacked'
  <1>1. avail \in Tables /\ frozen \in Tables /\ avail' \in Tables /\ frozen' \in Tables
    BY DEF BookInv, BookTypeOK, Tables
  <1>2. ASSUME NEW v \in Users, NEW a \in Asset
        PROVE  frozen'[v][a] = Needs(v, a)'
    <2>1. \A x \in OrderIds : x # o => Need(x, v, a)' = Need(x, v, a)
      BY SameNeed
    <2>2. Needs(v, a) \in Int /\ Needs(v, a)' = Needs(v, a) + (Need(o, v, a)' - Need(o, v, a))
      BY <2>1, NeedsChange
    <2>3. Need(o, v, a) \in Int
      BY NeedFacts
    <2>4. PICK d \in Int : d = IF v = u /\ a = la THEN n ELSE 0
      OBVIOUS
    <2>5. Need(o, v, a)' = Need(o, v, a) + d /\ frozen'[v][a] = frozen[v][a] + d
      BY <2>4 DEF Moves
    <2>6. frozen[v][a] = Needs(v, a)
      BY DEF FrozenIsBacked
    <2>7. QED
      BY <2>2, <2>3, <2>5, <2>6
  <1>3. ASSUME NEW a \in Asset
        PROVE  Total(avail', a) + Total(frozen', a) = 0
    <2>1. -n \in Int
      OBVIOUS
    <2>2. ASSUME NEW t1 \in Tables, NEW t2 \in Tables, NEW k \in Int, Moves(t1, t2, u, la, k)
          PROVE  Total(t1, a) \in Int /\ Total(t2, a) = Total(t1, a) + (IF a = la THEN k ELSE 0)
      BY <2>2, TotalChange
    <2>3. Total(avail, a) \in Int /\ Total(avail', a) = Total(avail, a) + (IF a = la THEN -n ELSE 0)
      BY <1>1, <2>1, <2>2
    <2>4. Total(frozen, a) \in Int /\ Total(frozen', a) = Total(frozen, a) + (IF a = la THEN n ELSE 0)
      BY <1>1, <2>2
    <2>5. Total(avail, a) + Total(frozen, a) = 0
      BY DEF FrozenIsBacked
    <2>6. QED
      BY <2>3, <2>4, <2>5
  <1>4. QED
    BY <1>2, <1>3 DEF FrozenIsBacked, Total

\* Nothing moves and nothing is needed that was not.
LEMMA IdleBacked ==
    ASSUME BookInv, BookInv', FrozenIsBacked, UNCHANGED <<api, avail, frozen>>,
           \A x \in OrderIds, v \in Users, a \in Asset : Need(x, v, a)' = Need(x, v, a)
    PROVE  FrozenIsBacked'
  <1>1. ASSUME NEW v \in Users, NEW a \in Asset
        PROVE  Needs(v, a)' = Needs(v, a)
    <2> DEFINE f == [x \in OrderIds |-> Need(x, v, a)]
               g == [x \in OrderIds |-> Need(x, v, a)']
    <2>1. f = g
      OBVIOUS
    <2>2. QED
      BY <2>1 DEF Needs
  <1>2. QED
    BY <1>1 DEF FrozenIsBacked, Total

\* A new order locks what it needs.
LEMMA PlaceBacked ==
    ASSUME BookInv, BookInv', FrozenIsBacked, NEW o \in OrderIds, NEW u \in Users, NEW s \in Side,
           NEW p \in Prices, NEW q \in 1..MaxQty, Place(o, u, s, p, q)
    PROVE  FrozenIsBacked'
  <1> DEFINE n == LockAmount(s, p, q)
             la == LockAsset(s)
  <1>1. /\ api = "output" /\ o \notin index /\ taker = NoOrder /\ taker' = o /\ queue' = queue
        /\ orders' = [orders EXCEPT ![o] = [user |-> u, side |-> s, price |-> p, qty |-> q]]
        /\ avail' = Shift(avail, u, la, -n) /\ frozen' = Shift(frozen, u, la, n)
    BY DEF Place, Enters, LockEvents
  <1>2. q \in Nat
    BY EngineAssumption
  <1>3. la \in Asset /\ n \in Nat
    BY <1>2, LockFacts
  <1>4. n \in Int /\ -n \in Int /\ avail \in Tables /\ frozen \in Tables
    BY <1>3 DEF BookInv, BookTypeOK, Tables
  <1>5. /\ orders'[o] = [user |-> u, side |-> s, price |-> p, qty |-> q]
        /\ \A x \in OrderIds : x # o => orders'[x] = orders[x]
    BY <1>1 DEF BookInv, BookTypeOK
  <1>6. \A x \in OrderIds : x # o => (Live(x)' <=> Live(x))
    BY <1>1, EngineAssumption DEF Live, OnBook
  <1>7. ~Live(o) /\ Live(o)'
    <2>1. ~Live(o)
      BY <1>1, LiveFacts
    <2>2. Live(o)'
      BY <1>1 DEF Live
    <2>3. QED
      BY <2>1, <2>2
  <1>8. ASSUME NEW v \in Users, NEW a \in Asset
        PROVE  Need(o, v, a)' = Need(o, v, a) + (IF v = u /\ a = la THEN n ELSE 0)
    <2>1. Need(o, v, a) = 0
      BY <1>7, NeedFacts
    <2>2. Need(o, v, a)' = IF v = orders'[o].user /\ a = LockAsset(orders'[o].side)
                             THEN LockAmount(orders'[o].side, orders'[o].price, orders'[o].qty)
                             ELSE 0
      BY <1>7, NeedFactsNext DEF NeedsKnown
    <2>3. Need(o, v, a)' = IF v = u /\ a = la THEN n ELSE 0
      BY <1>5, <2>2
    <2> HIDE DEF n, la
    <2>4. QED
      BY <1>4, <2>1, <2>3
  <1> HIDE DEF n, la
  <1>9. Moves(frozen, frozen', u, la, n) /\ Moves(avail, avail', u, la, -n)
    BY <1>1, <1>3, <1>4, ShiftMoves
  <1>10. QED
    BY <1>1, <1>3, <1>4, <1>5, <1>6, <1>8, <1>9, LockBacked

\* A cancelled order gets back what it still locked.
LEMMA CancelBacked ==
    ASSUME BookInv, BookInv', FrozenIsBacked, NEW o \in OrderIds, Cancel(o), api = "output"
    PROVE  FrozenIsBacked'
  <1> DEFINE s == orders[o].side
             p == orders[o].price
             u == orders[o].user
             n == LockAmount(s, p, orders[o].qty)
             la == LockAsset(s)
  <1>1. /\ taker = NoOrder /\ taker' = NoOrder /\ UNCHANGED <<api, orders>>
        /\ IF o \in Range(queue[s][p]) THEN Release(o) ELSE UNCHANGED <<queue, avail, frozen>>
    BY DEF Cancel
  <1>2. /\ o \in index /\ orders[o] \in Order
        /\ \A t \in Side, r \in Prices : Range(queue'[t][r]) = Range(queue[t][r]) \ {o}
    BY CancelLevels
  <1>3. s \in Side /\ p \in Prices /\ u \in Users /\ orders[o].qty \in Nat
    BY <1>2 DEF Order
  <1>4. la \in Asset /\ n \in Nat
    BY <1>3, LockFacts
  <1>5. n \in Int /\ -n \in Int /\ avail \in Tables /\ frozen \in Tables
    BY <1>4 DEF BookInv, BookTypeOK, Tables
  <1>6. \A x \in OrderIds : x # o => (Live(x)' <=> Live(x))
    BY <1>1, <1>2 DEF Live, OnBook
  <1>7. CASE o \in Range(queue[s][p])
    <2>1. avail' = Shift(avail, u, la, n) /\ frozen' = Shift(frozen, u, la, -n)
      BY <1>1, <1>7 DEF Release
    <2>2. Live(o)
      BY <1>3, <1>7 DEF Live, OnBook
    <2>3. ~Live(o)'
      BY <1>1, <1>2, EngineAssumption DEF Live, OnBook
    <2>4. PICK k \in Int : k = -n /\ n = -k
      BY <1>5
    <2>5. ASSUME NEW v \in Users, NEW a \in Asset
          PROVE  Need(o, v, a)' = Need(o, v, a) + (IF v = u /\ a = la THEN k ELSE 0)
      <3>1. Need(o, v, a)' = 0
        BY <2>3, NeedFactsNext DEF NeedsKnown
      <3>2. Need(o, v, a) = IF v = u /\ a = la THEN n ELSE 0
        BY <2>2, NeedFacts
      <3> HIDE DEF n, la, u
      <3>3. QED
        BY <1>5, <2>4, <3>1, <3>2
    <2> HIDE DEF n, la, u
    <2>6. Moves(frozen, frozen', u, la, k) /\ Moves(avail, avail', u, la, -k)
      <3>1. Moves(frozen, frozen', u, la, -n) /\ Moves(avail, avail', u, la, n)
        BY <1>3, <1>4, <1>5, <2>1, ShiftMoves
      <3>2. QED
        BY <2>4, <3>1
    <2>7. \A x \in OrderIds : x # o => (Live(x)' <=> Live(x)) /\ orders'[x] = orders[x]
      BY <1>1, <1>6
    <2>8. QED
      BY <1>3, <1>4, <2>4, <2>5, <2>6, <2>7, LockBacked
  <1>8. CASE o \notin Range(queue[s][p])
    <2>1. UNCHANGED <<api, queue, avail, frozen, orders, taker>>
      BY <1>1, <1>8
    <2>2. \A x \in OrderIds, v \in Users, a \in Asset : Need(x, v, a)' = Need(x, v, a)
      BY <2>1 DEF Need, OnBook
    <2>3. QED
      BY <2>1, <2>2, IdleBacked
  <1>9. QED
    BY <1>7, <1>8

\* Resting changes where the order is, not what it needs.
LEMMA RestBacked ==
    ASSUME BookInv, BookInv', FrozenIsBacked, Rest
    PROVE  FrozenIsBacked'
  <1> DEFINE s == orders[taker].side
             p == orders[taker].price
             L == Append(queue[s][p], taker)
  <1>1. /\ taker # NoOrder /\ taker' = NoOrder /\ queue' = [queue EXCEPT ![s][p] = L]
        /\ UNCHANGED <<api, orders, index, avail, frozen>>
    BY DEF Rest
  <1>2. taker \in OrderIds /\ orders[taker] \in Order
    BY <1>1 DEF BookInv, BookTypeOK, KnownIds
  <1>3. /\ s \in Side /\ p \in Prices /\ queue \in [Side -> [Prices -> Seq(OrderIds)]]
        /\ queue[s][p] \in Seq(OrderIds)
    BY <1>2 DEF Order, BookInv, BookTypeOK
  <1>4. L \in Seq(OrderIds) /\ Range(L) = Range(queue[s][p]) \cup {taker}
    BY <1>2, <1>3, AppendFacts
  <1> HIDE DEF L, s, p
  <1>5. /\ queue'[s][p] = L
        /\ \A t \in Side, r \in Prices : t # s \/ r # p => queue'[t][r] = queue[t][r]
    BY <1>1, <1>3, <1>4, LevelUpdate
  <1>6. ASSUME NEW x \in OrderIds
        PROVE  Live(x)' <=> Live(x)
    <2>1. ASSUME NEW t \in Side, NEW r \in Prices, x # taker
          PROVE  x \in Range(queue'[t][r]) <=> x \in Range(queue[t][r])
      <3>1. CASE t = s /\ r = p
        BY <1>4, <1>5, <2>1, <3>1
      <3>2. CASE ~(t = s /\ r = p)
        BY <1>5, <3>2
      <3>3. QED
        BY <3>1, <3>2
    <2>2. CASE x # taker
      BY <1>1, <2>1, <2>2, EngineAssumption DEF Live, OnBook
    <2>3. CASE x = taker
      <3>1. x \in Range(queue'[s][p])
        BY <1>4, <1>5, <2>3
      <3>2. QED
        BY <1>3, <2>3, <3>1 DEF Live, OnBook
    <2>4. QED
      BY <2>2, <2>3
  <1>7. \A x \in OrderIds, v \in Users, a \in Asset : Need(x, v, a)' = Need(x, v, a)
    BY <1>1, <1>6, SameNeed
  <1>8. QED
    BY <1>1, <1>7, IdleBacked

\* An order that is used up needs nothing.
LEMMA FilledBacked ==
    ASSUME BookInv, BookInv', FrozenIsBacked, Filled
    PROVE  FrozenIsBacked'
  <1>1. /\ taker # NoOrder /\ orders[taker].qty = 0 /\ taker' = NoOrder
        /\ UNCHANGED <<api, orders, queue, index, avail, frozen>>
    BY DEF Filled
  <1>2. taker \in OrderIds /\ orders[taker] \in Order
    BY <1>1 DEF BookInv, BookTypeOK, KnownIds
  <1>3. ASSUME NEW x \in OrderIds, NEW v \in Users, NEW a \in Asset
        PROVE  Need(x, v, a)' = Need(x, v, a)
    <2>1. CASE x # taker
      <3>1. Live(x)' <=> Live(x)
        BY <1>1, <2>1, EngineAssumption DEF Live, OnBook
      <3>2. QED
        BY <1>1, <3>1, SameNeed
    <2>2. CASE x = taker
      <3>1. LockAmount(orders[x].side, orders[x].price, 0) = 0
        <4>1. orders[x].price \in Int
          <5>1. orders[x].price \in Prices
            BY <1>2, <2>2 DEF Order
          <5>2. \A y \in Prices : y \in Int
            BY EngineAssumption
          <5>3. QED
            BY <5>1, <5>2
        <4>2. orders[x].price * 0 = 0
          BY <4>1
        <4>3. QED
          BY <4>2 DEF LockAmount
      <3>2. Need(x, v, a) = 0
        BY <1>1, <2>2, <3>1 DEF Need
      <3>3. Need(x, v, a)' = 0
        BY <1>1, <2>2, <3>1 DEF Need
      <3>4. QED
        BY <3>2, <3>3
    <2>3. QED
      BY <2>1, <2>2
  <1>4. QED
    BY <1>1, <1>3, IdleBacked

\* What is locked for a quantity is the sum of what is locked for its parts.
LEMMA LockParts ==
    ASSUME NEW s \in Side, NEW p \in Prices, NEW m \in Nat, NEW q \in Nat, q <= m
    PROVE  /\ LockAmount(s, p, m - q) = LockAmount(s, p, m) - LockAmount(s, p, q)
           /\ LockAmount(s, p, 0) = 0
  <1>1. p \in Int
    BY EngineAssumption
  <1>2. p * (m - q) = p * m - p * q /\ p * 0 = 0
    BY <1>1
  <1>3. QED
    BY <1>2 DEF LockAmount

\* Each of the two orders of a trade needs less by what it locked for q.
LEMMA TradeNeed ==
    ASSUME BookInv, BookInv', NEW s, NEW p, NEW m, NEW q, Trade(s, p, m, q),
           NEW o \in {taker, m}, NEW v \in Users, NEW a \in Asset
    PROVE  Need(o, v, a)' = Need(o, v, a)
              - (IF v = orders[o].user /\ a = LockAsset(orders[o].side)
                   THEN LockAmount(orders[o].side, orders[o].price, q) ELSE 0)
  <1>1. /\ s \in Side /\ p \in Prices /\ m \in OrderIds /\ taker \in OrderIds /\ q \in Nat
        /\ orders[o] \in Order /\ q <= orders[o].qty
        /\ queue[s][p] # <<>> /\ m = Head(queue[s][p]) /\ taker' = taker
    BY DEF Trade
  <1>2. queue[s][p] \in Seq(OrderIds)
    BY <1>1 DEF BookInv, BookTypeOK
  <1>3. m \in Range(queue[s][p])
    BY <1>1, <1>2, HeadTail DEF Range
  <1>4. Live(o)
    BY <1>1, <1>3 DEF Live, OnBook
  <1>5. /\ orders'[o].user = orders[o].user /\ orders'[o].side = orders[o].side
        /\ orders'[o].price = orders[o].price /\ orders'[o].qty = orders[o].qty - q
    BY TradeOrders
  <1>6. ~Live(o)' => orders[o].qty - q = 0
    <2>1. SUFFICES ASSUME o = m, ~OnBook(o)' PROVE orders[o].qty - q = 0
      BY <1>1 DEF Live
    <2>2. orders[m].qty - q > 0 => queue'[s][p] = queue[s][p]
      BY TradeLevels
    <2>3. ~(orders[m].qty - q > 0)
      BY <1>1, <1>3, <2>1, <2>2 DEF OnBook
    <2>4. orders[o].qty \in Nat
      BY <1>1 DEF Order
    <2>5. QED
      BY <1>1, <2>1, <2>3, <2>4
  <1>7. /\ orders[o].side \in Side /\ orders[o].price \in Prices /\ orders[o].qty \in Nat
    BY <1>1 DEF Order
  <1> DEFINE L(n) == LockAmount(orders[o].side, orders[o].price, n)
             mine == v = orders[o].user /\ a = LockAsset(orders[o].side)
  <1>8. L(orders[o].qty - q) = L(orders[o].qty) - L(q) /\ L(0) = 0
    BY <1>1, <1>7, LockParts
  <1>9. L(orders[o].qty) \in Int /\ L(q) \in Int
    <2>1. L(orders[o].qty) \in Nat /\ L(q) \in Nat
      BY <1>1, <1>7, LockFacts
    <2> HIDE DEF L
    <2>2. QED
      BY <2>1
  <1>10. Need(o, v, a) = IF mine THEN L(orders[o].qty) ELSE 0
    BY <1>1, <1>4, NeedFacts
  <1>11. Need(o, v, a)' = IF mine THEN L(orders[o].qty - q) ELSE 0
    <2>1. CASE Live(o)'
      BY <1>1, <1>5, <2>1, NeedFactsNext DEF NeedsKnown
    <2>2. CASE ~Live(o)'
      <3>1. Need(o, v, a)' = 0
        BY <1>1, <2>2, NeedFactsNext DEF NeedsKnown
      <3>2. QED
        BY <1>6, <1>8, <2>2, <3>1
    <2>3. QED
      BY <2>1, <2>2
  <1> HIDE DEF L
  <1>12. Need(o, v, a)' = Need(o, v, a) - (IF mine THEN L(q) ELSE 0)
    BY <1>8, <1>9, <1>10, <1>11
  <1>13. QED
    BY <1>12 DEF L

\* The orders that do not trade need what they needed.
LEMMA TradeOthers ==
    ASSUME BookInv, BookInv', NEW s, NEW p, NEW m, NEW q, Trade(s, p, m, q),
           NEW x \in OrderIds, x # taker, x # m
    PROVE  (Live(x)' <=> Live(x)) /\ orders'[x] = orders[x]
  <1>1. /\ s \in Side /\ p \in Prices /\ m = Head(queue[s][p]) /\ taker' = taker
    BY DEF Trade
  <1>2. /\ \A t \in Side, r \in Prices : t # s \/ r # p => queue'[t][r] = queue[t][r]
        /\ queue'[s][p] = queue[s][p] \/ queue'[s][p] = Tail(queue[s][p])
        /\ queue[s][p] \in Seq(OrderIds) /\ queue[s][p] # <<>>
    BY TradeLevels
  <1>3. x \in Range(Tail(queue[s][p])) <=> x \in Range(queue[s][p])
    <2>1. ASSUME NEW i \in DOMAIN queue[s][p], queue[s][p][i] = x
          PROVE  x \in Range(Tail(queue[s][p]))
      <3>1. i # 1 /\ i \in Nat /\ i > 0
        BY <1>1, <1>2, <2>1, HeadTail
      <3>2. i - 1 \in DOMAIN Tail(queue[s][p]) /\ Tail(queue[s][p])[i - 1] = x
        BY SMTT(30), <1>2, <2>1, <3>1, HeadTail
      <3>3. QED
        BY <3>2 DEF Range
    <2>2. ASSUME NEW i \in DOMAIN Tail(queue[s][p]), Tail(queue[s][p])[i] = x
          PROVE  x \in Range(queue[s][p])
      BY <1>2, <2>2, HeadTail DEF Range
    <2>3. QED
      BY <2>1, <2>2 DEF Range
  <1>4. ASSUME NEW t \in Side, NEW r \in Prices
        PROVE  x \in Range(queue'[t][r]) <=> x \in Range(queue[t][r])
    BY <1>2, <1>3
  <1>5. orders'[x] = orders[x]
    BY TradeOrders
  <1>6. QED
    BY <1>1, <1>4, <1>5 DEF Live, OnBook

\* The events of a trade take from frozen what its orders no longer need, the
\* refund of a better price included, and move as much as they take.
LEMMA TradeBacked ==
    ASSUME BookInv, BookInv', FrozenIsBacked, api = "output",
           NEW s, NEW p, NEW m, NEW q, Trade(s, p, m, q)
    PROVE  FrozenIsBacked'
  <1>0. PICK b, e : b = (IF s = "sell" THEN taker ELSE m) /\ e = (IF s = "sell" THEN m ELSE taker)
    OBVIOUS
  <1> DEFINE ub == orders[b].user
             us == orders[e].user
             cost == p * q
             ref == Refund(b, p, q)
             full == orders[b].price * q
  <1>1. /\ s \in Side /\ p \in Prices /\ m \in OrderIds /\ taker \in OrderIds /\ taker # m
        /\ q \in Nat /\ orders[taker] \in Order /\ orders[m] \in Order
        /\ s = Opposite(orders[taker].side) /\ orders[m].side = s /\ orders[m].price = p
        /\ Crosses(s, p, orders[taker].price) /\ api' = api
    BY DEF Trade
  <1>2. TradeEvents(b, e, p, q)
    BY <1>0 DEF Trade, Clears
  <1>3. b \in {taker, m} /\ e \in {taker, m} /\ b # e /\ {taker, m} = {b, e}
    BY <1>0, <1>1
  <1>4. orders[b].side = "buy" /\ orders[e].side = "sell"
    BY <1>0, <1>1 DEF Opposite, Side, Order
  <1>5. /\ ub \in Users /\ us \in Users /\ p \in Int /\ q \in Int /\ orders[b].price \in Int
        /\ orders[b].price >= p
    <2>1. orders[b] \in Order /\ orders[e] \in Order
      BY <1>1, <1>3
    <2>2. ub \in Users /\ us \in Users /\ orders[b].price \in Prices
      BY <2>1 DEF Order
    <2>3. \A y \in Prices : y \in Int
      BY EngineAssumption
    <2>4. orders[b].price >= p
      <3>1. CASE s = "sell"
        BY <1>0, <1>1, <2>2, <2>3, <3>1 DEF Crosses
      <3>2. CASE s # "sell"
        BY <1>0, <1>1, <2>2, <2>3, <3>2
      <3>3. QED
        BY <3>1, <3>2
    <2> HIDE DEF ub, us
    <2>5. QED
      BY <1>1, <2>2, <2>3, <2>4
  <1>6. cost \in Int /\ ref \in Int /\ full \in Int /\ cost + ref = full
    <2>1. PICK P \in Int : P = orders[b].price
      BY <1>5
    <2>2. p * q \in Int /\ (P - p) * q \in Int /\ P * q \in Int /\ p * q + (P - p) * q = P * q
      BY <1>5
    <2>3. CASE taker = b /\ P > p
      BY <2>1, <2>2, <2>3 DEF Refund
    <2>4. CASE ~(taker = b /\ P > p)
      <3>1. P = p
        BY <1>0, <1>1, <1>5, <2>1, <2>4
      <3>2. ref = 0 /\ full = cost
        BY <2>1, <2>4, <3>1 DEF Refund
      <3> HIDE DEF ref, full
      <3>3. QED
        BY <2>2, <3>2
    <2>5. QED
      BY <2>3, <2>4
  <1>7. "base" \in Asset /\ "quote" \in Asset /\ avail \in Tables /\ frozen \in Tables
    BY DEF Asset, BookInv, BookTypeOK, Tables
  <1> DEFINE a1 == Shift(avail, ub, "quote", ref)
             a2 == Shift(a1, ub, "base", q)
             f1 == Shift(frozen, ub, "quote", -(cost + ref))
  <1>8. avail' = Shift(a2, us, "quote", cost) /\ frozen' = Shift(f1, us, "base", -q)
    BY <1>2 DEF TradeEvents
  <1>9. -(cost + ref) \in Int /\ -q \in Int
    <2> HIDE DEF cost, ref
    <2>1. QED
      BY <1>5, <1>6
  <1>10. PICK k \in Int : k = -(cost + ref) /\ k = -full
    <2> HIDE DEF cost, ref, full
    <2>1. QED
      BY <1>6, <1>9
  <1>11. PICK nq \in Int : nq = -q
    BY <1>9
  <1>12. ASSUME NEW v \in Users
         PROVE  /\ \A x \in OrderIds : x # b => Need(x, v, "quote")' = Need(x, v, "quote")
                /\ \A x \in OrderIds : x # e => Need(x, v, "base")' = Need(x, v, "base")
                /\ Need(b, v, "quote")' = Need(b, v, "quote") - (IF v = ub THEN full ELSE 0)
                /\ Need(e, v, "base")' = Need(e, v, "base") - (IF v = us THEN q ELSE 0)
    <2>1. \A x \in OrderIds, a \in Asset : x # b /\ x # e => Need(x, v, a)' = Need(x, v, a)
      <3>1. ASSUME NEW x \in OrderIds, x # b, x # e
            PROVE  (Live(x)' <=> Live(x)) /\ orders'[x] = orders[x]
        <4>1. x # taker /\ x # m
          BY <1>3, <3>1
        <4>2. QED
          BY <4>1, TradeOthers
      <3>2. QED
        BY <3>1, SameNeed
    <2>2. \A o \in {taker, m}, a \in Asset :
             Need(o, v, a)' = Need(o, v, a)
                - (IF v = orders[o].user /\ a = LockAsset(orders[o].side)
                     THEN LockAmount(orders[o].side, orders[o].price, q) ELSE 0)
      BY TradeNeed
    <2>3. /\ LockAsset(orders[b].side) = "quote" /\ LockAsset(orders[e].side) = "base"
          /\ LockAmount(orders[b].side, orders[b].price, q) = full
          /\ LockAmount(orders[e].side, orders[e].price, q) = q
      BY <1>4 DEF LockAsset, LockAmount
    <2>4. \A o \in {taker, m}, a \in Asset : Need(o, v, a) \in Int
      BY <1>1, NeedFacts
    <2> HIDE DEF ub, us, full
    <2>5. Need(b, v, "quote")' = Need(b, v, "quote") - (IF v = ub THEN full ELSE 0)
      BY <1>3, <1>7, <2>2, <2>3 DEF ub
    <2>6. Need(e, v, "base")' = Need(e, v, "base") - (IF v = us THEN q ELSE 0)
      BY <1>3, <1>7, <2>2, <2>3 DEF us
    <2>7. Need(b, v, "base")' = Need(b, v, "base")
      <3>1. Need(b, v, "base")' = Need(b, v, "base") - 0
        BY <1>3, <1>7, <2>2, <2>3
      <3>2. Need(b, v, "base") \in Int
        BY <1>3, <1>7, <2>4
      <3>3. QED
        BY <3>1, <3>2
    <2>8. Need(e, v, "quote")' = Need(e, v, "quote")
      <3>1. Need(e, v, "quote")' = Need(e, v, "quote") - 0
        BY <1>3, <1>7, <2>2, <2>3
      <3>2. Need(e, v, "quote") \in Int
        BY <1>3, <1>7, <2>4
      <3>3. QED
        BY <3>1, <3>2
    <2>9. QED
      BY <1>7, <2>1, <2>5, <2>6, <2>7, <2>8
  <1>13. b \in OrderIds /\ e \in OrderIds
    BY <1>1, <1>3
  <1> HIDE DEF ub, us, cost, ref, full
  <1>14. /\ f1 \in Tables /\ frozen' \in Tables
         /\ Moves(frozen, f1, ub, "quote", k) /\ Moves(f1, frozen', us, "base", nq)
    <2>1. f1 \in Tables /\ Moves(frozen, f1, ub, "quote", k)
      BY <1>5, <1>7, <1>10, ShiftMoves
    <2> HIDE DEF f1
    <2>2. frozen' = Shift(f1, us, "base", nq)
      BY <1>8, <1>11
    <2>3. QED
      BY <1>5, <1>7, <2>1, <2>2, ShiftMoves
  <1>15. /\ a1 \in Tables /\ a2 \in Tables /\ avail' \in Tables
         /\ Moves(avail, a1, ub, "quote", ref) /\ Moves(a1, a2, ub, "base", q)
         /\ Moves(a2, avail', us, "quote", cost)
    <2>1. a1 \in Tables /\ Moves(avail, a1, ub, "quote", ref)
      BY <1>5, <1>6, <1>7, ShiftMoves
    <2> HIDE DEF a1
    <2>2. a2 \in Tables /\ Moves(a1, a2, ub, "base", q)
      BY <1>5, <1>7, <2>1, ShiftMoves
    <2> HIDE DEF a2
    <2>3. QED
      BY <1>5, <1>6, <1>7, <1>8, <2>1, <2>2, ShiftMoves
  <1> HIDE DEF a1, a2, f1
  <1>16. ASSUME NEW v \in Users, NEW a \in Asset
         PROVE  frozen'[v][a] = Needs(v, a)'
    <2>1. frozen[v][a] = Needs(v, a) /\ frozen[v][a] \in Int /\ f1[v][a] \in Int
      BY <1>7, <1>14 DEF FrozenIsBacked, Tables
    <2>2. /\ f1[v][a] = frozen[v][a] + (IF v = ub /\ a = "quote" THEN k ELSE 0)
          /\ frozen'[v][a] = f1[v][a] + (IF v = us /\ a = "base" THEN nq ELSE 0)
      BY <1>14 DEF Moves
    <2>3. CASE a = "quote"
      <3>1. Needs(v, a)' = Needs(v, a) + (Need(b, v, a)' - Need(b, v, a))
        BY <1>12, <1>13, <2>3, NeedsChange
      <3>2. Need(b, v, a) \in Int
        BY <1>13, NeedFacts
      <3>3. frozen'[v][a] = frozen[v][a] + (IF v = ub THEN k ELSE 0)
        BY <1>10, <2>1, <2>2, <2>3
      <3>4. Need(b, v, a)' = Need(b, v, a) - (IF v = ub THEN full ELSE 0)
        BY <1>12, <2>3
      <3>5. QED
        BY <1>6, <1>10, <2>1, <3>1, <3>2, <3>3, <3>4
    <2>4. CASE a = "base"
      <3>1. Needs(v, a)' = Needs(v, a) + (Need(e, v, a)' - Need(e, v, a))
        BY <1>12, <1>13, <2>4, NeedsChange
      <3>2. Need(e, v, a) \in Int
        BY <1>13, NeedFacts
      <3>3. frozen'[v][a] = frozen[v][a] + (IF v = us THEN nq ELSE 0)
        BY <1>11, <2>1, <2>2, <2>4
      <3>4. Need(e, v, a)' = Need(e, v, a) - (IF v = us THEN q ELSE 0)
        BY <1>12, <2>4
      <3>5. QED
        BY <1>5, <1>11, <2>1, <3>1, <3>2, <3>3, <3>4
    <2>5. QED
      BY <2>3, <2>4 DEF Asset
  <1>17. ASSUME NEW a \in Asset
         PROVE  Total(avail', a) + Total(frozen', a) = 0
    <2>1. ASSUME NEW t1 \in Tables, NEW t2 \in Tables, NEW u \in Users, NEW x \in Asset, NEW n \in Int,
                 Moves(t1, t2, u, x, n)
          PROVE  Total(t1, a) \in Int /\ Total(t2, a) = Total(t1, a) + (IF a = x THEN n ELSE 0)
      BY <2>1, TotalChange
    <2>2. Total(frozen, a) \in Int /\ Total(f1, a) = Total(frozen, a) + (IF a = "quote" THEN k ELSE 0)
      BY <1>5, <1>7, <1>14, <2>1
    <2>3. Total(f1, a) \in Int /\ Total(frozen', a) = Total(f1, a) + (IF a = "base" THEN nq ELSE 0)
      BY <1>5, <1>7, <1>14, <2>1
    <2>4. Total(avail, a) \in Int /\ Total(a1, a) = Total(avail, a) + (IF a = "quote" THEN ref ELSE 0)
      BY <1>5, <1>6, <1>7, <1>15, <2>1
    <2>5. Total(a1, a) \in Int /\ Total(a2, a) = Total(a1, a) + (IF a = "base" THEN q ELSE 0)
      BY <1>5, <1>7, <1>15, <2>1
    <2>6. Total(a2, a) \in Int /\ Total(avail', a) = Total(a2, a) + (IF a = "quote" THEN cost ELSE 0)
      BY <1>5, <1>6, <1>7, <1>15, <2>1
    <2>7. Total(avail, a) + Total(frozen, a) = 0
      BY DEF FrozenIsBacked
    <2>8. QED
      BY <1>5, <1>6, <1>10, <1>11, <2>2, <2>3, <2>4, <2>5, <2>6, <2>7
  <1>18. QED
    BY <1>16, <1>17 DEF FrozenIsBacked, Total

\* BookInit: nothing is frozen and no order needs anything.
LEMMA BackedInit == BookInit => FrozenIsBacked
  <1> SUFFICES ASSUME BookInit, NEW a \in Asset
               PROVE  /\ \A u \in Users : frozen[u][a] = Needs(u, a)
                      /\ Total(avail, a) + Total(frozen, a) = 0
    BY DEF FrozenIsBacked
  <1>1. IsFiniteSet(OrderIds) /\ IsFiniteSet(Users)
    BY EngineAssumption
  <1>2. /\ avail = [u \in Users |-> [x \in Asset |-> 0]] /\ frozen = [u \in Users |-> [x \in Asset |-> 0]]
        /\ taker = NoOrder /\ \A t \in Side, r \in Prices : queue[t][r] = <<>>
    BY DEF BookInit
  <1>3. ASSUME NEW u \in Users
        PROVE  Needs(u, a) = 0
    <2> DEFINE f == [o \in OrderIds |-> Need(o, u, a)]
    <2>1. \A o \in OrderIds : ~OnBook(o) /\ o # taker
      BY <1>2, EngineAssumption DEF OnBook, Range
    <2>2. \A o \in OrderIds : f[o] = 0
      BY <2>1 DEF Need
    <2>3. Needs(u, a) = SumFunctionOnSet(f, OrderIds)
      BY DEF Needs
    <2> HIDE DEF f
    <2>4. QED
      BY <1>1, <2>2, <2>3, SumZero
  <1>4. ASSUME NEW table, table = [u \in Users |-> [x \in Asset |-> 0]]
        PROVE  Total(table, a) = 0
    <2> DEFINE f == [u \in Users |-> table[u][a]]
    <2>1. \A u \in Users : f[u] = 0
      BY <1>4
    <2>2. Total(table, a) = SumFunctionOnSet(f, Users)
      BY DEF Total
    <2> HIDE DEF f
    <2>3. QED
      BY <1>1, <2>1, <2>2, SumZero
  <1>5. Total(avail, a) = 0 /\ Total(frozen, a) = 0
    BY <1>2, <1>4
  <1>6. QED
    BY <1>2, <1>3, <1>5

\* Every step keeps the frozen funds equal to the needs.
LEMMA BackedNext == BookInv /\ BookInv' /\ FrozenIsBacked /\ [BookNext]_bookVars => FrozenIsBacked'
  <1> SUFFICES ASSUME BookInv, BookInv', FrozenIsBacked, [BookNext]_bookVars PROVE FrozenIsBacked'
    OBVIOUS
  <1>1. api' = api
    <2>1. ASSUME NEW o, NEW u, NEW s, NEW p, NEW q,
                 Place(o, u, s, p, q) \/ PlaceInBatch(o, u, s, p, q) \/ add_order(o, u, s, p, q)
          PROVE  api' = api
      <3>1. Enters(o, u, s, p, q)
        BY <2>1 DEF Place, PlaceInBatch, add_order, process_order_logic
      <3>2. QED
        BY <3>1 DEF Enters
    <2>2. ASSUME Match \/ Rest \/ Filled PROVE api' = api
      BY <2>2 DEF Match, Rest, Filled
    <2>3. ASSUME NEW o, Cancel(o) PROVE api' = api
      BY <2>3 DEF Cancel
    <2>4. QED
      BY <2>1, <2>2, <2>3 DEF BookNext, bookVars
  <1>2. CASE api # "output"
    BY <1>1, <1>2 DEF FrozenIsBacked
  <1>3. CASE api = "output"
    <2>1. ASSUME NEW o \in OrderIds, NEW u \in Users, NEW s \in Side, NEW p \in Prices,
                 NEW q \in 1..MaxQty, Place(o, u, s, p, q)
          PROVE  FrozenIsBacked'
      BY <2>1, PlaceBacked
    <2>2. ASSUME NEW o, NEW u, NEW s, NEW p, NEW q
          PROVE  ~PlaceInBatch(o, u, s, p, q) /\ ~add_order(o, u, s, p, q)
      BY <1>3 DEF PlaceInBatch, add_order
    <2>3. CASE Match
      <3>1. PICK s, p, m, q : Trade(s, p, m, q)
        BY <2>3, MatchTrades
      <3>2. QED
        BY <1>3, <3>1, TradeBacked
    <2>4. CASE Rest
      BY <2>4, RestBacked
    <2>5. CASE Filled
      BY <2>5, FilledBacked
    <2>6. ASSUME NEW o \in OrderIds, Cancel(o)
          PROVE  FrozenIsBacked'
      BY <1>3, <2>6, CancelBacked
    <2>7. CASE UNCHANGED bookVars
      <3>1. UNCHANGED <<api, orders, queue, taker, avail, frozen>>
        BY <2>7 DEF bookVars
      <3>2. \A x \in OrderIds, v \in Users, a \in Asset : Need(x, v, a)' = Need(x, v, a)
        BY <3>1 DEF Need, OnBook
      <3>3. QED
        BY <3>1, <3>2, IdleBacked
    <2>8. QED
      BY <2>1, <2>2, <2>3, <2>4, <2>5, <2>6, <2>7 DEF BookNext
  <1>4. QED
    BY <1>2, <1>3

\* The lock, trade, refund and unlock events of add_order_and_build_output and
\* cancel_order leave frozen exactly what each user's open orders need, and add
\* up to nothing over all users.
THEOREM EventsBalance == BookSpec => []FrozenIsBacked
  BY BackedInit, BackedNext, BookInvHolds, PTL DEF BookSpec
=============================================================================
