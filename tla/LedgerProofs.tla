---------------------------- MODULE LedgerProofs ----------------------------
(***************************************************************************)
(* Proofs about Ledger, for any commands, batches, crashes, rotations,     *)
(* snapshots and retention limits: the ledger opens on a prefix of what it *)
(* accepted or not at all, the first restart keeps all of it, the newest   *)
(* snapshot stays, and no money is made or lost.                           *)
(***************************************************************************)
EXTENDS Ledger, SumTheorems, SequenceTheorems

-----------------------------------------------------------------------------
(***************************************************************************)
(* The folds of Accounts and Ledger.  They differ in their step only; a    *)
(* lemma cannot have an operator as its parameter, so the step is chosen   *)
(* by the name of the fold.                                                *)
(***************************************************************************)
Step(fold, a, v, e) ==
    IF fold = "each"         THEN Try(v, LAMBDA t : ApplyOne(t, e))
    ELSE IF fold = "all"     THEN Try(v, LAMBDA t : apply_transaction(t, e))
    ELSE IF fold = "state"   THEN apply_transaction(v, e).acc
    ELSE IF fold = "record"  THEN Redo(v, e)
    ELSE IF fold = "segment" THEN RedoSegment(v, e)
    ELSE IF fold = "brought" THEN v + BroughtBy(e, a)
    ELSE v + IF e.op \in Nested THEN BroughtByEach(e.cmds, a) ELSE BroughtBy(e, a)

\* g is the recursive function of a fold over the positions S of s
IsFold(g, fold, a, base, s, S) ==
    g = [T \in SUBSET S |-> IF T = {} THEN base
                            ELSE Step(fold, a, g[T \ {Max(T)}], s[Max(T)])]

TheFold(fold, a, base, s, S) == CHOOSE g : IsFold(g, fold, a, base, s, S)

Folded(fold, a, base, s) == TheFold(fold, a, base, s, DOMAIN s)[DOMAIN s]

Positions(S) == IsFiniteSet(S) /\ S \subseteq Int

\* the sequences s and r have the same elements at the positions T
Agree(s, r, T) == \A i \in T : s[i] = r[i]

\* The positions up to a length, and fewer.
LEMMA PositionsFacts ==
    /\ \A n \in Nat : Positions(1..n)
    /\ \A S, T : Positions(S) /\ T \subseteq S => Positions(T)
<1>1. ASSUME NEW n \in Nat  PROVE Positions(1..n)
  <2>1. IsFiniteSet(1..n)
    BY FS_Interval
  <2> QED  BY <2>1 DEF Positions
<1>2. ASSUME NEW S, NEW T, Positions(S), T \subseteq S  PROVE Positions(T)
  <2>1. IsFiniteSet(T)
    BY <1>2, FS_Subset DEF Positions
  <2> QED  BY <1>2, <2>1 DEF Positions
<1> QED  BY <1>1, <1>2

\* The position a fold takes is the last one.
LEMMA MaxIn ==
    ASSUME NEW S, Positions(S), S # {}
    PROVE  Max(S) \in S /\ \A y \in S : Max(S) >= y
<1>0. IsFiniteSet(S) /\ S \subseteq Int
  BY DEF Positions
<1>1. \E x \in S : \A y \in S : x >= y
  <2>1. \A x \in S : x \in Int
    BY <1>0
  <2> QED  BY <1>0, <2>1, Extremes
<1> QED  BY <1>1 DEF Max

\* What the recursive function yields.
LEMMA FoldStep ==
    ASSUME NEW g, NEW fold, NEW a, NEW base, NEW s, NEW S,
           IsFold(g, fold, a, base, s, S), NEW T \in SUBSET S
    PROVE  /\ T = {} => g[T] = base
           /\ T # {} => g[T] = Step(fold, a, g[T \ {Max(T)}], s[Max(T)])
  BY DEF IsFold

\* It starts with the base.
LEMMA FoldBase ==
    ASSUME NEW g, NEW fold, NEW a, NEW base, NEW s, NEW S,
           IsFold(g, fold, a, base, s, S)
    PROVE  g[{}] = base
<1>1. PICK T : T = {}
  OBVIOUS
<1>2. T \in SUBSET S
  BY <1>1
<1>3. g[T] = base
  BY <1>1, <1>2 DEF IsFold
<1> QED  BY <1>1, <1>3

\* Two such functions agree on positions where their sequences do.
LEMMA FoldUnique ==
    ASSUME NEW g, NEW h, NEW fold, NEW a, NEW base, NEW s, NEW r, NEW S, NEW U,
           Positions(S), IsFold(g, fold, a, base, s, S), IsFold(h, fold, a, base, r, U),
           NEW T \in SUBSET S, T \in SUBSET U, Agree(s, r, T)
    PROVE  g[T] = h[T]
<1> DEFINE Bad == {x \in SUBSET S : x \in SUBSET T /\ g[x] # h[x]}
<1>1. Bad = {}
  <2> SUFFICES ASSUME Bad # {}  PROVE FALSE
    OBVIOUS
  <2>0. Bad \subseteq SUBSET S
    OBVIOUS
  <2>1. PICK x \in Bad : \A y \in Bad : y \subseteq x => y = x
    <3>1. IsFiniteSet(S)
      BY DEF Positions
    <3> HIDE DEF Bad
    <3> QED  BY <2>0, <3>1, MinimalSubset
  <2>2. x # {}
    <3>1. g[{}] = base /\ h[{}] = base
      BY FoldBase
    <3> QED  BY <2>1, <3>1
  <2>3. Max(x) \in x
    BY <2>1, <2>2, MaxIn, PositionsFacts
  <2>4. PICK y : y = x \ {Max(x)}
    OBVIOUS
  <2>5. y \notin Bad /\ y \in SUBSET S /\ y \in SUBSET T
    BY <2>1, <2>3, <2>4
  <2>6. g[y] = h[y]
    BY <2>5
  <2>7. /\ g[x] = Step(fold, a, g[y], s[Max(x)])
        /\ h[x] = Step(fold, a, h[y], r[Max(x)])
    BY <2>1, <2>2, <2>4, FoldStep
  <2>8. s[Max(x)] = r[Max(x)]
    BY <2>1, <2>3 DEF Agree
  <2>9. g[x] = h[x]
    BY <2>6, <2>7, <2>8, Zenon
  <2> QED  BY <2>1, <2>9
<1> QED  BY <1>1

\* There is one for every finite set of positions.
LEMMA FoldExists ==
    ASSUME NEW fold, NEW a, NEW base, NEW s, NEW S, Positions(S)
    PROVE  IsFold(TheFold(fold, a, base, s, S), fold, a, base, s, S)
<1> DEFINE Is(g, U) == IsFold(g, fold, a, base, s, U)
           F(U) == TheFold(fold, a, base, s, U)
           Bad == {U \in SUBSET S : ~ \E g : Is(g, U)}
<1>1. Bad = {}
  <2> SUFFICES ASSUME Bad # {}  PROVE FALSE
    OBVIOUS
  <2>0. Bad \subseteq SUBSET S
    OBVIOUS
  <2>1. PICK U \in Bad : \A V \in Bad : V \subseteq U => V = U
    <3>1. IsFiniteSet(S)
      BY DEF Positions
    <3> HIDE DEF Bad
    <3> QED  BY <2>0, <3>1, MinimalSubset
  <2>2. \A V \in SUBSET U : V # U => Is(F(V), V)
    BY <2>1 DEF TheFold
  <2>3. \A V \in SUBSET U : Positions(V)
    BY <2>1, PositionsFacts
  <2>4. ASSUME NEW V \in SUBSET U, V # {}  PROVE Max(V) \in V
    BY <2>3, <2>4, MaxIn
  <2> DEFINE val(V) == IF V = {} THEN base
                       ELSE Step(fold, a, F(V \ {Max(V)})[V \ {Max(V)}], s[Max(V)])
             G == [V \in SUBSET U |-> val(V)]
  <2>5. ASSUME NEW V \in SUBSET U, V # {}
        PROVE  G[V \ {Max(V)}] = F(V \ {Max(V)})[V \ {Max(V)}]
    <3>1. PICK r : r = V \ {Max(V)}
      OBVIOUS
    <3>2. r \in SUBSET U /\ r # U
      BY <2>4, <2>5, <3>1
    <3>3. Is(F(r), r)
      BY <2>2, <3>2
    <3>4. CASE r = {}
      <4>1. G[r] = base
        BY <3>2, <3>4
      <4>2. F(r)[r] = base
        BY <3>3, <3>4, FoldStep
      <4> QED  BY <3>1, <4>1, <4>2
    <3>5. CASE r # {}
      <4>1. PICK q : q = r \ {Max(r)}
        OBVIOUS
      <4>2. q \in SUBSET r /\ q \in SUBSET U /\ q # U
        BY <2>4, <3>2, <3>5, <4>1
      <4>3. Is(F(q), q)
        BY <2>2, <4>2
      <4>4. F(r)[q] = F(q)[q]
        <5>1. Positions(r) /\ Agree(s, s, q) /\ q \in SUBSET q
          BY <2>3, <3>2 DEF Agree
        <5> QED  BY <3>3, <4>2, <4>3, <5>1, FoldUnique
      <4>5. F(r)[r] = Step(fold, a, F(r)[q], s[Max(r)])
        BY <3>3, <3>5, <4>1, FoldStep
      <4>6. G[r] = Step(fold, a, F(q)[q], s[Max(r)])
        BY <3>2, <3>5, <4>1
      <4> QED  BY <3>1, <4>4, <4>5, <4>6
    <3> QED  BY <3>4, <3>5
  <2>6. G = [V \in SUBSET U |-> IF V = {} THEN base
                                ELSE Step(fold, a, G[V \ {Max(V)}], s[Max(V)])]
    BY <2>5
  <2>7. \E g : Is(g, U)
    BY <2>6 DEF IsFold
  <2> QED  BY <2>1, <2>7
<1>2. S \notin Bad
  BY <1>1
<1>3. \E g : Is(g, S)
  BY <1>2
<1> QED  BY <1>3 DEF TheFold

\* A fold over nothing.
LEMMA FoldEmpty ==
    ASSUME NEW fold, NEW a, NEW base
    PROVE  Folded(fold, a, base, <<>>) = base
<1>1. DOMAIN <<>> = {} /\ Positions({})
  BY FS_EmptySet DEF Positions
<1>2. IsFold(TheFold(fold, a, base, <<>>, {}), fold, a, base, <<>>, {})
  BY <1>1, FoldExists
<1>3. TheFold(fold, a, base, <<>>, {})[{}] = base
  BY <1>2, FoldBase
<1> QED  BY <1>1, <1>3 DEF Folded

\* A fold takes one more element.
LEMMA FoldAppend ==
    ASSUME NEW fold, NEW a, NEW base, NEW X, NEW s \in Seq(X), NEW e \in X
    PROVE  Folded(fold, a, base, Append(s, e)) = Step(fold, a, Folded(fold, a, base, s), e)
<1>1. PICK n \in Nat : n = Len(s)
  OBVIOUS
<1>2. PICK r : r = Append(s, e)
  OBVIOUS
<1>3. /\ DOMAIN s = 1..n /\ DOMAIN r = 1..(n + 1)
      /\ r[n + 1] = e /\ \A i \in 1..n : r[i] = s[i]
  BY <1>1, <1>2
<1>4. Positions(1..n) /\ Positions(1..(n + 1))
  BY PositionsFacts
<1>5. PICK g, h : g = TheFold(fold, a, base, s, 1..n) /\ h = TheFold(fold, a, base, r, 1..(n + 1))
  OBVIOUS
<1>6. IsFold(g, fold, a, base, s, 1..n) /\ IsFold(h, fold, a, base, r, 1..(n + 1))
  BY <1>4, <1>5, FoldExists
<1>7. n + 1 \in 1..(n + 1) /\ Max(1..(n + 1)) = n + 1
  <2>1. n + 1 \in 1..(n + 1)
    OBVIOUS
  <2>2. Max(1..(n + 1)) \in 1..(n + 1) /\ Max(1..(n + 1)) >= n + 1
    BY <1>4, <2>1, MaxIn
  <2> QED  BY <2>1, <2>2
<1>8. h[1..(n + 1)] = Step(fold, a, h[1..n], e)
  <2>1. (1..(n + 1)) \ {n + 1} = 1..n
    OBVIOUS
  <2>2. PICK S : S = 1..(n + 1)
    OBVIOUS
  <2>3. S # {} /\ S \in SUBSET S /\ IsFold(h, fold, a, base, r, S)
    BY <1>6, <1>7, <2>2
  <2>4. h[S] = Step(fold, a, h[S \ {Max(S)}], r[Max(S)])
    BY <2>3, FoldStep
  <2> QED  BY <1>3, <1>7, <2>1, <2>2, <2>4
<1>9. g[1..n] = h[1..n]
  <2>1. 1..n \in SUBSET (1..n) /\ 1..n \in SUBSET (1..(n + 1)) /\ Agree(s, r, 1..n)
    BY <1>3 DEF Agree
  <2> QED  BY <1>4, <1>6, <2>1, FoldUnique
<1> QED  BY <1>2, <1>3, <1>5, <1>8, <1>9 DEF Folded

-----------------------------------------------------------------------------
(***************************************************************************)
(* Each fold of the specification is one of these.                         *)
(***************************************************************************)

\* The function a definition chooses is the one of the fold.
LEMMA FoldChosen ==
    ASSUME NEW fold, NEW a, NEW base, NEW X, NEW s \in Seq(X), NEW g,
           IsFold(g, fold, a, base, s, DOMAIN s)
    PROVE  g[DOMAIN s] = Folded(fold, a, base, s)
<1>1. PICK S : S = DOMAIN s
  OBVIOUS
<1>2. Positions(S)
  <2>1. S = 1..Len(s) /\ Len(s) \in Nat
    BY <1>1
  <2> QED  BY <2>1, PositionsFacts
<1>3. IsFold(TheFold(fold, a, base, s, S), fold, a, base, s, S)
  BY <1>2, FoldExists
<1>4. S \in SUBSET S /\ Agree(s, s, S)
  BY DEF Agree
<1>5. g[S] = TheFold(fold, a, base, s, S)[S]
  BY <1>1, <1>2, <1>3, <1>4, FoldUnique
<1> QED  BY <1>1, <1>5 DEF Folded

\* There is a function to be chosen.
LEMMA FoldThere ==
    ASSUME NEW fold, NEW a, NEW base, NEW X, NEW s \in Seq(X)
    PROVE  \E g : IsFold(g, fold, a, base, s, DOMAIN s)
<1>1. DOMAIN s = 1..Len(s) /\ Len(s) \in Nat
  OBVIOUS
<1>2. Positions(DOMAIN s)
  BY <1>1, PositionsFacts
<1> QED  BY <1>2, FoldExists

\* ApplyEach.
LEMMA EachFold ==
    ASSUME NEW X, NEW s \in Seq(X), NEW acc
    PROVE  ApplyEach(acc, s) = Folded("each", "none", Done(acc), s)
<1> DEFINE P(g) == g = [T \in SUBSET DOMAIN s |->
                          IF T = {} THEN Done(acc)
                          ELSE Try(g[T \ {Max(T)}], LAMBDA t : ApplyOne(t, s[Max(T)]))]
<1>1. ApplyEach(acc, s) = (CHOOSE g : P(g))[DOMAIN s]
  BY DEF ApplyEach, FoldLeft, MapThenFoldSet
<1>2. \A g : P(g) <=> IsFold(g, "each", "none", Done(acc), s, DOMAIN s)
  BY DEF IsFold, Step
<1>3. \E g : P(g)
  <2> HIDE DEF P
  <2> QED  BY <1>2, FoldThere
<1>4. P(CHOOSE g : P(g))
  <2> HIDE DEF P
  <2> QED  BY <1>3
<1>5. PICK g : g = (CHOOSE h : P(h))
  OBVIOUS
<1>6. IsFold(g, "each", "none", Done(acc), s, DOMAIN s)
  <2> HIDE DEF P
  <2> QED  BY <1>2, <1>4, <1>5
<1>7. g[DOMAIN s] = Folded("each", "none", Done(acc), s)
  BY <1>6, FoldChosen
<1>8. ApplyEach(acc, s) = g[DOMAIN s]
  <2> HIDE DEF P
  <2> QED  BY <1>1, <1>5
<1> QED  BY <1>7, <1>8

\* ApplyAll.
LEMMA AllFold ==
    ASSUME NEW X, NEW s \in Seq(X), NEW acc
    PROVE  ApplyAll(acc, s) = Folded("all", "none", Done(acc), s)
<1> DEFINE P(g) == g = [T \in SUBSET DOMAIN s |->
                          IF T = {} THEN Done(acc)
                          ELSE Try(g[T \ {Max(T)}], LAMBDA t : apply_transaction(t, s[Max(T)]))]
<1>1. ApplyAll(acc, s) = (CHOOSE g : P(g))[DOMAIN s]
  BY DEF ApplyAll, FoldLeft, MapThenFoldSet
<1>2. \A g : P(g) <=> IsFold(g, "all", "none", Done(acc), s, DOMAIN s)
  BY DEF IsFold, Step
<1>3. \E g : P(g)
  <2> HIDE DEF P
  <2> QED  BY <1>2, FoldThere
<1>4. P(CHOOSE g : P(g))
  <2> HIDE DEF P
  <2> QED  BY <1>3
<1>5. PICK g : g = (CHOOSE h : P(h))
  OBVIOUS
<1>6. IsFold(g, "all", "none", Done(acc), s, DOMAIN s)
  <2> HIDE DEF P
  <2> QED  BY <1>2, <1>4, <1>5
<1>7. g[DOMAIN s] = Folded("all", "none", Done(acc), s)
  BY <1>6, FoldChosen
<1>8. ApplyAll(acc, s) = g[DOMAIN s]
  <2> HIDE DEF P
  <2> QED  BY <1>1, <1>5
<1> QED  BY <1>7, <1>8

\* StateAt.
LEMMA StateFold ==
    ASSUME NEW X, NEW s \in Seq(X)
    PROVE  StateAt(s) = Folded("state", "none", NoAccounts, s)
<1> DEFINE P(g) == g = [T \in SUBSET DOMAIN s |->
                          IF T = {} THEN NoAccounts
                          ELSE apply_transaction(g[T \ {Max(T)}], s[Max(T)]).acc]
<1>1. StateAt(s) = (CHOOSE g : P(g))[DOMAIN s]
  BY DEF StateAt, FoldLeft, MapThenFoldSet
<1>2. \A g : P(g) <=> IsFold(g, "state", "none", NoAccounts, s, DOMAIN s)
  BY DEF IsFold, Step
<1>3. \E g : P(g)
  <2> HIDE DEF P
  <2> QED  BY <1>2, FoldThere
<1>4. P(CHOOSE g : P(g))
  <2> HIDE DEF P
  <2> QED  BY <1>3
<1>5. PICK g : g = (CHOOSE h : P(h))
  OBVIOUS
<1>6. IsFold(g, "state", "none", NoAccounts, s, DOMAIN s)
  <2> HIDE DEF P
  <2> QED  BY <1>2, <1>4, <1>5
<1>7. g[DOMAIN s] = Folded("state", "none", NoAccounts, s)
  BY <1>6, FoldChosen
<1>8. StateAt(s) = g[DOMAIN s]
  <2> HIDE DEF P
  <2> QED  BY <1>1, <1>5
<1> QED  BY <1>7, <1>8

\* The replay of one segment.
LEMMA RecordFold ==
    ASSUME NEW X, NEW s \in Seq(X), NEW r
    PROVE  FoldLeft(Redo, r, s) = Folded("record", "none", r, s)
<1> DEFINE P(g) == g = [T \in SUBSET DOMAIN s |->
                          IF T = {} THEN r
                          ELSE Redo(g[T \ {Max(T)}], s[Max(T)])]
<1>1. FoldLeft(Redo, r, s) = (CHOOSE g : P(g))[DOMAIN s]
  BY DEF FoldLeft, MapThenFoldSet
<1>2. \A g : P(g) <=> IsFold(g, "record", "none", r, s, DOMAIN s)
  BY DEF IsFold, Step
<1>3. \E g : P(g)
  <2> HIDE DEF P
  <2> QED  BY <1>2, FoldThere
<1>4. P(CHOOSE g : P(g))
  <2> HIDE DEF P
  <2> QED  BY <1>3
<1>5. PICK g : g = (CHOOSE h : P(h))
  OBVIOUS
<1>6. IsFold(g, "record", "none", r, s, DOMAIN s)
  <2> HIDE DEF P
  <2> QED  BY <1>2, <1>4, <1>5
<1>7. g[DOMAIN s] = Folded("record", "none", r, s)
  BY <1>6, FoldChosen
<1>8. FoldLeft(Redo, r, s) = g[DOMAIN s]
  <2> HIDE DEF P
  <2> QED  BY <1>1, <1>5
<1> QED  BY <1>7, <1>8

\* The replay of all of them.
LEMMA SegmentFold ==
    ASSUME NEW X, NEW s \in Seq(X), NEW r
    PROVE  FoldLeft(RedoSegment, r, s) = Folded("segment", "none", r, s)
<1> DEFINE P(g) == g = [T \in SUBSET DOMAIN s |->
                          IF T = {} THEN r
                          ELSE RedoSegment(g[T \ {Max(T)}], s[Max(T)])]
<1>1. FoldLeft(RedoSegment, r, s) = (CHOOSE g : P(g))[DOMAIN s]
  BY DEF FoldLeft, MapThenFoldSet
<1>2. \A g : P(g) <=> IsFold(g, "segment", "none", r, s, DOMAIN s)
  BY DEF IsFold, Step
<1>3. \E g : P(g)
  <2> HIDE DEF P
  <2> QED  BY <1>2, FoldThere
<1>4. P(CHOOSE g : P(g))
  <2> HIDE DEF P
  <2> QED  BY <1>3
<1>5. PICK g : g = (CHOOSE h : P(h))
  OBVIOUS
<1>6. IsFold(g, "segment", "none", r, s, DOMAIN s)
  <2> HIDE DEF P
  <2> QED  BY <1>2, <1>4, <1>5
<1>7. g[DOMAIN s] = Folded("segment", "none", r, s)
  BY <1>6, FoldChosen
<1>8. FoldLeft(RedoSegment, r, s) = g[DOMAIN s]
  <2> HIDE DEF P
  <2> QED  BY <1>1, <1>5
<1> QED  BY <1>7, <1>8

\* BroughtByEach.
LEMMA BroughtFold ==
    ASSUME NEW X, NEW s \in Seq(X), NEW a
    PROVE  BroughtByEach(s, a) = Folded("brought", a, 0, s)
<1> DEFINE P(g) == g = [T \in SUBSET DOMAIN s |->
                          IF T = {} THEN 0
                          ELSE g[T \ {Max(T)}] + BroughtBy(s[Max(T)], a)]
<1>1. BroughtByEach(s, a) = (CHOOSE g : P(g))[DOMAIN s]
  BY DEF BroughtByEach, FoldLeft, MapThenFoldSet
<1>2. \A g : P(g) <=> IsFold(g, "brought", a, 0, s, DOMAIN s)
  BY DEF IsFold, Step
<1>3. \E g : P(g)
  <2> HIDE DEF P
  <2> QED  BY <1>2, FoldThere
<1>4. P(CHOOSE g : P(g))
  <2> HIDE DEF P
  <2> QED  BY <1>3
<1>5. PICK g : g = (CHOOSE h : P(h))
  OBVIOUS
<1>6. IsFold(g, "brought", a, 0, s, DOMAIN s)
  <2> HIDE DEF P
  <2> QED  BY <1>2, <1>4, <1>5
<1>7. g[DOMAIN s] = Folded("brought", a, 0, s)
  BY <1>6, FoldChosen
<1>8. BroughtByEach(s, a) = g[DOMAIN s]
  <2> HIDE DEF P
  <2> QED  BY <1>1, <1>5
<1> QED  BY <1>7, <1>8

\* Inflow.
LEMMA InflowFold ==
    ASSUME NEW X, NEW s \in Seq(X), NEW a
    PROVE  Inflow(s, a) = Folded("inflow", a, 0, s)
<1> DEFINE P(g) == g = [T \in SUBSET DOMAIN s |->
                          IF T = {} THEN 0
                          ELSE g[T \ {Max(T)}] + IF s[Max(T)].op \in Nested
                                                    THEN BroughtByEach(s[Max(T)].cmds, a)
                                                    ELSE BroughtBy(s[Max(T)], a)]
<1>1. Inflow(s, a) = (CHOOSE g : P(g))[DOMAIN s]
  BY DEF Inflow, FoldLeft, MapThenFoldSet
<1>2. \A g : P(g) <=> IsFold(g, "inflow", a, 0, s, DOMAIN s)
  BY DEF IsFold, Step
<1>3. \E g : P(g)
  <2> HIDE DEF P
  <2> QED  BY <1>2, FoldThere
<1>4. P(CHOOSE g : P(g))
  <2> HIDE DEF P
  <2> QED  BY <1>3
<1>5. PICK g : g = (CHOOSE h : P(h))
  OBVIOUS
<1>6. IsFold(g, "inflow", a, 0, s, DOMAIN s)
  <2> HIDE DEF P
  <2> QED  BY <1>2, <1>4, <1>5
<1>7. g[DOMAIN s] = Folded("inflow", a, 0, s)
  BY <1>6, FoldChosen
<1>8. Inflow(s, a) = g[DOMAIN s]
  <2> HIDE DEF P
  <2> QED  BY <1>1, <1>5
<1> QED  BY <1>7, <1>8

-----------------------------------------------------------------------------
(***************************************************************************)
(* Prefixes of sequences, and induction over them.                         *)
(***************************************************************************)

\* How the prefixes of a sequence grow.
LEMMA PrefixFacts ==
    ASSUME NEW X, NEW s \in Seq(X)
    PROVE  /\ SubSeq(s, 1, 0) = <<>> /\ SubSeq(s, 1, Len(s)) = s
           /\ \A i \in 0..Len(s) : SubSeq(s, 1, i) \in Seq(X) /\ Len(SubSeq(s, 1, i)) = i
           /\ \A i \in 0..Len(s) : i < Len(s) =>
                /\ s[i + 1] \in X
                /\ SubSeq(s, 1, i + 1) = Append(SubSeq(s, 1, i), s[i + 1])
<1>1. SubSeq(s, 1, 0) = <<>>
  OBVIOUS
<1>2. SubSeq(s, 1, Len(s)) = s
  OBVIOUS
<1>3. ASSUME NEW i \in 0..Len(s)  PROVE SubSeq(s, 1, i) \in Seq(X) /\ Len(SubSeq(s, 1, i)) = i
  OBVIOUS
<1>4. ASSUME NEW i \in 0..Len(s), i < Len(s)
      PROVE  s[i + 1] \in X /\ SubSeq(s, 1, i + 1) = Append(SubSeq(s, 1, i), s[i + 1])
  <2>1. i + 1 \in 1..Len(s)
    BY <1>4
  <2> QED  BY <1>3, <1>4, <2>1
<1> QED  BY <1>1, <1>2, <1>3, <1>4

\* Induction over the prefixes of a sequence, the claim given as a set.
LEMMA PrefixInduction ==
    ASSUME NEW X, NEW s \in Seq(X), NEW Good, <<>> \in Good,
           \A t \in Seq(X), e \in X : t \in Good => Append(t, e) \in Good
    PROVE  s \in Good
<1>1. PICK S : S = {i \in 0..Len(s) : SubSeq(s, 1, i) \in Good}
  OBVIOUS
<1>2. 0 \in S
  <2>1. SubSeq(s, 1, 0) = <<>> /\ 0 \in 0..Len(s)
    BY PrefixFacts
  <2> QED  BY <1>1, <2>1
<1>3. ASSUME NEW i \in 0..Len(s), i \in S, i < Len(s)  PROVE i + 1 \in S
  <2>1. SubSeq(s, 1, i) \in Seq(X) /\ SubSeq(s, 1, i) \in Good /\ s[i + 1] \in X
    BY <1>1, <1>3, PrefixFacts
  <2>2. SubSeq(s, 1, i + 1) = Append(SubSeq(s, 1, i), s[i + 1])
    BY <1>3, PrefixFacts
  <2>3. Append(SubSeq(s, 1, i), s[i + 1]) \in Good
    BY <2>1
  <2>4. i + 1 \in 0..Len(s)
    BY <1>3
  <2> QED  BY <1>1, <2>2, <2>3, <2>4
<1>4. Len(s) \in Nat
  OBVIOUS
<1>5. \A i \in 0..Len(s) : i \in S
  BY <1>2, <1>3, <1>4, UpToInduction
<1>6. SubSeq(s, 1, Len(s)) \in Good
  BY <1>1, <1>4, <1>5
<1> QED  BY <1>6, PrefixFacts

\* The folds, by their last element.
LEMMA StateFacts ==
    /\ StateAt(<<>>) = NoAccounts
    /\ \A s \in Seq(Command), c \in Command :
          StateAt(Append(s, c)) = apply_transaction(StateAt(s), c).acc
<1>1. <<>> \in Seq(Command)
  OBVIOUS
<1>2. StateAt(<<>>) = NoAccounts
  BY <1>1, StateFold, FoldEmpty
<1>3. ASSUME NEW s \in Seq(Command), NEW c \in Command
      PROVE  StateAt(Append(s, c)) = apply_transaction(StateAt(s), c).acc
  <2>1. Append(s, c) \in Seq(Command)
    OBVIOUS
  <2>2. StateAt(Append(s, c)) = Step("state", "none", StateAt(s), c)
    <3>1. StateAt(Append(s, c)) = Folded("state", "none", NoAccounts, Append(s, c))
      BY <2>1, StateFold
    <3>2. StateAt(s) = Folded("state", "none", NoAccounts, s)
      BY StateFold
    <3>3. Folded("state", "none", NoAccounts, Append(s, c)) = Step("state", "none", Folded("state", "none", NoAccounts, s), c)
      BY FoldAppend
    <3> QED  BY <3>1, <3>2, <3>3
  <2> QED  BY <2>2 DEF Step
<1> QED  BY <1>2, <1>3

\* The same for a sequence of simple commands.
LEMMA EachFacts ==
    ASSUME NEW acc
    PROVE  /\ ApplyEach(acc, <<>>) = Done(acc)
           /\ \A s \in Seq(OneCommand), c \in OneCommand :
                ApplyEach(acc, Append(s, c)) =
                    IF ApplyEach(acc, s).res = "ok" THEN ApplyOne(ApplyEach(acc, s).acc, c)
                    ELSE ApplyEach(acc, s)
<1>1. <<>> \in Seq(OneCommand)
  OBVIOUS
<1>2. ApplyEach(acc, <<>>) = Done(acc)
  BY <1>1, EachFold, FoldEmpty
<1>3. ASSUME NEW s \in Seq(OneCommand), NEW c \in OneCommand
      PROVE  ApplyEach(acc, Append(s, c)) =
                    IF ApplyEach(acc, s).res = "ok" THEN ApplyOne(ApplyEach(acc, s).acc, c)
                    ELSE ApplyEach(acc, s)
  <2>1. Append(s, c) \in Seq(OneCommand)
    OBVIOUS
  <2>2. ApplyEach(acc, Append(s, c)) = Step("each", "none", ApplyEach(acc, s), c)
    <3>1. ApplyEach(acc, Append(s, c)) = Folded("each", "none", Done(acc), Append(s, c))
      BY <2>1, EachFold
    <3>2. ApplyEach(acc, s) = Folded("each", "none", Done(acc), s)
      BY EachFold
    <3>3. Folded("each", "none", Done(acc), Append(s, c)) = Step("each", "none", Folded("each", "none", Done(acc), s), c)
      BY FoldAppend
    <3> QED  BY <3>1, <3>2, <3>3
  <2> QED  BY <2>2 DEF Step, Try
<1> QED  BY <1>2, <1>3

\* The same for a batch.
LEMMA AllFacts ==
    ASSUME NEW acc
    PROVE  /\ ApplyAll(acc, <<>>) = Done(acc)
           /\ \A s \in Seq(Command), c \in Command :
                ApplyAll(acc, Append(s, c)) =
                    IF ApplyAll(acc, s).res = "ok" THEN apply_transaction(ApplyAll(acc, s).acc, c)
                    ELSE ApplyAll(acc, s)
<1>1. <<>> \in Seq(Command)
  OBVIOUS
<1>2. ApplyAll(acc, <<>>) = Done(acc)
  BY <1>1, AllFold, FoldEmpty
<1>3. ASSUME NEW s \in Seq(Command), NEW c \in Command
      PROVE  ApplyAll(acc, Append(s, c)) =
                    IF ApplyAll(acc, s).res = "ok" THEN apply_transaction(ApplyAll(acc, s).acc, c)
                    ELSE ApplyAll(acc, s)
  <2>1. Append(s, c) \in Seq(Command)
    OBVIOUS
  <2>2. ApplyAll(acc, Append(s, c)) = Step("all", "none", ApplyAll(acc, s), c)
    <3>1. ApplyAll(acc, Append(s, c)) = Folded("all", "none", Done(acc), Append(s, c))
      BY <2>1, AllFold
    <3>2. ApplyAll(acc, s) = Folded("all", "none", Done(acc), s)
      BY AllFold
    <3>3. Folded("all", "none", Done(acc), Append(s, c)) = Step("all", "none", Folded("all", "none", Done(acc), s), c)
      BY FoldAppend
    <3> QED  BY <3>1, <3>2, <3>3
  <2> QED  BY <2>2 DEF Step, Try
<1> QED  BY <1>2, <1>3

\* the replay of a segment's records and of several segments
RedoRecs(r, recs) == FoldLeft(Redo, r, recs)
RedoLog(r, w) == FoldLeft(RedoSegment, r, w)

\* The same for the records of a segment, and for segments.
LEMMA RedoFacts ==
    ASSUME NEW r
    PROVE  RedoRecs(r, <<>>) = r /\ RedoLog(r, <<>>) = r
<1>1. <<>> \in Seq(Nat)
  OBVIOUS
<1>2. FoldLeft(Redo, r, <<>>) = r
  BY <1>1, RecordFold, FoldEmpty
<1>3. FoldLeft(RedoSegment, r, <<>>) = r
  BY <1>1, SegmentFold, FoldEmpty
<1> QED  BY <1>2, <1>3 DEF RedoRecs, RedoLog

\* The same, one more.
LEMMA RedoNext ==
    ASSUME NEW X, NEW s \in Seq(X), NEW e \in X, NEW r
    PROVE  /\ RedoRecs(r, Append(s, e)) = Redo(RedoRecs(r, s), e)
           /\ RedoLog(r, Append(s, e)) = RedoSegment(RedoLog(r, s), e)
<1>1. Append(s, e) \in Seq(X)
  OBVIOUS
<1>2. FoldLeft(Redo, r, Append(s, e)) = Step("record", "none", FoldLeft(Redo, r, s), e)
  <2>1. FoldLeft(Redo, r, Append(s, e)) = Folded("record", "none", r, Append(s, e))
    BY <1>1, RecordFold
  <2>2. FoldLeft(Redo, r, s) = Folded("record", "none", r, s)
    BY RecordFold
  <2>3. Folded("record", "none", r, Append(s, e)) = Step("record", "none", Folded("record", "none", r, s), e)
    BY FoldAppend
  <2> QED  BY <2>1, <2>2, <2>3
<1>3. FoldLeft(RedoSegment, r, Append(s, e)) = Step("segment", "none", FoldLeft(RedoSegment, r, s), e)
  <2>1. FoldLeft(RedoSegment, r, Append(s, e)) = Folded("segment", "none", r, Append(s, e))
    BY <1>1, SegmentFold
  <2>2. FoldLeft(RedoSegment, r, s) = Folded("segment", "none", r, s)
    BY SegmentFold
  <2>3. Folded("segment", "none", r, Append(s, e)) = Step("segment", "none", Folded("segment", "none", r, s), e)
    BY FoldAppend
  <2> QED  BY <2>1, <2>2, <2>3
<1>4. /\ FoldLeft(Redo, r, Append(s, e)) = Redo(FoldLeft(Redo, r, s), e)
      /\ FoldLeft(RedoSegment, r, Append(s, e)) = RedoSegment(FoldLeft(RedoSegment, r, s), e)
  BY <1>2, <1>3 DEF Step
<1> QED  BY <1>4 DEF RedoRecs, RedoLog

\* The same for what commands bring in.
LEMMA InflowFacts ==
    ASSUME NEW a
    PROVE  /\ BroughtByEach(<<>>, a) = 0
           /\ \A s \in Seq(OneCommand), c \in OneCommand :
                BroughtByEach(Append(s, c), a) = BroughtByEach(s, a) + BroughtBy(c, a)
           /\ Inflow(<<>>, a) = 0
           /\ \A s \in Seq(Command), c \in Command :
                Inflow(Append(s, c), a) =
                    Inflow(s, a) + IF c.op \in Nested THEN BroughtByEach(c.cmds, a)
                                   ELSE BroughtBy(c, a)
<1>1. <<>> \in Seq(OneCommand) /\ <<>> \in Seq(Command)
  OBVIOUS
<1>2. BroughtByEach(<<>>, a) = 0
  BY <1>1, BroughtFold, FoldEmpty
<1>3. Inflow(<<>>, a) = 0
  BY <1>1, InflowFold, FoldEmpty
<1>4. ASSUME NEW s \in Seq(OneCommand), NEW c \in OneCommand
      PROVE  BroughtByEach(Append(s, c), a) = BroughtByEach(s, a) + BroughtBy(c, a)
  <2>1. Append(s, c) \in Seq(OneCommand)
    OBVIOUS
  <2>2. BroughtByEach(Append(s, c), a) = Step("brought", a, BroughtByEach(s, a), c)
    <3>1. BroughtByEach(Append(s, c), a) = Folded("brought", a, 0, Append(s, c))
      BY <2>1, BroughtFold
    <3>2. BroughtByEach(s, a) = Folded("brought", a, 0, s)
      BY BroughtFold
    <3>3. Folded("brought", a, 0, Append(s, c)) = Step("brought", a, Folded("brought", a, 0, s), c)
      BY FoldAppend
    <3> QED  BY <3>1, <3>2, <3>3
  <2> QED  BY <2>2 DEF Step
<1>5. ASSUME NEW s \in Seq(Command), NEW c \in Command
      PROVE  Inflow(Append(s, c), a) =
                    Inflow(s, a) + IF c.op \in Nested THEN BroughtByEach(c.cmds, a)
                                   ELSE BroughtBy(c, a)
  <2>1. Append(s, c) \in Seq(Command)
    OBVIOUS
  <2>2. Inflow(Append(s, c), a) = Step("inflow", a, Inflow(s, a), c)
    <3>1. Inflow(Append(s, c), a) = Folded("inflow", a, 0, Append(s, c))
      BY <2>1, InflowFold
    <3>2. Inflow(s, a) = Folded("inflow", a, 0, s)
      BY InflowFold
    <3>3. Folded("inflow", a, 0, Append(s, c)) = Step("inflow", a, Folded("inflow", a, 0, s), c)
      BY FoldAppend
    <3> QED  BY <3>1, <3>2, <3>3
  <2> QED  BY <2>2 DEF Step
<1> QED  BY <1>2, <1>3, <1>4, <1>5

-----------------------------------------------------------------------------
(***************************************************************************)
(* What an operation on balances leaves behind.                            *)
(***************************************************************************)
Table == [Users -> [Asset -> Balance]]
Amount == 0..MaxU64
Outcome == {"ok", "err", "panic"}
Result == [res : Outcome, acc : Table]
BalanceResult == [res : {"ok", "err"}, bal : Balance]

\* what a balance is worth
Worth(b) == b.avail + b.frozen

\* The operations of Balance keep both parts in the range of a u64; one that
\* succeeds changes what the balance is worth by what it is for.
LEMMA BalanceOps ==
    ASSUME NEW b \in Balance, NEW n \in Amount
    PROVE  /\ deposit(b, n) \in BalanceResult
           /\ deposit(b, n).res = "ok" => Worth(deposit(b, n).bal) = Worth(b) + n
           /\ withdraw(b, n) \in BalanceResult
           /\ withdraw(b, n).res = "ok" => Worth(withdraw(b, n).bal) = Worth(b) - n
           /\ lock(b, n) \in BalanceResult
           /\ lock(b, n).res = "ok" => Worth(lock(b, n).bal) = Worth(b)
           /\ unlock(b, n) \in BalanceResult
           /\ unlock(b, n).res = "ok" => Worth(unlock(b, n).bal) = Worth(b)
           /\ spend_frozen(b, n) \in BalanceResult
           /\ spend_frozen(b, n).res = "ok" => Worth(spend_frozen(b, n).bal) = Worth(b) - n
<1>0. /\ MaxU64 \in Nat /\ n \in Nat /\ n <= MaxU64
      /\ b.avail \in Nat /\ b.avail <= MaxU64 /\ b.frozen \in Nat /\ b.frozen <= MaxU64
      /\ b = [avail |-> b.avail, frozen |-> b.frozen]
  BY AccountsAssumption DEF Amount, Balance
<1>1. /\ deposit(b, n) \in BalanceResult
      /\ deposit(b, n).res = "ok" => Worth(deposit(b, n).bal) = Worth(b) + n
  BY <1>0 DEF deposit, Ok, Err, BalanceResult, Balance, Worth
<1>2. /\ withdraw(b, n) \in BalanceResult
      /\ withdraw(b, n).res = "ok" => Worth(withdraw(b, n).bal) = Worth(b) - n
  BY <1>0 DEF withdraw, Ok, Err, BalanceResult, Balance, Worth
<1>3. /\ lock(b, n) \in BalanceResult
      /\ lock(b, n).res = "ok" => Worth(lock(b, n).bal) = Worth(b)
  <2>1. lock(b, n) = IF b.avail < n THEN Err(b)
                     ELSE IF b.frozen + n > MaxU64 THEN Err([avail |-> b.avail - n, frozen |-> b.frozen])
                     ELSE Ok([avail |-> b.avail - n, frozen |-> b.frozen + n])
    <3>1. [b EXCEPT !.avail = @ - n] = [avail |-> b.avail - n, frozen |-> b.frozen]
      BY <1>0
    <3>2. [[avail |-> b.avail - n, frozen |-> b.frozen] EXCEPT !.frozen = @ + n] = [avail |-> b.avail - n, frozen |-> b.frozen + n]
      BY <1>0
    <3> QED  BY <3>1, <3>2 DEF lock
  <2>2. CASE b.avail < n
    BY <1>0, <2>1, <2>2 DEF Err, BalanceResult
  <2>3. CASE b.avail >= n /\ b.frozen + n > MaxU64
    <3>1. [avail |-> b.avail - n, frozen |-> b.frozen] \in Balance
      BY <1>0, <2>3 DEF Balance
    <3> QED  BY <1>0, <2>1, <2>3, <3>1 DEF Err, BalanceResult
  <2>4. CASE b.avail >= n /\ b.frozen + n <= MaxU64
    <3>1. [avail |-> b.avail - n, frozen |-> b.frozen + n] \in Balance
      BY <1>0, <2>4 DEF Balance
    <3>2. lock(b, n) = Ok([avail |-> b.avail - n, frozen |-> b.frozen + n])
      BY <1>0, <2>1, <2>4
    <3>3. Worth([avail |-> b.avail - n, frozen |-> b.frozen + n]) = Worth(b)
      BY <1>0 DEF Worth
    <3> QED  BY <3>1, <3>2, <3>3 DEF Ok, BalanceResult
  <2> QED  BY <1>0, <2>2, <2>3, <2>4
<1>4. /\ unlock(b, n) \in BalanceResult
      /\ unlock(b, n).res = "ok" => Worth(unlock(b, n).bal) = Worth(b)
  <2>1. unlock(b, n) = IF b.frozen < n THEN Err(b)
                     ELSE IF b.avail + n > MaxU64 THEN Err([avail |-> b.avail, frozen |-> b.frozen - n])
                     ELSE Ok([avail |-> b.avail + n, frozen |-> b.frozen - n])
    <3>1. [b EXCEPT !.frozen = @ - n] = [avail |-> b.avail, frozen |-> b.frozen - n]
      BY <1>0
    <3>2. [[avail |-> b.avail, frozen |-> b.frozen - n] EXCEPT !.avail = @ + n] = [avail |-> b.avail + n, frozen |-> b.frozen - n]
      BY <1>0
    <3> QED  BY <3>1, <3>2 DEF unlock
  <2>2. CASE b.frozen < n
    BY <1>0, <2>1, <2>2 DEF Err, BalanceResult
  <2>3. CASE b.frozen >= n /\ b.avail + n > MaxU64
    <3>1. [avail |-> b.avail, frozen |-> b.frozen - n] \in Balance
      BY <1>0, <2>3 DEF Balance
    <3> QED  BY <1>0, <2>1, <2>3, <3>1 DEF Err, BalanceResult
  <2>4. CASE b.frozen >= n /\ b.avail + n <= MaxU64
    <3>1. [avail |-> b.avail + n, frozen |-> b.frozen - n] \in Balance
      BY <1>0, <2>4 DEF Balance
    <3>2. unlock(b, n) = Ok([avail |-> b.avail + n, frozen |-> b.frozen - n])
      BY <1>0, <2>1, <2>4
    <3>3. Worth([avail |-> b.avail + n, frozen |-> b.frozen - n]) = Worth(b)
      BY <1>0 DEF Worth
    <3> QED  BY <3>1, <3>2, <3>3 DEF Ok, BalanceResult
  <2> QED  BY <1>0, <2>2, <2>3, <2>4
<1>5. /\ spend_frozen(b, n) \in BalanceResult
      /\ spend_frozen(b, n).res = "ok" => Worth(spend_frozen(b, n).bal) = Worth(b) - n
  BY <1>0 DEF spend_frozen, Ok, Err, BalanceResult, Balance, Worth
<1> QED  BY <1>1, <1>2, <1>3, <1>4, <1>5

\* what all users own of an asset
Total(acc, a) ==
    SumFunctionOnSet([u \in Users |-> acc[u][a].avail + acc[u][a].frozen], Users)

\* Replacing one balance of the table.
LEMMA OnFacts ==
    ASSUME NEW acc \in Table, NEW u \in Users, NEW a \in Asset, NEW r \in BalanceResult
    PROVE  /\ On(acc, u, a, r) \in Result
           /\ On(acc, u, a, r).res = r.res
           /\ \A d \in Asset : Total(On(acc, u, a, r).acc, d) =
                 Total(acc, d) + (IF d = a THEN Worth(r.bal) - Worth(acc[u][a]) ELSE 0)
<1>0. r.res \in {"ok", "err"} /\ r.bal \in Balance
  BY DEF BalanceResult
<1>1. PICK t : t = [acc EXCEPT ![u][a] = r.bal]
  OBVIOUS
<1>2. On(acc, u, a, r) = [res |-> r.res, acc |-> t]
  BY <1>1 DEF On
<1>3. t \in Table
  BY <1>0, <1>1 DEF Table
<1>4. On(acc, u, a, r) \in Result /\ On(acc, u, a, r).res = r.res /\ On(acc, u, a, r).acc = t
  BY <1>0, <1>2, <1>3 DEF Result, Outcome
<1>5. ASSUME NEW d \in Asset
      PROVE  Total(t, d) = Total(acc, d) + (IF d = a THEN Worth(r.bal) - Worth(acc[u][a]) ELSE 0)
  <2>1. PICK f, g : /\ f = [v \in Users |-> acc[v][d].avail + acc[v][d].frozen]
                    /\ g = [v \in Users |-> t[v][d].avail + t[v][d].frozen]
    OBVIOUS
  <2>2. ASSUME NEW v \in Users  PROVE acc[v][d] \in Balance /\ t[v][d] \in Balance
    BY <1>3 DEF Table
  <2>3. ASSUME NEW v \in Users  PROVE f[v] \in Int /\ g[v] \in Int
    BY <2>1, <2>2, AccountsAssumption DEF Balance
  <2>4. ASSUME NEW v \in Users, v # u  PROVE g[v] = f[v]
    <3>1. t[v] = acc[v]
      BY <1>1, <2>4 DEF Table
    <3> QED  BY <2>1, <3>1
  <2>5. IsFiniteSet(Users)
    BY LedgerAssumption
  <2>6. SumFunctionOnSet(g, Users) = SumFunctionOnSet(f, Users) + (g[u] - f[u])
    BY <2>3, <2>4, <2>5, SumChange
  <2>7. Total(t, d) = SumFunctionOnSet(g, Users) /\ Total(acc, d) = SumFunctionOnSet(f, Users)
    BY <2>1 DEF Total
  <2>8. g[u] - f[u] = IF d = a THEN Worth(r.bal) - Worth(acc[u][a]) ELSE 0
    <3>1. d = a => t[u][d] = r.bal
      BY <1>1 DEF Table
    <3>2. d # a => t[u][d] = acc[u][d]
      BY <1>1 DEF Table
    <3>3. f[u] = Worth(acc[u][d]) /\ g[u] = Worth(t[u][d])
      BY <2>1 DEF Worth
    <3> QED  BY <2>3, <3>1, <3>2, <3>3
  <2> QED  BY <2>6, <2>7, <2>8
<1> QED  BY <1>4, <1>5

\* A total is a number.
LEMMA TotalInt ==
    ASSUME NEW acc \in Table, NEW a \in Asset
    PROVE  Total(acc, a) \in Int
<1>1. PICK f : f = [u \in Users |-> acc[u][a].avail + acc[u][a].frozen]
  OBVIOUS
<1>2. ASSUME NEW u \in Users  PROVE f[u] \in Int
  <2>1. acc[u][a] \in Balance
    BY DEF Table
  <2> QED  BY <1>1, <2>1, AccountsAssumption DEF Balance
<1>3. SumFunctionOnSet(f, Users) \in Int
  BY <1>2, SumInt, LedgerAssumption
<1> QED  BY <1>1, <1>3 DEF Total

\* r comes from acc by a call that changed the total of each asset by delta
Moved(acc, r, delta) ==
    /\ r \in Result
    /\ r.res = "ok" => \A a \in Asset : Total(r.acc, a) = Total(acc, a) + delta[a]

OnlyOf(a, n) == [d \in Asset |-> IF d = a THEN n ELSE 0]

\* One balance operation of one account.
LEMMA OnMoves ==
    ASSUME NEW acc \in Table, NEW u \in Users, NEW a \in Asset, NEW n \in Amount
    PROVE  /\ acc[u][a] \in Balance
           /\ Moved(acc, On(acc, u, a, deposit(acc[u][a], n)), OnlyOf(a, n))
           /\ On(acc, u, a, deposit(acc[u][a], n)).res \in {"ok", "err"}
           /\ Moved(acc, On(acc, u, a, withdraw(acc[u][a], n)), OnlyOf(a, -n))
           /\ Moved(acc, On(acc, u, a, lock(acc[u][a], n)), OnlyOf(a, 0))
           /\ Moved(acc, On(acc, u, a, unlock(acc[u][a], n)), OnlyOf(a, 0))
           /\ On(acc, u, a, unlock(acc[u][a], n)).res \in {"ok", "err"}
           /\ Moved(acc, On(acc, u, a, spend_frozen(acc[u][a], n)), OnlyOf(a, -n))
           /\ On(acc, u, a, spend_frozen(acc[u][a], n)).res \in {"ok", "err"}
<1>1. PICK b : b = acc[u][a]
  OBVIOUS
<1>2. b \in Balance /\ Worth(b) \in Int /\ n \in Int
  <2>1. b \in Balance
    BY <1>1 DEF Table
  <2> QED  BY <2>1, AccountsAssumption DEF Balance, Worth, Amount
<1>3. ASSUME NEW r \in BalanceResult, NEW k \in Int, r.res = "ok" => Worth(r.bal) = Worth(b) + k
      PROVE  Moved(acc, On(acc, u, a, r), OnlyOf(a, k)) /\ On(acc, u, a, r).res \in {"ok", "err"}
  <2>1. PICK t : t = On(acc, u, a, r)
    OBVIOUS
  <2>2. t \in Result /\ t.res = r.res /\ r.res \in {"ok", "err"}
    BY <2>1, OnFacts DEF BalanceResult
  <2>3. ASSUME NEW d \in Asset, r.res = "ok"  PROVE Total(t.acc, d) = Total(acc, d) + OnlyOf(a, k)[d]
    <3>1. Total(t.acc, d) = Total(acc, d) + (IF d = a THEN Worth(r.bal) - Worth(b) ELSE 0)
      BY <1>1, <2>1, OnFacts
    <3>2. OnlyOf(a, k)[d] = IF d = a THEN k ELSE 0
      BY DEF OnlyOf
    <3> QED  BY <1>2, <1>3, <2>3, <3>1, <3>2
  <2> QED  BY <2>1, <2>2, <2>3 DEF Moved
<1>4. /\ Moved(acc, On(acc, u, a, deposit(b, n)), OnlyOf(a, n))
      /\ On(acc, u, a, deposit(b, n)).res \in {"ok", "err"}
  BY <1>2, <1>3, BalanceOps
<1>5. Moved(acc, On(acc, u, a, withdraw(b, n)), OnlyOf(a, -n))
  <2>1. Worth(b) - n = Worth(b) + (-n) /\ -n \in Int
    BY <1>2
  <2> QED  BY <1>2, <1>3, <2>1, BalanceOps
<1>6. /\ Moved(acc, On(acc, u, a, lock(b, n)), OnlyOf(a, 0))
      /\ Moved(acc, On(acc, u, a, unlock(b, n)), OnlyOf(a, 0))
      /\ On(acc, u, a, unlock(b, n)).res \in {"ok", "err"}
  <2>1. Worth(b) = Worth(b) + 0 /\ 0 \in Int
    BY <1>2
  <2> QED  BY <1>2, <1>3, <2>1, BalanceOps
<1>7. /\ Moved(acc, On(acc, u, a, spend_frozen(b, n)), OnlyOf(a, -n))
      /\ On(acc, u, a, spend_frozen(b, n)).res \in {"ok", "err"}
  <2>1. Worth(b) - n = Worth(b) + (-n) /\ -n \in Int
    BY <1>2
  <2> QED  BY <1>2, <1>3, <2>1, BalanceOps
<1> QED  BY <1>1, <1>2, <1>4, <1>5, <1>6, <1>7

\* what one side of a trade does to the totals
Swapped(spendAsset, spend, gainAsset, gain) ==
    [d \in Asset |-> (IF d = spendAsset THEN -spend ELSE 0) + (IF d = gainAsset THEN gain ELSE 0)]

\* One side of a trade.
LEMMA SettleAsMoves ==
    ASSUME NEW acc \in Table, NEW u \in Users, NEW sa \in Asset, NEW ga \in Asset,
           NEW spend \in Amount, NEW gain \in Amount, NEW refund \in Amount
    PROVE  Moved(acc, SettleAs(acc, u, sa, spend, ga, gain, refund), Swapped(sa, spend, ga, gain))
<1>0. spend \in Int /\ gain \in Int
  BY AccountsAssumption DEF Amount
<1>1. PICK r1 : r1 = On(acc, u, sa, spend_frozen(acc[u][sa], spend))
  OBVIOUS
<1>2. Moved(acc, r1, OnlyOf(sa, -spend))
  BY <1>1, OnMoves
<1>3. CASE r1.res # "ok"
  <2>1. SettleAs(acc, u, sa, spend, ga, gain, refund) = r1
    BY <1>1, <1>3 DEF SettleAs, Try
  <2> QED  BY <1>2, <1>3, <2>1 DEF Moved
<1>4. CASE r1.res = "ok"
  <2>0. r1.acc \in Table
    BY <1>2 DEF Moved, Result
  <2>1. PICK r2 : r2 = On(r1.acc, u, ga, deposit(r1.acc[u][ga], gain))
    OBVIOUS
  <2>2. Moved(r1.acc, r2, OnlyOf(ga, gain))
    BY <2>0, <2>1, OnMoves
  <2>3. CASE r2.res # "ok"
    <3>1. SettleAs(acc, u, sa, spend, ga, gain, refund) = r2
      BY <1>1, <1>4, <2>1, <2>3 DEF SettleAs, Try
    <3> QED  BY <2>2, <2>3, <3>1 DEF Moved
  <2>4. CASE r2.res = "ok"
    <3>0. r2.acc \in Table
      BY <2>2 DEF Moved, Result
    <3>1. PICK r3 : r3 = IF refund = 0 THEN Done(r2.acc)
                         ELSE On(r2.acc, u, sa, unlock(r2.acc[u][sa], refund))
      OBVIOUS
    <3>2. SettleAs(acc, u, sa, spend, ga, gain, refund) = r3
      BY <1>1, <1>4, <2>1, <2>4, <3>1 DEF SettleAs, Try
    <3>3. Moved(r2.acc, r3, OnlyOf(sa, 0))
      <4>1. CASE refund = 0
        <5>1. r3 = [res |-> "ok", acc |-> r2.acc]
          BY <3>1, <4>1 DEF Done
        <5>2. r3 \in Result
          BY <3>0, <5>1 DEF Result, Outcome
        <5>3. \A a \in Asset : Total(r3.acc, a) = Total(r2.acc, a) + OnlyOf(sa, 0)[a]
          <6>1. \A a \in Asset : OnlyOf(sa, 0)[a] = 0 /\ Total(r2.acc, a) \in Int
            BY <3>0, TotalInt DEF OnlyOf
          <6> QED  BY <5>1, <6>1
        <5> QED  BY <5>2, <5>3 DEF Moved
      <4>2. CASE refund # 0
        <5>1. r3 = On(r2.acc, u, sa, unlock(r2.acc[u][sa], refund))
          BY <3>1, <4>2
        <5> QED  BY <3>0, <5>1, OnMoves
      <4> QED  BY <4>1, <4>2
    <3>4. ASSUME NEW d \in Asset, r3.res = "ok"
          PROVE  Total(r3.acc, d) = Total(acc, d) + Swapped(sa, spend, ga, gain)[d]
      <4>1. /\ Total(r1.acc, d) = Total(acc, d) + OnlyOf(sa, -spend)[d]
            /\ Total(r2.acc, d) = Total(r1.acc, d) + OnlyOf(ga, gain)[d]
            /\ Total(r3.acc, d) = Total(r2.acc, d) + OnlyOf(sa, 0)[d]
        BY <1>2, <1>4, <2>2, <2>4, <3>3, <3>4 DEF Moved
      <4>2. /\ OnlyOf(sa, -spend)[d] = IF d = sa THEN -spend ELSE 0
            /\ OnlyOf(ga, gain)[d] = IF d = ga THEN gain ELSE 0
            /\ OnlyOf(sa, 0)[d] = 0
            /\ Swapped(sa, spend, ga, gain)[d] =
                 (IF d = sa THEN -spend ELSE 0) + (IF d = ga THEN gain ELSE 0)
        BY DEF OnlyOf, Swapped
      <4>3. Total(acc, d) \in Int
        BY TotalInt
      <4> QED  BY <1>0, <4>1, <4>2, <4>3
    <3> QED  BY <3>2, <3>3, <3>4 DEF Moved
  <2> QED  BY <2>3, <2>4
<1> QED  BY <1>3, <1>4

Unmoved == [d \in Asset |-> 0]

\* A trade moves money between its two sides and changes no total.
LEMMA ExecMoves ==
    ASSUME NEW acc \in Table, NEW x \in ExecCommand
    PROVE  Moved(acc, apply_match_exec(acc, x), Unmoved)
<1>0. /\ x.buyer \in Users /\ x.seller \in Users /\ x.price \in Nat /\ x.qty \in Amount /\ x.qty \in Nat
      /\ x.buyer_refund \in Amount /\ x.seller_refund \in Amount
      /\ "base" \in Asset /\ "quote" \in Asset
  BY AccountsAssumption DEF ExecCommand, Units, Amount, Asset
<1>1. PICK cost : cost = x.price * x.qty
  OBVIOUS
<1>2. cost \in Nat
  BY <1>0, <1>1
<1> DEFINE Refused == \/ cost > MaxU64
                      \/ ~Holds(acc, x.buyer, "quote", cost, x.buyer_refund)
                      \/ ~Holds(acc, x.seller, "base", x.qty, x.seller_refund)
<1>3. CASE Refused
  <2>1. apply_match_exec(acc, x) = [res |-> "err", acc |-> acc]
    BY <1>1, <1>3 DEF apply_match_exec
  <2> QED  BY <2>1 DEF Moved, Result, Outcome
<1>4. CASE ~Refused
  <2>0. cost \in Amount
    BY <1>2, <1>4, AccountsAssumption DEF Amount
  <2>1. PICK s1 : s1 = SettleAs(acc, x.buyer, "quote", cost, "base", x.qty, x.buyer_refund)
    OBVIOUS
  <2>2. Moved(acc, s1, Swapped("quote", cost, "base", x.qty))
    BY <1>0, <2>0, <2>1, SettleAsMoves
  <2>3. CASE s1.res # "ok"
    <3>1. apply_match_exec(acc, x) = [s1 EXCEPT !.res = "panic"]
      BY <1>1, <1>4, <2>1, <2>3 DEF apply_match_exec, Try, Expect
    <3>2. s1 \in Result
      BY <2>2 DEF Moved
    <3> QED  BY <3>1, <3>2 DEF Moved, Result, Outcome
  <2>4. CASE s1.res = "ok"
    <3>0. s1.acc \in Table
      BY <2>2 DEF Moved, Result
    <3>1. PICK s2 : s2 = SettleAs(s1.acc, x.seller, "base", x.qty, "quote", cost, x.seller_refund)
      OBVIOUS
    <3>2. Moved(s1.acc, s2, Swapped("base", x.qty, "quote", cost))
      BY <1>0, <2>0, <3>0, <3>1, SettleAsMoves
    <3>3. apply_match_exec(acc, x) = Expect(s2)
      BY <1>1, <1>4, <2>1, <2>4, <3>1 DEF apply_match_exec, Try, Expect
    <3>4. CASE s2.res # "ok"
      <4>1. apply_match_exec(acc, x) = [s2 EXCEPT !.res = "panic"] /\ s2 \in Result
        BY <3>2, <3>3, <3>4 DEF Expect, Moved
      <4> QED  BY <4>1 DEF Moved, Result, Outcome
    <3>5. CASE s2.res = "ok"
      <4>1. apply_match_exec(acc, x) = s2
        BY <3>3, <3>5 DEF Expect
      <4>2. ASSUME NEW d \in Asset  PROVE Total(s2.acc, d) = Total(acc, d) + Unmoved[d]
        <5>1. /\ Total(s1.acc, d) = Total(acc, d) + Swapped("quote", cost, "base", x.qty)[d]
              /\ Total(s2.acc, d) = Total(s1.acc, d) + Swapped("base", x.qty, "quote", cost)[d]
          BY <2>2, <2>4, <3>2, <3>5 DEF Moved
        <5>2. Swapped("quote", cost, "base", x.qty)[d] + Swapped("base", x.qty, "quote", cost)[d] = 0
          BY <1>0, <1>2 DEF Swapped, Asset
        <5>3. /\ Swapped("quote", cost, "base", x.qty)[d] \in Int
              /\ Swapped("base", x.qty, "quote", cost)[d] \in Int
          BY <1>0, <1>2 DEF Swapped, Asset
        <5>4. Total(acc, d) \in Int /\ Unmoved[d] = 0
          BY TotalInt DEF Unmoved
        <5> QED  BY <5>1, <5>2, <5>3, <5>4
      <4>3. s2 \in Result
        BY <3>2 DEF Moved
      <4> QED  BY <4>1, <4>2, <4>3 DEF Moved
    <3> QED  BY <3>4, <3>5
  <2> QED  BY <2>3, <2>4
<1> QED  BY <1>3, <1>4

\* A settlement of one side.
LEMMA TradeSettleType ==
    ASSUME NEW acc \in Table, NEW c \in TradeCommand
    PROVE  TradeSettle(acc, c) \in Result
<1>0. /\ c.user \in Users /\ c.spend_asset \in Asset /\ c.gain_asset \in Asset
      /\ c.spend_amount \in Amount /\ c.gain_amount \in Amount
  BY AccountsAssumption DEF TradeCommand, Units, Amount
<1>1. PICK r1 : r1 = On(acc, c.user, c.spend_asset,
                        spend_frozen(acc[c.user][c.spend_asset], c.spend_amount))
  OBVIOUS
<1>2. r1 \in Result
  BY <1>0, <1>1, OnMoves DEF Moved
<1>3. CASE r1.res # "ok"
  <2>1. TradeSettle(acc, c) = r1
    BY <1>1, <1>3 DEF TradeSettle, Try
  <2> QED  BY <1>2, <2>1
<1>4. CASE r1.res = "ok"
  <2>1. r1.acc \in Table
    BY <1>2 DEF Result
  <2>2. PICK r2 : r2 = On(r1.acc, c.user, c.gain_asset,
                          deposit(r1.acc[c.user][c.gain_asset], c.gain_amount))
    OBVIOUS
  <2>3. r2 \in Result
    BY <1>0, <2>1, <2>2, OnMoves DEF Moved
  <2>4. TradeSettle(acc, c) = Done(r2.acc)
    BY <1>1, <1>4, <2>2 DEF TradeSettle, Try
  <2> QED  BY <2>3, <2>4 DEF Result, Outcome, Done
<1> QED  BY <1>3, <1>4

Brought(c) == [a \in Asset |-> BroughtBy(c, a)]

\* The commands that hold no other one: what each leaves behind, and (but for
\* TradeSettle, which ignores a credit that does not fit) what it brings in.
LEMMA OneMoves ==
    ASSUME NEW acc \in Table, NEW c \in OneCommand
    PROVE  /\ ApplyOne(acc, c) \in Result
           /\ c.op # "TradeSettle" => Moved(acc, ApplyOne(acc, c), Brought(c))
           /\ c.op \notin Nested
<1>1. CASE c \in TradeCommand
  <2>1. c.op = "TradeSettle"
    BY <1>1 DEF TradeCommand
  <2>2. ApplyOne(acc, c) = TradeSettle(acc, c)
    BY <2>1 DEF ApplyOne
  <2> QED  BY <1>1, <2>1, <2>2, TradeSettleType DEF Nested
<1>2. CASE c \in ExecCommand
  <2>1. c.op = "MatchExec"
    BY <1>2 DEF ExecCommand
  <2>2. ApplyOne(acc, c) = apply_match_exec(acc, c)
    BY <2>1 DEF ApplyOne
  <2>3. Brought(c) = Unmoved
    BY <2>1 DEF Brought, BroughtBy, Unmoved
  <2>4. Moved(acc, ApplyOne(acc, c), Unmoved)
    BY <1>2, <2>2, ExecMoves
  <2> QED  BY <2>1, <2>3, <2>4 DEF Nested, Moved
<1>3. CASE c \in [op : {"OrderUpdate"}]
  <2>1. c.op = "OrderUpdate"
    BY <1>3
  <2>2. ApplyOne(acc, c) = [res |-> "ok", acc |-> acc]
    BY <2>1 DEF ApplyOne, Done
  <2>3. \A a \in Asset : Brought(c)[a] = 0 /\ Total(acc, a) \in Int
    BY <2>1, TotalInt DEF Brought, BroughtBy
  <2>4. ApplyOne(acc, c) \in Result
    BY <2>2 DEF Result, Outcome
  <2> QED  BY <2>1, <2>2, <2>3, <2>4 DEF Nested, Moved
<1>4. CASE c \in SimpleCommand
  <2>1. /\ c.op \in {"Deposit", "Withdraw", "Lock", "Unlock"} /\ c.user \in Users
        /\ c.asset \in Asset /\ c.amount \in Amount
    BY <1>4, AccountsAssumption DEF SimpleCommand, Units, Amount
  <2>2. ApplyOne(acc, c) = ApplySimple(acc, c)
    BY <2>1 DEF ApplyOne
  <2>3. PICK b : b = acc[c.user][c.asset]
    OBVIOUS
  <2>4. CASE c.op = "Deposit"
    <3>1. ApplySimple(acc, c) = On(acc, c.user, c.asset, deposit(b, c.amount))
      BY <2>3, <2>4 DEF ApplySimple
    <3>2. Brought(c) = OnlyOf(c.asset, c.amount)
      BY <2>4 DEF Brought, BroughtBy, OnlyOf
    <3> QED  BY <2>1, <2>2, <2>3, <2>4, <3>1, <3>2, OnMoves DEF Nested, Moved
  <2>5. CASE c.op = "Withdraw"
    <3>1. ApplySimple(acc, c) = On(acc, c.user, c.asset, withdraw(b, c.amount))
      BY <2>3, <2>5 DEF ApplySimple
    <3>2. Brought(c) = OnlyOf(c.asset, -c.amount)
      BY <2>5 DEF Brought, BroughtBy, OnlyOf
    <3> QED  BY <2>1, <2>2, <2>3, <2>5, <3>1, <3>2, OnMoves DEF Nested, Moved
  <2>6. CASE c.op = "Lock"
    <3>1. ApplySimple(acc, c) = On(acc, c.user, c.asset, lock(b, c.amount))
      BY <2>3, <2>6 DEF ApplySimple
    <3>2. Brought(c) = OnlyOf(c.asset, 0)
      BY <2>6 DEF Brought, BroughtBy, OnlyOf
    <3> QED  BY <2>1, <2>2, <2>3, <2>6, <3>1, <3>2, OnMoves DEF Nested, Moved
  <2>7. CASE c.op = "Unlock"
    <3>1. ApplySimple(acc, c) = On(acc, c.user, c.asset, unlock(b, c.amount))
      BY <2>3, <2>7 DEF ApplySimple
    <3>2. Brought(c) = OnlyOf(c.asset, 0)
      BY <2>7 DEF Brought, BroughtBy, OnlyOf
    <3> QED  BY <2>1, <2>2, <2>3, <2>7, <3>1, <3>2, OnMoves DEF Nested, Moved
  <2> QED  BY <2>1, <2>4, <2>5, <2>6, <2>7
<1> QED  BY <1>1, <1>2, <1>3, <1>4 DEF OneCommand

\* the commands that move money without a loss
PlainOne == {c \in OneCommand : c.op # "TradeSettle"}
Plain == {c \in Command : c.op # "TradeSettle" /\ (c.op \in Nested => c.cmds \in Seq(PlainOne))}

\* A command holds a sequence of simple commands or is one.
LEMMA CommandShape ==
    ASSUME NEW c \in Command
    PROVE  /\ c.op \in Nested => c.cmds \in Seq(OneCommand)
           /\ c.op \notin Nested => c \in OneCommand
<1>1. CASE c \in OneCommand
  <2>1. NoAccounts \in Table
    BY AccountsAssumption DEF NoAccounts, NoBalance, Table, Balance
  <2> QED  BY <1>1, <2>1, OneMoves
<1>2. CASE c \in [op : {"MatchExecBatch"}, cmds : Seq(ExecCommand)]
  <2>1. c.op \in Nested /\ c.cmds \in Seq(ExecCommand)
    BY <1>2 DEF Nested
  <2>2. ExecCommand \subseteq OneCommand
    BY DEF OneCommand
  <2> QED  BY <2>1, <2>2
<1>3. CASE c \in [op : {"Batch"}, cmds : Seq(OneCommand)]
  BY <1>3 DEF Nested
<1> QED  BY <1>1, <1>2, <1>3 DEF Command

\* The table at the start.
LEMMA NoAccountsType == NoAccounts \in Table
  BY AccountsAssumption DEF NoAccounts, NoBalance, Table, Balance

\* A sequence of simple commands leaves a table behind.
LEMMA EachType ==
    ASSUME NEW acc \in Table, NEW s \in Seq(OneCommand)
    PROVE  ApplyEach(acc, s) \in Result
<1>1. PICK Good : Good = {t \in Seq(OneCommand) : ApplyEach(acc, t) \in Result}
  OBVIOUS
<1>2. <<>> \in Good
  <2>1. ApplyEach(acc, <<>>) = [res |-> "ok", acc |-> acc]
    BY EachFacts DEF Done
  <2>2. ApplyEach(acc, <<>>) \in Result
    BY <2>1 DEF Result, Outcome
  <2> QED  BY <1>1, <2>2
<1>3. ASSUME NEW t \in Seq(OneCommand), NEW e \in OneCommand, t \in Good
      PROVE  Append(t, e) \in Good
  <2>1. PICK r : r = ApplyEach(acc, t)
    OBVIOUS
  <2>2. r \in Result
    BY <1>1, <1>3, <2>1
  <2>3. ApplyEach(acc, Append(t, e)) = IF r.res = "ok" THEN ApplyOne(r.acc, e) ELSE r
    BY <2>1, EachFacts
  <2>4. r.acc \in Table
    BY <2>2 DEF Result
  <2>5. ApplyOne(r.acc, e) \in Result
    BY <2>4, OneMoves
  <2>6. Append(t, e) \in Seq(OneCommand)
    OBVIOUS
  <2> QED  BY <1>1, <2>2, <2>3, <2>5, <2>6
<1>4. s \in Good
  BY <1>2, <1>3, PrefixInduction
<1> QED  BY <1>1, <1>4

\* A sequence of simple commands brings in what its commands do.
LEMMA EachMoves ==
    ASSUME NEW acc \in Table, NEW s \in Seq(PlainOne)
    PROVE  /\ Moved(acc, ApplyEach(acc, s), [a \in Asset |-> BroughtByEach(s, a)])
           /\ \A a \in Asset : BroughtByEach(s, a) \in Int
<1> DEFINE OK(t) == /\ Moved(acc, ApplyEach(acc, t), [a \in Asset |-> BroughtByEach(t, a)])
                    /\ \A a \in Asset : BroughtByEach(t, a) \in Int
<1>1. PICK Good : Good = {t \in Seq(PlainOne) : OK(t)}
  OBVIOUS
<1>2. <<>> \in Good
  <2>1. ApplyEach(acc, <<>>) = [res |-> "ok", acc |-> acc]
    BY EachFacts DEF Done
  <2>2. ApplyEach(acc, <<>>) \in Result
    BY <2>1 DEF Result, Outcome
  <2>3. \A a \in Asset : BroughtByEach(<<>>, a) = 0 /\ Total(acc, a) \in Int
    BY InflowFacts, TotalInt
  <2>4. OK(<<>>)
    BY <2>1, <2>2, <2>3 DEF Moved
  <2> QED  BY <1>1, <2>4
<1>3. ASSUME NEW t \in Seq(PlainOne), NEW e \in PlainOne, t \in Good
      PROVE  Append(t, e) \in Good
  <2>0. t \in Seq(OneCommand) /\ e \in OneCommand /\ Append(t, e) \in Seq(PlainOne)
    <3>1. PlainOne \subseteq OneCommand
      BY DEF PlainOne
    <3> QED  BY <3>1
  <2>1. PICK r : r = ApplyEach(acc, t)
    OBVIOUS
  <2>2. OK(t)
    BY <1>1, <1>3
  <2>3. Moved(acc, r, [a \in Asset |-> BroughtByEach(t, a)])
    BY <2>1, <2>2
  <2>4. ApplyEach(acc, Append(t, e)) = IF r.res = "ok" THEN ApplyOne(r.acc, e) ELSE r
    BY <2>0, <2>1, EachFacts
  <2>5. \A a \in Asset : /\ BroughtByEach(Append(t, e), a) = BroughtByEach(t, a) + BroughtBy(e, a)
                         /\ BroughtBy(e, a) \in Int
    <3>1. ASSUME NEW a \in Asset  PROVE BroughtBy(e, a) \in Int
      <4>1. CASE e \in SimpleCommand
        <5>1. e.amount \in Int /\ e.op # "TradeSettle"
          BY <4>1, AccountsAssumption DEF SimpleCommand, Units
        <5> QED  BY <5>1 DEF BroughtBy
      <4>2. CASE e \notin SimpleCommand
        <5>1. e.op \notin {"Deposit", "Withdraw", "TradeSettle"}
          BY <2>0, <4>2 DEF OneCommand, PlainOne, TradeCommand, ExecCommand
        <5> QED  BY <5>1 DEF BroughtBy
      <4> QED  BY <4>1, <4>2
    <3> QED  BY <2>0, <3>1, InflowFacts
  <2>6. \A a \in Asset : BroughtByEach(Append(t, e), a) \in Int
    BY <2>2, <2>5
  <2>7. Moved(acc, ApplyEach(acc, Append(t, e)), [a \in Asset |-> BroughtByEach(Append(t, e), a)])
    <3>1. CASE r.res # "ok"
      BY <2>3, <2>4, <3>1 DEF Moved
    <3>2. CASE r.res = "ok"
      <4>1. r.acc \in Table
        BY <2>3 DEF Moved, Result
      <4>2. Moved(r.acc, ApplyOne(r.acc, e), Brought(e))
        BY <2>0, <4>1, OneMoves DEF PlainOne
      <4>3. PICK q : q = ApplyOne(r.acc, e)
        OBVIOUS
      <4>4. ApplyEach(acc, Append(t, e)) = q /\ q \in Result
        BY <2>4, <3>2, <4>2, <4>3 DEF Moved
      <4>5. ASSUME NEW a \in Asset, q.res = "ok"
            PROVE  Total(q.acc, a) = Total(acc, a) + BroughtByEach(Append(t, e), a)
        <5>1. Total(q.acc, a) = Total(r.acc, a) + BroughtBy(e, a)
          BY <4>2, <4>3, <4>5 DEF Moved, Brought
        <5>2. Total(r.acc, a) = Total(acc, a) + BroughtByEach(t, a)
          BY <2>3, <3>2 DEF Moved
        <5>3. Total(acc, a) \in Int /\ BroughtByEach(t, a) \in Int
          BY <2>2, TotalInt
        <5> QED  BY <2>5, <5>1, <5>2, <5>3
      <4> QED  BY <4>4, <4>5 DEF Moved
    <3> QED  BY <3>1, <3>2
  <2> QED  BY <1>1, <2>0, <2>6, <2>7
<1>4. s \in Good
  BY <1>2, <1>3, PrefixInduction
<1> QED  BY <1>1, <1>4

\* Any command leaves a table behind.
LEMMA TransactionType ==
    ASSUME NEW acc \in Table, NEW c \in Command
    PROVE  apply_transaction(acc, c) \in Result /\ apply_transaction(acc, c).acc \in Table
<1>1. apply_transaction(acc, c) \in Result
  BY CommandShape, EachType, OneMoves DEF apply_transaction
<1> QED  BY <1>1 DEF Result

\* A batch of any commands leaves a table behind.
LEMMA AllType ==
    ASSUME NEW acc \in Table, NEW s \in Seq(Command)
    PROVE  ApplyAll(acc, s) \in Result /\ ApplyAll(acc, s).acc \in Table
<1>1. PICK Good : Good = {t \in Seq(Command) : ApplyAll(acc, t) \in Result}
  OBVIOUS
<1>2. <<>> \in Good
  <2>1. ApplyAll(acc, <<>>) = [res |-> "ok", acc |-> acc]
    BY AllFacts DEF Done
  <2>2. ApplyAll(acc, <<>>) \in Result
    BY <2>1 DEF Result, Outcome
  <2> QED  BY <1>1, <2>2
<1>3. ASSUME NEW t \in Seq(Command), NEW e \in Command, t \in Good
      PROVE  Append(t, e) \in Good
  <2>1. PICK r : r = ApplyAll(acc, t)
    OBVIOUS
  <2>2. r \in Result
    BY <1>1, <1>3, <2>1
  <2>3. ApplyAll(acc, Append(t, e)) = IF r.res = "ok" THEN apply_transaction(r.acc, e) ELSE r
    BY <2>1, AllFacts
  <2>4. r.acc \in Table
    BY <2>2 DEF Result
  <2>5. apply_transaction(r.acc, e) \in Result
    BY <2>4, TransactionType
  <2>6. Append(t, e) \in Seq(Command)
    OBVIOUS
  <2> QED  BY <1>1, <2>2, <2>3, <2>5, <2>6
<1>4. s \in Good
  BY <1>2, <1>3, PrefixInduction
<1> QED  BY <1>1, <1>4 DEF Result

\* The effects of a history are a table.
LEMMA StateType ==
    ASSUME NEW s \in Seq(Command)
    PROVE  StateAt(s) \in Table
<1>1. PICK Good : Good = {t \in Seq(Command) : StateAt(t) \in Table}
  OBVIOUS
<1>2. <<>> \in Good
  <2>1. StateAt(<<>>) \in Table
    BY StateFacts, NoAccountsType
  <2> QED  BY <1>1, <2>1
<1>3. ASSUME NEW t \in Seq(Command), NEW e \in Command, t \in Good
      PROVE  Append(t, e) \in Good
  <2>1. StateAt(t) \in Table
    BY <1>1, <1>3
  <2>2. StateAt(Append(t, e)) \in Table
    BY <2>1, StateFacts, TransactionType
  <2>3. Append(t, e) \in Seq(Command)
    OBVIOUS
  <2> QED  BY <1>1, <2>2, <2>3
<1>4. s \in Good
  BY <1>2, <1>3, PrefixInduction
<1> QED  BY <1>1, <1>4

-----------------------------------------------------------------------------
(***************************************************************************)
(* Histories.                                                              *)
(***************************************************************************)

\* the accounts after the first n commands of h
At(h, n) == StateAt(SubSeq(h, 1, n))

\* every command of h succeeds on the ones before it
Accepted(h) == \A i \in 1..Len(h) : apply_transaction(At(h, i - 1), h[i]).res = "ok"

\* The accounts along a history.
LEMMA AtFacts ==
    ASSUME NEW h \in Seq(Command)
    PROVE  /\ At(h, 0) = NoAccounts /\ At(h, Len(h)) = StateAt(h)
           /\ \A i \in 0..Len(h) : At(h, i) \in Table
           /\ \A i \in 0..Len(h) : i < Len(h) =>
                h[i + 1] \in Command /\ At(h, i + 1) = apply_transaction(At(h, i), h[i + 1]).acc
<1>1. At(h, 0) = NoAccounts /\ At(h, Len(h)) = StateAt(h)
  <2>1. SubSeq(h, 1, 0) = <<>> /\ SubSeq(h, 1, Len(h)) = h
    BY PrefixFacts
  <2> QED  BY <2>1, StateFacts DEF At
<1>2. \A i \in 0..Len(h) : At(h, i) \in Table
  <2>1. \A i \in 0..Len(h) : SubSeq(h, 1, i) \in Seq(Command)
    BY PrefixFacts
  <2> QED  BY <2>1, StateType DEF At
<1>3. ASSUME NEW i \in 0..Len(h), i < Len(h)
      PROVE  h[i + 1] \in Command /\ At(h, i + 1) = apply_transaction(At(h, i), h[i + 1]).acc
  <2>1. /\ h[i + 1] \in Command /\ SubSeq(h, 1, i) \in Seq(Command)
        /\ SubSeq(h, 1, i + 1) = Append(SubSeq(h, 1, i), h[i + 1])
    BY <1>3, PrefixFacts
  <2> QED  BY <2>1, StateFacts DEF At
<1> QED  BY <1>1, <1>2, <1>3

\* A longer history has the same prefixes.
LEMMA AtAppend ==
    ASSUME NEW h \in Seq(Command), NEW c \in Command
    PROVE  /\ \A i \in 0..Len(h) : At(Append(h, c), i) = At(h, i)
           /\ At(Append(h, c), Len(h) + 1) = apply_transaction(StateAt(h), c).acc
           /\ StateAt(Append(h, c)) = apply_transaction(StateAt(h), c).acc
<1>1. ASSUME NEW i \in 0..Len(h)  PROVE SubSeq(Append(h, c), 1, i) = SubSeq(h, 1, i)
  OBVIOUS
<1>2. SubSeq(Append(h, c), 1, Len(h) + 1) = Append(h, c)
  OBVIOUS
<1> QED  BY <1>1, <1>2, StateFacts DEF At

\* So has a shorter one.
LEMMA AtPrefix ==
    ASSUME NEW h \in Seq(Command), NEW n \in 0..Len(h)
    PROVE  /\ SubSeq(h, 1, n) \in Seq(Command) /\ Len(SubSeq(h, 1, n)) = n
           /\ \A i \in 1..n : SubSeq(h, 1, n)[i] = h[i]
           /\ \A i \in 0..n : At(SubSeq(h, 1, n), i) = At(h, i)
<1>1. SubSeq(h, 1, n) \in Seq(Command) /\ Len(SubSeq(h, 1, n)) = n
  BY PrefixFacts
<1>2. \A i \in 1..n : SubSeq(h, 1, n)[i] = h[i]
  OBVIOUS
<1>3. ASSUME NEW i \in 0..n  PROVE SubSeq(SubSeq(h, 1, n), 1, i) = SubSeq(h, 1, i)
  BY <1>1, <1>2
<1> QED  BY <1>1, <1>2, <1>3 DEF At

\* Accepting one more command, and forgetting the last ones.
LEMMA AcceptedFacts ==
    ASSUME NEW h \in Seq(Command), Accepted(h)
    PROVE  /\ \A c \in Command : apply_transaction(StateAt(h), c).res = "ok" => Accepted(Append(h, c))
           /\ \A n \in 0..Len(h) : Accepted(SubSeq(h, 1, n))
<1>1. ASSUME NEW c \in Command, apply_transaction(StateAt(h), c).res = "ok"
      PROVE  Accepted(Append(h, c))
  <2>1. ASSUME NEW i \in 1..Len(Append(h, c))
        PROVE  apply_transaction(At(Append(h, c), i - 1), Append(h, c)[i]).res = "ok"
    <3>1. CASE i <= Len(h)
      <4>1. i \in 1..Len(h) /\ i - 1 \in 0..Len(h) /\ Append(h, c)[i] = h[i]
        BY <3>1
      <4>2. At(Append(h, c), i - 1) = At(h, i - 1)
        BY <4>1, AtAppend
      <4> QED  BY <4>1, <4>2 DEF Accepted
    <3>2. CASE i > Len(h)
      <4>1. i - 1 = Len(h) /\ Append(h, c)[i] = c /\ Len(h) \in 0..Len(h)
        BY <3>2
      <4>2. At(Append(h, c), i - 1) = StateAt(h)
        BY <4>1, AtAppend, AtFacts
      <4> QED  BY <1>1, <4>1, <4>2
    <3> QED  BY <3>1, <3>2
  <2> QED  BY <2>1 DEF Accepted
<1>2. ASSUME NEW n \in 0..Len(h)  PROVE Accepted(SubSeq(h, 1, n))
  <2>1. PICK g : g = SubSeq(h, 1, n)
    OBVIOUS
  <2>2. /\ Len(g) = n /\ \A i \in 1..n : g[i] = h[i]
        /\ \A i \in 0..n : At(g, i) = At(h, i)
    BY <2>1, AtPrefix
  <2>3. ASSUME NEW i \in 1..n  PROVE apply_transaction(At(g, i - 1), g[i]).res = "ok"
    <3>1. i \in 1..Len(h) /\ i - 1 \in 0..n
      OBVIOUS
    <3> QED  BY <2>2, <3>1 DEF Accepted
  <2> QED  BY <2>1, <2>2, <2>3 DEF Accepted
<1> QED  BY <1>1, <1>2

\* What the commands of an accepted history brought in is what the users own.
LEMMA HistoryMoney ==
    ASSUME NEW h \in Seq(Command), Accepted(h), \A i \in 1..Len(h) : h[i] \in Plain, NEW a \in Asset
    PROVE  Total(StateAt(h), a) = Inflow(h, a)
<1>1. PICK S : S = {i \in 0..Len(h) : Total(At(h, i), a) = Inflow(SubSeq(h, 1, i), a)}
  OBVIOUS
<1>2. 0 \in S
  <2>1. Inflow(SubSeq(h, 1, 0), a) = 0
    BY PrefixFacts, InflowFacts
  <2>2. Total(NoAccounts, a) = 0
    <3>1. PICK f : f = [u \in Users |-> NoAccounts[u][a].avail + NoAccounts[u][a].frozen]
      OBVIOUS
    <3>2. \A u \in Users : f[u] = 0
      BY <3>1 DEF NoAccounts, NoBalance
    <3>3. SumFunctionOnSet(f, Users) = 0
      BY <3>2, SumZero, LedgerAssumption
    <3> QED  BY <3>1, <3>3 DEF Total
  <2>3. Total(At(h, 0), a) = 0 /\ 0 \in 0..Len(h)
    BY <2>2, AtFacts
  <2> QED  BY <1>1, <2>1, <2>3
<1>3. ASSUME NEW i \in 0..Len(h), i \in S, i < Len(h)  PROVE i + 1 \in S
  <2>1. PICK c, acc, p : c = h[i + 1] /\ acc = At(h, i) /\ p = SubSeq(h, 1, i)
    OBVIOUS
  <2>2. i + 1 \in 1..Len(h) /\ i + 1 \in 0..Len(h) /\ (i + 1) - 1 = i
    BY <1>3
  <2>3. c \in Plain /\ apply_transaction(acc, c).res = "ok"
    BY <2>1, <2>2 DEF Accepted
  <2>4. acc \in Table /\ c \in Command /\ At(h, i + 1) = apply_transaction(acc, c).acc
    BY <1>3, <2>1, AtFacts
  <2>5. p \in Seq(Command) /\ SubSeq(h, 1, i + 1) = Append(p, c)
    BY <1>3, <2>1, PrefixFacts
  <2>6. Inflow(Append(p, c), a) =
            Inflow(p, a) + IF c.op \in Nested THEN BroughtByEach(c.cmds, a) ELSE BroughtBy(c, a)
    BY <2>4, <2>5, InflowFacts
  <2>7. Total(apply_transaction(acc, c).acc, a) =
            Total(acc, a) + IF c.op \in Nested THEN BroughtByEach(c.cmds, a) ELSE BroughtBy(c, a)
    <3>1. CASE c.op \in Nested
      <4>1. c.cmds \in Seq(PlainOne) /\ apply_transaction(acc, c) = ApplyEach(acc, c.cmds)
        BY <2>3, <3>1 DEF Plain, apply_transaction
      <4> QED  BY <2>3, <2>4, <3>1, <4>1, EachMoves DEF Moved
    <3>2. CASE c.op \notin Nested
      <4>1. /\ c \in OneCommand /\ c.op # "TradeSettle"
            /\ apply_transaction(acc, c) = ApplyOne(acc, c)
        BY <2>3, <2>4, <3>2, CommandShape DEF Plain, apply_transaction
      <4> QED  BY <2>3, <2>4, <3>2, <4>1, OneMoves DEF Moved, Brought
    <3> QED  BY <3>1, <3>2
  <2>8. Total(acc, a) = Inflow(p, a)
    BY <1>1, <1>3, <2>1
  <2> QED  BY <1>1, <2>2, <2>4, <2>5, <2>6, <2>7, <2>8
<1>4. Len(h) \in Nat
  OBVIOUS
<1>5. Len(h) \in S
  BY SMTT(30), <1>2, <1>3, <1>4, UpToInduction
<1>6. Total(At(h, Len(h)), a) = Inflow(SubSeq(h, 1, Len(h)), a)
  BY <1>1, <1>5
<1> QED  BY <1>6, PrefixFacts, AtFacts

-----------------------------------------------------------------------------
(***************************************************************************)
(* Batches.                                                                *)
(***************************************************************************)

\* If all commands of a batch succeed, the first ones do.
LEMMA BatchPrefix ==
    ASSUME NEW acc \in Table, NEW s \in Seq(Command), ApplyAll(acc, s).res = "ok",
           NEW i \in 0..Len(s)
    PROVE  /\ ApplyAll(acc, SubSeq(s, 1, i)).res = "ok"
           /\ i < Len(s) => ApplyAll(acc, SubSeq(s, 1, i + 1)) =
                              apply_transaction(ApplyAll(acc, SubSeq(s, 1, i)).acc, s[i + 1])
<1> DEFINE OK(t) == ApplyAll(acc, t).res = "ok" =>
                      \A j \in 0..Len(t) : ApplyAll(acc, SubSeq(t, 1, j)).res = "ok"
<1>1. PICK Good : Good = {t \in Seq(Command) : OK(t)}
  OBVIOUS
<1>2. <<>> \in Good
  <2>1. Len(<<>>) = 0 /\ <<>> \in Seq(Command)
    OBVIOUS
  <2>2. \A j \in 0..Len(<<>>) : SubSeq(<<>>, 1, j) = <<>>
    BY <2>1
  <2>3. OK(<<>>)
    BY <2>2
  <2> QED  BY <1>1, <2>1, <2>3
<1>3. ASSUME NEW t \in Seq(Command), NEW e \in Command, t \in Good
      PROVE  Append(t, e) \in Good
  <2>0. PICK u : u = Append(t, e)
    OBVIOUS
  <2>1. OK(t)
    BY <1>1, <1>3
  <2>2. ASSUME ApplyAll(acc, u).res = "ok", NEW j \in 0..Len(u)
        PROVE  ApplyAll(acc, SubSeq(u, 1, j)).res = "ok"
    <3>1. CASE j = Len(t) + 1
      <4>1. SubSeq(u, 1, j) = u
        BY <2>0, <3>1
      <4> QED  BY <2>2, <4>1
    <3>2. CASE j # Len(t) + 1
      <4>1. j \in 0..Len(t)
        BY <2>0, <3>2
      <4>2. SubSeq(u, 1, j) = SubSeq(t, 1, j)
        BY <2>0, <4>1
      <4>3. ApplyAll(acc, t).res = "ok"
        BY <2>0, <2>2, AllFacts
      <4> QED  BY <2>1, <4>1, <4>2, <4>3
    <3> QED  BY <3>1, <3>2
  <2>3. u \in Seq(Command)
    BY <2>0
  <2> QED  BY <1>1, <2>0, <2>2, <2>3
<1>4. s \in Good
  BY <1>2, <1>3, PrefixInduction
<1>5. ApplyAll(acc, SubSeq(s, 1, i)).res = "ok"
  BY <1>1, <1>4
<1>6. ASSUME i < Len(s)
      PROVE  ApplyAll(acc, SubSeq(s, 1, i + 1)) =
                apply_transaction(ApplyAll(acc, SubSeq(s, 1, i)).acc, s[i + 1])
  <2>1. /\ SubSeq(s, 1, i) \in Seq(Command) /\ s[i + 1] \in Command
        /\ SubSeq(s, 1, i + 1) = Append(SubSeq(s, 1, i), s[i + 1])
    BY <1>6, PrefixFacts
  <2> QED  BY <1>5, <2>1, AllFacts
<1> QED  BY <1>5, <1>6

\* the first k commands of the batch end the history h, which was accepted
\* without them, and the batch succeeds on what came before
EndsWith(h, cmds, k) ==
    /\ k \in 0..Len(cmds) /\ Len(h) - k \in 0..Len(h)
    /\ \A i \in 1..k : h[(Len(h) - k) + i] = cmds[i]
    /\ ApplyAll(At(h, Len(h) - k), cmds).res = "ok"

\* The accounts after the logged part of a batch are the shadow ledger's.
LEMMA BatchState ==
    ASSUME NEW h \in Seq(Command), NEW cmds \in Seq(Command), NEW k, EndsWith(h, cmds, k)
    PROVE  StateAt(h) = ApplyAll(At(h, Len(h) - k), SubSeq(cmds, 1, k)).acc
<1>0. PICK n, acc : n = Len(h) - k /\ acc = At(h, n)
  OBVIOUS
<1>1. /\ k \in 0..Len(cmds) /\ k \in Nat /\ n \in 0..Len(h) /\ n + k = Len(h) /\ n \in Nat
      /\ \A i \in 1..k : h[n + i] = cmds[i]
      /\ ApplyAll(acc, cmds).res = "ok" /\ acc \in Table
  <2>1. k \in 0..Len(cmds) /\ n \in 0..Len(h) /\ \A i \in 1..k : h[n + i] = cmds[i]
    BY <1>0 DEF EndsWith
  <2>2. ApplyAll(acc, cmds).res = "ok"
    BY <1>0 DEF EndsWith
  <2>3. acc \in Table
    BY <1>0, <2>1, AtFacts
  <2> QED  BY <1>0, <2>1, <2>2, <2>3
<1>2. PICK S : S = {i \in 0..k : At(h, n + i) = ApplyAll(acc, SubSeq(cmds, 1, i)).acc}
  OBVIOUS
<1>3. 0 \in S
  <2>1. ApplyAll(acc, SubSeq(cmds, 1, 0)).acc = acc
    <3>1. SubSeq(cmds, 1, 0) = <<>>
      BY PrefixFacts
    <3>2. ApplyAll(acc, <<>>) = [res |-> "ok", acc |-> acc]
      BY AllFacts DEF Done
    <3>3. ApplyAll(acc, SubSeq(cmds, 1, 0)) = ApplyAll(acc, <<>>)
      BY <3>1, Zenon
    <3> QED  BY <3>2, <3>3
  <2>2. n + 0 = n /\ 0 \in 0..k
    BY <1>1
  <2> QED  BY <1>0, <1>2, <2>1, <2>2
<1>4. ASSUME NEW i \in 0..k, i \in S, i < k  PROVE i + 1 \in S
  <2>1. n + i \in 0..Len(h) /\ n + i < Len(h) /\ i + 1 \in 1..k /\ (n + i) + 1 = n + (i + 1)
    BY <1>1, <1>4
  <2>2. At(h, n + (i + 1)) = apply_transaction(At(h, n + i), h[n + (i + 1)]).acc
    BY <2>1, AtFacts
  <2>3. h[n + (i + 1)] = cmds[i + 1]
    BY <1>1, <2>1
  <2>4. i \in 0..Len(cmds) /\ i < Len(cmds)
    BY <1>1, <1>4
  <2>5. ApplyAll(acc, SubSeq(cmds, 1, i + 1)) =
            apply_transaction(ApplyAll(acc, SubSeq(cmds, 1, i)).acc, cmds[i + 1])
    BY <1>1, <2>4, BatchPrefix
  <2>6. At(h, n + i) = ApplyAll(acc, SubSeq(cmds, 1, i)).acc
    BY <1>2, <1>4
  <2>7. i + 1 \in 0..k
    BY <2>1
  <2> QED  BY <1>2, <2>2, <2>3, <2>5, <2>6, <2>7
<1>5. k \in S
  <2>1. k \in Nat /\ k \in 0..k
    BY <1>1
  <2>2. \A i \in 0..k : i \in S
    BY <1>3, <1>4, <2>1, UpToInduction
  <2> QED  BY <2>1, <2>2
<1>6. At(h, n + k) = ApplyAll(acc, SubSeq(cmds, 1, k)).acc
  BY <1>2, <1>5
<1> QED  BY <1>0, <1>1, <1>6, AtFacts

\* The next command of the batch succeeds, and then one more is logged.
LEMMA BatchGoesOn ==
    ASSUME NEW h \in Seq(Command), NEW cmds \in Seq(Command), NEW k, EndsWith(h, cmds, k),
           k < Len(cmds)
    PROVE  /\ cmds[k + 1] \in Command
           /\ apply_transaction(StateAt(h), cmds[k + 1]).res = "ok"
           /\ EndsWith(Append(h, cmds[k + 1]), cmds, k + 1)
<1>0. PICK n, acc, g, c : n = Len(h) - k /\ acc = At(h, n) /\ c = cmds[k + 1] /\ g = Append(h, c)
  OBVIOUS
<1>1. /\ k \in 0..Len(cmds) /\ k \in Nat /\ n \in 0..Len(h) /\ n + k = Len(h) /\ n \in Nat
      /\ \A i \in 1..k : h[n + i] = cmds[i]
      /\ ApplyAll(acc, cmds).res = "ok" /\ acc \in Table
  <2>1. k \in 0..Len(cmds) /\ n \in 0..Len(h) /\ \A i \in 1..k : h[n + i] = cmds[i]
    BY <1>0 DEF EndsWith
  <2>2. ApplyAll(acc, cmds).res = "ok"
    BY <1>0 DEF EndsWith
  <2>3. acc \in Table
    BY <1>0, <2>1, AtFacts
  <2> QED  BY <1>0, <2>1, <2>2, <2>3
<1>2. c \in Command
  BY <1>0, <1>1
<1>3. apply_transaction(StateAt(h), c).res = "ok"
  <2>1. StateAt(h) = ApplyAll(acc, SubSeq(cmds, 1, k)).acc
    BY <1>0, BatchState
  <2>2. ApplyAll(acc, SubSeq(cmds, 1, k + 1)) =
            apply_transaction(ApplyAll(acc, SubSeq(cmds, 1, k)).acc, c)
    BY <1>0, <1>1, BatchPrefix
  <2>3. k + 1 \in 0..Len(cmds)
    BY <1>1
  <2>4. ApplyAll(acc, SubSeq(cmds, 1, k + 1)).res = "ok"
    BY <1>1, <2>3, BatchPrefix
  <2> QED  BY <2>1, <2>2, <2>4
<1>4. EndsWith(g, cmds, k + 1)
  <2>1. Len(g) = Len(h) + 1 /\ Len(g) - (k + 1) = n /\ n \in 0..Len(g) /\ k + 1 \in 0..Len(cmds)
    BY <1>0, <1>1, <1>2
  <2>2. ASSUME NEW i \in 1..(k + 1)  PROVE g[n + i] = cmds[i]
    <3>1. CASE i = k + 1
      <4>1. n + i = Len(h) + 1
        BY <1>1, <3>1
      <4> QED  BY <1>0, <1>2, <3>1, <4>1
    <3>2. CASE i # k + 1
      <4>1. i \in 1..k /\ n + i \in 1..Len(h)
        BY <1>1, <3>2
      <4> QED  BY <1>0, <1>1, <1>2, <4>1
    <3> QED  BY <3>1, <3>2
  <2>3. At(g, n) = acc
    BY <1>0, <1>1, <1>2, AtAppend
  <2> QED  BY <1>1, <2>1, <2>2, <2>3 DEF EndsWith
<1> QED  BY <1>0, <1>2, <1>3, <1>4

-----------------------------------------------------------------------------
(***************************************************************************)
(* Replay.                                                                 *)
(***************************************************************************)
Record == {Corrupt} \cup [seq : Nat, cmd : Command]
Records == Seq(Record)
SegmentFile == [start : Nat \ {0}, recs : Records, cursor : Int]
Replay == [res : Outcome, seq : Nat, acc : Table]

\* a replay that came so far and did not fail holds a prefix of h
Sound(h, r) == r \in Replay /\ (r.res = "ok" => r.seq <= Len(h) /\ r.acc = At(h, r.seq))

(***************************************************************************)
(* What a record of the log may be: one of the command the history has     *)
(* under its number, or one that fails on the commands before it.          *)
(***************************************************************************)
RecordOK(h, rec) ==
    \/ rec = Corrupt
    \/ /\ rec.seq \in 1..(Len(h) + 1)
       /\ \/ rec.seq <= Len(h) /\ rec.cmd = h[rec.seq]
          \/ apply_transaction(At(h, rec.seq - 1), rec.cmd).res # "ok"

\* r, which came from r0 by reading recs, is not behind any of them
Covers(r0, r, recs) ==
    r.res = "ok" => /\ r0.res = "ok" /\ r0.seq <= r.seq
                    /\ \A k \in 1..Len(recs) : recs[k] # Corrupt /\ recs[k].seq <= r.seq

\* One record.
LEMMA RedoOne ==
    ASSUME NEW r \in Replay, NEW rec \in Record
    PROVE  /\ Redo(r, rec) \in Replay
           /\ Redo(r, rec).res = "ok" =>
                /\ r.res = "ok" /\ r.seq <= Redo(r, rec).seq
                /\ rec # Corrupt /\ rec.seq <= Redo(r, rec).seq
<1>1. CASE r.res # "ok"
  BY <1>1 DEF Redo
<1>2. CASE r.res = "ok" /\ rec = Corrupt
  <2>1. Redo(r, rec) = [r EXCEPT !.res = "err"]
    BY <1>2 DEF Redo
  <2> QED  BY <2>1 DEF Replay, Outcome
<1>3. CASE r.res = "ok" /\ rec # Corrupt
  <2>1. rec.seq \in Nat /\ rec.cmd \in Command /\ r.seq \in Nat /\ r.acc \in Table
    BY <1>3 DEF Record, Replay
  <2>2. CASE rec.seq <= r.seq
    <3>1. Redo(r, rec) = r
      BY <1>3, <2>2 DEF Redo
    <3> QED  BY <1>3, <2>1, <2>2, <3>1
  <2>3. CASE ~(rec.seq <= r.seq) /\ rec.seq # r.seq + 1
    <3>1. Redo(r, rec) = [r EXCEPT !.res = "err"]
      BY <1>3, <2>3 DEF Redo
    <3> QED  BY <3>1 DEF Replay, Outcome
  <2>4. CASE ~(rec.seq <= r.seq) /\ rec.seq = r.seq + 1
    <3>1. PICK t : t = apply_transaction(r.acc, rec.cmd)
      OBVIOUS
    <3>2. Redo(r, rec) = [res |-> t.res, seq |-> rec.seq, acc |-> t.acc]
      BY <1>3, <2>4, <3>1 DEF Redo
    <3>3. t.res \in Outcome /\ t.acc \in Table
      BY <2>1, <3>1, TransactionType DEF Result
    <3> QED  BY <1>3, <2>1, <2>4, <3>2, <3>3 DEF Replay
  <2> QED  BY <2>2, <2>3, <2>4
<1> QED  BY <1>1, <1>2, <1>3

\* One record of a command the history has, or of one that fails.
LEMMA RedoSound ==
    ASSUME NEW h \in Seq(Command), Accepted(h), NEW r, Sound(h, r), NEW rec \in Record, RecordOK(h, rec)
    PROVE  Sound(h, Redo(r, rec))
<1>0. r \in Replay /\ Redo(r, rec) \in Replay
  BY RedoOne DEF Sound
<1>1. CASE r.res # "ok" \/ rec = Corrupt \/ rec.seq <= r.seq \/ rec.seq # r.seq + 1
  <2>1. Redo(r, rec) = r \/ Redo(r, rec).res # "ok"
    BY <1>0, <1>1 DEF Redo, Replay
  <2> QED  BY <1>0, <2>1 DEF Sound
<1>2. CASE r.res = "ok" /\ rec # Corrupt /\ ~(rec.seq <= r.seq) /\ rec.seq = r.seq + 1
  <2>1. PICK t : t = apply_transaction(r.acc, rec.cmd)
    OBVIOUS
  <2>2. Redo(r, rec) = [res |-> t.res, seq |-> rec.seq, acc |-> t.acc]
    BY <1>2, <2>1 DEF Redo
  <2>3. /\ r.seq \in Nat /\ r.seq <= Len(h) /\ r.acc = At(h, r.seq)
        /\ Len(h) \in Nat /\ rec.seq - 1 = r.seq
    BY <1>0, <1>2 DEF Sound, Replay
  <2>4. CASE rec.seq <= Len(h) /\ rec.cmd = h[rec.seq]
    <3>1. r.seq \in 0..Len(h) /\ r.seq < Len(h)
      BY <1>2, <2>3, <2>4
    <3>2. At(h, r.seq + 1) = t.acc
      BY <1>2, <2>1, <2>3, <2>4, <3>1, AtFacts
    <3> QED  BY <1>0, <1>2, <2>2, <2>4, <3>2 DEF Sound
  <2>5. CASE apply_transaction(At(h, rec.seq - 1), rec.cmd).res # "ok"
    <3>1. Redo(r, rec).res # "ok"
      BY <2>1, <2>2, <2>3, <2>5
    <3> QED  BY <1>0, <3>1 DEF Sound
  <2> QED  BY <1>2, <2>4, <2>5 DEF RecordOK
<1> QED  BY <1>1, <1>2

\* One segment.
LEMMA RedoRecords ==
    ASSUME NEW r \in Replay, NEW s \in Records
    PROVE  RedoRecs(r, s) \in Replay /\ Covers(r, RedoRecs(r, s), s)
<1> DEFINE OK(t) == RedoRecs(r, t) \in Replay /\ Covers(r, RedoRecs(r, t), t)
<1>1. PICK Good : Good = {t \in Seq(Record) : OK(t)}
  OBVIOUS
<1>2. <<>> \in Good
  <2>1. RedoRecs(r, <<>>) = r
    BY RedoFacts
  <2>2. Len(<<>>) = 0 /\ r.seq <= r.seq
    BY DEF Replay
  <2>3. Covers(r, r, <<>>)
    BY <2>2 DEF Covers
  <2>4. OK(<<>>)
    BY <2>1, <2>3
  <2> QED  BY <1>1, <2>4
<1>3. ASSUME NEW t \in Seq(Record), NEW e \in Record, t \in Good
      PROVE  Append(t, e) \in Good
  <2>0. PICK u, q, p : u = Append(t, e) /\ q = RedoRecs(r, t) /\ p = Redo(q, e)
    OBVIOUS
  <2>1. q \in Replay /\ Covers(r, q, t)
    BY <1>1, <1>3, <2>0
  <2>2. RedoRecs(r, u) = p
    BY <2>0, RedoNext
  <2>3. /\ p \in Replay
        /\ p.res = "ok" => q.res = "ok" /\ q.seq <= p.seq /\ e # Corrupt /\ e.seq <= p.seq
    BY <2>0, <2>1, RedoOne
  <2>4. ASSUME p.res = "ok"  PROVE r.res = "ok" /\ r.seq <= p.seq
    <3>1. r.res = "ok" /\ r.seq <= q.seq
      BY <2>1, <2>3, <2>4 DEF Covers
    <3>2. r.seq \in Nat /\ q.seq \in Nat /\ p.seq \in Nat
      BY <2>1, <2>3 DEF Replay
    <3> QED  BY <2>3, <2>4, <3>1, <3>2
  <2>5. ASSUME p.res = "ok", NEW k \in 1..Len(u)  PROVE u[k] # Corrupt /\ u[k].seq <= p.seq
    <3>1. CASE k = Len(t) + 1
      <4>1. u[k] = e
        BY <2>0, <3>1
      <4> QED  BY <2>3, <2>5, <4>1
    <3>2. CASE k # Len(t) + 1
      <4>1. k \in 1..Len(t) /\ u[k] = t[k]
        BY <2>0, <3>2
      <4>2. t[k] # Corrupt /\ t[k].seq <= q.seq
        BY <2>1, <2>3, <2>5, <4>1 DEF Covers
      <4>3. t[k].seq \in Nat /\ q.seq \in Nat /\ p.seq \in Nat
        <5>1. t[k] \in Record
          BY <4>1
        <5> QED  BY <2>1, <2>3, <4>2, <5>1 DEF Replay, Record
      <4> QED  BY <2>3, <2>5, <4>1, <4>2, <4>3
    <3> QED  BY <3>1, <3>2
  <2>6. u \in Seq(Record)
    BY <2>0
  <2>7. Covers(r, p, u)
    BY <2>4, <2>5 DEF Covers
  <2> QED  BY <1>1, <2>0, <2>2, <2>3, <2>6, <2>7
<1>4. s \in Good
  <2>1. s \in Seq(Record)
    BY DEF Records
  <2> QED  BY <1>2, <1>3, <2>1, PrefixInduction
<1> QED  BY <1>1, <1>4

\* One segment of records of commands the history has, or that fail.
LEMMA RecordsSound ==
    ASSUME NEW h \in Seq(Command), Accepted(h), NEW r, Sound(h, r),
           NEW s \in Records, \A k \in 1..Len(s) : RecordOK(h, s[k])
    PROVE  Sound(h, RedoRecs(r, s))
<1>0. PICK X : X = {rec \in Record : RecordOK(h, rec)}
  OBVIOUS
<1>1. PICK Good : Good = {t \in Seq(X) : Sound(h, RedoRecs(r, t))}
  OBVIOUS
<1>2. <<>> \in Good
  <2>1. RedoRecs(r, <<>>) = r
    BY RedoFacts
  <2> QED  BY <1>1, <2>1
<1>3. ASSUME NEW t \in Seq(X), NEW e \in X, t \in Good
      PROVE  Append(t, e) \in Good
  <2>1. RedoRecs(r, Append(t, e)) = Redo(RedoRecs(r, t), e)
    BY RedoNext
  <2>2. Sound(h, RedoRecs(r, t)) /\ e \in Record /\ RecordOK(h, e)
    BY <1>0, <1>1, <1>3
  <2>3. Sound(h, Redo(RedoRecs(r, t), e))
    BY <2>2, RedoSound
  <2>4. Append(t, e) \in Seq(X)
    OBVIOUS
  <2> QED  BY <1>1, <2>1, <2>3, <2>4
<1>4. s \in Seq(X)
  <2>1. s \in Seq(Record) /\ \A k \in 1..Len(s) : s[k] \in X
    BY <1>0 DEF Records
  <2> QED  BY <2>1
<1>5. s \in Good
  BY <1>2, <1>3, <1>4, PrefixInduction
<1> QED  BY <1>1, <1>5

\* Several segments.
LEMMA RedoSegments ==
    ASSUME NEW r \in Replay, NEW w \in Seq(SegmentFile)
    PROVE  /\ RedoLog(r, w) \in Replay
           /\ RedoLog(r, w).res = "ok" =>
                /\ r.seq <= RedoLog(r, w).seq
                /\ \A i \in 1..Len(w) : Covers(r, RedoLog(r, w), w[i].recs)
<1> DEFINE OK(t) == /\ RedoLog(r, t) \in Replay
                    /\ RedoLog(r, t).res = "ok" =>
                         /\ r.res = "ok" /\ r.seq <= RedoLog(r, t).seq
                         /\ \A i \in 1..Len(t) : Covers(r, RedoLog(r, t), t[i].recs)
<1>1. PICK Good : Good = {t \in Seq(SegmentFile) : OK(t)}
  OBVIOUS
<1>2. <<>> \in Good
  <2>1. RedoLog(r, <<>>) = r
    BY RedoFacts
  <2>2. Len(<<>>) = 0 /\ r.seq <= r.seq
    BY DEF Replay
  <2>3. OK(<<>>)
    BY <2>1, <2>2
  <2> QED  BY <1>1, <2>3
<1>3. ASSUME NEW t \in Seq(SegmentFile), NEW e \in SegmentFile, t \in Good
      PROVE  Append(t, e) \in Good
  <2>0. PICK u, q, p : /\ u = Append(t, e) /\ q = RedoLog(r, t)
                       /\ p = RedoRecs(q, e.recs)
    OBVIOUS
  <2>1. OK(t)
    BY <1>1, <1>3
  <2>2. RedoLog(r, u) = p
    <3>1. RedoLog(r, Append(t, e)) = RedoSegment(RedoLog(r, t), e)
      BY RedoNext
    <3> QED  BY <2>0, <3>1, Zenon DEF RedoSegment, RedoRecs
  <2>3. q \in Replay /\ p \in Replay /\ Covers(q, p, e.recs)
    <3>1. q \in Replay /\ e.recs \in Records
      BY <2>0, <2>1 DEF SegmentFile
    <3> QED  BY <2>0, <3>1, RedoRecords
  <2>4. r.seq \in Nat /\ q.seq \in Nat /\ p.seq \in Nat
    BY <2>3 DEF Replay
  <2>5. ASSUME p.res = "ok"
        PROVE  r.res = "ok" /\ r.seq <= p.seq /\ \A i \in 1..Len(u) : Covers(r, p, u[i].recs)
    <3>1. q.res = "ok" /\ q.seq <= p.seq
      BY <2>3, <2>5 DEF Covers
    <3>2. r.res = "ok" /\ r.seq <= q.seq /\ \A i \in 1..Len(t) : Covers(r, q, t[i].recs)
      BY <2>0, <2>1, <3>1
    <3>3. r.seq <= p.seq
      BY <2>4, <3>1, <3>2
    <3>4. ASSUME NEW i \in 1..Len(u)  PROVE Covers(r, p, u[i].recs)
      <4>1. CASE i = Len(t) + 1
        <5>1. u[i] = e
          BY <2>0, <4>1
        <5> QED  BY <2>3, <2>5, <3>2, <3>3, <5>1 DEF Covers
      <4>2. CASE i # Len(t) + 1
        <5>1. i \in 1..Len(t) /\ u[i] = t[i]
          BY <2>0, <4>2
        <5>2. PICK recs \in Records : recs = t[i].recs
          <6>1. t[i] \in SegmentFile
            BY <5>1
          <6>2. t[i].recs \in Records
            BY <6>1 DEF SegmentFile
          <6> QED  BY <6>2
        <5>3. Covers(r, q, recs)
          BY <3>2, <5>1, <5>2
        <5>4. ASSUME NEW k \in 1..Len(recs)  PROVE recs[k] # Corrupt /\ recs[k].seq <= p.seq
          <6>1. recs[k] # Corrupt /\ recs[k].seq <= q.seq
            BY <3>1, <5>3 DEF Covers
          <6>2. recs[k] \in Record
            BY DEF Records
          <6>3. recs[k].seq \in Nat
            BY <6>1, <6>2 DEF Record
          <6> QED  BY <2>4, <3>1, <6>1, <6>3
        <5> QED  BY <3>2, <3>3, <5>1, <5>2, <5>4 DEF Covers
      <4> QED  BY <4>1, <4>2
    <3> QED  BY <3>2, <3>3, <3>4
  <2>6. u \in Seq(SegmentFile)
    BY <2>0
  <2> QED  BY <1>1, <2>0, <2>2, <2>3, <2>5, <2>6
<1>4. w \in Good
  BY <1>2, <1>3, PrefixInduction
<1> QED  BY <1>1, <1>4

\* Several segments of such records.
LEMMA SegmentsSound ==
    ASSUME NEW h \in Seq(Command), Accepted(h), NEW r, Sound(h, r), NEW w \in Seq(SegmentFile),
           \A i \in 1..Len(w) : \A k \in 1..Len(w[i].recs) : RecordOK(h, w[i].recs[k])
    PROVE  Sound(h, RedoLog(r, w))
<1>0. PICK X : X = {s \in SegmentFile : \A k \in 1..Len(s.recs) : RecordOK(h, s.recs[k])}
  OBVIOUS
<1>1. PICK Good : Good = {t \in Seq(X) : Sound(h, RedoLog(r, t))}
  OBVIOUS
<1>2. <<>> \in Good
  <2>1. RedoLog(r, <<>>) = r
    BY RedoFacts
  <2> QED  BY <1>1, <2>1
<1>3. ASSUME NEW t \in Seq(X), NEW e \in X, t \in Good
      PROVE  Append(t, e) \in Good
  <2>0. PICK q : q = RedoLog(r, t)
    OBVIOUS
  <2>1. RedoLog(r, Append(t, e)) = RedoRecs(q, e.recs)
    <3>1. RedoLog(r, Append(t, e)) = RedoSegment(RedoLog(r, t), e)
      BY RedoNext
    <3> QED  BY <2>0, <3>1, Zenon DEF RedoSegment, RedoRecs
  <2>2. Sound(h, q) /\ e.recs \in Records /\ \A k \in 1..Len(e.recs) : RecordOK(h, e.recs[k])
    BY <1>0, <1>1, <1>3, <2>0 DEF SegmentFile
  <2>3. Sound(h, RedoRecs(q, e.recs))
    BY <2>2, RecordsSound
  <2>4. Append(t, e) \in Seq(X)
    OBVIOUS
  <2> QED  BY <1>1, <2>1, <2>3, <2>4
<1>4. w \in Seq(X)
  <2>1. \A i \in 1..Len(w) : w[i] \in X
    BY <1>0
  <2> QED  BY <2>1
<1>5. w \in Good
  BY <1>2, <1>3, <1>4, PrefixInduction
<1> QED  BY <1>1, <1>5

-----------------------------------------------------------------------------
(***************************************************************************)
(* The log: files in the order of their numbers, a resumed cursor inside   *)
(* its segment.                                                            *)
(***************************************************************************)
CursorOK(s) == s.cursor \in {AtEnd, Beyond} \cup 2..Len(s.recs)

Log(w) ==
    /\ w \in Seq(SegmentFile) /\ w # <<>>
    /\ \A i \in 1..Len(w) : CursorOK(w[i])
    /\ \A i, j \in 1..Len(w) : i < j => w[i].start <= w[j].start

\* a replay that starts at number min reads the segment i
Live(w, i, min) == \A j \in (i + 1)..Len(w) : w[j].start > min

SegmentOK(h, s) == \A k \in 1..Len(s.recs) : RecordOK(h, s.recs[k])

\* the records such a replay meets
RecordsOK(h, w, min) == \A i \in 1..Len(w) : Live(w, i, min) => SegmentOK(h, w[i])

\* The files of a log.
LEMMA LogFacts ==
    ASSUME NEW w, Log(w)
    PROVE  /\ Len(w) \in Nat \ {0} /\ DOMAIN w = 1..Len(w) /\ Len(w) \in 1..Len(w)
           /\ \A i \in 1..Len(w) : /\ w[i] \in SegmentFile /\ w[i].start \in Nat \ {0}
                                   /\ w[i].recs \in Records /\ w[i].cursor \in Int
<1>1. w \in Seq(SegmentFile) /\ w # <<>>
  BY DEF Log
<1>2. Len(w) \in Nat \ {0} /\ DOMAIN w = 1..Len(w)
  BY <1>1
<1>3. \A i \in 1..Len(w) : w[i] \in SegmentFile
  BY <1>1
<1> QED  BY <1>2, <1>3 DEF SegmentFile

\* A replay reads exactly the segments behind which no file has a number that
\* is small enough.
LEMMA ReplayFromFacts ==
    ASSUME NEW w, Log(w), NEW min \in Nat
    PROVE  /\ ReplayFrom(w, min) \in 1..Len(w)
           /\ \A i \in 1..Len(w) : Live(w, i, min) <=> ReplayFrom(w, min) <= i
<1>1. PICK S : S = {i \in DOMAIN w : w[i].start <= min}
  OBVIOUS
<1>2. PICK n : n = Len(w)
  OBVIOUS
<1>3. /\ n \in Nat \ {0} /\ DOMAIN w = 1..n
      /\ \A i \in 1..n : w[i].start \in Nat
      /\ \A i, j \in 1..n : i < j => w[i].start <= w[j].start
  BY <1>2, LogFacts DEF Log
<1>4. PICK m \in 0..n : S = 1..m
  <2>1. CASE S = {}
    <3>1. S = 1..0 /\ 0 \in 0..n
      BY <1>3, <2>1
    <3> QED  BY <3>1
  <2>2. CASE S # {}
    <3>1. IsFiniteSet(S) /\ S \subseteq 1..n
      <4>1. IsFiniteSet(1..n)
        BY <1>3, FS_Interval
      <4>2. S \subseteq 1..n
        BY <1>1, <1>3
      <4> QED  BY <4>1, <4>2, FS_Subset
    <3>0. \A x \in S : x \in Int
      BY <3>1
    <3>2. PICK m \in S : \A y \in S : m >= y
      BY <2>2, <3>0, <3>1, Extremes
    <3>3. ASSUME NEW i \in 1..m  PROVE i \in S
      <4>0. m \in 1..n
        BY <3>1, <3>2
      <4>1. m \in 1..n /\ i \in 1..n /\ w[m].start <= min
        BY <1>1, <1>3, <3>2, <4>0
      <4>2. w[i].start <= w[m].start
        <5>1. CASE i = m
          BY <1>3, <4>1, <5>1
        <5>2. CASE i < m
          BY <1>3, <4>1, <5>2
        <5> QED  BY <4>1, <5>1, <5>2
      <4>3. w[i].start \in Nat /\ w[m].start \in Nat
        BY <1>3, <4>1
      <4> QED  BY <1>1, <1>3, <4>1, <4>2, <4>3
    <3>4. S = 1..m /\ m \in 0..n
      <4>1. m \in 0..n
        BY <1>3, <3>1, <3>2
      <4>2. ASSUME NEW y \in S  PROVE y \in 1..m
        <5>1. y \in 1..n /\ y <= m
          BY <3>1, <3>2
        <5> QED  BY <4>1, <5>1
      <4> QED  BY <3>3, <4>1, <4>2
    <3> QED  BY <3>4
  <2> QED  BY <2>1, <2>2
<1>5. Cardinality(S) = m
  <2>1. m \in Nat
    BY <1>3
  <2> QED  BY <1>4, <2>1, FS_Interval
<1>6. ReplayFrom(w, min) = IF m = 0 THEN 1 ELSE m
  BY <1>1, <1>5 DEF ReplayFrom
<1>7. PICK from : from = ReplayFrom(w, min)
  OBVIOUS
<1>8. from \in 1..n
  BY <1>3, <1>6, <1>7
<1>9. ASSUME NEW i \in 1..n  PROVE Live(w, i, min) <=> from <= i
  <2>1. \A j \in (i + 1)..n : j \in 1..n /\ (w[j].start > min <=> j > m)
    <3>1. ASSUME NEW j \in (i + 1)..n  PROVE j \in 1..n /\ (w[j].start > min <=> j > m)
      <4>1. j \in 1..n
        BY <1>3
      <4>2. w[j].start <= min <=> j <= m
        BY <1>1, <1>3, <1>4, <4>1
      <4>3. w[j].start \in Nat
        BY <1>3, <4>1
      <4> QED  BY <4>1, <4>2, <4>3
    <3> QED  BY <3>1
  <2>2. Live(w, i, min) <=> \A j \in (i + 1)..n : j > m
    BY <1>2, <2>1 DEF Live
  <2>3. (\A j \in (i + 1)..n : j > m) <=> m <= i
    <3>1. ASSUME \A j \in (i + 1)..n : j > m, ~(m <= i)  PROVE FALSE
      <4>1. m \in (i + 1)..n
        BY <1>3, <3>1
      <4> QED  BY <3>1, <4>1
    <3>2. ASSUME m <= i, NEW j \in (i + 1)..n  PROVE j > m
      BY <1>3, <3>2
    <3> QED  BY <3>1, <3>2
  <2>4. m <= i <=> from <= i
    BY <1>3, <1>6, <1>7
  <2> QED  BY <2>2, <2>3, <2>4
<1> QED  BY <1>2, <1>7, <1>8, <1>9

\* The segments a replay reads.
LEMMA ReplayedFacts ==
    ASSUME NEW w, Log(w), NEW min \in Nat
    PROVE  /\ Replayed(w, min) \in Seq(SegmentFile)
           /\ \A i \in 1..Len(w) : Live(w, i, min) =>
                \E j \in 1..Len(Replayed(w, min)) : Replayed(w, min)[j] = w[i]
           /\ \A j \in 1..Len(Replayed(w, min)) :
                \E i \in 1..Len(w) : Live(w, i, min) /\ Replayed(w, min)[j] = w[i]
<1>1. PICK n, from, v : n = Len(w) /\ from = ReplayFrom(w, min) /\ v = Replayed(w, min)
  OBVIOUS
<1>2. w \in Seq(SegmentFile) /\ n \in Nat /\ from \in 1..n /\ v = SubSeq(w, from, n)
  BY <1>1, LogFacts, ReplayFromFacts DEF Log, Replayed
<1>3. /\ v \in Seq(SegmentFile) /\ Len(v) = (n - from) + 1
      /\ \A j \in 1..((n - from) + 1) : v[j] = w[(from + j) - 1]
  BY <1>1, <1>2
<1>4. ASSUME NEW i \in 1..n, Live(w, i, min)  PROVE \E j \in 1..Len(v) : v[j] = w[i]
  <2>1. from <= i
    BY <1>1, <1>4, ReplayFromFacts
  <2>2. /\ (i - from) + 1 \in 1..((n - from) + 1)
        /\ (from + ((i - from) + 1)) - 1 = i
    BY <1>2, <2>1
  <2> QED  BY <1>3, <2>2
<1>5. ASSUME NEW j \in 1..Len(v)  PROVE \E i \in 1..n : Live(w, i, min) /\ v[j] = w[i]
  <2>1. (from + j) - 1 \in 1..n /\ from <= (from + j) - 1
    BY <1>2, <1>3
  <2>2. Live(w, (from + j) - 1, min)
    BY <1>1, <2>1, ReplayFromFacts
  <2> QED  BY <1>3, <2>1, <2>2
<1> QED  BY <1>1, <1>3, <1>4, <1>5

\* WalSegment::append.
LEMMA SegmentAppendFacts ==
    ASSUME NEW s \in SegmentFile, CursorOK(s), NEW rec \in Record
    PROVE  /\ SegmentAppend(s, rec) \in SegmentFile /\ CursorOK(SegmentAppend(s, rec))
           /\ SegmentAppend(s, rec).start = s.start
           /\ \A h : SegmentOK(h, s) /\ RecordOK(h, rec) => SegmentOK(h, SegmentAppend(s, rec))
           /\ s.cursor = AtEnd => /\ SegmentAppend(s, rec).recs = Append(s.recs, rec)
                                  /\ SegmentAppend(s, rec).cursor = AtEnd
<1>0. /\ s.recs \in Seq(Record) /\ s.start \in Nat \ {0} /\ s.cursor \in Int
      /\ s = [start |-> s.start, recs |-> s.recs, cursor |-> s.cursor]
  BY DEF SegmentFile, Records
<1>1. PICK t : t = SegmentAppend(s, rec)
  OBVIOUS
<1> DEFINE Goal == /\ t \in SegmentFile /\ CursorOK(t) /\ t.start = s.start
                   /\ \A h : SegmentOK(h, s) /\ RecordOK(h, rec) => SegmentOK(h, t)
                   /\ s.cursor = AtEnd => t.recs = Append(s.recs, rec) /\ t.cursor = AtEnd
<1>2. ASSUME s.cursor = AtEnd  PROVE Goal
  <2>1. t = [s EXCEPT !.recs = Append(@, rec)]
    BY <1>1, <1>2 DEF SegmentAppend, AtEnd, Beyond
  <2>2. t = [start |-> s.start, recs |-> Append(s.recs, rec), cursor |-> s.cursor]
    BY <1>0, <2>1
  <2>3. Append(s.recs, rec) \in Seq(Record) /\ Len(Append(s.recs, rec)) = Len(s.recs) + 1
    BY <1>0
  <2>4. t \in SegmentFile /\ CursorOK(t)
    BY <1>0, <1>2, <2>2, <2>3 DEF SegmentFile, Records, CursorOK
  <2>5. ASSUME NEW h, SegmentOK(h, s), RecordOK(h, rec)  PROVE SegmentOK(h, t)
    <3>1. ASSUME NEW k \in 1..Len(t.recs)  PROVE RecordOK(h, t.recs[k])
      <4>1. CASE k = Len(s.recs) + 1
        <5>1. t.recs[k] = rec
          BY <1>0, <2>2, <4>1
        <5> QED  BY <2>5, <5>1
      <4>2. CASE k # Len(s.recs) + 1
        <5>1. k \in 1..Len(s.recs) /\ t.recs[k] = s.recs[k]
          BY <1>0, <2>2, <2>3, <4>2
        <5> QED  BY <2>5, <5>1 DEF SegmentOK
      <4> QED  BY <4>1, <4>2
    <3> QED  BY <3>1 DEF SegmentOK
  <2> QED  BY <1>2, <2>2, <2>4, <2>5
<1>3. ASSUME s.cursor = Beyond  PROVE Goal
  <2>1. t = s /\ Beyond # AtEnd
    BY <1>1, <1>3 DEF SegmentAppend, AtEnd, Beyond
  <2> QED  BY <1>3, <2>1
<1>4. ASSUME s.cursor # AtEnd, s.cursor # Beyond  PROVE Goal
  <2>0. s.cursor \in 2..Len(s.recs)
    BY <1>4 DEF CursorOK
  <2>1. PICK p : p = SubSeq(s.recs, 1, s.cursor - 1)
    OBVIOUS
  <2>2. /\ p \in Seq(Record) /\ Len(p) = s.cursor - 1
        /\ \A k \in 1..Len(p) : k \in 1..Len(s.recs) /\ p[k] = s.recs[k]
    <3>1. s.cursor - 1 \in 0..Len(s.recs)
      BY <2>0
    <3> QED  BY <1>0, <2>1, <3>1
  <2>3. t = [s EXCEPT !.recs = Append(SubSeq(@, 1, s.cursor - 1), Corrupt), !.cursor = Beyond]
    BY <1>1, <1>4 DEF SegmentAppend
  <2>4. t = [start |-> s.start, recs |-> Append(p, Corrupt), cursor |-> Beyond]
    BY <1>0, <2>1, <2>3
  <2>5. Append(p, Corrupt) \in Seq(Record) /\ Len(Append(p, Corrupt)) = Len(p) + 1
    <3>1. Corrupt \in Record
      BY DEF Record
    <3> QED  BY <2>2, <3>1
  <2>6. t \in SegmentFile /\ CursorOK(t)
    BY <1>0, <2>4, <2>5 DEF SegmentFile, Records, CursorOK, Beyond
  <2>7. ASSUME NEW h, SegmentOK(h, s), RecordOK(h, rec)  PROVE SegmentOK(h, t)
    <3>1. ASSUME NEW k \in 1..Len(t.recs)  PROVE RecordOK(h, t.recs[k])
      <4>1. CASE k = Len(p) + 1
        <5>1. t.recs[k] = Corrupt
          BY <2>2, <2>4, <4>1
        <5> QED  BY <5>1 DEF RecordOK
      <4>2. CASE k # Len(p) + 1
        <5>1. k \in 1..Len(p) /\ t.recs[k] = p[k]
          BY <2>2, <2>4, <2>5, <4>2
        <5> QED  BY <2>2, <2>7, <5>1 DEF SegmentOK
      <4> QED  BY <4>1, <4>2
    <3> QED  BY <3>1 DEF SegmentOK
  <2> QED  BY <1>4, <2>4, <2>6, <2>7
<1>5. Goal
  BY <1>2, <1>3, <1>4
<1> QED  BY <1>1, <1>5

\* A log whose files have the same numbers and, where a replay reads them,
\* good records.
LEMMA SameFiles ==
    ASSUME NEW w, Log(w), NEW v \in Seq(SegmentFile), Len(v) = Len(w),
           \A i \in 1..Len(w) : v[i].start = w[i].start /\ CursorOK(v[i])
    PROVE  /\ Log(v)
           /\ \A h, min : /\ RecordsOK(h, w, min)
                          /\ \A i \in 1..Len(w) : SegmentOK(h, w[i]) => SegmentOK(h, v[i])
                          => RecordsOK(h, v, min)
<1>1. Len(w) \in Nat \ {0}
  BY LogFacts
<1>2. v # <<>>
  BY <1>1
<1>3. Log(v)
  BY <1>2 DEF Log
<1>4. ASSUME NEW h, NEW min, RecordsOK(h, w, min),
             \A i \in 1..Len(w) : SegmentOK(h, w[i]) => SegmentOK(h, v[i])
      PROVE  RecordsOK(h, v, min)
  <2>1. ASSUME NEW i \in 1..Len(v), Live(v, i, min)  PROVE SegmentOK(h, v[i])
    <3>1. ASSUME NEW j \in (i + 1)..Len(w)  PROVE w[j].start > min
      <4>1. j \in 1..Len(w) /\ j \in (i + 1)..Len(v)
        BY <1>1
      <4>2. v[j].start > min
        BY <2>1, <4>1 DEF Live
      <4> QED  BY <4>1, <4>2
    <3>2. Live(w, i, min)
      BY <3>1 DEF Live
    <3> QED  BY <1>4, <3>2 DEF RecordsOK
  <2> QED  BY <2>1 DEF RecordsOK
<1> QED  BY <1>3, <1>4

\* A record that goes into the current segment.
LEMMA LogIntoFacts ==
    ASSUME NEW w, Log(w), NEW i, i \in {Unlinked} \cup 1..Len(w), NEW rec \in Record
    PROVE  /\ Log(LogInto(w, i, rec)) /\ Len(LogInto(w, i, rec)) = Len(w)
           /\ \A j \in 1..Len(w) : LogInto(w, i, rec)[j].start = w[j].start
           /\ \A h, min : RecordsOK(h, w, min) /\ RecordOK(h, rec)
                            => RecordsOK(h, LogInto(w, i, rec), min)
           /\ i # Unlinked => LogInto(w, i, rec)[i] = SegmentAppend(w[i], rec)
           /\ \A j \in 1..Len(w) : i # j => LogInto(w, i, rec)[j] = w[j]
<1>0. PICK v : v = LogInto(w, i, rec)
  OBVIOUS
<1>1. CASE i = Unlinked
  <2>1. v = w
    BY <1>0, <1>1 DEF LogInto
  <2> QED  BY <1>0, <1>1, <2>1
<1>2. CASE i # Unlinked
  <2>1. i \in 1..Len(w) /\ v = [w EXCEPT ![i] = SegmentAppend(w[i], rec)]
    BY <1>0, <1>2 DEF LogInto
  <2>2. w \in Seq(SegmentFile) /\ w[i] \in SegmentFile /\ CursorOK(w[i])
    BY <2>1 DEF Log
  <2>3. PICK s : s = SegmentAppend(w[i], rec)
    OBVIOUS
  <2>4. /\ s \in SegmentFile /\ CursorOK(s) /\ s.start = w[i].start
        /\ \A h : SegmentOK(h, w[i]) /\ RecordOK(h, rec) => SegmentOK(h, s)
    BY <2>2, <2>3, SegmentAppendFacts
  <2>5. /\ v \in Seq(SegmentFile) /\ Len(v) = Len(w) /\ v[i] = s
        /\ \A j \in 1..Len(w) : j # i => v[j] = w[j]
    BY <2>1, <2>2, <2>3, <2>4
  <2>6. ASSUME NEW j \in 1..Len(w)
        PROVE  /\ v[j].start = w[j].start /\ CursorOK(v[j])
               /\ \A h : SegmentOK(h, w[j]) /\ RecordOK(h, rec) => SegmentOK(h, v[j])
    <3>1. CASE j = i
      BY <2>4, <2>5, <3>1
    <3>2. CASE j # i
      <4>1. v[j] = w[j] /\ CursorOK(w[j])
        BY <2>5, <3>2 DEF Log
      <4> QED  BY <4>1
    <3> QED  BY <3>1, <3>2
  <2>7. Log(v)
    BY <2>5, <2>6, SameFiles
  <2>8. ASSUME NEW h, NEW min, RecordsOK(h, w, min), RecordOK(h, rec)  PROVE RecordsOK(h, v, min)
    <3>1. \A j \in 1..Len(w) : SegmentOK(h, w[j]) => SegmentOK(h, v[j])
      BY <2>6, <2>8
    <3>2. \A j \in 1..Len(w) : v[j].start = w[j].start /\ CursorOK(v[j])
      BY <2>6
    <3> QED  BY <2>5, <2>8, <3>1, <3>2, SameFiles
  <2> QED  BY <1>0, <1>2, <2>3, <2>5, <2>6, <2>7, <2>8
<1> QED  BY <1>1, <1>2

\* A new file is empty.
LEMMA NewSegment ==
    ASSUME NEW start \in Nat \ {0}
    PROVE  /\ Segment(start) \in SegmentFile /\ CursorOK(Segment(start))
           /\ Segment(start).start = start /\ Segment(start).cursor = AtEnd
           /\ Segment(start).recs = <<>> /\ \A h : SegmentOK(h, Segment(start))
<1>1. Segment(start) = [start |-> start, recs |-> <<>>, cursor |-> 0]
  BY DEF Segment, AtEnd
<1>2. <<>> \in Records /\ Len(<<>>) = 0
  BY DEF Records
<1> QED  BY <1>1, <1>2 DEF SegmentFile, CursorOK, SegmentOK, AtEnd

\* A file put among the others by its number.
LEMMA InsertFacts ==
    ASSUME NEW w, Log(w), NEW start \in Nat \ {0}, NEW p \in Places(w, start)
    PROVE  /\ p \in 1..(Len(w) + 1)
           /\ Log(InsertAt(w, p, Segment(start))) /\ Len(InsertAt(w, p, Segment(start))) = Len(w) + 1
           /\ InsertAt(w, p, Segment(start))[p] = Segment(start)
           /\ \A j \in 1..(Len(w) + 1) : j # p =>
                \E i \in 1..Len(w) : InsertAt(w, p, Segment(start))[j] = w[i]
           /\ \A h, min : RecordsOK(h, w, min) => RecordsOK(h, InsertAt(w, p, Segment(start)), min)
<1>0. PICK v, s, n : v = InsertAt(w, p, Segment(start)) /\ s = Segment(start) /\ n = Len(w)
  OBVIOUS
<1>1. /\ w \in Seq(SegmentFile) /\ n \in Nat /\ s \in SegmentFile /\ CursorOK(s) /\ s.start = start
      /\ \A h : SegmentOK(h, s)
  BY <1>0, NewSegment, LogFacts DEF Log
<1>2. /\ p \in 1..(n + 1) /\ \A j \in 1..(p - 1) : w[j].start <= start
      /\ \A j \in p..n : w[j].start >= start
  BY <1>0 DEF Places
<1>3. v = (SubSeq(w, 1, p - 1) \o <<s>>) \o SubSeq(w, p, n)
  BY <1>0 DEF InsertAt
<1>4. PICK a, b : a = SubSeq(w, 1, p - 1) /\ b = SubSeq(w, p, n)
  OBVIOUS
<1>5. /\ a \in Seq(SegmentFile) /\ Len(a) = p - 1 /\ \A j \in 1..(p - 1) : a[j] = w[j]
      /\ b \in Seq(SegmentFile) /\ Len(b) = (n - p) + 1 /\ \A j \in 1..Len(b) : b[j] = w[(p + j) - 1]
  BY <1>0, <1>1, <1>2, <1>4
<1>6. PICK c : c = a \o <<s>>
  OBVIOUS
<1>7. /\ c \in Seq(SegmentFile) /\ Len(c) = p /\ c[p] = s /\ \A j \in 1..(p - 1) : c[j] = w[j]
  <2>1. c = Append(a, s)
    BY <1>1, <1>5, <1>6
  <2> QED  BY <1>1, <1>2, <1>5, <2>1
<1>8. v = c \o b
  BY <1>3, <1>4, <1>6
<1>9. /\ v \in Seq(SegmentFile) /\ Len(v) = n + 1 /\ v[p] = s
      /\ \A j \in 1..(p - 1) : v[j] = w[j]
      /\ \A j \in (p + 1)..(n + 1) : v[j] = w[j - 1]
  <2>1. v \in Seq(SegmentFile) /\ Len(v) = Len(c) + Len(b)
    <3>1. c \in Seq(SegmentFile) /\ b \in Seq(SegmentFile)
      BY <1>5, <1>7
    <3> QED  BY <1>8, <3>1, ConcatProperties
  <2>2. Len(v) = n + 1
    BY <1>1, <1>2, <1>5, <1>7, <2>1
  <2>3. \A j \in 1..p : v[j] = c[j]
    BY <1>2, <1>5, <1>7, <1>8, <2>1, <2>2
  <2>4. ASSUME NEW j \in (p + 1)..(n + 1)  PROVE v[j] = w[j - 1]
    <3>1. j - p \in 1..Len(b) /\ (p + (j - p)) - 1 = j - 1 /\ j \in 1..Len(v)
      BY <1>1, <1>2, <1>5, <2>2
    <3>2. v[j] = b[j - p]
      BY SMTT(30), <1>5, <1>7, <1>8, <3>1, <2>1, <2>2
    <3> QED  BY <1>5, <3>1, <3>2
  <2>5. v[p] = s /\ \A j \in 1..(p - 1) : v[j] = w[j]
    <3>1. p \in 1..p /\ \A j \in 1..(p - 1) : j \in 1..p
      BY <1>2
    <3> QED  BY <1>7, <2>3, <3>1
  <2> QED  BY <2>1, <2>2, <2>4, <2>5
<1>10. \A j \in 1..(n + 1) : /\ j < p => j \in 1..n /\ j \in 1..(p - 1) /\ v[j] = w[j]
                             /\ j = p => v[j] = s
                             /\ j > p => j - 1 \in 1..n /\ j - 1 \in p..n /\ v[j] = w[j - 1]
  BY <1>1, <1>2, <1>9
<1>11. ASSUME NEW j \in 1..(n + 1), j # p  PROVE \E i \in 1..n : v[j] = w[i]
  <2>1. CASE j < p
    BY <1>10, <2>1
  <2>2. CASE j > p
    BY <1>10, <2>2
  <2> QED  BY <1>2, <1>11, <2>1, <2>2
<1>12. Log(v)
  <2>1. v # <<>>
    BY <1>1, <1>9
  <2>2. ASSUME NEW j \in 1..(n + 1)  PROVE CursorOK(v[j])
    <3>1. CASE j = p
      BY <1>1, <1>10, <3>1
    <3>2. CASE j # p
      BY <1>0, <1>11, <3>2 DEF Log
    <3> QED  BY <3>1, <3>2
  <2>3. \A i \in 1..n : w[i].start \in Nat
    BY <1>0, LogFacts
  <2>4. \A i, j \in 1..n : i < j => w[i].start <= w[j].start
    BY <1>0 DEF Log
  <2>5. ASSUME NEW i \in 1..(n + 1), NEW j \in 1..(n + 1), i < j  PROVE v[i].start <= v[j].start
    <3>1. CASE j < p
      <4>1. v[i] = w[i] /\ v[j] = w[j] /\ i \in 1..n /\ j \in 1..n
        BY <1>2, <1>10, <2>5, <3>1
      <4> QED  BY <2>4, <2>5, <4>1
    <3>2. CASE j = p
      <4>1. v[i] = w[i] /\ v[j] = s /\ i \in 1..(p - 1)
        BY <1>2, <1>10, <2>5, <3>2
      <4> QED  BY <1>1, <1>2, <4>1
    <3>3. CASE j > p /\ i < p
      <4>1. v[i] = w[i] /\ v[j] = w[j - 1] /\ i \in 1..(p - 1) /\ j - 1 \in p..n /\ i \in 1..n
        BY <1>10, <3>3
      <4>2. w[i].start <= start /\ w[j - 1].start >= start
        BY <1>2, <4>1
      <4>3. w[i].start \in Nat /\ w[j - 1].start \in Nat
        BY <1>10, <2>3, <3>3
      <4> QED  BY <4>1, <4>2, <4>3
    <3>4. CASE j > p /\ i = p
      <4>1. v[i] = s /\ v[j] = w[j - 1] /\ j - 1 \in p..n /\ j - 1 \in 1..n
        BY <1>10, <3>4
      <4>2. w[j - 1].start >= start /\ w[j - 1].start \in Nat
        BY <1>2, <2>3, <4>1
      <4> QED  BY <1>1, <4>1, <4>2
    <3>5. CASE j > p /\ i > p
      <4>1. v[i] = w[i - 1] /\ v[j] = w[j - 1] /\ i - 1 \in 1..n /\ j - 1 \in 1..n /\ i - 1 < j - 1
        BY <1>10, <2>5, <3>5
      <4> QED  BY <2>4, <4>1
    <3> QED  BY <1>2, <3>1, <3>2, <3>3, <3>4, <3>5
  <2> QED  BY <1>9, <2>1, <2>2, <2>5 DEF Log
<1>13. ASSUME NEW h, NEW min, RecordsOK(h, w, min)  PROVE RecordsOK(h, v, min)
  <2>1. ASSUME NEW j \in 1..(n + 1), Live(v, j, min)  PROVE SegmentOK(h, v[j])
    <3>0. \A k \in (j + 1)..(n + 1) : v[k].start > min
      BY <1>9, <2>1 DEF Live
    <3>1. CASE j = p
      BY <1>1, <1>10, <3>1
    <3>2. CASE j < p
      <4>1. j \in 1..n /\ v[j] = w[j]
        BY <1>10, <3>2
      <4>2. ASSUME NEW k \in (j + 1)..n  PROVE w[k].start > min
        <5>1. CASE k < p
          <6>1. k \in (j + 1)..(n + 1) /\ k \in 1..(n + 1)
            BY <1>1
          <6> QED  BY <1>10, <3>0, <5>1, <6>1
        <5>2. CASE k >= p
          <6>1. k + 1 \in (j + 1)..(n + 1) /\ k + 1 \in (p + 1)..(n + 1) /\ (k + 1) - 1 = k
            BY <1>1, <1>2, <5>2
          <6>2. v[k + 1] = w[k]
            BY <1>9, <6>1
          <6> QED  BY <3>0, <6>1, <6>2
        <5> QED  BY <1>2, <5>1, <5>2
      <4>3. Live(w, j, min)
        BY <1>0, <4>2 DEF Live
      <4> QED  BY <1>0, <1>13, <4>1, <4>3 DEF RecordsOK
    <3>3. CASE j > p
      <4>1. j - 1 \in 1..n /\ v[j] = w[j - 1]
        BY <1>10, <3>3
      <4>2. ASSUME NEW k \in ((j - 1) + 1)..n  PROVE w[k].start > min
        <5>1. k + 1 \in (j + 1)..(n + 1) /\ k + 1 \in (p + 1)..(n + 1) /\ (k + 1) - 1 = k
          BY <1>1, <1>2, <3>3
        <5>2. v[k + 1] = w[k]
          BY <1>9, <5>1
        <5> QED  BY <3>0, <5>1, <5>2
      <4>3. Live(w, j - 1, min)
        BY <1>0, <4>2 DEF Live
      <4> QED  BY <1>0, <1>13, <4>1, <4>3 DEF RecordsOK
    <3> QED  BY <1>2, <3>1, <3>2, <3>3
  <2> QED  BY <1>9, <2>1 DEF RecordsOK
<1> QED  BY <1>0, <1>2, <1>9, <1>11, <1>12, <1>13

\* the last file of w is the current one and ends with the command n, or with
\* one that was logged after it
Ends(w, cur, n) ==
    /\ cur \in {0, Len(w)}
    /\ \A i \in 1..Len(w) : w[i].start <= n + 1
    /\ w[Len(w)].cursor = AtEnd
    /\ n > 0 => \E k \in 1..Len(w[Len(w)].recs) : w[Len(w)].recs[k].seq >= n

\* A record that goes behind the last one.
LEMMA EndsLogInto ==
    ASSUME NEW w, Log(w), NEW cur, cur # 0, NEW n \in Nat, Ends(w, cur, n),
           NEW rec \in Record, rec.seq = n + 1, NEW m \in {n, n + 1}
    PROVE  Ends(LogInto(w, cur, rec), cur, m) /\ cur = Len(w)
<1>1. cur = Len(w) /\ cur \in 1..Len(w) /\ cur # Unlinked /\ Len(w) \in Nat
  BY LogFacts DEF Ends, Unlinked
<1>2. PICK v : v = LogInto(w, cur, rec)
  OBVIOUS
<1>3. /\ Len(v) = Len(w) /\ v[cur] = SegmentAppend(w[cur], rec)
      /\ \A j \in 1..Len(w) : v[j].start = w[j].start
  BY <1>1, <1>2, LogIntoFacts
<1>4. w[cur] \in SegmentFile /\ CursorOK(w[cur]) /\ w[cur].cursor = AtEnd /\ w[cur].recs \in Seq(Record)
  BY <1>1, LogFacts DEF Log, Ends, Records
<1>5. v[cur].recs = Append(w[cur].recs, rec) /\ v[cur].cursor = AtEnd
  BY <1>3, <1>4, SegmentAppendFacts
<1>6. PICK k : k = Len(w[cur].recs) + 1
  OBVIOUS
<1>7. k \in 1..Len(v[cur].recs) /\ v[cur].recs[k] = rec
  BY <1>4, <1>5, <1>6
<1>8. rec.seq >= m
  BY DEF Ends
<1>9. ASSUME NEW i \in 1..Len(v)  PROVE v[i].start <= m + 1
  <2>1. v[i].start = w[i].start /\ w[i].start <= n + 1 /\ w[i].start \in Nat
    BY <1>3, LogFacts DEF Ends
  <2> QED  BY <2>1
<1> QED  BY <1>1, <1>2, <1>3, <1>5, <1>7, <1>8, <1>9 DEF Ends

\* A record that goes into a new file with the highest number.
LEMMA EndsInsert ==
    ASSUME NEW w, Log(w), NEW cur, NEW n \in Nat, Ends(w, cur, n),
           \A i \in 1..Len(w) : w[i].start # n + 1,
           NEW p \in Places(w, n + 1), NEW rec \in Record, rec.seq = n + 1, NEW m \in {n, n + 1}
    PROVE  Ends(LogInto(InsertAt(w, p, Segment(n + 1)), p, rec), p, m)
<1>1. PICK start : start = n + 1
  OBVIOUS
<1>2. start \in Nat \ {0} /\ p \in Places(w, start)
  BY <1>1
<1>3. PICK v : v = InsertAt(w, p, Segment(start))
  OBVIOUS
<1>4. /\ p \in 1..(Len(w) + 1) /\ Log(v) /\ Len(v) = Len(w) + 1 /\ v[p] = Segment(start)
      /\ \A j \in 1..(Len(w) + 1) : j # p => \E i \in 1..Len(w) : v[j] = w[i]
  BY <1>2, <1>3, InsertFacts
<1>5. Len(w) \in Nat /\ \A i \in 1..Len(w) : w[i].start \in Nat /\ w[i].start <= n
  <2>1. Len(w) \in Nat /\ \A i \in 1..Len(w) : w[i].start \in Nat
    BY LogFacts
  <2>2. ASSUME NEW i \in 1..Len(w)  PROVE w[i].start <= n
    <3>1. w[i].start <= n + 1 /\ w[i].start # n + 1
      BY DEF Ends
    <3> QED  BY <2>1, <3>1
  <2> QED  BY <2>1, <2>2
<1>6. p = Len(w) + 1
  <2>1. \A j \in p..Len(w) : w[j].start >= n + 1
    BY DEF Places
  <2>2. ASSUME p \in 1..Len(w)  PROVE FALSE
    <3>1. p \in p..Len(w)
      BY <1>5, <2>2
    <3>2. w[p].start >= n + 1 /\ w[p].start <= n /\ w[p].start \in Nat
      BY <1>5, <2>1, <2>2, <3>1
    <3> QED  BY <3>2
  <2> QED  BY <1>4, <1>5, <2>2
<1>7. /\ Segment(start).start = start /\ Segment(start).cursor = AtEnd /\ Segment(start).recs = <<>>
      /\ Segment(start) \in SegmentFile /\ CursorOK(Segment(start))
  BY <1>2, NewSegment
<1>8. PICK u : u = LogInto(v, p, rec)
  OBVIOUS
<1>9. p \in 1..Len(v) /\ p # Unlinked
  BY <1>4 DEF Unlinked
<1>10. /\ Len(u) = Len(v) /\ u[p] = SegmentAppend(v[p], rec)
       /\ \A j \in 1..Len(v) : u[j].start = v[j].start
  BY <1>4, <1>8, <1>9, LogIntoFacts
<1>11. u[p].recs = Append(<<>>, rec) /\ u[p].cursor = AtEnd
  BY <1>4, <1>7, <1>10, SegmentAppendFacts
<1>12. 1 \in 1..Len(u[p].recs) /\ u[p].recs[1] = rec
  BY <1>11
<1>13. ASSUME NEW j \in 1..Len(u)  PROVE u[j].start <= m + 1
  <2>1. u[j].start = v[j].start /\ j \in 1..(Len(w) + 1)
    BY <1>4, <1>10
  <2>2. CASE j = p
    BY <1>1, <1>4, <1>7, <2>1, <2>2
  <2>3. CASE j # p
    <3>1. PICK i \in 1..Len(w) : v[j] = w[i]
      BY <1>4, <2>1, <2>3
    <3> QED  BY <1>5, <2>1, <3>1
  <2> QED  BY <2>2, <2>3
<1>14. rec.seq >= m
  OBVIOUS
<1>15. p = Len(u)
  BY <1>4, <1>6, <1>10
<1>16. Ends(u, p, m)
  BY <1>11, <1>12, <1>13, <1>14, <1>15 DEF Ends
<1> QED  BY <1>1, <1>3, <1>8, <1>16

\* RollingWal::append.
LEMMA WalAppendFacts ==
    ASSUME NEW rec \in [seq : Nat \ {0}, cmd : Command], Log(wals),
           current \in {Unlinked} \cup 0..Len(wals), current # 0,
           cleanup \in BOOLEAN, doubled \in BOOLEAN, WalAppend(rec)
    PROVE  /\ Log(wals') /\ current' \in {Unlinked} \cup 1..Len(wals')
           /\ cleanup' \in BOOLEAN /\ doubled' \in BOOLEAN /\ (doubled => doubled')
           /\ \A h, min : RecordsOK(h, wals, min) /\ RecordOK(h, rec) => RecordsOK(h, wals', min)
           /\ \A n \in Nat : \A m \in {n, n + 1} :
                ~doubled' /\ rec.seq = n + 1 /\ Ends(wals, current, n) => Ends(wals', current', m)
<1>0. rec \in Record /\ rec.seq \in Nat \ {0} /\ Len(wals) \in Nat
  BY LogFacts DEF Record
<1>1. ASSUME wals' = LogInto(wals, current, rec), UNCHANGED <<current, cleanup, doubled, rotations>>
      PROVE  /\ Log(wals') /\ current' \in {Unlinked} \cup 1..Len(wals')
             /\ cleanup' \in BOOLEAN /\ doubled' \in BOOLEAN /\ (doubled => doubled')
             /\ \A h, min : RecordsOK(h, wals, min) /\ RecordOK(h, rec) => RecordsOK(h, wals', min)
             /\ \A n \in Nat : \A m \in {n, n + 1} :
                  ~doubled' /\ rec.seq = n + 1 /\ Ends(wals, current, n) => Ends(wals', current', m)
  <2>1. current \in {Unlinked} \cup 1..Len(wals)
    BY <1>0
  <2>2. /\ Log(wals') /\ Len(wals') = Len(wals)
        /\ \A h, min : RecordsOK(h, wals, min) /\ RecordOK(h, rec) => RecordsOK(h, wals', min)
    BY <1>0, <1>1, <2>1, LogIntoFacts
  <2>3. current' = current /\ cleanup' = cleanup /\ doubled' = doubled
    BY <1>1
  <2>4. ASSUME NEW n \in Nat, NEW m \in {n, n + 1}, rec.seq = n + 1, Ends(wals, current, n)
        PROVE  Ends(wals', current', m)
    BY <1>0, <1>1, <2>3, <2>4, EndsLogInto
  <2>5. current' \in {Unlinked} \cup 1..Len(wals')
    BY <2>1, <2>2, <2>3
  <2> QED  BY <2>2, <2>3, <2>4, <2>5
<1>2. ASSUME doubled' = (doubled \/ \E i \in DOMAIN wals : wals[i].start = rec.seq),
             NEW p \in Places(wals, rec.seq),
             wals' = LogInto(InsertAt(wals, p, Segment(rec.seq)), p, rec), current' = p,
             cleanup' = TRUE
      PROVE  /\ Log(wals') /\ current' \in {Unlinked} \cup 1..Len(wals')
             /\ cleanup' \in BOOLEAN /\ doubled' \in BOOLEAN /\ (doubled => doubled')
             /\ \A h, min : RecordsOK(h, wals, min) /\ RecordOK(h, rec) => RecordsOK(h, wals', min)
             /\ \A n \in Nat : \A m \in {n, n + 1} :
                  ~doubled' /\ rec.seq = n + 1 /\ Ends(wals, current, n) => Ends(wals', current', m)
  <2>1. PICK v : v = InsertAt(wals, p, Segment(rec.seq))
    OBVIOUS
  <2>2. /\ p \in 1..(Len(wals) + 1) /\ Log(v) /\ Len(v) = Len(wals) + 1
        /\ \A h, min : RecordsOK(h, wals, min) => RecordsOK(h, v, min)
    BY <1>0, <1>2, <2>1, InsertFacts
  <2>3. p \in {Unlinked} \cup 1..Len(v)
    BY <2>2
  <2>4. /\ Log(wals') /\ Len(wals') = Len(v)
        /\ \A h, min : RecordsOK(h, v, min) /\ RecordOK(h, rec) => RecordsOK(h, wals', min)
    BY <1>0, <1>2, <2>1, <2>2, <2>3, LogIntoFacts
  <2>5. ASSUME NEW n \in Nat, NEW m \in {n, n + 1}, ~doubled', rec.seq = n + 1, Ends(wals, current, n)
        PROVE  Ends(wals', current', m)
    <3>1. \A i \in 1..Len(wals) : wals[i].start # n + 1
      BY <1>2, <2>5, LogFacts
    <3> QED  BY <1>0, <1>2, <2>5, <3>1, EndsInsert
  <2>6. current' \in {Unlinked} \cup 1..Len(wals')
    BY <1>2, <2>2, <2>4
  <2>7. doubled' \in BOOLEAN /\ (doubled => doubled')
    BY <1>2
  <2>8. \A h, min : RecordsOK(h, wals, min) /\ RecordOK(h, rec) => RecordsOK(h, wals', min)
    BY <2>2, <2>4
  <2> QED  BY <1>2, <2>4, <2>5, <2>6, <2>7, <2>8
<1>3. CASE wals' = LogInto(wals, current, rec) /\ UNCHANGED <<current, cleanup, doubled, rotations>>
  BY <1>1, <1>3
<1>4. CASE /\ Rotates(rec)
           /\ \E i \in Places(wals, rec.seq) : wals' = Rotated(i, rec) /\ current' = i
           /\ cleanup' = TRUE
  BY <1>2, <1>4 DEF Rotates, Rotated
<1> QED  BY <1>3, <1>4 DEF WalAppend

\* The files that are left when the oldest are deleted.
LEMMA CutFacts ==
    ASSUME NEW w, Log(w), NEW extra \in 0..(Len(w) - 1)
    PROVE  /\ Log(SubSeq(w, extra + 1, Len(w))) /\ Len(SubSeq(w, extra + 1, Len(w))) = Len(w) - extra
           /\ \A h, min : RecordsOK(h, w, min) => RecordsOK(h, SubSeq(w, extra + 1, Len(w)), min)
           /\ \A cur, n : cur \in {0, Len(w)} /\ Ends(w, cur, n) =>
                Ends(SubSeq(w, extra + 1, Len(w)), IF cur = 0 THEN 0 ELSE cur - extra, n)
<1>0. PICK v, n : v = SubSeq(w, extra + 1, Len(w)) /\ n = Len(w)
  OBVIOUS
<1>1. n \in Nat \ {0} /\ w \in Seq(SegmentFile) /\ extra \in Nat /\ extra < n
  BY <1>0, LogFacts DEF Log
<1>2. v \in Seq(SegmentFile) /\ Len(v) = n - extra /\ \A i \in 1..(n - extra) : v[i] = w[i + extra]
  BY <1>0, <1>1
<1>3. v # <<>> /\ n - extra \in Nat \ {0} /\ \A i \in 1..(n - extra) : i + extra \in 1..n
  BY <1>1, <1>2
<1>4. Log(v)
  <2>1. \A i \in 1..Len(v) : CursorOK(v[i])
    BY <1>0, <1>2, <1>3 DEF Log
  <2>2. ASSUME NEW i \in 1..Len(v), NEW j \in 1..Len(v), i < j  PROVE v[i].start <= v[j].start
    <3>1. /\ v[i] = w[i + extra] /\ v[j] = w[j + extra] /\ i + extra < j + extra
          /\ i + extra \in 1..n /\ j + extra \in 1..n
      BY <1>1, <1>2, <1>3, <2>2
    <3> QED  BY <1>0, <3>1 DEF Log
  <2> QED  BY <1>2, <1>3, <2>1, <2>2 DEF Log
<1>5. ASSUME NEW h, NEW min, RecordsOK(h, w, min)  PROVE RecordsOK(h, v, min)
  <2>1. ASSUME NEW i \in 1..Len(v), Live(v, i, min)  PROVE SegmentOK(h, v[i])
    <3>1. i + extra \in 1..n /\ v[i] = w[i + extra]
      BY <1>2, <1>3
    <3>2. ASSUME NEW j \in ((i + extra) + 1)..n  PROVE w[j].start > min
      <4>1. j - extra \in (i + 1)..Len(v) /\ j - extra \in 1..(n - extra) /\ (j - extra) + extra = j
        BY <1>1, <1>2
      <4>2. v[j - extra] = w[j] /\ v[j - extra].start > min
        BY <1>2, <2>1, <4>1 DEF Live
      <4> QED  BY <4>2
    <3>3. Live(w, i + extra, min)
      BY <1>0, <3>2 DEF Live
    <3> QED  BY <1>0, <1>5, <3>1, <3>3 DEF RecordsOK
  <2> QED  BY <2>1 DEF RecordsOK
<1>6. ASSUME NEW cur, NEW m, cur \in {0, n}, Ends(w, cur, m)
      PROVE  Ends(v, IF cur = 0 THEN 0 ELSE cur - extra, m)
  <2>1. v[Len(v)] = w[n]
    BY <1>1, <1>2, <1>3
  <2>2. ASSUME NEW i \in 1..Len(v)  PROVE v[i].start <= m + 1
    <3>1. i + extra \in 1..n /\ v[i] = w[i + extra]
      BY <1>2, <1>3
    <3> QED  BY <1>0, <1>6, <3>1 DEF Ends
  <2>3. (IF cur = 0 THEN 0 ELSE cur - extra) \in {0, Len(v)}
    BY <1>2, <1>6
  <2>4. /\ w[n].cursor = AtEnd
        /\ m > 0 => \E k \in 1..Len(w[n].recs) : w[n].recs[k].seq >= m
    BY <1>0, <1>6 DEF Ends
  <2> QED  BY <2>1, <2>2, <2>3, <2>4 DEF Ends
<1> QED  BY <1>0, <1>2, <1>4, <1>5, <1>6

\* WalSegment::open_existing on the last file.
LEMMA ResumeFacts ==
    ASSUME NEW w, Log(w), NEW c \in Resumed(Last(w))
    PROVE  /\ Log([w EXCEPT ![Len(w)].cursor = c]) /\ Len([w EXCEPT ![Len(w)].cursor = c]) = Len(w)
           /\ \A h, min : RecordsOK(h, w, min) => RecordsOK(h, [w EXCEPT ![Len(w)].cursor = c], min)
<1>0. PICK v, n : v = [w EXCEPT ![Len(w)].cursor = c] /\ n = Len(w)
  OBVIOUS
<1>1. n \in 1..n /\ w \in Seq(SegmentFile) /\ w[n] \in SegmentFile /\ n \in Nat
  BY <1>0, LogFacts DEF Log
<1>2. PICK s : s = [w[n] EXCEPT !.cursor = c]
  OBVIOUS
<1>3. c \in Resumed(w[n])
  BY <1>0 DEF Last
<1>4. c \in {AtEnd, Beyond} \cup 2..Len(w[n].recs)
  BY <1>3 DEF Resumed
<1>5. w[n].recs \in Seq(Record) /\ w[n].start \in Nat \ {0} /\ c \in Int
  BY <1>1, <1>4 DEF SegmentFile, Records, AtEnd, Beyond
<1>6. s = [start |-> w[n].start, recs |-> w[n].recs, cursor |-> c]
  BY <1>1, <1>2 DEF SegmentFile
<1>7. s \in SegmentFile /\ CursorOK(s) /\ s.start = w[n].start /\ s.recs = w[n].recs
  BY <1>4, <1>5, <1>6 DEF SegmentFile, CursorOK, Records
<1>8. /\ v \in Seq(SegmentFile) /\ Len(v) = n /\ v[n] = s
      /\ \A j \in 1..n : j # n => v[j] = w[j]
  <2>1. v = [w EXCEPT ![n] = s]
    BY <1>0, <1>1, <1>2
  <2> QED  BY <1>0, <1>1, <1>7, <2>1
<1>9. ASSUME NEW j \in 1..n
      PROVE  /\ v[j].start = w[j].start /\ CursorOK(v[j])
             /\ \A h : SegmentOK(h, w[j]) => SegmentOK(h, v[j])
  <2>1. CASE j = n
    BY <1>7, <1>8, <2>1 DEF SegmentOK
  <2>2. CASE j # n
    <3>1. v[j] = w[j] /\ CursorOK(w[j])
      BY <1>0, <1>8, <2>2 DEF Log
    <3> QED  BY <3>1
  <2> QED  BY <2>1, <2>2
<1>10. Log(v)
  BY <1>0, <1>8, <1>9, SameFiles
<1>11. ASSUME NEW h, NEW min, RecordsOK(h, w, min)  PROVE RecordsOK(h, v, min)
  <2>1. \A j \in 1..Len(w) : SegmentOK(h, w[j]) => SegmentOK(h, v[j])
    BY <1>0, <1>9
  <2>2. \A j \in 1..Len(w) : v[j].start = w[j].start /\ CursorOK(v[j])
    BY <1>0, <1>9
  <2>3. v \in Seq(SegmentFile) /\ Len(v) = Len(w)
    BY <1>0, <1>8
  <2> QED  BY <1>11, <2>1, <2>2, <2>3, SameFiles
<1> QED  BY <1>0, <1>8, <1>10, <1>11

\* A record stays good when the history grows.
LEMMA RecordKept ==
    ASSUME NEW h \in Seq(Command), NEW c \in Command, NEW rec \in Record, RecordOK(h, rec)
    PROVE  RecordOK(Append(h, c), rec)
<1>1. CASE rec = Corrupt
  BY <1>1 DEF RecordOK
<1>2. CASE rec # Corrupt
  <2>1. PICK g : g = Append(h, c)
    OBVIOUS
  <2>2. Len(g) = Len(h) + 1 /\ Len(h) \in Nat /\ \A i \in 1..Len(h) : g[i] = h[i]
    BY <2>1
  <2>3. /\ rec.seq \in 1..(Len(h) + 1)
        /\ \/ rec.seq <= Len(h) /\ rec.cmd = h[rec.seq]
           \/ apply_transaction(At(h, rec.seq - 1), rec.cmd).res # "ok"
    BY <1>2 DEF RecordOK
  <2>4. rec.seq - 1 \in 0..Len(h) /\ rec.seq \in 1..(Len(g) + 1)
    BY <2>2, <2>3
  <2>5. At(g, rec.seq - 1) = At(h, rec.seq - 1)
    BY <2>1, <2>4, AtAppend
  <2>6. CASE rec.seq <= Len(h) /\ rec.cmd = h[rec.seq]
    <3>1. rec.seq <= Len(g) /\ rec.cmd = g[rec.seq]
      BY <2>2, <2>3, <2>6
    <3> QED  BY <2>1, <2>4, <3>1 DEF RecordOK
  <2>7. CASE apply_transaction(At(h, rec.seq - 1), rec.cmd).res # "ok"
    BY <2>1, <2>4, <2>5, <2>7 DEF RecordOK
  <2> QED  BY <2>3, <2>6, <2>7
<1> QED  BY <1>1, <1>2

\* It stays good when what follows it is forgotten.
LEMMA RecordCut ==
    ASSUME NEW h \in Seq(Command), NEW n \in 0..Len(h), NEW rec \in Record, RecordOK(h, rec),
           rec # Corrupt, rec.seq <= n
    PROVE  RecordOK(SubSeq(h, 1, n), rec)
<1>1. PICK g : g = SubSeq(h, 1, n)
  OBVIOUS
<1>2. Len(g) = n /\ \A i \in 1..n : g[i] = h[i]
  BY <1>1, AtPrefix
<1>3. /\ rec.seq \in 1..(Len(h) + 1)
      /\ \/ rec.seq <= Len(h) /\ rec.cmd = h[rec.seq]
         \/ apply_transaction(At(h, rec.seq - 1), rec.cmd).res # "ok"
  BY DEF RecordOK
<1>4. rec.seq - 1 \in 0..n /\ rec.seq \in 1..(Len(g) + 1) /\ rec.seq \in 1..n
  BY <1>2, <1>3
<1>5. At(g, rec.seq - 1) = At(h, rec.seq - 1)
  BY <1>1, <1>4, AtPrefix
<1>6. CASE rec.cmd = h[rec.seq]
  <2>1. rec.seq <= Len(g) /\ rec.cmd = g[rec.seq]
    BY <1>2, <1>4, <1>6
  <2> QED  BY <1>1, <1>4, <2>1 DEF RecordOK
<1>7. CASE apply_transaction(At(h, rec.seq - 1), rec.cmd).res # "ok"
  BY <1>1, <1>4, <1>5, <1>7 DEF RecordOK
<1> QED  BY <1>3, <1>6, <1>7

\* The records of a log, for another history or a later start.
LEMMA RecordsKept ==
    ASSUME NEW w, Log(w), NEW h \in Seq(Command), NEW min \in Nat, RecordsOK(h, w, min)
    PROVE  /\ \A c \in Command : RecordsOK(Append(h, c), w, min)
           /\ \A later \in Nat : min <= later => RecordsOK(h, w, later)
<1>1. ASSUME NEW c \in Command  PROVE RecordsOK(Append(h, c), w, min)
  <2>1. ASSUME NEW i \in 1..Len(w), Live(w, i, min)  PROVE SegmentOK(Append(h, c), w[i])
    <3>1. SegmentOK(h, w[i]) /\ w[i].recs \in Seq(Record)
      BY <2>1, LogFacts DEF RecordsOK, Records
    <3>2. ASSUME NEW k \in 1..Len(w[i].recs)  PROVE RecordOK(Append(h, c), w[i].recs[k])
      <4>1. w[i].recs[k] \in Record /\ RecordOK(h, w[i].recs[k])
        BY <3>1 DEF SegmentOK
      <4> QED  BY <4>1, RecordKept
    <3> QED  BY <3>2 DEF SegmentOK
  <2> QED  BY <2>1 DEF RecordsOK
<1>2. ASSUME NEW later \in Nat, min <= later  PROVE RecordsOK(h, w, later)
  <2>1. ASSUME NEW i \in 1..Len(w), Live(w, i, later)  PROVE SegmentOK(h, w[i])
    <3>1. ASSUME NEW j \in (i + 1)..Len(w)  PROVE w[j].start > min
      <4>1. j \in 1..Len(w)
        BY LogFacts
      <4>2. w[j].start \in Nat /\ w[j].start > later
        BY <2>1, <4>1, LogFacts DEF Live
      <4> QED  BY <1>2, <4>2
    <3>2. Live(w, i, min)
      BY <3>1 DEF Live
    <3> QED  BY <3>2 DEF RecordsOK
  <2> QED  BY <2>1 DEF RecordsOK
<1> QED  BY <1>1, <1>2

-----------------------------------------------------------------------------
(***************************************************************************)
(* Snapshots.                                                              *)
(***************************************************************************)
Snapshots(S) == IsFiniteSet(S) /\ \A s \in S : s.seq \in Nat /\ s.accounts \in Table

SnapshotOK(h, s) == s.seq \in 0..Len(h) /\ s.accounts = At(h, s.seq)

\* The newest number.
LEMMA LatestSeqFacts ==
    ASSUME NEW S, Snapshots(S)
    PROVE  /\ LatestSeq(S) \in Nat /\ \A s \in S : s.seq <= LatestSeq(S)
           /\ LatestSeq(S) # 0 => \E s \in S : s.seq = LatestSeq(S)
<1>1. PICK T : T = {0} \cup {s.seq : s \in S}
  OBVIOUS
<1>2. Positions(T) /\ T # {} /\ T \subseteq Nat
  <2>1. IsFiniteSet({s.seq : s \in S})
    <3>1. PICK f, U : f = [s \in S |-> s.seq] /\ U = {s.seq : s \in S}
      OBVIOUS
    <3>2. f \in Surjection(S, U)
      BY <3>1 DEF Surjection
    <3>3. IsFiniteSet(U)
      BY <3>2, FS_Surjection DEF Snapshots
    <3> QED  BY <3>1, <3>3
  <2>2. IsFiniteSet({0} \cup {s.seq : s \in S})
    BY <2>1, FS_Singleton, FS_Union
  <2>3. T \subseteq Nat
    BY <1>1 DEF Snapshots
  <2> QED  BY <1>1, <2>2, <2>3 DEF Positions
<1>3. LatestSeq(S) = Max(T)
  BY <1>1 DEF LatestSeq
<1>4. Max(T) \in T /\ \A y \in T : Max(T) >= y
  BY <1>2, MaxIn
<1>5. ASSUME NEW s \in S  PROVE s.seq <= LatestSeq(S)
  <2>1. s.seq \in T /\ s.seq \in Nat
    BY <1>1, <1>2
  <2> QED  BY <1>2, <1>3, <1>4, <2>1
<1> QED  BY <1>1, <1>2, <1>3, <1>4, <1>5

\* find_latest_snapshot.
LEMMA LatestFacts ==
    ASSUME NEW S, Snapshots(S)
    PROVE  /\ Latest(S).seq = LatestSeq(S) /\ Latest(S).accounts \in Table
           /\ \/ LatestSeq(S) = 0 /\ Latest(S).accounts = NoAccounts
              \/ Latest(S) \in S
<1>1. CASE LatestSeq(S) = 0
  <2>1. Latest(S) = [seq |-> 0, accounts |-> NoAccounts]
    BY <1>1 DEF Latest
  <2> QED  BY <1>1, <2>1, NoAccountsType
<1>2. CASE LatestSeq(S) # 0
  <2>1. Latest(S) = CHOOSE s \in S : s.seq = LatestSeq(S)
    BY <1>2 DEF Latest
  <2>2. \E s \in S : s.seq = LatestSeq(S)
    BY <1>2, LatestSeqFacts
  <2>3. Latest(S) \in S /\ Latest(S).seq = LatestSeq(S)
    BY <2>1, <2>2
  <2> QED  BY <2>3 DEF Snapshots
<1> QED  BY <1>1, <1>2

\* Of more snapshots the newest is not older.
LEMMA LatestSeqMono ==
    ASSUME NEW S, Snapshots(S), NEW T, Snapshots(T), \A s \in S : \E t \in T : s.seq <= t.seq
    PROVE  LatestSeq(S) <= LatestSeq(T)
<1>1. LatestSeq(S) \in Nat /\ LatestSeq(T) \in Nat
  BY LatestSeqFacts
<1>2. CASE LatestSeq(S) = 0
  BY <1>1, <1>2
<1>3. CASE LatestSeq(S) # 0
  <2>1. PICK s \in S : s.seq = LatestSeq(S)
    BY <1>3, LatestSeqFacts
  <2>2. PICK t \in T : s.seq <= t.seq
    OBVIOUS
  <2>3. t.seq <= LatestSeq(T) /\ t.seq \in Nat
    BY LatestSeqFacts DEF Snapshots
  <2> QED  BY <1>1, <2>1, <2>2, <2>3
<1> QED  BY <1>2, <1>3

\* Deleting old snapshots leaves the newest one.
LEMMA KeptFacts ==
    ASSUME NEW S, Snapshots(S)
    PROVE  /\ Kept(S) \subseteq S /\ Snapshots(Kept(S)) /\ LatestSeq(S) <= LatestSeq(Kept(S))
<1>1. Kept(S) \subseteq S
  BY DEF Kept
<1>2. Snapshots(Kept(S))
  <2>1. IsFiniteSet(Kept(S))
    BY <1>1, FS_Subset DEF Snapshots
  <2> QED  BY <1>1, <2>1 DEF Snapshots
<1>3. ASSUME NEW s \in S  PROVE \E t \in Kept(S) : s.seq <= t.seq
  <2>0. LatestSeq(S) \in Nat /\ s.seq \in Nat /\ s.seq <= LatestSeq(S)
    BY LatestSeqFacts DEF Snapshots
  <2>1. PICK t \in S : t.seq = LatestSeq(S)
    <3>1. CASE LatestSeq(S) = 0
      BY <2>0, <3>1
    <3>2. CASE LatestSeq(S) # 0
      BY <3>2, LatestSeqFacts
    <3> QED  BY <3>1, <3>2
  <2>2. PICK newer : newer = {u \in S : u.seq > t.seq}
    OBVIOUS
  <2>3. newer = {}
    <3>1. \A u \in S : u.seq \in Nat /\ u.seq <= t.seq
      BY <2>1, LatestSeqFacts DEF Snapshots
    <3> QED  BY <2>0, <2>1, <2>2, <3>1
  <2>4. Cardinality(newer) = 0
    BY <2>3, FS_EmptySet
  <2>5. 0 < SnapshotRetention
    BY LedgerAssumption
  <2>6. t \in Kept(S)
    BY <2>2, <2>4, <2>5 DEF Kept
  <2> QED  BY <2>0, <2>1, <2>6
<1> QED  BY <1>1, <1>2, <1>3, LatestSeqMono

\* What a replay from the newest snapshot comes to.
LEMMA RecoveredFacts ==
    ASSUME Log(wals), Snapshots(snaps)
    PROVE  /\ Recovered \in Replay
           /\ Recovered.res = "ok" =>
                /\ LatestSeq(snaps) <= Recovered.seq
                /\ \A i \in 1..Len(wals) : Live(wals, i, LatestSeq(snaps)) =>
                     \A k \in 1..Len(wals[i].recs) :
                        wals[i].recs[k] # Corrupt /\ wals[i].recs[k].seq <= Recovered.seq
           /\ \A h \in Seq(Command) :
                /\ Accepted(h) /\ RecordsOK(h, wals, LatestSeq(snaps))
                /\ \A s \in snaps : SnapshotOK(h, s)
                => Sound(h, Recovered)
<1>0. PICK s, min, r, v, q : /\ s = Latest(snaps) /\ min = LatestSeq(snaps)
                             /\ r = [res |-> "ok", seq |-> s.seq, acc |-> s.accounts]
                             /\ v = Replayed(wals, s.seq) /\ q = Recovered
  OBVIOUS
<1>1. q = RedoLog(r, v)
  BY <1>0 DEF Recovered, RedoLog
<1>2. /\ min \in Nat /\ s.seq = min /\ s.accounts \in Table
      /\ (min = 0 /\ s.accounts = NoAccounts) \/ s \in snaps
  BY <1>0, LatestFacts, LatestSeqFacts
<1>3. r \in Replay /\ r.seq = min
  BY <1>0, <1>2 DEF Replay, Outcome
<1>4. /\ v \in Seq(SegmentFile)
      /\ \A i \in 1..Len(wals) : Live(wals, i, min) => \E j \in 1..Len(v) : v[j] = wals[i]
      /\ \A j \in 1..Len(v) : \E i \in 1..Len(wals) : Live(wals, i, min) /\ v[j] = wals[i]
  <2>1. v = Replayed(wals, min)
    BY <1>0, <1>2
  <2> QED  BY <1>2, <2>1, ReplayedFacts
<1>5. /\ q \in Replay
      /\ q.res = "ok" => min <= q.seq /\ \A j \in 1..Len(v) : Covers(r, q, v[j].recs)
  BY <1>1, <1>3, <1>4, RedoSegments
<1>6. ASSUME q.res = "ok", NEW i \in 1..Len(wals), Live(wals, i, min),
             NEW k \in 1..Len(wals[i].recs)
      PROVE  wals[i].recs[k] # Corrupt /\ wals[i].recs[k].seq <= q.seq
  <2>1. PICK j \in 1..Len(v) : v[j] = wals[i]
    BY <1>4, <1>6
  <2>2. Covers(r, q, wals[i].recs)
    BY <1>5, <1>6, <2>1
  <2> QED  BY <1>6, <2>2 DEF Covers
<1>7. ASSUME NEW h \in Seq(Command), Accepted(h), RecordsOK(h, wals, min),
             \A t \in snaps : SnapshotOK(h, t)
      PROVE  Sound(h, q)
  <2>1. Sound(h, r)
    <3>1. s.seq <= Len(h) /\ s.accounts = At(h, s.seq)
      <4>1. CASE min = 0 /\ s.accounts = NoAccounts
        BY <1>2, <4>1, AtFacts
      <4>2. CASE s \in snaps
        BY <1>7, <4>2 DEF SnapshotOK
      <4> QED  BY <1>2, <4>1, <4>2
    <3> QED  BY <1>0, <1>3, <3>1 DEF Sound
  <2>2. ASSUME NEW j \in 1..Len(v)
        PROVE  \A k \in 1..Len(v[j].recs) : RecordOK(h, v[j].recs[k])
    <3>1. PICK i \in 1..Len(wals) : Live(wals, i, min) /\ v[j] = wals[i]
      BY <1>4
    <3>2. SegmentOK(h, wals[i])
      BY <1>7, <3>1 DEF RecordsOK
    <3> QED  BY <3>1, <3>2 DEF SegmentOK
  <2>3. Sound(h, RedoLog(r, v))
    BY <1>4, <1>7, <2>1, <2>2, SegmentsSound
  <2> QED  BY <1>1, <2>3
<1> QED  BY <1>0, <1>5, <1>6, <1>7

-----------------------------------------------------------------------------
(***************************************************************************)
(* The inductive invariant.                                                *)
(***************************************************************************)
LogInv == Log(wals) /\ current \in {Unlinked} \cup 0..Len(wals)

TypeInv ==
    /\ status \in {"up", "down", "failed"}
    /\ accounts \in Table /\ last_seq \in Nat
    /\ restarts \in Nat /\ lost \in 0..restarts
    /\ cleanup \in BOOLEAN /\ stained \in BOOLEAN /\ doubled \in BOOLEAN
    /\ Snapshots(snaps) /\ \A s \in threads : s.seq \in Nat /\ s.accounts \in Table
    /\ batch \in [cmds : Seq(Command), logged : Nat, delta : Table]
    /\ batch.logged <= Len(batch.cmds)
    /\ history \in Seq(Command) /\ Len(history) + (Len(batch.cmds) - batch.logged) <= MaxSeq
    /\ status # "up" => threads = {} /\ batch = NoBatch

\* the commands of the calls
Issued == {c \in Command : c \in Commands \/ \E b \in Batches : \E i \in 1..Len(b) : b[i] = c}

IssuedInv ==
    /\ \A i \in 1..Len(history) : history[i] \in Issued
    /\ \A i \in 1..Len(batch.cmds) : batch.cmds[i] \in Issued

\* the commands of the batch under way end the history as far as they are logged
BatchInv ==
    /\ EndsWith(history, batch.cmds, batch.logged)
    /\ accounts = At(history, Len(history) - batch.logged)
    /\ ApplyAll(accounts, batch.cmds).acc = batch.delta

\* what is in memory
Running ==
    status = "up" => /\ last_seq = Len(history)
                     /\ batch = NoBatch => accounts = StateAt(history)
                     /\ batch # NoBatch => BatchInv

\* what a restart finds
Recoverable ==
    /\ RecordsOK(history, wals, LatestSeq(snaps))
    /\ \A s \in snaps \cup threads : SnapshotOK(history, s)
    /\ Accepted(history)

HistoryInv == ~stained => Running /\ Recoverable

\* before the first restart the last segment ends with what was accepted last
FirstInv ==
    restarts = 0 /\ ~doubled =>
        /\ status # "failed"
        /\ status = "up" => last_seq = Len(history)
        /\ Ends(wals, current, Len(history))

IndInv == LogInv /\ TypeInv /\ IssuedInv /\ HistoryInv /\ FirstInv /\ FirstRestartKeepsAll

\* No batch.
LEMMA NoBatchFacts ==
    /\ NoBatch \in [cmds : Seq(Command), logged : Nat, delta : Table]
    /\ NoBatch.cmds = <<>> /\ Len(NoBatch.cmds) = 0 /\ NoBatch.logged = 0
<1>1. <<>> \in Seq(Command) /\ Len(<<>>) = 0
  OBVIOUS
<1> QED  BY <1>1, NoAccountsType DEF NoBatch

\* The invariant holds at the start.
LEMMA IndInvInit == Init => IndInv
<1> SUFFICES ASSUME Init  PROVE IndInv
  OBVIOUS
<1>1. LogInv
  <2>1. Segment(1) \in SegmentFile /\ CursorOK(Segment(1))
    BY NewSegment
  <2>2. wals \in Seq(SegmentFile) /\ Len(wals) = 1 /\ wals[1] = Segment(1)
    BY <2>1 DEF Init
  <2>3. wals # <<>> /\ \A i \in 1..Len(wals) : i = 1
    BY <2>2
  <2>4. \A i, j \in 1..Len(wals) : i < j => wals[i].start <= wals[j].start
    BY <2>3
  <2> QED  BY <2>1, <2>2, <2>3, <2>4 DEF LogInv, Log, Init
<1>2. history = <<>> /\ <<>> \in Seq(Command) /\ Len(<<>>) = 0
  BY DEF Init
<1>3. Snapshots({})
  BY FS_EmptySet DEF Snapshots
<1>4. TypeInv
  <2>1. /\ batch \in [cmds : Seq(Command), logged : Nat, delta : Table]
        /\ batch.logged = 0 /\ Len(batch.cmds) = 0
    BY NoBatchFacts DEF Init
  <2>2. history \in Seq(Command) /\ Len(history) = 0
    BY <1>2
  <2>3. Len(history) + (Len(batch.cmds) - batch.logged) <= MaxSeq
    BY <2>1, <2>2, LedgerAssumption
  <2>4. /\ status = "up" /\ accounts \in Table /\ last_seq \in Nat
        /\ restarts \in Nat /\ lost \in 0..restarts /\ threads = {}
    BY NoAccountsType DEF Init
  <2>5. cleanup \in BOOLEAN /\ stained \in BOOLEAN /\ doubled \in BOOLEAN
    BY DEF Init
  <2>6. Snapshots(snaps)
    BY <1>3 DEF Init
  <2>7. batch.logged <= Len(batch.cmds)
    BY <2>1
  <2> QED  BY <2>1, <2>2, <2>3, <2>4, <2>5, <2>6, <2>7 DEF TypeInv
<1>5. IssuedInv
  BY <1>2, NoBatchFacts DEF IssuedInv, Init
<1>6. HistoryInv
  <2>1. accounts = StateAt(history)
    BY <1>2, StateFacts DEF Init
  <2>2. \A h : SegmentOK(h, wals[1])
    BY NewSegment DEF Init
  <2>3. RecordsOK(history, wals, LatestSeq(snaps))
    BY <2>2 DEF RecordsOK, Init
  <2>4. Accepted(history)
    BY <1>2 DEF Accepted
  <2> QED  BY <1>2, <2>1, <2>3, <2>4 DEF HistoryInv, Running, Recoverable, Init
<1>7. FirstInv
  <2>1. wals[Len(wals)] = Segment(1) /\ Len(wals) = 1 /\ Segment(1).cursor = AtEnd /\ Segment(1).start = 1
    BY NewSegment DEF Init
  <2> QED  BY <1>2, <2>1 DEF FirstInv, Ends, Init
<1>8. FirstRestartKeepsAll
  BY DEF FirstRestartKeepsAll, Init
<1> QED  BY <1>1, <1>4, <1>5, <1>6, <1>7, <1>8 DEF IndInv

\* A snapshot stays good when the history grows.
LEMMA SnapshotKept ==
    ASSUME NEW h \in Seq(Command), NEW c \in Command, NEW s, SnapshotOK(h, s)
    PROVE  SnapshotOK(Append(h, c), s)
<1>1. Len(Append(h, c)) = Len(h) + 1 /\ Len(h) \in Nat
  OBVIOUS
<1>2. At(Append(h, c), s.seq) = At(h, s.seq)
  BY AtAppend DEF SnapshotOK
<1> QED  BY <1>1, <1>2 DEF SnapshotOK

\* A command that is logged and accepted.
LEMMA Grows ==
    ASSUME IndInv, NEW c \in Command, NEW rec, rec = [seq |-> last_seq + 1, cmd |-> c],
           current # 0, WalAppend(rec), history' = Append(history, c),
           ~stained => /\ last_seq = Len(history)
                       /\ apply_transaction(StateAt(history), c).res = "ok",
           UNCHANGED <<snaps, threads>>
    PROVE  /\ LogInv' /\ cleanup' \in BOOLEAN /\ doubled' \in BOOLEAN /\ (doubled => doubled')
           /\ ~stained => Recoverable'
           /\ ~doubled' /\ last_seq = Len(history) /\ Ends(wals, current, Len(history)) =>
                 Ends(wals', current', Len(history'))
<1>0. /\ Log(wals) /\ current \in {Unlinked} \cup 0..Len(wals) /\ last_seq \in Nat
      /\ cleanup \in BOOLEAN /\ doubled \in BOOLEAN /\ history \in Seq(Command) /\ Snapshots(snaps)
  BY DEF IndInv, LogInv, TypeInv
<1>1. rec \in [seq : Nat \ {0}, cmd : Command] /\ rec.seq = last_seq + 1 /\ rec.cmd = c
  BY <1>0
<1>2. /\ Log(wals') /\ current' \in {Unlinked} \cup 1..Len(wals')
      /\ cleanup' \in BOOLEAN /\ doubled' \in BOOLEAN /\ (doubled => doubled')
      /\ \A h, min : RecordsOK(h, wals, min) /\ RecordOK(h, rec) => RecordsOK(h, wals', min)
      /\ \A n \in Nat : \A m \in {n, n + 1} :
           ~doubled' /\ rec.seq = n + 1 /\ Ends(wals, current, n) => Ends(wals', current', m)
  BY <1>0, <1>1, WalAppendFacts
<1>3. Len(history) \in Nat /\ Len(history') = Len(history) + 1 /\ history'[Len(history) + 1] = c
  BY <1>0
<1>4. LogInv'
  <2>1. Len(wals') \in Nat
    BY <1>2, LogFacts
  <2> QED  BY <1>2, <2>1 DEF LogInv
<1>5. ASSUME ~stained  PROVE Recoverable'
  <2>1. Running /\ Recoverable
    BY <1>5 DEF IndInv, HistoryInv
  <2>2. RecordOK(history', rec)
    <3>1. rec.seq = Len(history) + 1
      BY <1>1, <1>5
    <3>2. rec.seq \in 1..(Len(history') + 1) /\ rec.seq <= Len(history') /\ rec.cmd = history'[rec.seq]
      BY <1>1, <1>3, <3>1
    <3> QED  BY <3>2 DEF RecordOK
  <2>3. LatestSeq(snaps) \in Nat
    BY <1>0, LatestSeqFacts
  <2>4. RecordsOK(history', wals, LatestSeq(snaps))
    BY <1>0, <2>1, <2>3, RecordsKept DEF Recoverable
  <2>5. RecordsOK(history', wals', LatestSeq(snaps))
    BY <1>2, <2>2, <2>4
  <2>6. \A s \in snaps \cup threads : SnapshotOK(history', s)
    BY <1>0, <2>1, SnapshotKept DEF Recoverable
  <2>7. Accepted(history')
    BY <1>0, <1>5, <2>1, AcceptedFacts DEF Recoverable
  <2> QED  BY <2>5, <2>6, <2>7 DEF Recoverable
<1>6. ASSUME ~doubled', last_seq = Len(history), Ends(wals, current, Len(history))
      PROVE  Ends(wals', current', Len(history'))
  <2>1. Len(history') \in {Len(history), Len(history) + 1} /\ rec.seq = Len(history) + 1
    BY <1>1, <1>3, <1>6
  <2> QED  BY <1>2, <1>3, <1>6, <2>1
<1> QED  BY <1>2, <1>4, <1>5, <1>6

\* The history keeps to the commands of the calls.
LEMMA IssuedGrows ==
    ASSUME IssuedInv, history \in Seq(Command), NEW c \in Issued, history' = Append(history, c),
           batch'.cmds = batch.cmds
    PROVE  IssuedInv'
<1>1. ASSUME NEW i \in 1..Len(history')  PROVE history'[i] \in Issued
  <2>0. Len(history') = Len(history) + 1 /\ c \in Command
    BY DEF Issued
  <2>1. CASE i = Len(history) + 1
    BY <2>1 DEF Issued
  <2>2. CASE i # Len(history) + 1
    <3>1. i \in 1..Len(history) /\ history'[i] = history[i]
      BY <2>0, <2>2
    <3> QED  BY <3>1 DEF IssuedInv
  <2> QED  BY <2>1, <2>2
<1> QED  BY <1>1 DEF IssuedInv

-----------------------------------------------------------------------------
(***************************************************************************)
(* The invariant is preserved, action by action.                           *)
(***************************************************************************)

\* A command that is accepted.
LEMMA ApplyStep ==
    ASSUME IndInv, NEW c \in Commands, Apply(c)
    PROVE  IndInv'
<1>0. /\ LogInv /\ TypeInv /\ IssuedInv /\ HistoryInv /\ FirstInv /\ FirstRestartKeepsAll
      /\ c \in Command /\ c \in Issued
  BY LedgerAssumption DEF IndInv, Issued
<1>1. PICK r : r = apply_transaction(accounts, c)
  OBVIOUS
<1>2. /\ status = "up" /\ batch = NoBatch /\ current # 0 /\ Len(history) < MaxSeq
      /\ WalAppend([seq |-> last_seq + 1, cmd |-> c]) /\ r.res = "ok"
      /\ accounts' = r.acc /\ last_seq' = last_seq + 1 /\ history' = Append(history, c)
  BY <1>1 DEF Apply, Idle
<1>3. /\ status' = status /\ snaps' = snaps /\ threads' = threads /\ batch' = batch
      /\ stained' = stained /\ lost' = lost /\ restarts' = restarts
  BY DEF Apply, snapshots
<1>4. accounts \in Table /\ last_seq \in Nat /\ history \in Seq(Command) /\ stained \in BOOLEAN
  BY <1>0 DEF TypeInv
<1>5. ~stained => /\ last_seq = Len(history) /\ accounts = StateAt(history)
                  /\ apply_transaction(StateAt(history), c).res = "ok"
  BY <1>0, <1>1, <1>2 DEF HistoryInv, Running
<1>6. /\ LogInv' /\ cleanup' \in BOOLEAN /\ doubled' \in BOOLEAN /\ (doubled => doubled')
      /\ ~stained => Recoverable'
      /\ ~doubled' /\ last_seq = Len(history) /\ Ends(wals, current, Len(history)) =>
            Ends(wals', current', Len(history'))
  BY <1>0, <1>2, <1>3, <1>5, Grows
<1>7. Len(history') = Len(history) + 1 /\ Len(history) \in Nat /\ history' \in Seq(Command)
  BY <1>0, <1>2, <1>4
<1>8. TypeInv'
  <2>1. accounts' \in Table
    BY <1>0, <1>1, <1>2, <1>4, TransactionType
  <2>2. Len(history') + (Len(batch'.cmds) - batch'.logged) <= MaxSeq
    BY <1>2, <1>3, <1>7, NoBatchFacts, LedgerAssumption
  <2> QED  BY <1>0, <1>2, <1>3, <1>6, <1>7, <2>1, <2>2 DEF TypeInv
<1>9. IssuedInv'
  BY <1>0, <1>2, <1>3, <1>4, IssuedGrows
<1>10. HistoryInv'
  <2>1. ASSUME ~stained  PROVE Running'
    <3>1. StateAt(history') = r.acc
      BY <1>0, <1>1, <1>2, <1>4, <1>5, <2>1, AtAppend
    <3>2. last_seq' = Len(history')
      BY <1>2, <1>5, <1>7, <2>1
    <3> QED  BY <1>2, <1>3, <3>1, <3>2 DEF Running
  <2> QED  BY <1>3, <1>6, <2>1 DEF HistoryInv
<1>11. FirstInv'
  BY <1>0, <1>2, <1>3, <1>6, <1>7 DEF FirstInv
<1>12. FirstRestartKeepsAll'
  BY <1>0, <1>3, <1>6 DEF FirstRestartKeepsAll
<1> QED  BY <1>6, <1>8, <1>9, <1>10, <1>11, <1>12 DEF IndInv

\* The record of a command that fails on what was accepted.
LEMMA FailedRecord ==
    ASSUME NEW h \in Seq(Command), NEW rec, rec.seq = Len(h) + 1,
           apply_transaction(StateAt(h), rec.cmd).res # "ok"
    PROVE  RecordOK(h, rec)
<1>1. rec.seq \in 1..(Len(h) + 1) /\ rec.seq - 1 = Len(h)
  OBVIOUS
<1>2. At(h, rec.seq - 1) = StateAt(h)
  BY <1>1, AtFacts
<1> QED  BY <1>1, <1>2 DEF RecordOK

\* A command that is refused: its record stays.
LEMMA ApplyRefusedStep ==
    ASSUME IndInv, NEW c \in Commands, ApplyRefused(c)
    PROVE  IndInv'
<1>0. /\ LogInv /\ TypeInv /\ IssuedInv /\ HistoryInv /\ FirstInv /\ FirstRestartKeepsAll
      /\ c \in Command
  BY LedgerAssumption DEF IndInv
<1>1. PICK r, rec : r = apply_transaction(accounts, c) /\ rec = [seq |-> last_seq + 1, cmd |-> c]
  OBVIOUS
<1>2. /\ status = "up" /\ batch = NoBatch /\ current # 0
      /\ WalAppend(rec) /\ r.res = "err"
      /\ accounts' = r.acc /\ stained' = (stained \/ r.acc # accounts)
  BY <1>1 DEF ApplyRefused, Idle
<1>3. /\ status' = status /\ snaps' = snaps /\ threads' = threads /\ batch' = batch
      /\ last_seq' = last_seq /\ history' = history /\ lost' = lost /\ restarts' = restarts
  BY DEF ApplyRefused, snapshots
<1>4. /\ accounts \in Table /\ last_seq \in Nat /\ history \in Seq(Command) /\ stained \in BOOLEAN
      /\ Log(wals) /\ current \in {Unlinked} \cup 0..Len(wals)
      /\ cleanup \in BOOLEAN /\ doubled \in BOOLEAN
  BY <1>0 DEF TypeInv, LogInv
<1>5. rec \in [seq : Nat \ {0}, cmd : Command] /\ rec.seq = last_seq + 1 /\ rec.cmd = c
  BY <1>0, <1>1, <1>4
<1>6. /\ Log(wals') /\ current' \in {Unlinked} \cup 1..Len(wals')
      /\ cleanup' \in BOOLEAN /\ doubled' \in BOOLEAN /\ (doubled => doubled')
      /\ \A h, min : RecordsOK(h, wals, min) /\ RecordOK(h, rec) => RecordsOK(h, wals', min)
      /\ \A n \in Nat : \A m \in {n, n + 1} :
           ~doubled' /\ rec.seq = n + 1 /\ Ends(wals, current, n) => Ends(wals', current', m)
  BY <1>2, <1>4, <1>5, WalAppendFacts
<1>7. LogInv'
  <2>1. Len(wals') \in Nat
    BY <1>6, LogFacts
  <2> QED  BY <1>6, <2>1 DEF LogInv
<1>8. stained' \in BOOLEAN /\ (~stained' => ~stained /\ accounts' = accounts)
  BY <1>2, <1>4
<1>9. TypeInv'
  <2>1. accounts' \in Table
    BY <1>0, <1>1, <1>2, <1>4, TransactionType
  <2> QED  BY <1>0, <1>2, <1>3, <1>6, <1>8, <2>1 DEF TypeInv
<1>10. IssuedInv'
  BY <1>0, <1>3 DEF IssuedInv
<1>11. HistoryInv'
  <2> SUFFICES ASSUME ~stained'  PROVE Running' /\ Recoverable'
    BY DEF HistoryInv
  <2>1. Running /\ Recoverable /\ accounts' = accounts
    BY <1>0, <1>8 DEF HistoryInv
  <2>2. Running'
    BY <1>2, <1>3, <2>1 DEF Running
  <2>3. RecordOK(history, rec)
    <3>1. last_seq = Len(history) /\ accounts = StateAt(history)
      BY <1>2, <2>1 DEF Running
    <3> QED  BY <1>1, <1>2, <1>4, <1>5, <3>1, FailedRecord
  <2>4. Recoverable'
    BY <1>3, <1>6, <2>1, <2>3 DEF Recoverable
  <2> QED  BY <2>2, <2>4
<1>12. FirstInv'
  <2> SUFFICES ASSUME restarts = 0, ~doubled'
               PROVE  /\ status' # "failed" /\ last_seq' = Len(history')
                      /\ Ends(wals', current', Len(history'))
    BY <1>3 DEF FirstInv
  <2>1. last_seq = Len(history) /\ Ends(wals, current, Len(history))
    BY <1>0, <1>2, <1>6 DEF FirstInv
  <2>2. Len(history) \in Nat /\ rec.seq = Len(history) + 1
    BY <1>4, <1>5, <2>1
  <2>3. Ends(wals', current', Len(history))
    BY <1>6, <2>1, <2>2
  <2> QED  BY <1>2, <1>3, <2>1, <2>3
<1>13. FirstRestartKeepsAll'
  BY <1>0, <1>3, <1>6 DEF FirstRestartKeepsAll
<1> QED  BY <1>7, <1>9, <1>10, <1>11, <1>12, <1>13 DEF IndInv

\* What is in memory is gone.
LEMMA DiesStep ==
    ASSUME IndInv, status = "up", Dies, current' = 0,
           UNCHANGED <<snaps, history, stained, lost, restarts>>,
           doubled' \in BOOLEAN, doubled => doubled',
           Log(wals'), ~stained => RecordsOK(history, wals', LatestSeq(snaps)),
           restarts = 0 /\ ~doubled' => Ends(wals', 0, Len(history))
    PROVE  IndInv'
<1>0. LogInv /\ TypeInv /\ IssuedInv /\ HistoryInv /\ FirstInv /\ FirstRestartKeepsAll
  BY DEF IndInv
<1>1. /\ status' = "down" /\ accounts' = NoAccounts /\ last_seq' = 0
      /\ cleanup' = FALSE /\ threads' = {} /\ batch' = NoBatch
  BY DEF Dies
<1>2. LogInv'
  <2>1. Len(wals') \in Nat
    BY LogFacts
  <2> QED  BY <2>1 DEF LogInv
<1>3. TypeInv'
  <2>1. /\ batch' \in [cmds : Seq(Command), logged : Nat, delta : Table]
        /\ batch'.logged = 0 /\ Len(batch'.cmds) = 0
    BY <1>1, NoBatchFacts
  <2>2. Len(history') + (Len(batch'.cmds) - batch'.logged) <= MaxSeq
    <3>1. /\ Len(history) \in Nat /\ Len(batch.cmds) \in Nat /\ batch.logged \in Nat
          /\ batch.logged <= Len(batch.cmds)
          /\ Len(history) + (Len(batch.cmds) - batch.logged) <= MaxSeq
      BY <1>0 DEF TypeInv
    <3> QED  BY <2>1, <3>1, LedgerAssumption
  <2>3. cleanup' \in BOOLEAN
    BY <1>1
  <2>4. accounts' \in Table /\ last_seq' \in Nat /\ batch'.logged <= Len(batch'.cmds)
    BY <1>1, <2>1, NoAccountsType
  <2> QED  BY <1>0, <1>1, <2>1, <2>2, <2>3, <2>4 DEF TypeInv
<1>4. IssuedInv'
  BY <1>0, <1>1, NoBatchFacts DEF IssuedInv
<1>5. HistoryInv'
  <2> SUFFICES ASSUME ~stained  PROVE Running' /\ Recoverable'
    BY DEF HistoryInv
  <2>1. Recoverable
    BY <1>0 DEF HistoryInv
  <2> QED  BY <1>1, <2>1 DEF Running, Recoverable
<1>6. FirstInv'
  BY <1>1 DEF FirstInv
<1>7. FirstRestartKeepsAll'
  BY <1>0 DEF FirstRestartKeepsAll
<1> QED  BY <1>2, <1>3, <1>4, <1>5, <1>6, <1>7 DEF IndInv

\* A command that panics: its record stays.
LEMMA ApplyPanicsStep ==
    ASSUME IndInv, NEW c \in Commands, ApplyPanics(c)
    PROVE  IndInv'
<1>0. /\ LogInv /\ TypeInv /\ HistoryInv /\ FirstInv /\ c \in Command
  BY LedgerAssumption DEF IndInv
<1>1. PICK rec : rec = [seq |-> last_seq + 1, cmd |-> c]
  OBVIOUS
<1>2. /\ status = "up" /\ batch = NoBatch /\ current # 0
      /\ apply_transaction(accounts, c).res = "panic"
      /\ Dies /\ current' = 0
      /\ UNCHANGED <<snaps, history, stained, lost, restarts>>
  BY <1>1 DEF ApplyPanics, Idle
<1>3. /\ last_seq \in Nat /\ history \in Seq(Command) /\ Log(wals) /\ Len(wals) \in Nat
      /\ current \in {Unlinked} \cup 1..Len(wals) /\ doubled \in BOOLEAN
  <2>1. Len(wals) \in Nat
    BY <1>0, LogFacts DEF LogInv
  <2> QED  BY <1>0, <1>2, <2>1 DEF TypeInv, LogInv
<1>4. rec \in Record /\ rec.seq = last_seq + 1 /\ rec.cmd = c /\ rec.seq \in Nat \ {0}
  BY <1>0, <1>1, <1>3 DEF Record
<1>5. ~stained => /\ RecordsOK(history, wals, LatestSeq(snaps)) /\ RecordOK(history, rec)
  <2> SUFFICES ASSUME ~stained
               PROVE  RecordsOK(history, wals, LatestSeq(snaps)) /\ RecordOK(history, rec)
    OBVIOUS
  <2>1. last_seq = Len(history) /\ accounts = StateAt(history) /\ RecordsOK(history, wals, LatestSeq(snaps))
    BY <1>0, <1>2 DEF HistoryInv, Running, Recoverable
  <2> QED  BY <1>2, <1>3, <1>4, <2>1, FailedRecord
<1>6. restarts = 0 /\ ~doubled => /\ rec.seq = Len(history) + 1 /\ Len(history) \in Nat
                                  /\ Ends(wals, current, Len(history))
  BY <1>0, <1>2, <1>3, <1>4 DEF FirstInv
<1>7. CASE wals' = LogInto(wals, current, rec) /\ UNCHANGED <<doubled, rotations>>
  <2>1. /\ Log(wals')
        /\ \A h, min : RecordsOK(h, wals, min) /\ RecordOK(h, rec) => RecordsOK(h, wals', min)
    BY <1>3, <1>4, <1>7, LogIntoFacts
  <2>2. ASSUME restarts = 0, ~doubled  PROVE Ends(wals', 0, Len(history))
    <3>1. Ends(wals', current, Len(history))
      BY <1>2, <1>3, <1>4, <1>6, <1>7, <2>2, EndsLogInto
    <3> QED  BY <3>1 DEF Ends
  <2> QED  BY <1>2, <1>3, <1>5, <1>7, <2>1, <2>2, DiesStep
<1>8. ASSUME Rotates(rec), NEW p \in Places(wals, rec.seq), NEW w, w = Rotated(p, rec),
             wals' \in {w, Retained(w)}
      PROVE  IndInv'
  <2>1. PICK v : v = InsertAt(wals, p, Segment(rec.seq))
    OBVIOUS
  <2>2. /\ p \in 1..(Len(wals) + 1) /\ Log(v) /\ Len(v) = Len(wals) + 1
        /\ \A h, min : RecordsOK(h, wals, min) => RecordsOK(h, v, min)
    BY <1>3, <1>4, <1>8, <2>1, InsertFacts
  <2>3. w = LogInto(v, p, rec) /\ p \in {Unlinked} \cup 1..Len(v)
    BY <1>8, <2>1, <2>2 DEF Rotated
  <2>4. /\ Log(w)
        /\ \A h, min : RecordsOK(h, v, min) /\ RecordOK(h, rec) => RecordsOK(h, w, min)
    BY <1>4, <2>2, <2>3, LogIntoFacts
  <2>5. doubled' \in BOOLEAN /\ (doubled => doubled')
    BY <1>3, <1>8 DEF Rotates
  <2>6. ASSUME restarts = 0, ~doubled'  PROVE Ends(w, 0, Len(history))
    <3>1. \A i \in 1..Len(wals) : wals[i].start # Len(history) + 1
      BY <1>3, <1>6, <1>8, <2>5, <2>6, LogFacts DEF Rotates
    <3>2. PICK n \in Nat : n = Len(history)
      BY <1>3
    <3>3. rec.seq = n + 1 /\ Ends(wals, current, n)
      BY <1>6, <2>5, <2>6, <3>2
    <3>4. Ends(LogInto(InsertAt(wals, p, Segment(n + 1)), p, rec), p, n)
      BY <1>3, <1>4, <1>8, <3>1, <3>2, <3>3, EndsInsert
    <3> QED  BY <1>8, <3>2, <3>3, <3>4 DEF Ends, Rotated
  <2>7. /\ Log(Retained(w))
        /\ \A h, min : RecordsOK(h, w, min) => RecordsOK(h, Retained(w), min)
        /\ \A n : Ends(w, 0, n) => Ends(Retained(w), 0, n)
    <3>1. Len(w) \in Nat \ {0}
      BY <2>4, LogFacts
    <3>2. Extra(w) \in 0..(Len(w) - 1)
      BY <3>1, LedgerAssumption DEF Extra
    <3> QED  BY <2>4, <3>2, CutFacts DEF Retained
  <2>8. Log(wals') /\ (~stained => RecordsOK(history, wals', LatestSeq(snaps)))
    BY <1>5, <1>8, <2>2, <2>4, <2>7
  <2>9. restarts = 0 /\ ~doubled' => Ends(wals', 0, Len(history))
    BY <1>8, <2>6, <2>7
  <2> QED  BY <1>2, <2>5, <2>8, <2>9, DiesStep
<1> QED  BY <1>1, <1>7, <1>8 DEF ApplyPanics

\* A crash.
LEMMA CrashStep ==
    ASSUME IndInv, Crash
    PROVE  IndInv'
<1>1. /\ status = "up" /\ Dies /\ current' = 0 /\ wals' = wals
      /\ UNCHANGED <<snaps, history, stained, lost, doubled, restarts>>
  BY DEF Crash
<1>2. LogInv /\ HistoryInv /\ FirstInv
  BY DEF IndInv
<1>3. Log(wals') /\ (~stained => RecordsOK(history, wals', LatestSeq(snaps)))
  BY <1>1, <1>2 DEF LogInv, HistoryInv, Recoverable
<1>4. restarts = 0 /\ ~doubled' => Ends(wals', 0, Len(history))
  BY <1>1, <1>2 DEF FirstInv, Ends
<1>5. doubled' \in BOOLEAN /\ (doubled => doubled')
  BY <1>1 DEF IndInv, TypeInv
<1> QED  BY <1>1, <1>3, <1>4, <1>5, DiesStep

\* An append without a segment.
LEMMA AppendPanicsStep ==
    ASSUME IndInv, AppendPanics
    PROVE  IndInv'
<1>1. /\ status = "up" /\ Dies /\ current' = 0 /\ wals' = wals
      /\ UNCHANGED <<snaps, history, stained, lost, doubled, restarts>>
  BY DEF AppendPanics
<1>2. LogInv /\ HistoryInv /\ FirstInv
  BY DEF IndInv
<1>3. Log(wals') /\ (~stained => RecordsOK(history, wals', LatestSeq(snaps)))
  BY <1>1, <1>2 DEF LogInv, HistoryInv, Recoverable
<1>4. restarts = 0 /\ ~doubled' => Ends(wals', 0, Len(history))
  BY <1>1, <1>2 DEF FirstInv, Ends
<1>5. doubled' \in BOOLEAN /\ (doubled => doubled')
  BY <1>1 DEF IndInv, TypeInv
<1> QED  BY <1>1, <1>3, <1>4, <1>5, DiesStep

\* A batch whose commands all succeed on the shadow ledger.
LEMMA BatchValidatedStep ==
    ASSUME IndInv, NEW cmds \in Batches, BatchValidated(cmds)
    PROVE  IndInv'
<1>0. /\ LogInv /\ TypeInv /\ IssuedInv /\ HistoryInv /\ FirstInv /\ FirstRestartKeepsAll
      /\ cmds \in Seq(Command) /\ Len(cmds) \in Nat
  BY LedgerAssumption DEF IndInv
<1>1. PICK r : r = ApplyAll(accounts, cmds)
  OBVIOUS
<1>2. /\ status = "up" /\ batch = NoBatch /\ Len(history) + Len(cmds) <= MaxSeq
      /\ r.res = "ok" /\ batch' = [cmds |-> cmds, logged |-> 0, delta |-> r.acc]
  BY <1>1 DEF BatchValidated, Idle
<1>3. /\ status' = status /\ accounts' = accounts /\ last_seq' = last_seq /\ wals' = wals
      /\ current' = current /\ cleanup' = cleanup /\ doubled' = doubled
      /\ snaps' = snaps /\ threads' = threads /\ history' = history /\ stained' = stained
      /\ lost' = lost /\ restarts' = restarts
  BY DEF BatchValidated, disk, snapshots
<1>4. accounts \in Table /\ history \in Seq(Command) /\ Len(history) \in Nat /\ r.acc \in Table
  <2>1. accounts \in Table /\ history \in Seq(Command)
    BY <1>0 DEF TypeInv
  <2> QED  BY <1>0, <1>1, <2>1, AllType
<1>5. batch'.cmds = cmds /\ batch'.logged = 0 /\ batch'.delta = r.acc
  BY <1>2
<1>6. LogInv'
  BY <1>0, <1>3 DEF LogInv
<1>7. TypeInv'
  <2>1. batch' \in [cmds : Seq(Command), logged : Nat, delta : Table]
    BY <1>0, <1>2, <1>4
  <2>2. batch'.logged <= Len(batch'.cmds)
    BY <1>0, <1>5
  <2>3. Len(history') + (Len(batch'.cmds) - batch'.logged) <= MaxSeq
    BY <1>0, <1>2, <1>3, <1>4, <1>5
  <2> QED  BY <1>0, <1>2, <1>3, <2>1, <2>2, <2>3 DEF TypeInv
<1>8. IssuedInv'
  <2>1. \A i \in 1..Len(cmds) : cmds[i] \in Issued
    BY <1>0 DEF Issued
  <2> QED  BY <1>0, <1>3, <1>5, <2>1 DEF IssuedInv
<1>9. HistoryInv'
  <2> SUFFICES ASSUME ~stained  PROVE Running' /\ Recoverable'
    BY <1>3 DEF HistoryInv
  <2>1. Running /\ Recoverable
    BY <1>0 DEF HistoryInv
  <2>2. last_seq = Len(history) /\ accounts = StateAt(history)
    BY <1>2, <2>1 DEF Running
  <2>3. Recoverable'
    BY <1>3, <2>1 DEF Recoverable
  <2>4. BatchInv'
    <3>1. Len(history) - 0 = Len(history) /\ At(history, Len(history)) = accounts
      BY <1>4, <2>2, AtFacts
    <3>2. EndsWith(history, cmds, 0)
      <4>1. 0 \in 0..Len(cmds) /\ Len(history) - 0 \in 0..Len(history) /\ 1..0 = {}
        BY <1>0, <1>4
      <4> QED  BY <1>1, <1>2, <3>1, <4>1 DEF EndsWith
    <3> QED  BY <1>1, <1>3, <1>5, <3>1, <3>2 DEF BatchInv
  <2> QED  BY <1>3, <2>2, <2>3, <2>4 DEF Running
<1>10. FirstInv' /\ FirstRestartKeepsAll'
  BY <1>0, <1>3 DEF FirstInv, FirstRestartKeepsAll
<1> QED  BY <1>6, <1>7, <1>8, <1>9, <1>10 DEF IndInv

\* One command of a batch is logged.
LEMMA BatchAppendStep ==
    ASSUME IndInv, BatchAppend
    PROVE  IndInv'
<1>0. LogInv /\ TypeInv /\ IssuedInv /\ HistoryInv /\ FirstInv /\ FirstRestartKeepsAll
  BY DEF IndInv
<1>1. PICK c, cmds, k : cmds = batch.cmds /\ k = batch.logged /\ c = cmds[k + 1]
  OBVIOUS
<1>2. /\ status = "up" /\ k < Len(cmds) /\ current # 0
      /\ WalAppend([seq |-> last_seq + 1, cmd |-> c])
      /\ history' = Append(history, c) /\ last_seq' = last_seq + 1
  BY <1>1 DEF BatchAppend
<1>3. /\ status' = status /\ accounts' = accounts /\ snaps' = snaps /\ threads' = threads
      /\ stained' = stained /\ lost' = lost /\ restarts' = restarts
  BY DEF BatchAppend, snapshots
<1>4. /\ batch \in [cmds : Seq(Command), logged : Nat, delta : Table]
      /\ cmds \in Seq(Command) /\ Len(cmds) \in Nat /\ k \in Nat
      /\ history \in Seq(Command) /\ Len(history) \in Nat /\ last_seq \in Nat
      /\ Len(history) + (Len(cmds) - k) <= MaxSeq
  BY <1>0, <1>1 DEF TypeInv
<1>5. batch' = [cmds |-> cmds, logged |-> k + 1, delta |-> batch.delta]
  <2>1. batch' = [batch EXCEPT !.logged = @ + 1]
    BY DEF BatchAppend
  <2> QED  BY <1>1, <1>4, <2>1
<1>6. batch'.cmds = cmds /\ batch'.logged = k + 1 /\ batch'.delta = batch.delta
  BY <1>5
<1>7. k + 1 \in 1..Len(cmds) /\ c \in Command /\ c \in Issued
  <2>1. k + 1 \in 1..Len(cmds)
    BY <1>2, <1>4
  <2>2. c \in Command
    BY <1>1, <1>4, <2>1
  <2>3. c \in Issued
    BY <1>0, <1>1, <2>1 DEF IssuedInv
  <2> QED  BY <2>1, <2>2, <2>3
<1>8. batch # NoBatch /\ batch' # NoBatch
  <2>1. Len(cmds) # 0
    BY <1>2, <1>4
  <2>2. batch # NoBatch
    BY <1>1, <2>1, NoBatchFacts
  <2>3. batch' # NoBatch
    BY <1>6, <2>1, NoBatchFacts
  <2> QED  BY <2>2, <2>3
<1>9. ~stained => /\ last_seq = Len(history) /\ BatchInv
                  /\ apply_transaction(StateAt(history), c).res = "ok"
                  /\ EndsWith(history', cmds, k + 1)
  <2> SUFFICES ASSUME ~stained
               PROVE  /\ last_seq = Len(history) /\ BatchInv
                      /\ apply_transaction(StateAt(history), c).res = "ok"
                      /\ EndsWith(history', cmds, k + 1)
    OBVIOUS
  <2>1. last_seq = Len(history) /\ BatchInv
    BY <1>0, <1>2, <1>8 DEF HistoryInv, Running
  <2>2. EndsWith(history, cmds, k)
    BY <1>1, <2>1 DEF BatchInv
  <2>3. /\ apply_transaction(StateAt(history), cmds[k + 1]).res = "ok"
        /\ EndsWith(Append(history, cmds[k + 1]), cmds, k + 1)
    BY <1>2, <1>4, <2>2, BatchGoesOn
  <2> QED  BY <1>1, <1>2, <2>1, <2>3
<1>10. /\ LogInv' /\ cleanup' \in BOOLEAN /\ doubled' \in BOOLEAN /\ (doubled => doubled')
       /\ ~stained => Recoverable'
       /\ ~doubled' /\ last_seq = Len(history) /\ Ends(wals, current, Len(history)) =>
             Ends(wals', current', Len(history'))
  BY <1>2, <1>3, <1>7, <1>9, Grows
<1>11. Len(history') = Len(history) + 1 /\ history' \in Seq(Command)
  BY <1>2, <1>4, <1>7
<1>12. TypeInv'
  <2>1. batch' \in [cmds : Seq(Command), logged : Nat, delta : Table]
    BY <1>4, <1>5
  <2>2. batch'.logged <= Len(batch'.cmds)
    BY <1>6, <1>7
  <2>3. Len(history') + (Len(batch'.cmds) - batch'.logged) <= MaxSeq
    <3>1. Len(history') + (Len(cmds) - (k + 1)) = Len(history) + (Len(cmds) - k)
      BY <1>4, <1>11
    <3> QED  BY <1>4, <1>6, <3>1
  <2>4. last_seq' \in Nat
    BY <1>2, <1>4
  <2> QED  BY <1>0, <1>2, <1>3, <1>10, <1>11, <2>1, <2>2, <2>3, <2>4 DEF TypeInv
<1>13. IssuedInv'
  BY <1>0, <1>1, <1>2, <1>4, <1>6, <1>7, IssuedGrows
<1>14. HistoryInv'
  <2> SUFFICES ASSUME ~stained  PROVE Running' /\ Recoverable'
    BY <1>3 DEF HistoryInv
  <2>1. last_seq' = Len(history')
    BY <1>2, <1>9, <1>11
  <2>2. BatchInv'
    <3>1. PICK n : n = Len(history) - k
      OBVIOUS
    <3>2. n \in 0..Len(history) /\ Len(history') - (k + 1) = n
      <4>1. n \in 0..Len(history)
        BY <1>1, <1>9, <3>1 DEF BatchInv, EndsWith
      <4> QED  BY <1>4, <1>11, <3>1, <4>1
    <3>3. accounts = At(history, n)
      BY <1>1, <1>9, <3>1 DEF BatchInv
    <3>4. At(history', n) = At(history, n)
      BY <1>2, <1>4, <1>7, <3>2, AtAppend
    <3>5. ApplyAll(accounts, cmds).acc = batch.delta
      BY <1>1, <1>9 DEF BatchInv
    <3> QED  BY <1>3, <1>6, <1>9, <3>2, <3>3, <3>4, <3>5 DEF BatchInv
  <2> QED  BY <1>3, <1>8, <1>10, <2>1, <2>2 DEF Running
<1>15. FirstInv'
  BY <1>0, <1>2, <1>3, <1>4, <1>10, <1>11 DEF FirstInv
<1>16. FirstRestartKeepsAll'
  BY <1>0, <1>3, <1>10 DEF FirstRestartKeepsAll
<1> QED  BY <1>10, <1>12, <1>13, <1>14, <1>15, <1>16 DEF IndInv

\* The delta of a logged batch replaces the accounts.
LEMMA BatchCommitStep ==
    ASSUME IndInv, BatchCommit
    PROVE  IndInv'
<1>0. LogInv /\ TypeInv /\ IssuedInv /\ HistoryInv /\ FirstInv /\ FirstRestartKeepsAll
  BY DEF IndInv
<1>1. PICK cmds, k : cmds = batch.cmds /\ k = batch.logged
  OBVIOUS
<1>2. /\ status = "up" /\ batch # NoBatch /\ k = Len(cmds)
      /\ accounts' = batch.delta /\ batch' = NoBatch
  BY <1>1 DEF BatchCommit
<1>3. /\ status' = status /\ last_seq' = last_seq /\ wals' = wals
      /\ current' = current /\ cleanup' = cleanup /\ doubled' = doubled
      /\ snaps' = snaps /\ threads' = threads /\ history' = history /\ stained' = stained
      /\ lost' = lost /\ restarts' = restarts
  BY DEF BatchCommit, disk, snapshots
<1>4. /\ batch \in [cmds : Seq(Command), logged : Nat, delta : Table]
      /\ cmds \in Seq(Command) /\ Len(cmds) \in Nat /\ k \in Nat
      /\ history \in Seq(Command) /\ Len(history) \in Nat
      /\ Len(history) + (Len(cmds) - k) <= MaxSeq
  BY <1>0, <1>1 DEF TypeInv
<1>5. LogInv'
  BY <1>0, <1>3 DEF LogInv
<1>6. TypeInv'
  <2>1. /\ batch' \in [cmds : Seq(Command), logged : Nat, delta : Table]
        /\ batch'.logged = 0 /\ Len(batch'.cmds) = 0
    BY <1>2, NoBatchFacts
  <2>2. Len(history') + (Len(batch'.cmds) - batch'.logged) <= MaxSeq /\ batch'.logged <= Len(batch'.cmds)
    BY <1>2, <1>3, <1>4, <2>1, LedgerAssumption
  <2>3. accounts' \in Table
    BY <1>2, <1>4
  <2> QED  BY <1>0, <1>2, <1>3, <2>1, <2>2, <2>3 DEF TypeInv
<1>7. IssuedInv'
  BY <1>0, <1>2, <1>3, NoBatchFacts DEF IssuedInv
<1>8. HistoryInv'
  <2> SUFFICES ASSUME ~stained  PROVE Running' /\ Recoverable'
    BY <1>3 DEF HistoryInv
  <2>1. last_seq = Len(history) /\ BatchInv /\ Recoverable
    BY <1>0, <1>2 DEF HistoryInv, Running
  <2>2. Recoverable'
    BY <1>3, <2>1 DEF Recoverable
  <2>3. StateAt(history) = ApplyAll(accounts, SubSeq(cmds, 1, k)).acc
    <3>1. EndsWith(history, cmds, k) /\ accounts = At(history, Len(history) - k)
      BY <1>1, <2>1 DEF BatchInv
    <3>2. StateAt(history) = ApplyAll(At(history, Len(history) - k), SubSeq(cmds, 1, k)).acc
      BY <1>4, <3>1, BatchState
    <3> QED  BY <3>1, <3>2
  <2>4. SubSeq(cmds, 1, k) = cmds
    BY <1>2, <1>4, PrefixFacts
  <2>5. ApplyAll(accounts, cmds).acc = batch.delta
    BY <1>1, <2>1 DEF BatchInv
  <2>6. accounts' = StateAt(history)
    BY <1>2, <2>3, <2>4, <2>5
  <2> QED  BY <1>2, <1>3, <2>1, <2>2, <2>6 DEF Running
<1>9. FirstInv' /\ FirstRestartKeepsAll'
  BY <1>0, <1>3 DEF FirstInv, FirstRestartKeepsAll
<1> QED  BY <1>5, <1>6, <1>7, <1>8, <1>9 DEF IndInv

\* An append that cannot rotate: a batch that was logged in part stays in the log.
LEMMA RotateFailsStep ==
    ASSUME IndInv, RotateFails
    PROVE  IndInv'
<1>0. LogInv /\ TypeInv /\ IssuedInv /\ HistoryInv /\ FirstInv /\ FirstRestartKeepsAll
  BY DEF IndInv
<1>1. /\ status = "up" /\ current' = 0 /\ stained' = (stained \/ batch.logged > 0)
      /\ batch' = NoBatch
  BY DEF RotateFails
<1>2. /\ status' = status /\ accounts' = accounts /\ last_seq' = last_seq /\ wals' = wals
      /\ cleanup' = cleanup /\ doubled' = doubled
      /\ snaps' = snaps /\ threads' = threads /\ history' = history
      /\ lost' = lost /\ restarts' = restarts
  BY DEF RotateFails, snapshots
<1>3. /\ Len(batch.cmds) \in Nat /\ batch.logged \in Nat /\ batch.logged <= Len(batch.cmds)
      /\ history \in Seq(Command) /\ Len(history) \in Nat /\ stained \in BOOLEAN
      /\ Len(history) + (Len(batch.cmds) - batch.logged) <= MaxSeq
  BY <1>0 DEF TypeInv
<1>4. stained' \in BOOLEAN /\ (~stained' => ~stained /\ batch.logged = 0)
  <2>1. CASE batch.logged > 0
    <3>1. stained' = TRUE
      BY <1>1, <2>1, Zenon
    <3> QED  BY <3>1
  <2>2. CASE ~(batch.logged > 0)
    <3>1. stained' = stained
      BY <1>1, <1>3, <2>2, Zenon
    <3>2. batch.logged = 0
      BY <1>3, <2>2
    <3> QED  BY <1>3, <3>1, <3>2
  <2> QED  BY <2>1, <2>2
<1>5. LogInv'
  <2>1. Len(wals) \in Nat
    BY <1>0, LogFacts DEF LogInv
  <2> QED  BY <1>0, <1>1, <1>2, <2>1 DEF LogInv
<1>6. TypeInv'
  <2>1. /\ batch' \in [cmds : Seq(Command), logged : Nat, delta : Table]
        /\ batch'.logged = 0 /\ Len(batch'.cmds) = 0
    BY <1>1, NoBatchFacts
  <2>2. Len(history') + (Len(batch'.cmds) - batch'.logged) <= MaxSeq /\ batch'.logged <= Len(batch'.cmds)
    BY <1>2, <1>3, <2>1, LedgerAssumption
  <2> QED  BY <1>0, <1>1, <1>2, <1>4, <2>1, <2>2 DEF TypeInv
<1>7. IssuedInv'
  BY <1>0, <1>1, <1>2, NoBatchFacts DEF IssuedInv
<1>8. HistoryInv'
  <2> SUFFICES ASSUME ~stained'  PROVE Running' /\ Recoverable'
    BY DEF HistoryInv
  <2>1. Running /\ Recoverable /\ batch.logged = 0
    BY <1>0, <1>4 DEF HistoryInv
  <2>2. Recoverable'
    BY <1>2, <2>1 DEF Recoverable
  <2>3. accounts = StateAt(history)
    <3>1. CASE batch = NoBatch
      BY <1>1, <2>1, <3>1 DEF Running
    <3>2. CASE batch # NoBatch
      <4>1. accounts = At(history, Len(history) - batch.logged)
        BY <1>1, <2>1, <3>2 DEF Running, BatchInv
      <4>2. Len(history) - batch.logged = Len(history)
        BY <1>3, <2>1
      <4> QED  BY <1>3, <4>1, <4>2, AtFacts
    <3> QED  BY <3>1, <3>2
  <2> QED  BY <1>1, <1>2, <2>1, <2>2, <2>3 DEF Running
<1>9. FirstInv'
  BY <1>0, <1>1, <1>2 DEF FirstInv, Ends
<1>10. FirstRestartKeepsAll'
  BY <1>0, <1>2 DEF FirstRestartKeepsAll
<1> QED  BY <1>5, <1>6, <1>7, <1>8, <1>9, <1>10 DEF IndInv

\* Old segments are deleted.
LEMMA CleanupStep ==
    ASSUME IndInv, cleanup_old_wals
    PROVE  IndInv'
<1>0. LogInv /\ TypeInv /\ IssuedInv /\ HistoryInv /\ FirstInv /\ FirstRestartKeepsAll
  BY DEF IndInv
<1>1. PICK extra : extra = Extra(wals)
  OBVIOUS
<1>2. /\ cleanup' = FALSE /\ wals' = SubSeq(wals, extra + 1, Len(wals))
      /\ current' = CASE current > extra -> current - extra
                      [] current \in 1..extra -> Unlinked
                      [] OTHER -> current
  BY <1>1 DEF cleanup_old_wals, Retained
<1>3. /\ status' = status /\ accounts' = accounts /\ last_seq' = last_seq /\ batch' = batch
      /\ doubled' = doubled /\ stained' = stained
      /\ snaps' = snaps /\ threads' = threads /\ history' = history
      /\ lost' = lost /\ restarts' = restarts
  BY DEF cleanup_old_wals, snapshots
<1>4. Log(wals) /\ Len(wals) \in Nat \ {0} /\ current \in {Unlinked} \cup 0..Len(wals)
  BY <1>0, LogFacts DEF LogInv
<1>5. extra \in 0..(Len(wals) - 1) /\ extra \in Nat
  BY <1>1, <1>4, LedgerAssumption DEF Extra
<1>6. /\ Log(wals') /\ Len(wals') = Len(wals) - extra
      /\ \A h, min : RecordsOK(h, wals, min) => RecordsOK(h, wals', min)
      /\ \A cur, n : cur \in {0, Len(wals)} /\ Ends(wals, cur, n) =>
            Ends(wals', IF cur = 0 THEN 0 ELSE cur - extra, n)
  BY <1>2, <1>4, <1>5, CutFacts
<1>7. /\ current > extra => current' = current - extra
      /\ current \in 1..extra => current' = Unlinked
      /\ current \in {Unlinked, 0} => current' = current
  BY <1>2, <1>4, <1>5 DEF Unlinked
<1>8. LogInv'
  <2>1. current' \in {Unlinked} \cup 0..Len(wals')
    BY <1>4, <1>5, <1>6, <1>7 DEF Unlinked
  <2> QED  BY <1>6, <2>1 DEF LogInv
<1>9. TypeInv'
  <2>1. cleanup' \in BOOLEAN
    BY <1>2
  <2> QED  BY <1>0, <1>3, <2>1 DEF TypeInv
<1>10. IssuedInv'
  BY <1>0, <1>3 DEF IssuedInv
<1>11. HistoryInv'
  <2> SUFFICES ASSUME ~stained  PROVE Running' /\ Recoverable'
    BY <1>3 DEF HistoryInv
  <2>1. Running /\ Recoverable
    BY <1>0 DEF HistoryInv
  <2>2. Running'
    BY <1>3, <2>1 DEF Running, BatchInv
  <2>3. Recoverable'
    BY <1>3, <1>6, <2>1 DEF Recoverable
  <2> QED  BY <2>2, <2>3
<1>12. FirstInv'
  <2> SUFFICES ASSUME restarts = 0, ~doubled, Ends(wals, current, Len(history))
               PROVE  Ends(wals', current', Len(history))
    BY <1>0, <1>3 DEF FirstInv
  <2>1. current \in {0, Len(wals)}
    BY DEF Ends
  <2>2. Ends(wals', IF current = 0 THEN 0 ELSE current - extra, Len(history))
    BY <1>6, <2>1
  <2>3. current' = IF current = 0 THEN 0 ELSE current - extra
    BY <1>4, <1>5, <1>7, <2>1
  <2> QED  BY <2>2, <2>3
<1>13. FirstRestartKeepsAll'
  BY <1>0, <1>3 DEF FirstRestartKeepsAll
<1> QED  BY <1>8, <1>9, <1>10, <1>11, <1>12, <1>13 DEF IndInv

\* A snapshot is handed to its thread.
LEMMA TriggerStep ==
    ASSUME IndInv, trigger_snapshot
    PROVE  IndInv'
<1>0. LogInv /\ TypeInv /\ IssuedInv /\ HistoryInv /\ FirstInv /\ FirstRestartKeepsAll
  BY DEF IndInv
<1>1. PICK t : t = [seq |-> last_seq, accounts |-> accounts]
  OBVIOUS
<1>2. status = "up" /\ batch = NoBatch /\ threads' = threads \cup {t}
  BY <1>1 DEF trigger_snapshot, Idle
<1>3. /\ status' = status /\ accounts' = accounts /\ last_seq' = last_seq /\ wals' = wals
      /\ current' = current /\ cleanup' = cleanup /\ doubled' = doubled /\ batch' = batch
      /\ snaps' = snaps /\ history' = history /\ stained' = stained
      /\ lost' = lost /\ restarts' = restarts
  BY DEF trigger_snapshot, disk
<1>4. t.seq = last_seq /\ t.accounts = accounts
  BY <1>1
<1>5. LogInv' /\ IssuedInv' /\ FirstInv' /\ FirstRestartKeepsAll'
  BY <1>0, <1>3 DEF LogInv, IssuedInv, FirstInv, FirstRestartKeepsAll
<1>6. TypeInv'
  <2>1. \A s \in threads' : s.seq \in Nat /\ s.accounts \in Table
    BY <1>0, <1>2, <1>4 DEF TypeInv
  <2> QED  BY <1>0, <1>2, <1>3, <2>1 DEF TypeInv
<1>7. HistoryInv'
  <2> SUFFICES ASSUME ~stained  PROVE Running' /\ Recoverable'
    BY <1>3 DEF HistoryInv
  <2>1. Running /\ Recoverable
    BY <1>0 DEF HistoryInv
  <2>2. Running'
    BY <1>3, <2>1 DEF Running, BatchInv
  <2>3. SnapshotOK(history, t)
    <3>1. last_seq = Len(history) /\ accounts = StateAt(history) /\ history \in Seq(Command)
      BY <1>0, <1>2, <2>1 DEF Running, TypeInv
    <3> QED  BY <1>4, <3>1, AtFacts DEF SnapshotOK
  <2>4. Recoverable'
    BY <1>2, <1>3, <2>1, <2>3 DEF Recoverable
  <2> QED  BY <2>2, <2>4
<1> QED  BY <1>5, <1>6, <1>7 DEF IndInv

\* What a snapshot thread leaves: the newest snapshot is never an older one.
LEMMA SnapshotThreadKeeps ==
    ASSUME TypeInv, NEW t \in threads, snaps' = Kept(snaps \cup {t})
    PROVE  /\ Snapshots(snaps') /\ snaps' \subseteq snaps \cup {t}
           /\ LatestSeq(snaps) <= LatestSeq(snaps') /\ LatestSeq(snaps) \in Nat /\ LatestSeq(snaps') \in Nat
<1>1. PICK T : T = snaps \cup {t}
  OBVIOUS
<1>2. Snapshots(snaps) /\ t.seq \in Nat /\ t.accounts \in Table
  BY DEF TypeInv
<1>3. Snapshots(T)
  <2>1. IsFiniteSet(T)
    BY <1>1, <1>2, FS_AddElement DEF Snapshots
  <2> QED  BY <1>1, <1>2, <2>1 DEF Snapshots
<1>4. /\ Kept(T) \subseteq T /\ Snapshots(Kept(T)) /\ LatestSeq(T) <= LatestSeq(Kept(T))
  BY <1>3, KeptFacts
<1>5. LatestSeq(snaps) <= LatestSeq(T)
  <2>1. ASSUME NEW s \in snaps  PROVE \E u \in T : s.seq <= u.seq
    BY <1>1, <1>2 DEF Snapshots
  <2> QED  BY <1>2, <1>3, <2>1, LatestSeqMono
<1>6. LatestSeq(snaps) \in Nat /\ LatestSeq(T) \in Nat /\ LatestSeq(Kept(T)) \in Nat
  BY <1>2, <1>3, <1>4, LatestSeqFacts
<1>7. snaps' = Kept(T)
  BY <1>1
<1>8. LatestSeq(snaps) <= LatestSeq(Kept(T))
  BY <1>4, <1>5, <1>6
<1> QED  BY <1>1, <1>4, <1>6, <1>7, <1>8

\* A snapshot is written, and old ones are deleted.
LEMMA SnapshotThreadStep ==
    ASSUME IndInv, NEW t \in threads, SnapshotThread(t)
    PROVE  IndInv'
<1>0. LogInv /\ TypeInv /\ IssuedInv /\ HistoryInv /\ FirstInv /\ FirstRestartKeepsAll
  BY DEF IndInv
<1>1. status = "up" /\ snaps' = Kept(snaps \cup {t}) /\ threads' = threads \ {t}
  BY DEF SnapshotThread
<1>2. /\ status' = status /\ accounts' = accounts /\ last_seq' = last_seq /\ wals' = wals
      /\ current' = current /\ cleanup' = cleanup /\ doubled' = doubled /\ batch' = batch
      /\ history' = history /\ stained' = stained
      /\ lost' = lost /\ restarts' = restarts
  BY DEF SnapshotThread, disk
<1>3. /\ Snapshots(snaps') /\ snaps' \subseteq snaps \cup {t}
      /\ LatestSeq(snaps) <= LatestSeq(snaps') /\ LatestSeq(snaps) \in Nat /\ LatestSeq(snaps') \in Nat
  BY <1>0, <1>1, SnapshotThreadKeeps
<1>4. LogInv' /\ IssuedInv' /\ FirstInv' /\ FirstRestartKeepsAll'
  BY <1>0, <1>2 DEF LogInv, IssuedInv, FirstInv, FirstRestartKeepsAll
<1>5. TypeInv'
  BY <1>0, <1>1, <1>2, <1>3 DEF TypeInv
<1>6. HistoryInv'
  <2> SUFFICES ASSUME ~stained  PROVE Running' /\ Recoverable'
    BY <1>2 DEF HistoryInv
  <2>1. Running /\ Recoverable
    BY <1>0 DEF HistoryInv
  <2>2. Running'
    BY <1>2, <2>1 DEF Running, BatchInv
  <2>3. RecordsOK(history, wals, LatestSeq(snaps'))
    <3>1. Log(wals) /\ history \in Seq(Command) /\ RecordsOK(history, wals, LatestSeq(snaps))
      BY <1>0, <2>1 DEF LogInv, TypeInv, Recoverable
    <3> QED  BY <1>3, <3>1, RecordsKept
  <2>4. \A s \in snaps' \cup threads' : SnapshotOK(history, s)
    BY <1>1, <1>3, <2>1 DEF Recoverable
  <2>5. Recoverable'
    BY <1>2, <2>1, <2>3, <2>4 DEF Recoverable
  <2> QED  BY <2>2, <2>5
<1> QED  BY <1>4, <1>5, <1>6 DEF IndInv

\* The smaller of two numbers.
LEMMA MinOfTwo ==
    ASSUME NEW m \in Nat, NEW n \in Nat
    PROVE  Min({m, n}) \in 0..n /\ (m <= n => Min({m, n}) = m) /\ (n <= m => Min({m, n}) = n)
<1>1. \E x \in {m, n} : \A y \in {m, n} : x <= y
  OBVIOUS
<1>2. Min({m, n}) \in {m, n} /\ \A y \in {m, n} : Min({m, n}) <= y
  BY <1>1 DEF Min
<1> QED  BY <1>2

\* Before the first restart a replay that succeeds recovers what was accepted.
LEMMA FirstReplay ==
    ASSUME LogInv, TypeInv, Recovered.res = "ok", Ends(wals, current, Len(history))
    PROVE  Len(history) <= Recovered.seq
<1>0. PICK r, n, s : r = Recovered /\ n = Len(wals) /\ s = wals[n]
  OBVIOUS
<1>1. /\ Log(wals) /\ Snapshots(snaps) /\ Len(history) \in Nat /\ n \in Nat /\ n \in 1..n
      /\ s.recs \in Seq(Record)
  <2>1. Log(wals)
    BY DEF LogInv
  <2> QED  BY <1>0, <2>1, LogFacts DEF TypeInv, Records
<1>2. r \in Replay /\ r.seq \in Nat
  BY <1>0, <1>1, RecoveredFacts DEF Replay
<1>3. Live(wals, n, LatestSeq(snaps))
  BY <1>0, <1>1 DEF Live
<1>4. \A k \in 1..Len(s.recs) : s.recs[k] # Corrupt /\ s.recs[k].seq <= r.seq
  BY <1>0, <1>1, <1>3, RecoveredFacts
<1>5. CASE Len(history) = 0
  BY <1>0, <1>2, <1>5
<1>6. CASE Len(history) # 0
  <2>1. PICK k \in 1..Len(s.recs) : s.recs[k].seq >= Len(history)
    BY <1>0, <1>1, <1>6 DEF Ends
  <2>2. s.recs[k] \in Record /\ s.recs[k] # Corrupt /\ s.recs[k].seq <= r.seq
    BY <1>1, <1>4
  <2>3. s.recs[k].seq \in Nat
    BY <2>2 DEF Record
  <2> QED  BY <1>0, <1>1, <1>2, <2>1, <2>2, <2>3
<1> QED  BY <1>5, <1>6

\* What a restart keeps is still what a restart finds.
LEMMA RecoverableCut ==
    ASSUME LogInv, TypeInv, Recoverable, Recovered.res = "ok", threads = {}
    PROVE  /\ Recovered.seq \in 0..Len(history)
           /\ Recovered.acc = StateAt(SubSeq(history, 1, Recovered.seq))
           /\ Accepted(SubSeq(history, 1, Recovered.seq))
           /\ \A s \in snaps : SnapshotOK(SubSeq(history, 1, Recovered.seq), s)
           /\ RecordsOK(SubSeq(history, 1, Recovered.seq), wals, LatestSeq(snaps))
<1>0. PICK r, n, h, min : /\ r = Recovered /\ n = r.seq /\ h = SubSeq(history, 1, n)
                          /\ min = LatestSeq(snaps)
  OBVIOUS
<1>1. /\ Log(wals) /\ Snapshots(snaps) /\ history \in Seq(Command) /\ Len(history) \in Nat
      /\ Accepted(history) /\ RecordsOK(history, wals, min)
      /\ \A s \in snaps : SnapshotOK(history, s)
  BY <1>0 DEF LogInv, TypeInv, Recoverable
<1>2. /\ r \in Replay /\ min <= n /\ Sound(history, r)
      /\ \A i \in 1..Len(wals) : Live(wals, i, min) =>
            \A k \in 1..Len(wals[i].recs) :
               wals[i].recs[k] # Corrupt /\ wals[i].recs[k].seq <= n
  BY <1>0, <1>1, RecoveredFacts
<1>3. n \in Nat /\ n \in 0..Len(history) /\ r.acc = At(history, n) /\ min \in Nat
  BY <1>0, <1>1, <1>2, LatestSeqFacts DEF Sound, Replay
<1>4. Accepted(h)
  BY <1>0, <1>1, <1>3, AcceptedFacts
<1>5. ASSUME NEW s \in snaps  PROVE SnapshotOK(h, s)
  <2>1. s.seq <= min /\ s.seq \in Nat
    BY <1>0, <1>1, LatestSeqFacts DEF Snapshots
  <2>2. s.accounts = At(history, s.seq) /\ s.seq \in 0..n
    BY <1>1, <1>2, <1>3, <2>1 DEF SnapshotOK
  <2>3. At(h, s.seq) = At(history, s.seq) /\ Len(h) = n
    BY <1>0, <1>1, <1>3, <2>2, AtPrefix
  <2> QED  BY <2>2, <2>3 DEF SnapshotOK
<1>6. RecordsOK(h, wals, min)
  <2>1. ASSUME NEW i \in 1..Len(wals), Live(wals, i, min), NEW k \in 1..Len(wals[i].recs)
        PROVE  RecordOK(h, wals[i].recs[k])
    <3>1. wals[i].recs \in Seq(Record)
      BY <1>1, LogFacts DEF Records
    <3>2. wals[i].recs[k] \in Record
      BY <3>1
    <3>3. wals[i].recs[k] # Corrupt /\ wals[i].recs[k].seq <= n
      BY <1>2, <2>1
    <3>4. RecordOK(history, wals[i].recs[k])
      BY <1>1, <2>1 DEF RecordsOK, SegmentOK
    <3> QED  BY <1>0, <1>1, <1>3, <3>2, <3>3, <3>4, RecordCut
  <2> QED  BY <2>1 DEF RecordsOK, SegmentOK
<1> QED  BY <1>0, <1>3, <1>4, <1>5, <1>6 DEF At

\* A restart: it bails, or comes up with a prefix of what was accepted.
LEMMA OpenStep ==
    ASSUME IndInv, Open
    PROVE  IndInv'
<1>0. LogInv /\ TypeInv /\ IssuedInv /\ HistoryInv /\ FirstInv /\ FirstRestartKeepsAll
  BY DEF IndInv
<1>1. PICK r, n, h : r = Recovered /\ n = Min({r.seq, Len(history)}) /\ h = SubSeq(history, 1, n)
  OBVIOUS
<1>2. /\ status = "down" /\ restarts' = restarts + 1 /\ cleanup' = cleanup
      /\ snaps' = snaps /\ threads' = threads /\ batch' = batch /\ stained' = stained
      /\ doubled' = doubled
  BY DEF Open, snapshots
<1>3. /\ Log(wals) /\ Snapshots(snaps) /\ history \in Seq(Command) /\ Len(history) \in Nat
      /\ threads = {} /\ batch = NoBatch /\ restarts \in Nat /\ lost \in 0..restarts
      /\ stained \in BOOLEAN /\ Len(history) <= MaxSeq
  BY <1>0, <1>2, NoBatchFacts, LedgerAssumption DEF TypeInv, LogInv
<1>4. r \in Replay /\ r.seq \in Nat /\ r.acc \in Table
  BY <1>1, <1>3, RecoveredFacts DEF Replay
<1>5. FirstInv'
  BY <1>2, <1>3 DEF FirstInv
<1>6. CASE r.res # "ok"
  <2>1. /\ status' = "failed" /\ accounts' = accounts /\ last_seq' = last_seq /\ wals' = wals
        /\ current' = current /\ history' = history /\ lost' = lost
    BY <1>1, <1>6 DEF Open
  <2>2. LogInv' /\ IssuedInv' /\ FirstRestartKeepsAll'
    BY <1>0, <1>2, <2>1 DEF LogInv, IssuedInv, FirstRestartKeepsAll
  <2>3. TypeInv'
    <3>1. restarts' \in Nat /\ lost' \in 0..restarts'
      BY <1>2, <1>3, <2>1
    <3> QED  BY <1>0, <1>2, <1>3, <2>1, <3>1 DEF TypeInv
  <2>4. HistoryInv'
    BY <1>0, <1>2, <2>1 DEF HistoryInv, Running, Recoverable
  <2> QED  BY <1>5, <2>2, <2>3, <2>4 DEF IndInv
<1>7. CASE r.res = "ok"
  <2>1. /\ status' = "up" /\ accounts' = r.acc /\ last_seq' = r.seq /\ current' = Len(wals)
        /\ lost' = IF lost = 0 /\ r.seq < Len(history) THEN restarts + 1 ELSE lost
        /\ history' = h
    BY <1>1, <1>7 DEF Open
  <2>2. PICK c \in Resumed(Last(wals)) : wals' = [wals EXCEPT ![Len(wals)].cursor = c]
    BY <1>1, <1>7 DEF Open
  <2>3. /\ Log(wals') /\ Len(wals') = Len(wals)
        /\ \A g, min : RecordsOK(g, wals, min) => RecordsOK(g, wals', min)
    BY <1>3, <2>2, ResumeFacts
  <2>4. n \in 0..Len(history) /\ (r.seq <= Len(history) => n = r.seq)
    BY <1>1, <1>3, <1>4, MinOfTwo
  <2>5. h \in Seq(Command) /\ Len(h) = n /\ \A i \in 1..n : h[i] = history[i]
    BY <1>1, <1>3, <2>4, AtPrefix
  <2>6. LogInv'
    <3>1. Len(wals) \in Nat \ {0}
      BY <1>3, LogFacts
    <3> QED  BY <2>1, <2>3, <3>1 DEF LogInv
  <2>7. TypeInv'
    <3>1. restarts' \in Nat /\ lost' \in 0..restarts'
      BY <1>2, <1>3, <2>1
    <3>2. Len(history') + (Len(batch'.cmds) - batch'.logged) <= MaxSeq
      BY <1>2, <1>3, <2>1, <2>4, <2>5, NoBatchFacts, LedgerAssumption
    <3> QED  BY <1>0, <1>2, <1>3, <1>4, <2>1, <2>5, <3>1, <3>2 DEF TypeInv
  <2>8. IssuedInv'
    <3>1. ASSUME NEW i \in 1..Len(h)  PROVE h[i] \in Issued
      <4>1. i \in 1..n /\ i \in 1..Len(history)
        BY <1>3, <2>4, <2>5
      <4> QED  BY <1>0, <2>5, <4>1 DEF IssuedInv
    <3> QED  BY <1>0, <1>2, <2>1, <3>1 DEF IssuedInv
  <2>9. HistoryInv'
    <3> SUFFICES ASSUME ~stained  PROVE Running' /\ Recoverable'
      BY <1>2 DEF HistoryInv
    <3>1. Recoverable
      BY <1>0 DEF HistoryInv
    <3>2. /\ r.seq \in 0..Len(history) /\ n = r.seq
          /\ r.acc = StateAt(h) /\ Accepted(h) /\ (\A s \in snaps : SnapshotOK(h, s))
          /\ RecordsOK(h, wals, LatestSeq(snaps))
      <4>1. r.seq \in 0..Len(history) /\ n = r.seq
        BY <1>0, <1>1, <1>3, <1>7, <2>4, <3>1, RecoverableCut
      <4>2. h = SubSeq(history, 1, r.seq)
        BY <1>1, <4>1
      <4> QED  BY <1>0, <1>1, <1>3, <1>7, <3>1, <4>1, <4>2, RecoverableCut
    <3>3. Running'
      BY <1>2, <1>3, <2>1, <2>5, <3>2 DEF Running
    <3>4. Recoverable'
      BY <1>2, <1>3, <2>1, <2>3, <3>2 DEF Recoverable
    <3> QED  BY <3>3, <3>4
  <2>10. FirstRestartKeepsAll'
    <3>1. CASE lost' = lost
      BY <1>0, <1>2, <3>1 DEF FirstRestartKeepsAll
    <3>2. CASE lost' # lost
      <4>1. lost' = restarts + 1 /\ r.seq < Len(history)
        BY <2>1, <3>2
      <4>2. CASE restarts = 0 /\ ~doubled
        <5>1. Ends(wals, current, Len(history))
          BY <1>0, <4>2 DEF FirstInv
        <5>2. Len(history) <= r.seq
          BY <1>0, <1>1, <1>7, <5>1, FirstReplay
        <5> QED  BY <1>3, <1>4, <4>1, <5>2
      <4>3. CASE restarts # 0 \/ doubled
        BY <1>2, <1>3, <4>1, <4>3 DEF FirstRestartKeepsAll
      <4> QED  BY <4>2, <4>3
    <3> QED  BY <3>1, <3>2
  <2> QED  BY <1>5, <2>6, <2>7, <2>8, <2>9, <2>10 DEF IndInv
<1> QED  BY <1>6, <1>7

\* Nothing happens.
LEMMA StutterStep ==
    ASSUME IndInv, UNCHANGED vars
    PROVE  IndInv'
<1>1. /\ status' = status /\ accounts' = accounts /\ last_seq' = last_seq /\ wals' = wals
      /\ current' = current /\ cleanup' = cleanup /\ doubled' = doubled /\ batch' = batch
      /\ snaps' = snaps /\ threads' = threads /\ history' = history /\ stained' = stained
      /\ lost' = lost /\ restarts' = restarts
  BY DEF vars
<1> QED  BY <1>1 DEF IndInv, LogInv, TypeInv, IssuedInv, HistoryInv, Running, BatchInv, Recoverable,
                     FirstInv, FirstRestartKeepsAll

\* Every step preserves the invariant.
LEMMA IndInvNext == IndInv /\ [Next]_vars => IndInv'
<1> SUFFICES ASSUME IndInv, [Next]_vars  PROVE IndInv'
  OBVIOUS
<1>1. ASSUME NEW c \in Commands, Apply(c) \/ ApplyRefused(c) \/ ApplyPanics(c)  PROVE IndInv'
  BY <1>1, ApplyStep, ApplyRefusedStep, ApplyPanicsStep
<1>2. ASSUME NEW b \in Batches, BatchValidated(b)  PROVE IndInv'
  BY <1>2, BatchValidatedStep
<1>3. CASE BatchAppend \/ BatchCommit
  BY <1>3, BatchAppendStep, BatchCommitStep
<1>4. CASE RotateFails \/ AppendPanics
  BY <1>4, RotateFailsStep, AppendPanicsStep
<1>5. CASE cleanup_old_wals
  BY <1>5, CleanupStep
<1>6. CASE trigger_snapshot
  BY <1>6, TriggerStep
<1>7. ASSUME NEW t \in threads, SnapshotThread(t)  PROVE IndInv'
  BY <1>7, SnapshotThreadStep
<1>8. CASE Crash \/ Open
  BY <1>8, CrashStep, OpenStep
<1>9. CASE UNCHANGED vars
  BY <1>9, StutterStep
<1> QED  BY <1>1, <1>2, <1>3, <1>4, <1>5, <1>6, <1>7, <1>8, <1>9 DEF Next

-----------------------------------------------------------------------------
(***************************************************************************)
(* The theorems.                                                           *)
(***************************************************************************)

\* The inductive invariant holds in every reachable state of GlobalLedger.
THEOREM LedgerInvHolds == Spec => []IndInv
<1>1. Init => IndInv
  BY IndInvInit
<1>2. IndInv /\ [Next]_vars => IndInv'
  BY IndInvNext
<1> QED  BY <1>1, <1>2, PTL DEF Spec

\* Balances stay u64 pairs, the cursor of the log names a file that exists or
\* one that was deleted under it, and there is always a file to go on in.
THEOREM LedgerTypeCorrect == Spec => []TypeOK
<1>1. IndInv => TypeOK
  <2> SUFFICES ASSUME IndInv  PROVE TypeOK
    OBVIOUS
  <2>1. LogInv /\ TypeInv
    BY DEF IndInv
  <2>2. wals # <<>> /\ \A i \in DOMAIN wals : wals[i].start \in Nat \ {0}
    <3>1. Log(wals)
      BY <2>1 DEF LogInv
    <3>2. DOMAIN wals = 1..Len(wals) /\ \A i \in 1..Len(wals) : wals[i].start \in Nat \ {0}
      BY <3>1, LogFacts
    <3> QED  BY <3>1, <3>2 DEF Log
  <2>3. cleanup \in BOOLEAN /\ stained \in BOOLEAN /\ doubled \in BOOLEAN
    BY <2>1 DEF TypeInv
  <2>4. batch.logged \in 0..Len(batch.cmds) /\ Len(history) <= MaxSeq
    <3>1. /\ Len(history) \in Nat /\ Len(batch.cmds) \in Nat /\ batch.logged \in Nat
          /\ batch.logged <= Len(batch.cmds)
          /\ Len(history) + (Len(batch.cmds) - batch.logged) <= MaxSeq
      BY <2>1 DEF TypeInv
    <3> QED  BY <3>1, LedgerAssumption
  <2>5. current \in {Unlinked} \cup 0..Len(wals)
    BY <2>1 DEF LogInv
  <2>6. \A s \in snaps \cup threads : s.seq \in Nat /\ s.accounts \in Table
    BY <2>1 DEF TypeInv, Snapshots
  <2>7. status \in {"up", "down", "failed"} /\ accounts \in Table /\ last_seq \in Nat
    BY <2>1 DEF TypeInv
  <2> QED  BY <2>2, <2>3, <2>4, <2>5, <2>6, <2>7 DEF TypeOK, Table
<1> QED  BY <1>1, LedgerInvHolds, PTL

\* A ledger that is open holds what the commands it counts do, each once and
\* in order, after any crashes, rotations, deletions and restarts.
THEOREM OpensOnAcceptedHistory == Spec => []OpensOnHistory
<1>1. IndInv => OpensOnHistory
  BY DEF IndInv, HistoryInv, Running, OpensOnHistory, Idle
<1> QED  BY <1>1, LedgerInvHolds, PTL

\* The first restart recovers every accepted command or bails, unless two
\* segments have the same number.
THEOREM FirstRestartLosesNothing == Spec => []FirstRestartKeepsAll
<1>1. IndInv => FirstRestartKeepsAll
  BY DEF IndInv
<1> QED  BY <1>1, LedgerInvHolds, PTL

\* Without TradeSettle, whose credit is dropped when it overflows, what the
\* users own is what was deposited and not withdrawn: locks, trades, refunds,
\* batches and restarts neither make nor lose money.
THEOREM MoneyIsConserved ==
    ASSUME Commands \subseteq Plain, Batches \subseteq Seq(Plain)
    PROVE  Spec => []MoneyConserved
<1>1. Issued \subseteq Plain
  <2>1. ASSUME NEW c \in Issued  PROVE c \in Plain
    <3>1. CASE c \in Commands
      BY <3>1
    <3>2. CASE \E b \in Batches : \E i \in 1..Len(b) : b[i] = c
      <4>1. PICK b \in Batches : \E i \in 1..Len(b) : b[i] = c
        BY <3>2
      <4>2. b \in Seq(Plain)
        OBVIOUS
      <4> QED  BY <4>1, <4>2
    <3> QED  BY <3>1, <3>2 DEF Issued
  <2> QED  BY <2>1
<1>2. IndInv => MoneyConserved
  <2> SUFFICES ASSUME IndInv, Idle, ~stained, NEW a \in Asset
               PROVE  Total(accounts, a) = Inflow(history, a)
    BY DEF MoneyConserved, Total
  <2>1. TypeInv /\ IssuedInv /\ Running /\ Recoverable
    BY DEF IndInv, HistoryInv
  <2>2. history \in Seq(Command) /\ Accepted(history)
    BY <2>1 DEF TypeInv, Recoverable
  <2>3. accounts = StateAt(history)
    BY <2>1 DEF Running, Idle
  <2>4. \A i \in 1..Len(history) : history[i] \in Plain
    BY <1>1, <2>1 DEF IssuedInv
  <2>5. Total(StateAt(history), a) = Inflow(history, a)
    BY <2>2, <2>4, HistoryMoney
  <2> QED  BY <2>3, <2>5
<1> QED  BY <1>2, LedgerInvHolds, PTL

\* No step makes the newest snapshot an older one, in whatever order the
\* snapshot threads end.
THEOREM NewestSnapshotStays == Spec => LatestSnapshotKept
<1>1. IndInv /\ [Next]_vars => [LatestSeq(snaps') >= LatestSeq(snaps)]_vars
  <2> SUFFICES ASSUME IndInv, [Next]_vars  PROVE LatestSeq(snaps') >= LatestSeq(snaps)
    OBVIOUS
  <2>0. TypeInv
    BY DEF IndInv
  <2>1. CASE snaps' = snaps
    <3>1. LatestSeq(snaps) \in Nat
      BY <2>0, LatestSeqFacts DEF TypeInv
    <3> QED  BY <2>1, <3>1
  <2>2. ASSUME NEW t \in threads, SnapshotThread(t)  PROVE LatestSeq(snaps') >= LatestSeq(snaps)
    <3>1. snaps' = Kept(snaps \cup {t})
      BY <2>2 DEF SnapshotThread
    <3>2. /\ LatestSeq(snaps) <= LatestSeq(snaps') /\ LatestSeq(snaps) \in Nat
          /\ LatestSeq(snaps') \in Nat
      BY <2>0, <3>1, SnapshotThreadKeeps
    <3> QED  BY <3>2
  <2>3. (\E t \in threads : SnapshotThread(t)) \/ snaps' = snaps
    <3>1. ASSUME NEW c \in Commands, Apply(c) \/ ApplyRefused(c) \/ ApplyPanics(c)
          PROVE  snaps' = snaps
      BY <3>1 DEF Apply, ApplyRefused, ApplyPanics, snapshots
    <3>2. ASSUME NEW b \in Batches, BatchValidated(b)  PROVE snaps' = snaps
      BY <3>2 DEF BatchValidated, snapshots
    <3>3. CASE BatchAppend \/ BatchCommit
      BY <3>3 DEF BatchAppend, BatchCommit, snapshots
    <3>4. CASE RotateFails \/ AppendPanics
      BY <3>4 DEF RotateFails, AppendPanics, snapshots
    <3>5. CASE cleanup_old_wals \/ trigger_snapshot
      BY <3>5 DEF cleanup_old_wals, trigger_snapshot, snapshots
    <3>6. CASE Crash \/ Open
      BY <3>6 DEF Crash, Open, snapshots
    <3>7. CASE UNCHANGED vars
      BY <3>7 DEF vars
    <3> QED  BY <3>1, <3>2, <3>3, <3>4, <3>5, <3>6, <3>7 DEF Next
  <2> QED  BY <2>1, <2>2, <2>3
<1> QED  BY <1>1, LedgerInvHolds, PTL DEF Spec, LatestSnapshotKept
=============================================================================
