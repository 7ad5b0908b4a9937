----------------------------- MODULE SumTheorems -----------------------------
(***************************************************************************)
(* Sums over finite sets (SumFunctionOnSet and SumFunction of the          *)
(* community module Functions), as the balance invariants use them: the    *)
(* recursive function behind them is well defined, and a sum splits at any *)
(* element.  The induction is carried by minimal counterexamples of the    *)
(* well-founded strict subset ordering.  Also the extremes of finite sets  *)
(* of numbers, and induction over the numbers up to a bound.               *)
(***************************************************************************)
EXTENDS Integers, Functions, FiniteSets, FiniteSetTheorems, WellFoundedInduction, TLAPS

Pick(s) == CHOOSE x \in s : TRUE

\* g is the recursive function of a sum of f over the subsets of S
IsSum(g, f, S) ==
    g = [s \in SUBSET S |-> IF s = {} THEN 0 ELSE f[Pick(s)] + g[s \ {Pick(s)}]]

TheSum(f, S) == CHOOSE g : IsSum(g, f, S)

\* The definition of the community module, with its fold unfolded.
LEMMA SumUnfold ==
    ASSUME NEW f, NEW S
    PROVE  SumFunctionOnSet(f, S) = TheSum(f, S)[S]
  BY DEF SumFunctionOnSet, FoldFunctionOnSet, MapThenFoldSet, TheSum, IsSum, Pick

\* A non-empty set of subsets of a finite set has a minimal element.
LEMMA MinimalSubset ==
    ASSUME NEW S, IsFiniteSet(S), NEW T, T \subseteq SUBSET S, T # {}
    PROVE  \E x \in T : \A y \in T : y \subseteq x => y = x
<1>1. IsWellFoundedOn(StrictSubsetOrdering(S), SUBSET S)
  BY FS_StrictSubsetOrderingWellFounded, FS_FiniteSubsetsOfFinite
<1>2. PICK x \in T : \A y \in T : ~(<<y, x>> \in StrictSubsetOrdering(S))
  BY <1>1, WFMin
<1>3. \A y \in T : y \subseteq x => y = x
  BY <1>2 DEF StrictSubsetOrdering
<1> QED  BY <1>3

\* The element a fold takes first is one of the set.
LEMMA PickFacts ==
    ASSUME NEW s, s # {}
    PROVE  Pick(s) \in s
  BY DEF Pick

\* What the recursive function yields.
LEMMA SumStep ==
    ASSUME NEW g, NEW f, NEW S, IsSum(g, f, S), NEW s \in SUBSET S
    PROVE  /\ s = {} => g[s] = 0
           /\ s # {} => g[s] = f[Pick(s)] + g[s \ {Pick(s)}]
  BY DEF IsSum

\* Two such functions agree wherever both are defined.
LEMMA SumUnique ==
    ASSUME NEW f, NEW g, NEW h, NEW S, NEW T, IsFiniteSet(S),
           IsSum(g, f, S), IsSum(h, f, T),
           NEW s \in SUBSET S, s \in SUBSET T
    PROVE  g[s] = h[s]
<1> DEFINE Bad == {x \in SUBSET S : x \in SUBSET T /\ g[x] # h[x]}
<1>1. Bad = {}
  <2> SUFFICES ASSUME Bad # {}  PROVE FALSE
    OBVIOUS
  <2>0. Bad \subseteq SUBSET S
    OBVIOUS
  <2>1. PICK x \in Bad : \A y \in Bad : y \subseteq x => y = x
    <3> HIDE DEF Bad
    <3> QED  BY <2>0, MinimalSubset
  <2>2. x # {}
    BY <2>1, SumStep
  <2>3. x \ {Pick(x)} \notin Bad /\ x \ {Pick(x)} \in SUBSET S /\ x \ {Pick(x)} \in SUBSET T
    BY <2>1, <2>2, PickFacts
  <2>4. g[x] = f[Pick(x)] + g[x \ {Pick(x)}] /\ h[x] = f[Pick(x)] + h[x \ {Pick(x)}]
    BY <2>1, <2>2, SumStep
  <2> QED  BY <2>1, <2>3, <2>4
<1> QED  BY <1>1

\* There is one for every finite set.
LEMMA SumExists ==
    ASSUME NEW f, NEW S, IsFiniteSet(S)
    PROVE  IsSum(TheSum(f, S), f, S)
<1> DEFINE Bad == {U \in SUBSET S : ~ \E g : IsSum(g, f, U)}
<1>1. Bad = {}
  <2> SUFFICES ASSUME Bad # {}  PROVE FALSE
    OBVIOUS
  <2>0. Bad \subseteq SUBSET S
    OBVIOUS
  <2>1. PICK U \in Bad : \A V \in Bad : V \subseteq U => V = U
    <3> HIDE DEF Bad
    <3> QED  BY <2>0, MinimalSubset
  <2>2. \A V \in SUBSET U : V # U => IsSum(TheSum(f, V), f, V)
    BY <2>1 DEF TheSum
  <2>3. \A V \in SUBSET U : IsFiniteSet(V)
    BY <2>1, FS_Subset
  <2> DEFINE val(s) == IF s = {} THEN 0
                       ELSE f[Pick(s)] + TheSum(f, s \ {Pick(s)})[s \ {Pick(s)}]
             G == [s \in SUBSET U |-> val(s)]
  <2>4. ASSUME NEW s \in SUBSET U, s # {}
        PROVE  G[s \ {Pick(s)}] = TheSum(f, s \ {Pick(s)})[s \ {Pick(s)}]
    <3>1. PICK r : r = s \ {Pick(s)}
      OBVIOUS
    <3>2. r \in SUBSET U /\ r # U
      BY <2>4, <3>1, PickFacts
    <3>3. IsSum(TheSum(f, r), f, r)
      BY <2>2, <3>2
    <3>4. CASE r = {}
      BY <3>1, <3>2, <3>3, <3>4, SumStep
    <3>5. CASE r # {}
      <4>1. PICK q : q = r \ {Pick(r)}
        OBVIOUS
      <4>2. q \in SUBSET r /\ q \in SUBSET U /\ q # U
        BY <3>2, <3>5, <4>1, PickFacts
      <4>3. IsSum(TheSum(f, q), f, q)
        BY <2>2, <4>2
      <4>4. TheSum(f, r)[q] = TheSum(f, q)[q]
        BY <2>3, <3>2, <3>3, <4>2, <4>3, SumUnique
      <4>5. TheSum(f, r)[r] = f[Pick(r)] + TheSum(f, r)[q]
        BY <3>3, <3>5, <4>1, SumStep
      <4>6. G[r] = f[Pick(r)] + TheSum(f, q)[q]
        BY <3>2, <3>5, <4>1
      <4> QED  BY <3>1, <4>4, <4>5, <4>6
    <3> QED  BY <3>4, <3>5
  <2>5. G = [s \in SUBSET U |-> IF s = {} THEN 0 ELSE f[Pick(s)] + G[s \ {Pick(s)}]]
    BY <2>4
  <2>6. \E g : IsSum(g, f, U)
    BY <2>5 DEF IsSum
  <2> QED  BY <2>1, <2>6
<1>2. S \notin Bad
  BY <1>1
<1>3. \E g : IsSum(g, f, S)
  BY <1>2
<1> QED  BY <1>3 DEF TheSum

\* The recursive function over S, seen from a subset.
LEMMA SumSubset ==
    ASSUME NEW f, NEW S, IsFiniteSet(S), NEW T \in SUBSET S
    PROVE  TheSum(f, S)[T] = SumFunctionOnSet(f, T)
<1>1. IsFiniteSet(T)
  BY FS_Subset
<1>2. IsSum(TheSum(f, S), f, S) /\ IsSum(TheSum(f, T), f, T)
  BY <1>1, SumExists
<1>3. TheSum(f, S)[T] = TheSum(f, T)[T]
  BY <1>2, SumUnique
<1> QED  BY <1>3, SumUnfold

\* The sum over nothing.
LEMMA SumEmpty ==
    ASSUME NEW f
    PROVE  SumFunctionOnSet(f, {}) = 0
<1>1. IsFiniteSet({})
  BY FS_EmptySet
<1> QED  BY <1>1, SumExists, SumStep, SumUnfold

\* The sum over a set, split at the element that CHOOSE takes.
LEMMA SumPick ==
    ASSUME NEW f, NEW S, IsFiniteSet(S), S # {}
    PROVE  SumFunctionOnSet(f, S) = f[Pick(S)] + SumFunctionOnSet(f, S \ {Pick(S)})
<1>1. IsSum(TheSum(f, S), f, S)
  BY SumExists
<1>2. TheSum(f, S)[S] = f[Pick(S)] + TheSum(f, S)[S \ {Pick(S)}]
  BY <1>1, SumStep
<1> QED  BY <1>2, SumSubset, SumUnfold

\* A sum of integers is an integer.
LEMMA SumInt ==
    ASSUME NEW S, IsFiniteSet(S), NEW f, \A x \in S : f[x] \in Int
    PROVE  SumFunctionOnSet(f, S) \in Int
<1> DEFINE Bad == {T \in SUBSET S : SumFunctionOnSet(f, T) \notin Int}
<1>1. Bad = {}
  <2> SUFFICES ASSUME Bad # {}  PROVE FALSE
    OBVIOUS
  <2>0. Bad \subseteq SUBSET S
    OBVIOUS
  <2>1. PICK T \in Bad : \A y \in Bad : y \subseteq T => y = T
    <3> HIDE DEF Bad
    <3> QED  BY <2>0, MinimalSubset
  <2>2. T # {} /\ IsFiniteSet(T)
    <3>1. T # {}
      BY <2>1, SumEmpty, 0 \in Int
    <3>2. IsFiniteSet(T)
      BY <2>1, FS_Subset
    <3> QED  BY <3>1, <3>2
  <2>3. Pick(T) \in T
    BY <2>2, PickFacts
  <2>4. T \ {Pick(T)} \notin Bad /\ T \ {Pick(T)} \in SUBSET S
    BY <2>1, <2>3
  <2>5. SumFunctionOnSet(f, T \ {Pick(T)}) \in Int
    BY <2>4
  <2>6. f[Pick(T)] \in Int
    BY <2>3
  <2> QED  BY <2>2, <2>5, <2>6, SumPick
<1>2. S \notin Bad
  BY <1>1
<1> QED  BY <1>2

\* A sum splits at any element.
LEMMA SumSplit ==
    ASSUME NEW S, IsFiniteSet(S), NEW f, \A y \in S : f[y] \in Int, NEW x \in S
    PROVE  SumFunctionOnSet(f, S) = f[x] + SumFunctionOnSet(f, S \ {x})
<1> DEFINE Bad == {T \in SUBSET S :
                     \E y \in T : SumFunctionOnSet(f, T) # f[y] + SumFunctionOnSet(f, T \ {y})}
<1>1. Bad = {}
  <2> SUFFICES ASSUME Bad # {}  PROVE FALSE
    OBVIOUS
  <2>0. Bad \subseteq SUBSET S
    OBVIOUS
  <2>1. PICK T \in Bad : \A U \in Bad : U \subseteq T => U = T
    <3> HIDE DEF Bad
    <3> QED  BY <2>0, MinimalSubset
  <2>2. PICK y \in T : SumFunctionOnSet(f, T) # f[y] + SumFunctionOnSet(f, T \ {y})
    BY <2>1
  <2>3. PICK z : z = Pick(T)
    OBVIOUS
  <2>4. z \in T
    BY <2>2, <2>3, PickFacts
  <2>5. \A U \in SUBSET T : IsFiniteSet(U) /\ SumFunctionOnSet(f, U) \in Int
    BY <2>1, FS_Subset, SumInt
  <2>6. SumFunctionOnSet(f, T) = f[z] + SumFunctionOnSet(f, T \ {z})
    BY <2>2, <2>3, <2>5, SumPick
  <2>7. y # z
    BY <2>2, <2>6
  <2>8. SumFunctionOnSet(f, T \ {z}) = f[y] + SumFunctionOnSet(f, (T \ {z}) \ {y})
    <3>1. T \ {z} \notin Bad /\ T \ {z} \in SUBSET S /\ y \in T \ {z}
      BY <2>1, <2>4, <2>7
    <3> QED  BY <3>1
  <2>9. SumFunctionOnSet(f, T \ {y}) = f[z] + SumFunctionOnSet(f, (T \ {y}) \ {z})
    <3>1. T \ {y} \notin Bad /\ T \ {y} \in SUBSET S /\ z \in T \ {y}
      BY <2>1, <2>2, <2>4, <2>7
    <3> QED  BY <3>1
  <2>10. (T \ {z}) \ {y} = (T \ {y}) \ {z}
    OBVIOUS
  <2>11. f[y] \in Int /\ f[z] \in Int /\ SumFunctionOnSet(f, (T \ {y}) \ {z}) \in Int
    BY <2>1, <2>4, <2>5
  <2>12. PICK s \in Int : s = SumFunctionOnSet(f, (T \ {y}) \ {z})
    BY <2>11
  <2>13. SumFunctionOnSet(f, T \ {z}) = f[y] + s /\ SumFunctionOnSet(f, T \ {y}) = f[z] + s
    BY <2>8, <2>9, <2>10, <2>12
  <2>14. SumFunctionOnSet(f, T) = f[z] + (f[y] + s)
    BY <2>6, <2>13
  <2>15. SumFunctionOnSet(f, T) = f[y] + (f[z] + s)
    <3> HIDE DEF Bad
    <3> QED  BY <2>14, <2>11
  <2> QED  BY <2>2, <2>13, <2>15
<1>2. S \notin Bad
  BY <1>1
<1> QED  BY <1>2

\* Functions that agree on a set have the same sum over it.
LEMMA SumEqual ==
    ASSUME NEW S, IsFiniteSet(S), NEW f, NEW g, \A x \in S : f[x] = g[x]
    PROVE  SumFunctionOnSet(f, S) = SumFunctionOnSet(g, S)
<1> DEFINE Bad == {T \in SUBSET S : SumFunctionOnSet(f, T) # SumFunctionOnSet(g, T)}
<1>1. Bad = {}
  <2> SUFFICES ASSUME Bad # {}  PROVE FALSE
    OBVIOUS
  <2>0. Bad \subseteq SUBSET S
    OBVIOUS
  <2>1. PICK T \in Bad : \A U \in Bad : U \subseteq T => U = T
    <3> HIDE DEF Bad
    <3> QED  BY <2>0, MinimalSubset
  <2>2. T # {} /\ IsFiniteSet(T)
    BY SumEmpty, FS_Subset
  <2>3. Pick(T) \in T
    BY <2>2, PickFacts
  <2>4. SumFunctionOnSet(f, T \ {Pick(T)}) = SumFunctionOnSet(g, T \ {Pick(T)})
    <3>1. T \ {Pick(T)} \notin Bad /\ T \ {Pick(T)} \in SUBSET S
      BY <2>1, <2>3
    <3> QED  BY <3>1
  <2>5. f[Pick(T)] = g[Pick(T)]
    BY <2>3
  <2> QED  BY <2>1, <2>2, <2>4, <2>5, SumPick
<1>2. S \notin Bad
  BY <1>1
<1> QED  BY <1>2

\* Two functions that differ at one element have sums that differ by as much:
\* how a balance table's total moves with one entry.
THEOREM SumChange ==
    ASSUME NEW S, IsFiniteSet(S), NEW x \in S,
           NEW f, NEW g, \A y \in S : f[y] \in Int /\ g[y] \in Int,
           \A y \in S : y # x => g[y] = f[y]
    PROVE  SumFunctionOnSet(g, S) = SumFunctionOnSet(f, S) + (g[x] - f[x])
<1>1. IsFiniteSet(S \ {x})
  BY FS_RemoveElement
<1>2. SumFunctionOnSet(g, S \ {x}) = SumFunctionOnSet(f, S \ {x})
  BY <1>1, SumEqual
<1>3. SumFunctionOnSet(f, S) = f[x] + SumFunctionOnSet(f, S \ {x})
  BY SumSplit
<1>4. SumFunctionOnSet(g, S) = g[x] + SumFunctionOnSet(g, S \ {x})
  BY SumSplit
<1>5. SumFunctionOnSet(f, S \ {x}) \in Int
  BY <1>1, SumInt
<1> QED  BY <1>2, <1>3, <1>4, <1>5

\* A sum of nothing but zeros.
LEMMA SumZero ==
    ASSUME NEW S, IsFiniteSet(S), NEW f, \A x \in S : f[x] = 0
    PROVE  SumFunctionOnSet(f, S) = 0
<1> DEFINE Bad == {T \in SUBSET S : SumFunctionOnSet(f, T) # 0}
<1>1. Bad = {}
  <2> SUFFICES ASSUME Bad # {}  PROVE FALSE
    OBVIOUS
  <2>0. Bad \subseteq SUBSET S
    OBVIOUS
  <2>1. PICK T \in Bad : \A U \in Bad : U \subseteq T => U = T
    <3> HIDE DEF Bad
    <3> QED  BY <2>0, MinimalSubset
  <2>2. T # {} /\ IsFiniteSet(T)
    BY SumEmpty, FS_Subset
  <2>3. Pick(T) \in T
    BY <2>2, PickFacts
  <2>4. SumFunctionOnSet(f, T \ {Pick(T)}) = 0
    <3>1. T \ {Pick(T)} \notin Bad /\ T \ {Pick(T)} \in SUBSET S
      BY <2>1, <2>3
    <3> QED  BY <3>1
  <2> QED  BY <2>1, <2>2, <2>3, <2>4, SumPick
<1>2. S \notin Bad
  BY <1>1
<1> QED  BY <1>2

\* A sum of naturals bounds each of its parts.
LEMMA SumBounds ==
    ASSUME NEW S, IsFiniteSet(S), NEW f, \A x \in S : f[x] \in Nat
    PROVE  /\ SumFunctionOnSet(f, S) \in Nat
           /\ \A x \in S : f[x] <= SumFunctionOnSet(f, S)
<1> DEFINE Bad == {T \in SUBSET S : SumFunctionOnSet(f, T) \notin Nat}
<1>1. Bad = {}
  <2> SUFFICES ASSUME Bad # {}  PROVE FALSE
    OBVIOUS
  <2>0. Bad \subseteq SUBSET S
    OBVIOUS
  <2>1. PICK T \in Bad : \A U \in Bad : U \subseteq T => U = T
    <3> HIDE DEF Bad
    <3> QED  BY <2>0, MinimalSubset
  <2>2. T # {} /\ IsFiniteSet(T)
    <3>1. T # {}
      BY <2>1, SumEmpty, 0 \in Nat
    <3>2. IsFiniteSet(T)
      BY <2>1, FS_Subset
    <3> QED  BY <3>1, <3>2
  <2>3. Pick(T) \in T
    BY <2>2, PickFacts
  <2>4. SumFunctionOnSet(f, T \ {Pick(T)}) \in Nat
    <3>1. T \ {Pick(T)} \notin Bad /\ T \ {Pick(T)} \in SUBSET S
      BY <2>1, <2>3
    <3> QED  BY <3>1
  <2>5. f[Pick(T)] \in Nat
    BY <2>3
  <2> QED  BY <2>1, <2>2, <2>4, <2>5, SumPick
<1>2. \A T \in SUBSET S : SumFunctionOnSet(f, T) \in Nat
  BY <1>1
<1>3. ASSUME NEW x \in S  PROVE f[x] <= SumFunctionOnSet(f, S)
  <2>1. \A y \in S : f[y] \in Int
    OBVIOUS
  <2>2. SumFunctionOnSet(f, S) = f[x] + SumFunctionOnSet(f, S \ {x})
    BY <2>1, SumSplit
  <2>3. SumFunctionOnSet(f, S \ {x}) \in Nat
    BY <1>2
  <2> QED  BY <2>2, <2>3
<1> QED  BY <1>2, <1>3

\* Induction over the subsets of a finite set, the claim given as a set.
LEMMA SubsetInduction ==
    ASSUME NEW S, IsFiniteSet(S), NEW Good, {} \in Good,
           \A T \in SUBSET S : T # {} /\ T \ {Pick(T)} \in Good => T \in Good
    PROVE  S \in Good
<1> DEFINE Bad == {T \in SUBSET S : T \notin Good}
<1>1. Bad = {}
  <2> SUFFICES ASSUME Bad # {}  PROVE FALSE
    OBVIOUS
  <2>0. Bad \subseteq SUBSET S
    OBVIOUS
  <2>1. PICK T \in Bad : \A U \in Bad : U \subseteq T => U = T
    <3> HIDE DEF Bad
    <3> QED  BY <2>0, MinimalSubset
  <2>2. T # {} /\ T \in SUBSET S
    OBVIOUS
  <2>3. Pick(T) \in T
    BY <2>2, PickFacts
  <2>4. T \ {Pick(T)} \notin Bad /\ T \ {Pick(T)} \in SUBSET S
    BY <2>1, <2>3
  <2> QED  BY <2>1, <2>2, <2>4
<1> QED  BY <1>1

\* A sum may be split term by term.
LEMMA SumAdd ==
    ASSUME NEW S, IsFiniteSet(S), NEW f, NEW g, NEW h,
           \A x \in S : f[x] \in Int /\ g[x] \in Int /\ h[x] = f[x] + g[x]
    PROVE  SumFunctionOnSet(h, S) = SumFunctionOnSet(f, S) + SumFunctionOnSet(g, S)
<1> DEFINE Good == {T \in SUBSET S : SumFunctionOnSet(h, T)
                                       = SumFunctionOnSet(f, T) + SumFunctionOnSet(g, T)}
<1>1. {} \in Good
  BY SumEmpty
<1>2. ASSUME NEW T \in SUBSET S, T # {}, T \ {Pick(T)} \in Good  PROVE T \in Good
  <2>0. IsFiniteSet(T) /\ IsFiniteSet(T \ {Pick(T)})
    BY FS_Subset
  <2>1. Pick(T) \in S /\ \A x \in T \ {Pick(T)} : f[x] \in Int /\ g[x] \in Int
    BY <1>2, PickFacts
  <2>2. PICK a, b : a = SumFunctionOnSet(f, T \ {Pick(T)}) /\ b = SumFunctionOnSet(g, T \ {Pick(T)})
    OBVIOUS
  <2>3. a \in Int /\ b \in Int
    BY <2>0, <2>1, <2>2, SumInt
  <2>4. SumFunctionOnSet(h, T \ {Pick(T)}) = a + b
    BY <1>2, <2>2
  <2>5. /\ SumFunctionOnSet(h, T) = h[Pick(T)] + (a + b)
        /\ SumFunctionOnSet(f, T) = f[Pick(T)] + a
        /\ SumFunctionOnSet(g, T) = g[Pick(T)] + b
    BY <1>2, <2>0, <2>2, <2>4, SumPick
  <2>6. /\ h[Pick(T)] = f[Pick(T)] + g[Pick(T)]
        /\ f[Pick(T)] \in Int /\ g[Pick(T)] \in Int
    BY <2>1
  <2> QED  BY <2>3, <2>5, <2>6
<1>3. S \in Good
  <2> HIDE DEF Good
  <2> QED  BY <1>1, <1>2, SubsetInduction
<1> QED  BY <1>3

\* A sum of smaller terms is smaller.
LEMMA SumMono ==
    ASSUME NEW S, IsFiniteSet(S), NEW f, NEW g,
           \A x \in S : f[x] \in Int /\ g[x] \in Int /\ f[x] <= g[x]
    PROVE  SumFunctionOnSet(f, S) <= SumFunctionOnSet(g, S)
<1>1. PICK d : d = [x \in S |-> g[x] - f[x]]
  OBVIOUS
<1>2. \A x \in S : d[x] \in Nat /\ g[x] = f[x] + d[x]
  BY <1>1
<1>3. SumFunctionOnSet(g, S) = SumFunctionOnSet(f, S) + SumFunctionOnSet(d, S)
  BY <1>2, SumAdd
<1>4. SumFunctionOnSet(d, S) \in Nat /\ SumFunctionOnSet(f, S) \in Int
  BY <1>2, SumBounds, SumInt
<1> QED  BY <1>3, <1>4

\* A sum over part of a set is one of terms that are zero outside of it.
LEMMA SumOfPart ==
    ASSUME NEW S, IsFiniteSet(S), NEW P \in SUBSET S, NEW f, NEW g,
           \A x \in S : f[x] \in Int /\ g[x] = IF x \in P THEN f[x] ELSE 0
    PROVE  SumFunctionOnSet(g, S) = SumFunctionOnSet(f, P)
<1> DEFINE Good == {T \in SUBSET S : SumFunctionOnSet(g, T) = SumFunctionOnSet(f, P \cap T)}
<1>1. {} \in Good
  <2>1. P \cap {} = {}
    OBVIOUS
  <2> QED  BY <2>1, SumEmpty
<1>2. ASSUME NEW T \in SUBSET S, T # {}, T \ {Pick(T)} \in Good  PROVE T \in Good
  <2>0. IsFiniteSet(T) /\ IsFiniteSet(P \cap T) /\ IsFiniteSet(P \cap (T \ {Pick(T)}))
    BY FS_Subset
  <2>1. Pick(T) \in S /\ Pick(T) \in T /\ \A x \in P \cap T : f[x] \in Int
    BY <1>2, PickFacts
  <2>2. PICK a : a = SumFunctionOnSet(f, P \cap (T \ {Pick(T)}))
    OBVIOUS
  <2>3. a \in Int
    BY <2>0, <2>1, <2>2, SumInt
  <2>4. SumFunctionOnSet(g, T) = g[Pick(T)] + a
    <3>1. SumFunctionOnSet(g, T \ {Pick(T)}) = a
      BY <1>2, <2>2
    <3> QED  BY <1>2, <2>0, <3>1, SumPick
  <2>5. CASE Pick(T) \in P
    <3>1. (P \cap T) \ {Pick(T)} = P \cap (T \ {Pick(T)})
      OBVIOUS
    <3>2. SumFunctionOnSet(f, P \cap T) = f[Pick(T)] + a
      BY <2>0, <2>1, <2>2, <2>5, <3>1, SumSplit
    <3>3. g[Pick(T)] = f[Pick(T)]
      BY <2>1, <2>5
    <3>4. SumFunctionOnSet(g, T) = SumFunctionOnSet(f, P \cap T)
      BY <2>4, <3>2, <3>3
    <3> QED  BY <3>4
  <2>6. CASE Pick(T) \notin P
    <3>1. P \cap T = P \cap (T \ {Pick(T)})
      BY <2>6
    <3>2. g[Pick(T)] = 0
      BY <2>1, <2>6
    <3>3. SumFunctionOnSet(g, T) = a
      BY <2>3, <2>4, <3>2
    <3>4. SumFunctionOnSet(f, P \cap T) = a
      BY <2>2, <3>1, Zenon
    <3> QED  BY <3>3, <3>4
  <2> QED  BY <2>5, <2>6
<1>3. S \in Good
  <2> HIDE DEF Good
  <2> QED  BY <1>1, <1>2, SubsetInduction
<1>4. P \cap S = P
  OBVIOUS
<1> QED  BY <1>3, <1>4

\* A sum of equal terms.
LEMMA SumConst ==
    ASSUME NEW S, IsFiniteSet(S), NEW f, NEW c \in Int, \A x \in S : f[x] = c
    PROVE  SumFunctionOnSet(f, S) = c * Cardinality(S)
<1> DEFINE Good == {T \in SUBSET S : SumFunctionOnSet(f, T) = c * Cardinality(T)}
<1>1. {} \in Good
  BY SumEmpty, FS_EmptySet
<1>2. ASSUME NEW T \in SUBSET S, T # {}, T \ {Pick(T)} \in Good  PROVE T \in Good
  <2>0. IsFiniteSet(T)
    BY FS_Subset
  <2>1. Pick(T) \in S /\ Pick(T) \in T
    BY <1>2, PickFacts
  <2>2. PICK n \in Nat : Cardinality(T \ {Pick(T)}) = n /\ Cardinality(T) = n + 1
    <3>1. Cardinality(T) \in Nat /\ Cardinality(T \ {Pick(T)}) \in Nat
      BY <2>0, FS_RemoveElement, FS_CardinalityType
    <3>2. Cardinality(T \ {Pick(T)}) = Cardinality(T) - 1
      BY <2>0, <2>1, FS_RemoveElement
    <3> QED  BY <3>1, <3>2
  <2>3. SumFunctionOnSet(f, T) = c + c * n
    BY <1>2, <2>0, <2>1, <2>2, SumPick
  <2> QED  BY <2>2, <2>3
<1>3. S \in Good
  <2> HIDE DEF Good
  <2> QED  BY <1>1, <1>2, SubsetInduction
<1> QED  BY <1>3

-----------------------------------------------------------------------------
(***************************************************************************)
(* Finite sets of numbers.                                                 *)
(***************************************************************************)

\* A finite set of numbers has a least and a greatest one.
LEMMA Extremes ==
    ASSUME NEW S, IsFiniteSet(S), S # {}, \A x \in S : x \in Int
    PROVE  /\ \E x \in S : \A y \in S : x <= y
           /\ \E x \in S : \A y \in S : x >= y
  <1> DEFINE Bounded(T) == /\ \E x \in T : \A y \in T : x <= y
                           /\ \E x \in T : \A y \in T : x >= y
             Bad == {T \in SUBSET S : T # {} /\ ~Bounded(T)}
  <1>1. Bad = {}
    <2> SUFFICES ASSUME Bad # {} PROVE FALSE
      OBVIOUS
    <2>2. Bad \subseteq SUBSET S
      OBVIOUS
    <2>3. PICK T \in Bad : \A U \in Bad : U \subseteq T => U = T
      <3> HIDE DEF Bad, Bounded
      <3>1. QED
        BY <2>2, MinimalSubset
    <2>4. T \subseteq Int /\ T # {} /\ T \subseteq S
      OBVIOUS
    <2>5. PICK x \in T : TRUE
      BY <2>4
    <2>6. x \in Int /\ T = (T \ {x}) \cup {x}
      BY <2>4, <2>5
    <2>7. CASE T \ {x} = {}
      <3>1. T = {x}
        BY <2>6, <2>7
      <3>2. Bounded(T)
        BY <2>6, <3>1
      <3>3. QED
        BY <3>2
    <2>8. CASE T \ {x} # {}
      <3>1. T \ {x} \notin Bad
        BY <2>3, <2>5
      <3>2. Bounded(T \ {x})
        BY <2>4, <2>8, <3>1
      <3>3. PICK lo \in T \ {x} : \A y \in T \ {x} : lo <= y
        BY <3>2
      <3>4. PICK hi \in T \ {x} : \A y \in T \ {x} : hi >= y
        BY <3>2
      <3>5. \E z \in T : \A y \in T : z <= y
        <4>1. CASE x <= lo
          <5>1. \A y \in T : x <= y
            BY <2>4, <2>6, <3>3, <4>1
          <5>2. QED
            BY <2>5, <5>1
        <4>2. CASE lo < x
          <5>1. \A y \in T : lo <= y
            BY <2>4, <2>6, <3>3, <4>2
          <5>2. QED
            BY <3>3, <5>1
        <4>3. QED
          BY <2>4, <2>6, <3>3, <4>1, <4>2
      <3>6. \E z \in T : \A y \in T : z >= y
        <4>1. CASE x >= hi
          <5>1. \A y \in T : x >= y
            BY <2>4, <2>6, <3>4, <4>1
          <5>2. QED
            BY <2>5, <5>1
        <4>2. CASE hi > x
          <5>1. \A y \in T : hi >= y
            BY <2>4, <2>6, <3>4, <4>2
          <5>2. QED
            BY <3>4, <5>1
        <4>3. QED
          BY <2>4, <2>6, <3>4, <4>1, <4>2
      <3>7. QED
        BY <3>5, <3>6
    <2>9. QED
      BY <2>7, <2>8
  <1>2. S \notin Bad
    BY <1>1
  <1>3. QED
    BY <1>2

\* Induction up to a bound, for the members of a set.
LEMMA UpToInduction ==
    ASSUME NEW S, NEW n \in Nat, 0 \in S, \A i \in 0..n : i \in S /\ i < n => i + 1 \in S
    PROVE  \A i \in 0..n : i \in S
  <1> DEFINE Bad == {i \in 0..n : i \notin S}
  <1>1. Bad = {}
    <2> SUFFICES ASSUME Bad # {} PROVE FALSE
      OBVIOUS
    <2>1. IsFiniteSet(Bad)
      <3>1. IsFiniteSet(0..n)
        BY FS_Interval
      <3>2. QED
        BY <3>1, FS_Subset
    <2>2. \A x \in Bad : x \in Int
      OBVIOUS
    <2>3. PICK m \in Bad : \A y \in Bad : m <= y
      <3> HIDE DEF Bad
      <3>1. QED
        BY <2>1, <2>2, Extremes
    <2>4. m # 0 /\ m - 1 \in 0..n /\ m - 1 < n
      OBVIOUS
    <2>5. m - 1 \in S
      BY <2>3, <2>4
    <2>6. QED
      BY <2>4, <2>5
  <1>2. QED
    BY <1>1
=============================================================================
