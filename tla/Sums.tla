-------------------------------- MODULE Sums --------------------------------
(***************************************************************************)
(* What the library's folds over a set compute when they add: a sum over a *)
(* finite set does not depend on the order in which its elements are       *)
(* taken, and changes with an element by as much as the element.           *)
(*                                                                         *)
(* A fold is a function that is chosen because it satisfies its recursive  *)
(* definition; that there is one, and what it gives for each subset, is    *)
(* shown by induction.  The induction is stated over sets of numbers and   *)
(* of subsets (a set that contains ... contains all), and rests on the     *)
(* order of the naturals being well founded.                               *)
(***************************************************************************)
EXTENDS Integers, FiniteSets, Functions, FiniteSetTheorems,
        WellFoundedInduction, TLAPS

LEMMA LeastNatural ==
  ASSUME NEW T \in SUBSET Nat, T # {}
  PROVE  \E n \in T : \A m \in T : n <= m
<1> DEFINE R == OpToRel(<, Nat)
<1>1. IsWellFoundedOn(R, Nat)
  BY NatLessThanWellFounded
<1> HIDE DEF R
<1>2. PICK n \in T : \A m \in T : <<m, n>> \notin R
  BY <1>1, WFMin
<1>3. \A m \in T : ~(m < n)
  BY <1>2 DEF R, OpToRel
<1> QED BY <1>3

LEMMA NaturalsReached ==
  ASSUME NEW G \in SUBSET Nat, 0 \in G, \A n \in G : n + 1 \in G
  PROVE  G = Nat
<1> SUFFICES ASSUME Nat \ G # {} PROVE FALSE
  OBVIOUS
<1>1. PICK n \in Nat \ G : \A m \in Nat \ G : n <= m
  BY LeastNatural
<1>2. n - 1 \in Nat /\ ~(n <= n - 1)
  BY <1>1
<1>3. n - 1 \in G
  BY <1>1, <1>2
<1> QED BY <1>1, <1>2, <1>3

\* Every subset of a finite set is reached from those that have fewer elements.
LEMMA SubsetsReached ==
  ASSUME NEW S, IsFiniteSet(S), NEW Q \in SUBSET SUBSET S,
         \A s \in SUBSET S :
           (\A r \in SUBSET S : Cardinality(r) < Cardinality(s) => r \in Q) => s \in Q
  PROVE  Q = SUBSET S
<1> SUFFICES ASSUME (SUBSET S) \ Q # {} PROVE FALSE
  OBVIOUS
<1> DEFINE T == {Cardinality(s) : s \in (SUBSET S) \ Q}
<1>1. \A s \in SUBSET S : Cardinality(s) \in Nat
  <2> SUFFICES ASSUME NEW s \in SUBSET S PROVE Cardinality(s) \in Nat
    OBVIOUS
  <2>1. IsFiniteSet(s)
    BY FS_Subset
  <2> QED BY <2>1, FS_CardinalityType
<1>2. T \in SUBSET Nat /\ T # {}
  BY <1>1
<1> HIDE DEF T
<1>3. PICK n \in T : \A m \in T : n <= m
  BY <1>2, LeastNatural
<1>4. PICK s \in (SUBSET S) \ Q : n = Cardinality(s)
  BY <1>3 DEF T
<1>5. ASSUME NEW r \in SUBSET S, Cardinality(r) < Cardinality(s) PROVE r \in Q
  <2>1. SUFFICES ASSUME r \notin Q PROVE FALSE
    OBVIOUS
  <2>2. Cardinality(r) \in T
    BY <2>1 DEF T
  <2>3. n <= Cardinality(r)
    BY <2>2, <1>3
  <2> QED BY <1>1, <1>4, <1>5, <2>3
<1> QED BY <1>4, <1>5

LEMMA OneLess ==
  ASSUME NEW S, IsFiniteSet(S), NEW s \in SUBSET S, NEW x \in s
  PROVE  /\ s \ {x} \in SUBSET S /\ Cardinality(s) \in Nat
         /\ Cardinality(s \ {x}) = Cardinality(s) - 1 /\ Cardinality(s \ {x}) \in Nat
         /\ Cardinality(s) <= Cardinality(S)
<1>1. IsFiniteSet(s) /\ Cardinality(s) <= Cardinality(S)
  BY FS_Subset
<1>2. Cardinality(s \ {x}) = Cardinality(s) - 1 /\ IsFiniteSet(s \ {x})
  BY <1>1, FS_RemoveElement
<1> QED BY <1>1, <1>2, FS_CardinalityType

-----------------------------------------------------------------------------
(* The sum of f over S, as the folds of the library define it.             *)

Taken(s) == CHOOSE x \in s : TRUE
Adds(f, h, s) == IF s = {} THEN 0 ELSE f[Taken(s)] + h[s \ {Taken(s)}]
Summing(f, S, h) == h = [s \in SUBSET S |-> Adds(f, h, s)]
Part(f, S, s) == (CHOOSE h : Summing(f, S, h))[s]
Total(f, S) == Part(f, S, S)

LEMMA TakenIn == ASSUME NEW s, s # {} PROVE Taken(s) \in s
BY DEF Taken

LEMMA FoldIsTotal ==
  ASSUME NEW f
  PROVE  FoldFunction(+, 0, f) = Total(f, DOMAIN f)
BY DEF FoldFunction, FoldFunctionOnSet, MapThenFoldSet, Total, Part, Summing, Adds, Taken

LEMMA SummingExists ==
  ASSUME NEW S, IsFiniteSet(S), NEW f, \A x \in S : f[x] \in Int
  PROVE  \E h : Summing(f, S, h)
<1> DEFINE Upto(h, n) == \A s \in SUBSET S : Cardinality(s) <= n => h[s] = Adds(f, h, s)
           G == {n \in Nat : \E h \in [SUBSET S -> Int] : Upto(h, n)}
<1>1. 0 \in G
  <2> DEFINE h == [s \in SUBSET S |-> 0]
  <2>1. h \in [SUBSET S -> Int]
    OBVIOUS
  <2>2. ASSUME NEW s \in SUBSET S, Cardinality(s) <= 0 PROVE h[s] = Adds(f, h, s)
    <3>1. s = {}
      BY <2>2, FS_Subset, FS_EmptySet, FS_CardinalityType
    <3> QED BY <3>1 DEF Adds
  <2> QED BY <2>1, <2>2
<1>2. ASSUME NEW n \in G PROVE n + 1 \in G
  <2>1. PICK h \in [SUBSET S -> Int] : Upto(h, n)
    OBVIOUS
  <2> DEFINE k == [s \in SUBSET S |-> IF Cardinality(s) <= n THEN h[s] ELSE Adds(f, h, s)]
  <2>2. \A s \in SUBSET S : s # {} =>
          /\ Taken(s) \in s /\ s \ {Taken(s)} \in SUBSET S
          /\ Cardinality(s) \in Nat
          /\ Cardinality(s \ {Taken(s)}) = Cardinality(s) - 1
    BY TakenIn, OneLess
  <2>3. \A s \in SUBSET S : Adds(f, h, s) \in Int
    BY <2>1, <2>2 DEF Adds
  <2>4. k \in [SUBSET S -> Int]
    BY <2>1, <2>3
  <2>5. ASSUME NEW s \in SUBSET S, Cardinality(s) <= n + 1 PROVE k[s] = Adds(f, k, s)
    <3>1. k[s] = Adds(f, h, s)
      BY <2>1
    <3>2. CASE s = {}
      BY <3>1, <3>2 DEF Adds
    <3>3. CASE s # {}
      <4>1. Cardinality(s \ {Taken(s)}) <= n
        BY <2>2, <2>5, <3>3
      <4>2. k[s \ {Taken(s)}] = h[s \ {Taken(s)}]
        BY <2>2, <3>3, <4>1
      <4> QED BY <3>1, <3>3, <4>2 DEF Adds
    <3> QED BY <3>2, <3>3
  <2> HIDE DEF k
  <2> QED BY <2>4, <2>5
<1> HIDE DEF G
<1>3. G = Nat
  BY <1>1, <1>2, NaturalsReached DEF G
<1>4. Cardinality(S) \in Nat
  BY FS_CardinalityType
<1>5. PICK h \in [SUBSET S -> Int] : Upto(h, Cardinality(S))
  BY <1>3, <1>4 DEF G
<1>6. \A s \in SUBSET S : h[s] = Adds(f, h, s)
  BY <1>5, FS_Subset
<1>7. h = [s \in SUBSET S |-> Adds(f, h, s)]
  BY <1>6
<1> QED BY <1>7 DEF Summing

LEMMA PartUnfolds ==
  ASSUME NEW S, IsFiniteSet(S), NEW f, \A x \in S : f[x] \in Int, NEW s \in SUBSET S
  PROVE  /\ s = {} => Part(f, S, s) = 0
         /\ s # {} => Part(f, S, s) = f[Taken(s)] + Part(f, S, s \ {Taken(s)})
<1> DEFINE h == CHOOSE h : Summing(f, S, h)
<1>1. Summing(f, S, h)
  BY SummingExists
<1> HIDE DEF h
<1>2. h[s] = Adds(f, h, s)
  BY <1>1 DEF Summing
<1>3. \A r : Part(f, S, r) = h[r]
  BY DEF Part, h
<1> QED BY <1>2, <1>3 DEF Adds

\* What is taken from a subset leaves one with fewer elements.
LEMMA TakenLeavesLess ==
  ASSUME NEW S, IsFiniteSet(S), NEW s \in SUBSET S, s # {}
  PROVE  /\ Taken(s) \in s /\ s \ {Taken(s)} \in SUBSET S
         /\ Cardinality(s \ {Taken(s)}) < Cardinality(s)
BY TakenIn, OneLess

LEMMA PartIsInt ==
  ASSUME NEW S, IsFiniteSet(S), NEW f, \A x \in S : f[x] \in Int
  PROVE  \A s \in SUBSET S : Part(f, S, s) \in Int
<1> DEFINE Q == {s \in SUBSET S : Part(f, S, s) \in Int}
<1>1. ASSUME NEW s \in SUBSET S,
             \A r \in SUBSET S : Cardinality(r) < Cardinality(s) => r \in Q
      PROVE  s \in Q
  <2>1. CASE s = {}
    <3>1. Part(f, S, s) = 0
      BY <2>1, PartUnfolds
    <3> QED BY <3>1
  <2>2. CASE s # {}
    <3>1. Part(f, S, s \ {Taken(s)}) \in Int
      BY <1>1, <2>2, TakenLeavesLess
    <3>2. f[Taken(s)] \in Int
      BY <2>2, TakenIn
    <3> QED BY <2>2, <3>1, <3>2, PartUnfolds
  <2> QED BY <2>1, <2>2
<1> HIDE DEF Q
<1>2. Q \in SUBSET SUBSET S
  BY DEF Q
<1>3. Q = SUBSET S
  BY <1>1, <1>2, SubsetsReached
<1> QED BY <1>3 DEF Q

LEMMA PartIsNat ==
  ASSUME NEW S, IsFiniteSet(S), NEW f, \A x \in S : f[x] \in Nat
  PROVE  \A s \in SUBSET S : Part(f, S, s) \in Nat
<1>0. \A x \in S : f[x] \in Int
  OBVIOUS
<1> DEFINE Q == {s \in SUBSET S : Part(f, S, s) \in Nat}
<1>1. ASSUME NEW s \in SUBSET S,
             \A r \in SUBSET S : Cardinality(r) < Cardinality(s) => r \in Q
      PROVE  s \in Q
  <2>1. CASE s = {}
    <3>1. Part(f, S, s) = 0
      BY <1>0, <2>1, PartUnfolds
    <3> QED BY <3>1
  <2>2. CASE s # {}
    <3>1. Part(f, S, s \ {Taken(s)}) \in Nat
      BY <1>1, <2>2, TakenLeavesLess
    <3>2. f[Taken(s)] \in Nat
      BY <2>2, TakenIn
    <3> QED BY <1>0, <2>2, <3>1, <3>2, PartUnfolds
  <2> QED BY <2>1, <2>2
<1> HIDE DEF Q
<1>2. Q \in SUBSET SUBSET S
  BY DEF Q
<1>3. Q = SUBSET S
  BY <1>1, <1>2, SubsetsReached
<1> QED BY <1>3 DEF Q

LEMMA PartIsZero ==
  ASSUME NEW S, IsFiniteSet(S), NEW f, \A x \in S : f[x] = 0
  PROVE  \A s \in SUBSET S : Part(f, S, s) = 0
<1>0. \A x \in S : f[x] \in Int
  OBVIOUS
<1> DEFINE Q == {s \in SUBSET S : Part(f, S, s) = 0}
<1>1. ASSUME NEW s \in SUBSET S,
             \A r \in SUBSET S : Cardinality(r) < Cardinality(s) => r \in Q
      PROVE  s \in Q
  <2>1. CASE s = {}
    <3>1. Part(f, S, s) = 0
      BY <1>0, <2>1, PartUnfolds
    <3> QED BY <3>1
  <2>2. CASE s # {}
    <3>1. Part(f, S, s \ {Taken(s)}) = 0
      BY <1>1, <2>2, TakenLeavesLess
    <3>2. f[Taken(s)] = 0
      BY <2>2, TakenIn
    <3>3. Part(f, S, s) = 0
      BY <1>0, <2>2, <3>1, <3>2, PartUnfolds
    <3> QED BY <3>3
  <2> QED BY <2>1, <2>2
<1> HIDE DEF Q
<1>2. Q \in SUBSET SUBSET S
  BY DEF Q
<1>3. Q = SUBSET S
  BY <1>1, <1>2, SubsetsReached
<1> QED BY <1>3 DEF Q

LEMMA PartChanges ==
  ASSUME NEW S, IsFiniteSet(S), NEW f, NEW g, NEW w \in S,
         \A x \in S : f[x] \in Int /\ g[x] \in Int,
         \A x \in S : x # w => g[x] = f[x]
  PROVE  \A s \in SUBSET S :
           Part(g, S, s) = Part(f, S, s) + (IF w \in s THEN g[w] - f[w] ELSE 0)
<1>0. (\A x \in S : f[x] \in Int) /\ (\A x \in S : g[x] \in Int)
  OBVIOUS
<1> DEFINE Q == {s \in SUBSET S :
             Part(g, S, s) = Part(f, S, s) + (IF w \in s THEN g[w] - f[w] ELSE 0)}
<1>1. ASSUME NEW s \in SUBSET S,
             \A r \in SUBSET S : Cardinality(r) < Cardinality(s) => r \in Q
      PROVE  s \in Q
  <2>1. CASE s = {}
    <3>1. Part(f, S, s) = 0 /\ Part(g, S, s) = 0
      BY <1>0, <2>1, PartUnfolds
    <3> QED BY <2>1, <3>1
  <2>2. CASE s # {}
    <3> DEFINE t == Taken(s)
               r == s \ {t}
    <3>1. t \in s /\ r \in SUBSET S /\ r \in Q
      BY <1>1, <2>2, TakenLeavesLess
    <3>2. /\ Part(f, S, s) = f[t] + Part(f, S, r)
          /\ Part(g, S, s) = g[t] + Part(g, S, r)
      BY <1>0, <2>2, PartUnfolds
    <3>3. Part(f, S, r) \in Int /\ Part(g, S, r) \in Int
      BY <1>0, <3>1, PartIsInt
    <3> HIDE DEF t
    <3>4. Part(g, S, r) = Part(f, S, r) + (IF w \in r THEN g[w] - f[w] ELSE 0)
      BY <3>1
    <3>5. f[t] \in Int /\ g[t] \in Int /\ f[w] \in Int /\ g[w] \in Int
      BY <3>1
    <3>6. CASE t = w
      BY <3>1, <3>2, <3>3, <3>4, <3>5, <3>6
    <3>7. CASE t # w
      <4>1. g[t] = f[t] /\ (w \in r <=> w \in s)
        BY <3>1, <3>7
      <4> QED BY <3>1, <3>2, <3>3, <3>4, <3>5, <4>1
    <3> QED BY <3>6, <3>7
  <2> QED BY <2>1, <2>2
<1> HIDE DEF Q
<1>2. Q \in SUBSET SUBSET S
  BY DEF Q
<1>3. Q = SUBSET S
  BY <1>1, <1>2, SubsetsReached
<1> QED BY <1>3 DEF Q

-----------------------------------------------------------------------------
(* What the other modules cite.                                            *)

LEMMA SumIsInt ==
  ASSUME NEW S, IsFiniteSet(S), NEW f \in [S -> Int]
  PROVE  FoldFunction(+, 0, f) \in Int
<1>1. FoldFunction(+, 0, f) = Part(f, S, S)
  BY FoldIsTotal DEF Total
<1>2. S \in SUBSET S /\ \A x \in S : f[x] \in Int
  OBVIOUS
<1>3. Part(f, S, S) \in Int
  BY <1>2, PartIsInt
<1> QED BY <1>1, <1>3

LEMMA SumIsNat ==
  ASSUME NEW S, IsFiniteSet(S), NEW f \in [S -> Nat]
  PROVE  FoldFunction(+, 0, f) \in Nat
<1>1. FoldFunction(+, 0, f) = Part(f, S, S)
  BY FoldIsTotal DEF Total
<1>2. S \in SUBSET S /\ \A x \in S : f[x] \in Nat
  OBVIOUS
<1>3. Part(f, S, S) \in Nat
  BY <1>2, PartIsNat
<1> QED BY <1>1, <1>3

LEMMA SumIsZero ==
  ASSUME NEW S, IsFiniteSet(S), NEW f \in [S -> {0}]
  PROVE  FoldFunction(+, 0, f) = 0
<1>1. FoldFunction(+, 0, f) = Part(f, S, S)
  BY FoldIsTotal DEF Total
<1>2. S \in SUBSET S /\ \A x \in S : f[x] = 0
  OBVIOUS
<1>3. Part(f, S, S) = 0
  BY <1>2, PartIsZero
<1> QED BY <1>1, <1>3

\* An element that changes, changes the sum by as much.
LEMMA SumChanges ==
  ASSUME NEW S, IsFiniteSet(S), NEW f \in [S -> Int], NEW g \in [S -> Int], NEW w \in S,
         \A x \in S : x # w => g[x] = f[x]
  PROVE  FoldFunction(+, 0, g) = FoldFunction(+, 0, f) + g[w] - f[w]
<1>1. /\ FoldFunction(+, 0, f) = Part(f, S, S)
      /\ FoldFunction(+, 0, g) = Part(g, S, S)
  BY FoldIsTotal DEF Total
<1>0. /\ S \in SUBSET S /\ \A x \in S : f[x] \in Int
      /\ \A x \in S : f[x] \in Int /\ g[x] \in Int
  OBVIOUS
<1>2. Part(f, S, S) \in Int
  BY <1>0, PartIsInt
<1>3. Part(g, S, S) = Part(f, S, S) + (g[w] - f[w])
  BY <1>0, PartChanges
<1>4. f[w] \in Int /\ g[w] \in Int
  OBVIOUS
<1> QED BY <1>1, <1>2, <1>3, <1>4

=============================================================================
