----------------------------- MODULE FiniteSums -----------------------------
(***************************************************************************)
(* Facts about sums over finite sets, as SumFunction and MapThenSumSet of  *)
(* the community modules compute them, and about induction over numbers    *)
(* and over the subsets of a finite set.                                   *)
(***************************************************************************)
EXTENDS Integers, FiniteSets, Functions, FiniteSetTheorems, WellFoundedInduction, TLAPS

-----------------------------------------------------------------------------
(* Induction. *)

\* Of finitely many subsets some are smallest.
LEMMA SmallestSubset ==
    ASSUME NEW S, IsFiniteSet(S), NEW Bad \in SUBSET SUBSET S, Bad # {}
    PROVE  \E T \in Bad : \A U \in Bad : U \subseteq T => U = T
  <1>1. IsWellFoundedOn(StrictSubsetOrdering(S), SUBSET S)
    BY FS_FiniteSubsetsOfFinite, FS_StrictSubsetOrderingWellFounded
  <1>2. PICK T \in Bad : \A U \in Bad : <<U, T>> \notin StrictSubsetOrdering(S)
    BY <1>1, WFMin
  <1>3. ASSUME NEW U \in Bad, U \subseteq T PROVE U = T
    BY <1>2, <1>3 DEF StrictSubsetOrdering
  <1> QED BY <1>3

\* Induction over the subsets of a finite set, for a set of subsets in the
\* place of a predicate.
LEMMA SubsetInduction ==
    ASSUME NEW S, IsFiniteSet(S), NEW Good \in SUBSET SUBSET S,
           {} \in Good,
           \A T \in Good : \A x \in S \ T : T \cup {x} \in Good
    PROVE  S \in Good
  <1> DEFINE Bad == (SUBSET S) \ Good
  <1>1. SUFFICES ASSUME Bad # {} PROVE FALSE
    OBVIOUS
  <1>2. PICK T \in Bad : \A U \in Bad : U \subseteq T => U = T
    <2>1. Bad \in SUBSET SUBSET S
      OBVIOUS
    <2> HIDE DEF Bad
    <2> QED BY <1>1, <2>1, SmallestSubset
  <1>3. PICK x \in T : TRUE
    BY <1>2
  <1>4. T \ {x} \in Good
    BY <1>2, <1>3
  <1>5. (T \ {x}) \cup {x} = T
    BY <1>3
  <1> QED BY <1>2, <1>3, <1>4, <1>5

\* Induction over the numbers, for a set of numbers in the place of a predicate.
LEMMA NumberInduction ==
    ASSUME NEW Good, 0 \in Good, \A n \in Nat : n \in Good => n + 1 \in Good
    PROVE  \A n \in Nat : n \in Good
  <1> DEFINE Bad(n) == {0..m : m \in {k \in 0..n : k \notin Good}}
  <1> SUFFICES ASSUME NEW n \in Nat, n \notin Good PROVE FALSE
    OBVIOUS
  <1>1. IsFiniteSet(0..n)
    BY FS_Interval
  <1>2. 0..n \in Bad(n)
    <2>1. n \in 0..n
      OBVIOUS
    <2> QED BY <2>1
  <1>3. Bad(n) \in SUBSET SUBSET (0..n)
    OBVIOUS
  <1>4. PICK T \in Bad(n) : \A U \in Bad(n) : U \subseteq T => U = T
    <2> HIDE DEF Bad
    <2> QED BY <1>1, <1>2, <1>3, SmallestSubset
  <1>5. PICK m \in 0..n : T = 0..m /\ m \notin Good
    BY <1>4
  <1>6. m \in Nat /\ m # 0 /\ m - 1 \in Nat /\ m - 1 \in 0..n /\ (m - 1) + 1 = m
    BY <1>5
  <1>7. m - 1 \notin Good
    BY <1>5, <1>6
  <1>8. 0..(m - 1) \in Bad(n)
    BY <1>6, <1>7
  <1>9. 0..(m - 1) \subseteq 0..m /\ m \in 0..m /\ m \notin 0..(m - 1)
    BY <1>6
  <1>10. 0..(m - 1) = 0..m
    BY <1>4, <1>5, <1>8, <1>9
  <1> QED BY <1>9, <1>10

Chosen(s) == CHOOSE x \in s : TRUE

\* What the fold of the community modules computes for subset s, given what g
\* says of its subsets.
FoldStep(f, g, s) == IF s = {} THEN 0 ELSE f[Chosen(s)] + g[s \ {Chosen(s)}]

\* The recursion of the fold is well founded.
LEMMA FoldExists ==
    ASSUME NEW S, IsFiniteSet(S), NEW f \in [S -> Int]
    PROVE  \E g \in [SUBSET S -> Int] : \A s \in SUBSET S : g[s] = FoldStep(f, g, s)
  <1> DEFINE Solved(T, g) == \A s \in SUBSET S : Cardinality(s) <= Cardinality(T) => g[s] = FoldStep(f, g, s)
             Good == {T \in SUBSET S : \E g \in [SUBSET S -> Int] : Solved(T, g)}
  <1>1. ASSUME NEW s \in SUBSET S
        PROVE  /\ IsFiniteSet(s) /\ Cardinality(s) \in Nat /\ Cardinality(s) <= Cardinality(S)
               /\ Cardinality(s) = 0 <=> s = {}
               /\ \A x \in s : Cardinality(s \ {x}) = Cardinality(s) - 1
    BY FS_Subset, FS_CardinalityType, FS_EmptySet, FS_RemoveElement
  <1>2. {} \in Good
    <2> DEFINE z == [s \in SUBSET S |-> 0]
    <2>1. z \in [SUBSET S -> Int]
      OBVIOUS
    <2>2. ASSUME NEW s \in SUBSET S, Cardinality(s) <= Cardinality({}) PROVE z[s] = FoldStep(f, z, s)
      <3>1. Cardinality({}) = 0 /\ Cardinality(s) \in Nat
        BY <1>1, FS_EmptySet
      <3>2. s = {}
        BY <1>1, <2>2, <3>1
      <3> QED BY <3>2 DEF FoldStep
    <2>3. Solved({}, z)
      BY <2>2
    <2> QED BY <2>1, <2>3
  <1>3. ASSUME NEW T \in Good, NEW x \in S \ T PROVE T \cup {x} \in Good
    <2>1. PICK g \in [SUBSET S -> Int] : Solved(T, g)
      OBVIOUS
    <2> DEFINE h == [s \in SUBSET S |-> IF Cardinality(s) <= Cardinality(T) THEN g[s] ELSE FoldStep(f, g, s)]
    <2>2. Cardinality(T) \in Nat /\ Cardinality(T \cup {x}) = Cardinality(T) + 1
      BY <1>1, FS_AddElement
    <2>3. ASSUME NEW s \in SUBSET S, s # {}
          PROVE  Chosen(s) \in s /\ s \ {Chosen(s)} \in SUBSET S /\ FoldStep(f, g, s) \in Int
      <3>1. Chosen(s) \in s
        BY <2>3 DEF Chosen
      <3> QED BY <2>3, <3>1 DEF FoldStep
    <2>4. h \in [SUBSET S -> Int]
      <3>1. \A s \in SUBSET S : FoldStep(f, g, s) \in Int
        BY <2>3 DEF FoldStep
      <3> QED BY <3>1
    <2>5. ASSUME NEW s \in SUBSET S, Cardinality(s) <= Cardinality(T) + 1
          PROVE  h[s] = FoldStep(f, h, s)
      <3>1. h[s] = FoldStep(f, g, s)
        BY <2>1
      <3>2. ASSUME s # {} PROVE g[s \ {Chosen(s)}] = h[s \ {Chosen(s)}]
        <4>1. Cardinality(s \ {Chosen(s)}) <= Cardinality(T)
          BY <1>1, <2>2, <2>3, <2>5, <3>2
        <4> QED BY <2>3, <3>2, <4>1
      <3> QED BY <3>1, <3>2 DEF FoldStep
    <2>6. Solved(T \cup {x}, h)
      BY <2>2, <2>5
    <2> QED BY <2>4, <2>6
  <1>4. S \in Good
    BY <1>2, <1>3, SubsetInduction
  <1>5. PICK g \in [SUBSET S -> Int] : Solved(S, g)
    BY <1>4
  <1> QED BY <1>1, <1>5

\* g gives the sum of f over each subset of S.
Sums(f, S, g) ==
    /\ g \in [SUBSET S -> Int] /\ g[{}] = 0
    /\ \A s \in SUBSET S : \A x \in s : g[s] = f[x] + g[s \ {x}]

\* The order in which the fold takes the elements does not matter.
LEMMA AnyOrder ==
    ASSUME NEW S, IsFiniteSet(S), NEW f \in [S -> Int], NEW g \in [SUBSET S -> Int],
           \A s \in SUBSET S : g[s] = FoldStep(f, g, s)
    PROVE  Sums(f, S, g)
  <1> DEFINE Bad == {s \in SUBSET S : \E x \in s : g[s] # f[x] + g[s \ {x}]}
  <1>1. ASSUME Bad # {} PROVE FALSE
    <2>1. PICK s \in Bad : \A u \in Bad : u \subseteq s => u = s
      <3>1. Bad \in SUBSET SUBSET S
        OBVIOUS
      <3> HIDE DEF Bad
      <3> QED BY <1>1, <3>1, SmallestSubset
    <2>2. PICK x \in s : g[s] # f[x] + g[s \ {x}]
      OBVIOUS
    <2> DEFINE c == Chosen(s)
               t == s \ {c}
               u == s \ {x}
               v == s \ {c, x}
    <2>3. c \in s
      BY <2>2 DEF Chosen
    <2>4. g[s] = f[c] + g[t]
      BY <2>2 DEF FoldStep
    <2>5. c # x
      BY <2>2, <2>4
    <2>6. t \in SUBSET S /\ t \notin Bad /\ x \in t /\ t \ {x} = v
      BY <2>1, <2>3, <2>5
    <2>7. u \in SUBSET S /\ u \notin Bad /\ c \in u /\ u \ {c} = v
      BY <2>1, <2>2, <2>3, <2>5
    <2>8. g[t] = f[x] + g[v] /\ g[u] = f[c] + g[v]
      BY <2>6, <2>7
    <2>9. f[x] \in Int /\ f[c] \in Int /\ g[v] \in Int /\ g[s] # f[x] + g[u]
      BY <2>2, <2>3, <2>6
    <2> HIDE DEF c, t, u, v
    <2> QED BY <2>4, <2>8, <2>9
  <1>2. g[{}] = 0
    BY DEF FoldStep
  <1> QED BY <1>1, <1>2 DEF Sums

-----------------------------------------------------------------------------
(* The folds of the community modules, in the form that their definitions  *)
(* expand to.                                                              *)

LEMMA FoldSums ==
    ASSUME NEW S, IsFiniteSet(S), NEW f \in [S -> Int], NEW c,
           c = [s \in SUBSET S |-> IF s = {} THEN 0
                                  ELSE f[CHOOSE x \in s : TRUE] + c[s \ {CHOOSE x \in s : TRUE}]]
    PROVE  Sums(f, S, c)
  <1>1. \A s \in SUBSET S : c[s] = FoldStep(f, c, s)
    BY DEF FoldStep, Chosen
  <1>2. c \in [SUBSET S -> Int]
    <2> DEFINE Bad == {s \in SUBSET S : c[s] \notin Int}
    <2>1. ASSUME Bad # {} PROVE FALSE
      <3>1. Bad \in SUBSET SUBSET S
        OBVIOUS
      <3> HIDE DEF Bad
      <3>2. PICK s \in Bad : \A u \in Bad : u \subseteq s => u = s
        BY <2>1, <3>1, SmallestSubset
      <3> USE DEF Bad
      <3> s \in SUBSET S /\ c[s] \notin Int
        OBVIOUS
      <3>0. c[s] = FoldStep(f, c, s)
        BY <1>1
      <3> HIDE DEF Bad
      <3>3. CASE s = {}
        <4>1. FoldStep(f, c, s) = 0
          BY <3>3 DEF FoldStep
        <4> QED BY <3>0, <4>1
      <3>4. CASE s # {}
        <4>1. Chosen(s) \in s
          BY <3>4 DEF Chosen
        <4>2. s \ {Chosen(s)} \in SUBSET S /\ s \ {Chosen(s)} \notin Bad
          BY <3>2, <4>1
        <4>3. f[Chosen(s)] \in Int /\ c[s \ {Chosen(s)}] \in Int
          BY <4>1, <4>2 DEF Bad
        <4>4. FoldStep(f, c, s) = f[Chosen(s)] + c[s \ {Chosen(s)}]
          BY <3>4 DEF FoldStep
        <4> QED BY <3>0, <4>3, <4>4
      <3> QED BY <3>3, <3>4
    <2>2. c = [s \in SUBSET S |-> c[s]]
      <3>1. \A a, F, G, D : a = [s \in D |-> IF s = {} THEN 0 ELSE F[CHOOSE x \in s : TRUE] + G[s \ {CHOOSE x \in s : TRUE}]]
              => a = [s \in D |-> a[s]]
        OBVIOUS
      <3> QED BY <3>1, Zenon
    <2> QED BY <2>1, <2>2
  <1> QED BY <1>1, <1>2, AnyOrder

\* SumFunction is such a sum.
LEMMA SumExists ==
    ASSUME NEW S, IsFiniteSet(S), NEW f \in [S -> Int]
    PROVE  \E g : Sums(f, S, g) /\ SumFunction(f) = g[S]
  <1> DEFINE Fixed(g) == g = [s \in SUBSET S |-> IF s = {} THEN 0
                                                 ELSE f[CHOOSE x \in s : TRUE] + g[s \ {CHOOSE x \in s : TRUE}]]
             c == CHOOSE g : Fixed(g)
  <1>1. \E g : Fixed(g)
    <2>1. PICK g \in [SUBSET S -> Int] : \A s \in SUBSET S : g[s] = FoldStep(f, g, s)
      BY FoldExists
    <2>2. Fixed(g)
      BY <2>1 DEF FoldStep, Chosen
    <2> QED BY <2>2
  <1>2. Fixed(c)
    BY <1>1, Zenon
  <1>3. SumFunction(f) = c[S]
    <2>1. SumFunction(f) = SumFunctionOnSet(f, S)
      BY DEF SumFunction
    <2>2. SumFunctionOnSet(f, S) = c[S]
      BY Zenon DEF SumFunctionOnSet, FoldFunctionOnSet, MapThenFoldSet
    <2> QED BY <2>1, <2>2
  <1> HIDE DEF c
  <1>4. Sums(f, S, c)
    BY <1>2, FoldSums
  <1> QED BY <1>3, <1>4

\* There is only one such sum.
LEMMA SumsAgree ==
    ASSUME NEW S, IsFiniteSet(S), NEW f \in [S -> Int],
           NEW T \in SUBSET S, NEW a, NEW b, Sums(f, S, a),
           NEW h \in [T -> Int], \A x \in T : h[x] = f[x], Sums(h, T, b)
    PROVE  b[T] = a[T]
  <1> DEFINE Good == {U \in SUBSET T : b[U] = a[U]}
  <1>1. IsFiniteSet(T)
    BY FS_Subset
  <1>2. {} \in Good
    BY DEF Sums
  <1>3. ASSUME NEW U \in Good, NEW x \in T \ U PROVE U \cup {x} \in Good
    <2>1. (U \cup {x}) \ {x} = U /\ U \cup {x} \in SUBSET T /\ U \cup {x} \in SUBSET S /\ x \in U \cup {x}
      OBVIOUS
    <2>2. a[U \cup {x}] = f[x] + a[U]
      BY <2>1 DEF Sums
    <2>3. b[U \cup {x}] = h[x] + b[U]
      BY <2>1 DEF Sums
    <2>4. h[x] = f[x] /\ b[U] = a[U]
      OBVIOUS
    <2>5. b[U \cup {x}] = a[U \cup {x}]
      BY <2>2, <2>3, <2>4
    <2> QED BY <2>1, <2>5
  <1>4. T \in Good
    <2> HIDE DEF Good
    <2>1. Good \in SUBSET SUBSET T
      BY DEF Good
    <2> QED BY <1>1, <1>2, <1>3, <2>1, SubsetInduction
  <1> QED BY <1>4

\* A fold that sums f is SumFunction(f).
LEMMA FoldIsSum ==
    ASSUME NEW S, IsFiniteSet(S), NEW f \in [S -> Int], NEW c, Sums(f, S, c)
    PROVE  c[S] = SumFunction(f)
  <1>1. PICK g : Sums(f, S, g) /\ SumFunction(f) = g[S]
    BY SumExists
  <1> QED BY <1>1, SumsAgree

-----------------------------------------------------------------------------
(* What a sum is. *)

\* One element more adds its summand.
LEMMA SumInsert ==
    ASSUME NEW S, IsFiniteSet(S), NEW x, x \notin S, NEW f \in [S \cup {x} -> Int],
           NEW h \in [S -> Int], \A y \in S : h[y] = f[y]
    PROVE  SumFunction(f) = SumFunction(h) + f[x]
  <1>1. IsFiniteSet(S \cup {x})
    BY FS_AddElement
  <1>2. PICK a : Sums(f, S \cup {x}, a) /\ SumFunction(f) = a[S \cup {x}]
    BY <1>1, SumExists
  <1>3. PICK b : Sums(h, S, b) /\ SumFunction(h) = b[S]
    BY SumExists
  <1>4. a[S] = b[S]
    <2>1. S \in SUBSET (S \cup {x})
      OBVIOUS
    <2> QED BY <1>1, <1>2, <1>3, <2>1, SumsAgree
  <1>5. (S \cup {x}) \ {x} = S /\ x \in S \cup {x}
    OBVIOUS
  <1>6. a[S \cup {x}] = f[x] + a[S]
    BY <1>2, <1>5 DEF Sums
  <1>7. a[S] \in Int /\ f[x] \in Int
    BY <1>2 DEF Sums
  <1> QED BY <1>2, <1>3, <1>4, <1>6, <1>7

LEMMA SumType ==
    ASSUME NEW S, IsFiniteSet(S), NEW f \in [S -> Int]
    PROVE  SumFunction(f) \in Int
  <1>1. PICK g : Sums(f, S, g) /\ SumFunction(f) = g[S]
    BY SumExists
  <1> QED BY <1>1 DEF Sums

LEMMA SumPlus ==
    ASSUME NEW S, IsFiniteSet(S), NEW f \in [S -> Int], NEW h \in [S -> Int],
           NEW k \in [S -> Int], \A x \in S : k[x] = f[x] + h[x]
    PROVE  SumFunction(k) = SumFunction(f) + SumFunction(h)
  <1>2. PICK a : Sums(f, S, a) /\ SumFunction(f) = a[S]
    BY SumExists
  <1>3. PICK b : Sums(h, S, b) /\ SumFunction(h) = b[S]
    BY SumExists
  <1>4. PICK c : Sums(k, S, c) /\ SumFunction(k) = c[S]
    BY SumExists
  <1> DEFINE Good == {T \in SUBSET S : c[T] = a[T] + b[T]}
  <1>5. {} \in Good
    BY <1>2, <1>3, <1>4 DEF Sums
  <1>6. ASSUME NEW T \in Good, NEW x \in S \ T PROVE T \cup {x} \in Good
    <2>1. (T \cup {x}) \ {x} = T /\ T \cup {x} \in SUBSET S /\ x \in T \cup {x}
      OBVIOUS
    <2>2. a[T \cup {x}] = f[x] + a[T] /\ b[T \cup {x}] = h[x] + b[T]
      BY <1>2, <1>3, <2>1 DEF Sums
    <2>3. c[T \cup {x}] = k[x] + c[T] /\ k[x] = f[x] + h[x]
      BY <1>4, <2>1 DEF Sums
    <2>4. f[x] \in Int /\ h[x] \in Int /\ a[T] \in Int /\ b[T] \in Int
      BY <1>2, <1>3 DEF Sums
    <2> QED BY <2>1, <2>2, <2>3, <2>4
  <1>7. S \in Good
    <2> HIDE DEF Good
    <2>1. Good \in SUBSET SUBSET S
      BY DEF Good
    <2> QED BY <1>5, <1>6, <2>1, SubsetInduction
  <1> QED BY <1>2, <1>3, <1>4, <1>7

LEMMA SumAtMost ==
    ASSUME NEW S, IsFiniteSet(S), NEW f \in [S -> Int], NEW h \in [S -> Int],
           \A x \in S : f[x] <= h[x]
    PROVE  SumFunction(f) <= SumFunction(h)
  <1>2. PICK a : Sums(f, S, a) /\ SumFunction(f) = a[S]
    BY SumExists
  <1>3. PICK b : Sums(h, S, b) /\ SumFunction(h) = b[S]
    BY SumExists
  <1> DEFINE Good == {T \in SUBSET S : a[T] <= b[T]}
  <1>5. {} \in Good
    BY <1>2, <1>3 DEF Sums
  <1>6. ASSUME NEW T \in Good, NEW x \in S \ T PROVE T \cup {x} \in Good
    <2>1. (T \cup {x}) \ {x} = T /\ T \cup {x} \in SUBSET S /\ x \in T \cup {x}
      OBVIOUS
    <2>2. a[T \cup {x}] = f[x] + a[T] /\ b[T \cup {x}] = h[x] + b[T]
      BY <1>2, <1>3, <2>1 DEF Sums
    <2>3. f[x] \in Int /\ h[x] \in Int /\ a[T] \in Int /\ b[T] \in Int
      BY <1>2, <1>3 DEF Sums
    <2> QED BY <2>1, <2>2, <2>3
  <1>7. S \in Good
    <2> HIDE DEF Good
    <2>1. Good \in SUBSET SUBSET S
      BY DEF Good
    <2> QED BY <1>5, <1>6, <2>1, SubsetInduction
  <1> QED BY <1>2, <1>3, <1>7

\* The function that is n at y and 0 elsewhere.
Only(S, y, n) == [x \in S |-> IF x = y THEN n ELSE 0]

LEMMA SumOnly ==
    ASSUME NEW S, IsFiniteSet(S), NEW y, NEW n \in Int
    PROVE  /\ Only(S, y, n) \in [S -> Int]
           /\ SumFunction(Only(S, y, n)) = IF y \in S THEN n ELSE 0
  <1> DEFINE f == Only(S, y, n)
  <1>1. f \in [S -> Int] /\ \A x \in S : f[x] = IF x = y THEN n ELSE 0
    BY DEF Only
  <1> HIDE DEF f
  <1>2. PICK a : Sums(f, S, a) /\ SumFunction(f) = a[S]
    BY <1>1, SumExists
  <1> DEFINE Good == {T \in SUBSET S : a[T] = IF y \in T THEN n ELSE 0}
  <1>5. {} \in Good
    BY <1>2 DEF Sums
  <1>6. ASSUME NEW T \in Good, NEW x \in S \ T PROVE T \cup {x} \in Good
    <2>1. (T \cup {x}) \ {x} = T /\ T \cup {x} \in SUBSET S /\ x \in T \cup {x}
      OBVIOUS
    <2>2. a[T \cup {x}] = f[x] + a[T]
      BY <1>2, <2>1 DEF Sums
    <2>3. CASE x = y
      BY <1>1, <2>1, <2>2, <2>3
    <2>4. CASE x # y
      BY <1>1, <2>1, <2>2, <2>4
    <2> QED BY <2>3, <2>4
  <1>7. S \in Good
    <2> HIDE DEF Good
    <2>1. Good \in SUBSET SUBSET S
      BY DEF Good
    <2> QED BY <1>5, <1>6, <2>1, SubsetInduction
  <1> QED BY <1>1, <1>2, <1>7 DEF f
=============================================================================
