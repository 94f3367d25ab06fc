------------------------------ MODULE Induction ------------------------------
(***************************************************************************)
(* Induction as first-order facts, for the proofs about the models that    *)
(* walk through a sequence or add up a set.  The theorems of the library   *)
(* that have a predicate as a parameter cannot be applied; here a          *)
(* predicate is the set of those for which it holds.  All rests on the     *)
(* well-foundedness of < on the naturals (NatLessThanWellFounded, WFMin).  *)
(***************************************************************************)
EXTENDS Integers, Sequences, Functions, FiniteSetTheorems, TLAPS

-----------------------------------------------------------------------------
(* The naturals.                                                           *)

\* A well-founded relation has a minimal element in every set.
LEMMA MinimalElement ==
    ASSUME NEW R, NEW S, IsWellFoundedOn(R, S),
           NEW T, T \subseteq S, T # {}
    PROVE  \E m \in T : \A n \in T : ~(<<n, m>> \in R)
  BY WFMin

\* It is the least one if the relation contains the order.
LEMMA MinimalIsLeast ==
    ASSUME NEW R, NEW T, IsWellFoundedOn(R, Nat), T \subseteq Nat, T # {}
    PROVE  (\A x, y \in Nat : x < y => <<x, y>> \in R)
             => \E m \in T : \A n \in T : m <= n
PROOF
  <1>1. PICK m \in T : \A n \in T : ~(<<n, m>> \in R)
    BY MinimalElement
  <1>2. HAVE \A x, y \in Nat : x < y => <<x, y>> \in R
  <1>3. ASSUME NEW n \in T PROVE m <= n
    <2>1. m \in Nat /\ n \in Nat /\ ~(<<n, m>> \in R)
      BY <1>1
    <2>2. ~(n < m)
      BY <2>1, <1>2
    <2> QED BY <2>1, <2>2
  <1> QED BY <1>3

\* Every set of naturals that is not empty has a least element.
LEMMA LeastOfNaturals ==
    ASSUME NEW T \in SUBSET Nat, T # {}
    PROVE  \E m \in T : \A n \in T : m <= n
PROOF
  <1> DEFINE R == OpToRel(<, Nat)
  <1>1. IsWellFoundedOn(R, Nat)
    BY NatLessThanWellFounded
  <1>2. \A x, y \in Nat : x < y => <<x, y>> \in R
    BY DEF OpToRel
  <1> HIDE DEF R
  <1> QED BY <1>1, <1>2, MinimalIsLeast

\* And a greatest one, if it is bounded.
LEMMA GreatestOfNaturals ==
    ASSUME NEW T \in SUBSET Nat, T # {}, NEW b \in Nat, \A n \in T : n <= b
    PROVE  \E m \in T : \A n \in T : n <= m
PROOF
  <1> DEFINE D == {d \in Nat : b - d \in T}
  <1>1. D \in SUBSET Nat /\ D # {}
    <2>1. PICK n \in T : TRUE
      OBVIOUS
    <2>2. b - n \in Nat /\ b - (b - n) = n
      BY <2>1
    <2> QED BY <2>1, <2>2
  <1>2. PICK d \in D : \A e \in D : d <= e
    BY <1>1, LeastOfNaturals
  <1>3. ASSUME NEW n \in T PROVE n <= b - d
    <2>1. n \in Nat /\ b - n \in Nat /\ b - (b - n) = n
      OBVIOUS
    <2>2. b - n \in D
      BY <2>1
    <2>3. d <= b - n /\ d \in Nat
      BY <1>2, <2>2
    <2> QED BY <2>1, <2>3
  <1>4. b - d \in T
    OBVIOUS
  <1> QED BY <1>3, <1>4

\* Induction over the naturals.
LEMMA SetInduction ==
    ASSUME NEW S, 0 \in S, \A n \in Nat : n \in S => n + 1 \in S
    PROVE  Nat \subseteq S
PROOF
  <1> DEFINE B == Nat \ S
  <1> SUFFICES ASSUME B # {} PROVE FALSE
    OBVIOUS
  <1>1. PICK m \in B : \A n \in B : m <= n
    BY LeastOfNaturals
  <1>2. m # 0 /\ m - 1 \in Nat
    OBVIOUS
  <1>3. m - 1 \notin B
    BY <1>1, <1>2
  <1> QED BY <1>2, <1>3

\* Induction over an interval.
LEMMA IntervalInduction ==
    ASSUME NEW a \in Int, NEW b \in Int, NEW S, a \in S,
           \A n \in a .. b - 1 : n \in S => n + 1 \in S
    PROVE  \A n \in a .. b : n \in S
PROOF
  <1> DEFINE T == {k \in Nat : a + k <= b => a + k \in S}
  <1>1. 0 \in T
    OBVIOUS
  <1>2. ASSUME NEW k \in Nat, k \in T PROVE k + 1 \in T
    <2>1. CASE a + (k + 1) <= b
      <3>1. a + k \in S /\ a + k \in a .. b - 1
        BY <1>2, <2>1
      <3>2. (a + k) + 1 \in S
        BY <3>1
      <3> QED BY <3>2
    <2>2. CASE ~(a + (k + 1) <= b)
      BY <2>2
    <2> QED BY <2>1, <2>2
  <1>3. \A k \in Nat : k \in T => (a + k <= b => a + k \in S)
    OBVIOUS
  <1> HIDE DEF T
  <1>4. Nat \subseteq T
    BY <1>1, <1>2, SetInduction
  <1>5. ASSUME NEW n \in a .. b PROVE n \in S
    <2>1. n - a \in Nat /\ a + (n - a) = n /\ n <= b
      OBVIOUS
    <2> QED BY <1>3, <1>4, <2>1
  <1> QED BY <1>5

\* What a recursive function is defined by: its first value, and a step that
\* stays in a set of values.
Steps(f, v, step, N) ==
    f = [n \in 0..N |-> IF n = 0 THEN v ELSE step[<<f[n - 1], n>>]]

LEMMA StepsExist ==
    ASSUME NEW V, NEW v \in V, NEW N \in Nat, NEW step \in [V \X (1..N) -> V]
    PROVE  \E f \in [0..N -> V] : Steps(f, v, step, N)
PROOF
  <1> DEFINE Good(f, m) ==
               /\ f[0] = v
               /\ \A n \in 1..m : f[n] = step[<<f[n - 1], n>>]
             M == {m \in 0..N : \E f \in [0..N -> V] : Good(f, m)}
  <1>1. 0 \in M
    <2> DEFINE g == [n \in 0..N |-> v]
    <2>1. g \in [0..N -> V] /\ Good(g, 0)
      OBVIOUS
    <2> HIDE DEF g
    <2>2. 0 \in 0..N
      OBVIOUS
    <2> QED BY <2>1, <2>2
  <1>2. ASSUME NEW m \in 0..N - 1, m \in M PROVE m + 1 \in M
    <2>1. PICK g \in [0..N -> V] : Good(g, m)
      BY <1>2
    <2> DEFINE h == [g EXCEPT ![m + 1] = step[<<g[m], m + 1>>]]
    <2>2. m \in 0..N /\ m + 1 \in 1..N /\ m + 1 \in 0..N
      BY <1>2
    <2>3. step[<<g[m], m + 1>>] \in V
      <3>1. <<g[m], m + 1>> \in V \X (1..N)
        BY <2>1, <2>2
      <3> QED BY <3>1
    <2>4. h \in [0..N -> V]
      BY <2>1, <2>3
    <2>5. h[0] = v
      BY <2>1, <2>2
    <2>6. ASSUME NEW n \in 1..m + 1
          PROVE  h[n] = step[<<h[n - 1], n>>]
      <3>1. n - 1 \in 0..N /\ n \in 0..N /\ n - 1 # m + 1
        BY <2>2
      <3>2. h[n - 1] = g[n - 1]
        BY <2>1, <3>1
      <3>3. CASE n = m + 1
        BY <2>1, <3>1, <3>2, <3>3
      <3>4. CASE n \in 1..m
        <4>1. h[n] = g[n]
          BY <2>1, <3>1, <3>4
        <4> QED BY <2>1, <3>2, <3>4, <4>1
      <3> QED BY <3>3, <3>4
    <2>7. Good(h, m + 1)
      BY <2>5, <2>6
    <2> QED BY <2>2, <2>4, <2>7
  <1>3. N \in M => \E f \in [0..N -> V] : Good(f, N)
    OBVIOUS
  <1> HIDE DEF M
  <1>4. \A m \in 0..N : m \in M
    BY <1>1, <1>2, IntervalInduction
  <1>5. PICK f \in [0..N -> V] : Good(f, N)
    BY <1>3, <1>4
  <1>6. ASSUME NEW n \in 0..N
        PROVE  f[n] = IF n = 0 THEN v ELSE step[<<f[n - 1], n>>]
    BY <1>5
  <1>7. f = [n \in 0..N |-> f[n]]
    OBVIOUS
  <1>8. Steps(f, v, step, N)
    BY <1>6, <1>7 DEF Steps
  <1> QED BY <1>8

-----------------------------------------------------------------------------
(* Sums over finite sets, as Functions has them: what SumFunctionOnSet     *)
(* takes from the set first is anything.                                   *)

Any(s) == CHOOSE x \in s : TRUE

\* iter adds up the values of f over every subset of S that has at most n
\* elements.
AddsUp(iter, f, S, n) ==
    iter = [s \in {s \in SUBSET S : Cardinality(s) <= n} |->
              IF s = {} THEN 0 ELSE f[Any(s)] + iter[s \ {Any(s)}]]

\* What is taken from a finite set makes it smaller.
LEMMA TakesOne ==
    ASSUME NEW S, IsFiniteSet(S), NEW s \in SUBSET S, s # {}
    PROVE  /\ Any(s) \in s /\ s \ {Any(s)} \in SUBSET S
           /\ IsFiniteSet(s) /\ IsFiniteSet(s \ {Any(s)})
           /\ Cardinality(s) \in Nat
           /\ Cardinality(s \ {Any(s)}) = Cardinality(s) - 1
           /\ Cardinality(s \ {Any(s)}) \in Nat
           /\ Cardinality(s) <= Cardinality(S) /\ Cardinality(S) \in Nat
PROOF
  <1>1. Any(s) \in s
    BY DEF Any
  <1>2. IsFiniteSet(s) /\ Cardinality(s) <= Cardinality(S)
    BY FS_Subset
  <1>3. /\ IsFiniteSet(s \ {Any(s)})
        /\ Cardinality(s \ {Any(s)}) = Cardinality(s) - 1
    BY <1>1, <1>2, FS_RemoveElement
  <1>4. /\ Cardinality(s) \in Nat /\ Cardinality(s \ {Any(s)}) \in Nat
        /\ Cardinality(S) \in Nat
    BY <1>2, <1>3, FS_CardinalityType
  <1> QED BY <1>1, <1>2, <1>3, <1>4

\* There is such a function, for every bound.
LEMMA AddsUpExists ==
    ASSUME NEW f, NEW S, IsFiniteSet(S)
    PROVE  \A n \in Nat : \E iter : AddsUp(iter, f, S, n)
PROOF
  <1> DEFINE N == {n \in Nat : \E iter : AddsUp(iter, f, S, n)}
             D(n) == {s \in SUBSET S : Cardinality(s) <= n}
  <1>1. 0 \in N
    <2> DEFINE i == [s \in D(0) |-> 0]
    <2>1. ASSUME NEW s \in D(0) PROVE s = {}
      <3>1. s # {} => Cardinality(s) \in Nat /\ Cardinality(s) - 1 \in Nat
        BY TakesOne
      <3>2. Cardinality(s) <= 0
        OBVIOUS
      <3> QED BY <3>1, <3>2
    <2>2. i = [s \in D(0) |-> IF s = {} THEN 0 ELSE f[Any(s)] + i[s \ {Any(s)}]]
      BY <2>1
    <2>3. AddsUp(i, f, S, 0)
      BY <2>2 DEF AddsUp
    <2> QED BY <2>3
  <1>2. ASSUME NEW n \in Nat, n \in N PROVE n + 1 \in N
    <2>1. PICK g : AddsUp(g, f, S, n)
      BY <1>2
    <2> DEFINE h == [s \in D(n + 1) |->
                       IF Cardinality(s) <= n THEN g[s]
                       ELSE f[Any(s)] + g[s \ {Any(s)}]]
    <2>2. ASSUME NEW s \in D(n + 1)
          PROVE  h[s] = IF s = {} THEN 0 ELSE f[Any(s)] + h[s \ {Any(s)}]
      <3>1. CASE s = {}
        <4>1. s \in D(n)
          BY <3>1, FS_EmptySet
        <4>2. g[s] = 0
          BY <2>1, <3>1, <4>1 DEF AddsUp
        <4> QED BY <3>1, <4>1, <4>2
      <3>2. CASE s # {}
        <4>1. /\ Cardinality(s) \in Nat /\ Cardinality(s) <= n + 1
              /\ s \ {Any(s)} \in SUBSET S
              /\ Cardinality(s \ {Any(s)}) = Cardinality(s) - 1
          BY <3>2, TakesOne
        <4>2. s \ {Any(s)} \in D(n) /\ s \ {Any(s)} \in D(n + 1)
          BY <4>1
        <4>3. h[s \ {Any(s)}] = g[s \ {Any(s)}]
          BY <4>2
        <4>4. CASE Cardinality(s) <= n
          <5>1. s \in D(n)
            BY <4>4
          <5>2. g[s] = f[Any(s)] + g[s \ {Any(s)}]
            BY <2>1, <3>2, <5>1 DEF AddsUp
          <5> QED BY <3>2, <4>3, <4>4, <5>2
        <4>5. CASE ~(Cardinality(s) <= n)
          BY <3>2, <4>3, <4>5
        <4> QED BY <4>4, <4>5
      <3> QED BY <3>1, <3>2
    <2>3. AddsUp(h, f, S, n + 1)
      <3>1. h = [s \in D(n + 1) |->
                   IF s = {} THEN 0 ELSE f[Any(s)] + h[s \ {Any(s)}]]
        BY <2>2
      <3> QED BY <3>1 DEF AddsUp
    <2> QED BY <2>3
  <1>3. \A n \in Nat : n \in N => \E iter : AddsUp(iter, f, S, n)
    OBVIOUS
  <1> HIDE DEF N
  <1>4. Nat \subseteq N
    BY <1>1, <1>2, SetInduction
  <1> QED BY <1>3, <1>4

\* The function that a sum over S is read from.
Iteration(f, S) ==
    CHOOSE iter : iter =
      [s \in SUBSET S |-> IF s = {} THEN 0 ELSE f[Any(s)] + iter[s \ {Any(s)}]]

LEMMA SumIsIterated ==
    ASSUME NEW f, NEW S
    PROVE  SumFunctionOnSet(f, S) = Iteration(f, S)[S]
  BY DEF SumFunctionOnSet, FoldFunctionOnSet, MapThenFoldSet, Iteration, Any

LEMMA IterationIsDefined ==
    ASSUME NEW f, NEW S, IsFiniteSet(S)
    PROVE  /\ Iteration(f, S)[{}] = 0
           /\ \A s \in SUBSET S : s # {} =>
                Iteration(f, S)[s]
                  = f[Any(s)] + Iteration(f, S)[s \ {Any(s)}]
PROOF
  <1>1. Cardinality(S) \in Nat
    BY FS_CardinalityType
  <1>2. PICK g : AddsUp(g, f, S, Cardinality(S))
    BY <1>1, AddsUpExists
  <1>3. SUBSET S = {s \in SUBSET S : Cardinality(s) <= Cardinality(S)}
    BY FS_Subset
  <1>4. g = [s \in SUBSET S |->
               IF s = {} THEN 0 ELSE f[Any(s)] + g[s \ {Any(s)}]]
    BY <1>2, <1>3 DEF AddsUp
  <1> DEFINE i == Iteration(f, S)
  <1>5. i = [s \in SUBSET S |->
               IF s = {} THEN 0 ELSE f[Any(s)] + i[s \ {Any(s)}]]
    BY <1>4 DEF Iteration
  <1> HIDE DEF i
  <1>6. {} \in SUBSET S
    OBVIOUS
  <1>7. /\ i[{}] = 0
        /\ \A s \in SUBSET S : s # {} => i[s] = f[Any(s)] + i[s \ {Any(s)}]
    BY <1>5, <1>6
  <1> QED BY <1>7 DEF i

\* A smaller set has the same iteration.
LEMMA IterationOfSubset ==
    ASSUME NEW f, NEW S, IsFiniteSet(S), NEW U \in SUBSET S
    PROVE  \A s \in SUBSET U : Iteration(f, S)[s] = Iteration(f, U)[s]
PROOF
  <1> DEFINE i == Iteration(f, S)
             j == Iteration(f, U)
             N == {n \in Nat : \A s \in SUBSET U :
                                 Cardinality(s) <= n => i[s] = j[s]}
  <1>1. IsFiniteSet(U)
    BY FS_Subset
  <1>2. i[{}] = 0 /\ j[{}] = 0
    BY <1>1, IterationIsDefined
  <1>a. \A s \in SUBSET S : s # {} => i[s] = f[Any(s)] + i[s \ {Any(s)}]
    BY IterationIsDefined
  <1>b. \A s \in SUBSET U : s # {} => j[s] = f[Any(s)] + j[s \ {Any(s)}]
    BY <1>1, IterationIsDefined
  <1> HIDE DEF i, j
  <1>3. ASSUME NEW s \in SUBSET U, s # {}
        PROVE  /\ i[s] = f[Any(s)] + i[s \ {Any(s)}]
               /\ j[s] = f[Any(s)] + j[s \ {Any(s)}]
    BY <1>3, <1>a, <1>b
  <1>4. 0 \in N
    <2>1. ASSUME NEW s \in SUBSET U, Cardinality(s) <= 0 PROVE s = {}
      <3>1. s # {} => Cardinality(s) \in Nat /\ Cardinality(s) - 1 \in Nat
        BY <1>1, TakesOne
      <3> QED BY <2>1, <3>1
    <2>2. ASSUME NEW s \in SUBSET U, Cardinality(s) <= 0 PROVE i[s] = j[s]
      BY <1>2, <2>1, <2>2
    <2> QED BY <2>2
  <1>5. ASSUME NEW n \in Nat, n \in N PROVE n + 1 \in N
    <2>1. ASSUME NEW s \in SUBSET U, Cardinality(s) <= n + 1, s # {}
          PROVE  i[s] = j[s]
      <3>1. /\ s \ {Any(s)} \in SUBSET U
            /\ Cardinality(s) \in Nat
            /\ Cardinality(s \ {Any(s)}) = Cardinality(s) - 1
        BY <1>1, <2>1, TakesOne
      <3>2. Cardinality(s \ {Any(s)}) <= n
        BY <2>1, <3>1
      <3>3. i[s \ {Any(s)}] = j[s \ {Any(s)}]
        BY <1>5, <3>1, <3>2
      <3> QED BY <1>3, <2>1, <3>3
    <2>2. ASSUME NEW s \in SUBSET U, Cardinality(s) <= n + 1
          PROVE  i[s] = j[s]
      <3>1. CASE s = {}
        BY <1>2, <3>1
      <3>2. CASE s # {}
        BY <2>1, <2>2, <3>2
      <3> QED BY <3>1, <3>2
    <2> QED BY <2>2
  <1>6. \A n \in Nat : n \in N =>
          \A s \in SUBSET U : Cardinality(s) <= n => i[s] = j[s]
    OBVIOUS
  <1> HIDE DEF N
  <1>7. Nat \subseteq N
    BY <1>4, <1>5, SetInduction
  <1>8. ASSUME NEW s \in SUBSET U PROVE i[s] = j[s]
    <2>1. IsFiniteSet(s)
      BY <1>1, FS_Subset
    <2>2. Cardinality(s) \in Nat /\ Cardinality(s) <= Cardinality(s)
      BY <2>1, FS_CardinalityType
    <2> QED BY <1>6, <1>7, <2>2
  <1> QED BY <1>8 DEF i, j

\* A sum is nothing, or an element and the sum of the others.
LEMMA SumTakesAny ==
    ASSUME NEW f, NEW S, IsFiniteSet(S)
    PROVE  /\ S = {} => SumFunctionOnSet(f, S) = 0
           /\ S # {} => SumFunctionOnSet(f, S)
                          = f[Any(S)] + SumFunctionOnSet(f, S \ {Any(S)})
PROOF
  <1>1. S = {} => SumFunctionOnSet(f, S) = 0
    BY IterationIsDefined, SumIsIterated
  <1>2. ASSUME S # {}
        PROVE  SumFunctionOnSet(f, S)
                 = f[Any(S)] + SumFunctionOnSet(f, S \ {Any(S)})
    <2>1. S \in SUBSET S /\ S \ {Any(S)} \in SUBSET S
      OBVIOUS
    <2>2. Iteration(f, S)[S] = f[Any(S)] + Iteration(f, S)[S \ {Any(S)}]
      BY <1>2, <2>1, IterationIsDefined
    <2> DEFINE U == S \ {Any(S)}
    <2>3. Iteration(f, S)[U] = Iteration(f, U)[U]
      <3>1. U \in SUBSET S /\ U \in SUBSET U
        OBVIOUS
      <3> HIDE DEF U
      <3> QED BY <3>1, IterationOfSubset
    <2> QED BY <2>2, <2>3, SumIsIterated
  <1> QED BY <1>1, <1>2

\* Nothing sums up to nothing.
LEMMA SumOfNone == ASSUME NEW f PROVE SumFunctionOnSet(f, {}) = 0
  BY FS_EmptySet, SumTakesAny

\* A sum of integers is one, and it does not matter which is taken first.
LEMMA SumTakesEach ==
    ASSUME NEW f, NEW S, IsFiniteSet(S), \A x \in S : f[x] \in Int
    PROVE  /\ SumFunctionOnSet(f, S) \in Int
           /\ \A x \in S : SumFunctionOnSet(f, S)
                             = f[x] + SumFunctionOnSet(f, S \ {x})
PROOF
  <1> DEFINE Sum(s) == SumFunctionOnSet(f, s)
             Good(s) == /\ Sum(s) \in Int
                        /\ \A x \in s : Sum(s) = f[x] + Sum(s \ {x})
             N == {n \in Nat : \A s \in SUBSET S : Cardinality(s) <= n => Good(s)}
  <1>0. ASSUME NEW s \in SUBSET S
        PROVE  /\ s = {} => Sum(s) = 0
               /\ s # {} => Sum(s) = f[Any(s)] + Sum(s \ {Any(s)})
    <2>1. IsFiniteSet(s)
      BY FS_Subset
    <2> QED BY <2>1, SumTakesAny
  <1> HIDE DEF Sum
  <1>1. Good({})
    BY <1>0
  <1>2. 0 \in N
    <2>1. ASSUME NEW s \in SUBSET S, Cardinality(s) <= 0 PROVE s = {}
      <3>1. s # {} => Cardinality(s) \in Nat /\ Cardinality(s) - 1 \in Nat
        BY TakesOne
      <3> QED BY <2>1, <3>1
    <2> HIDE DEF Good
    <2> QED BY <1>1, <2>1
  <1>3. ASSUME NEW n \in Nat, n \in N PROVE n + 1 \in N
    <2>1. ASSUME NEW s \in SUBSET S, Cardinality(s) <= n + 1, s # {}
          PROVE  Good(s)
      <3> DEFINE c == Any(s)
      <3>1. /\ c \in s /\ s \ {c} \in SUBSET S
            /\ Cardinality(s) \in Nat
            /\ Cardinality(s \ {c}) = Cardinality(s) - 1
            /\ IsFiniteSet(s)
        BY <2>1, TakesOne
      <3>2. Sum(s) = f[c] + Sum(s \ {c})
        BY <1>0, <2>1
      <3> HIDE DEF c, Good
      <3>3. \A u \in SUBSET S : Cardinality(u) <= n => Good(u)
        BY <1>3
      <3>4. Good(s \ {c})
        BY <2>1, <3>1, <3>3
      <3>5. Sum(s) \in Int
        BY <3>1, <3>2, <3>4 DEF Good
      <3>6. ASSUME NEW x \in s PROVE Sum(s) = f[x] + Sum(s \ {x})
        <4>1. CASE x = c
          BY <3>2, <4>1
        <4>2. CASE x # c
          <5>1. Sum(s \ {c}) = f[x] + Sum((s \ {c}) \ {x})
            BY <3>1, <3>4, <4>2 DEF Good
          <5>2. Cardinality(s \ {x}) = Cardinality(s) - 1
            BY <3>1, FS_RemoveElement
          <5>3. s \ {x} \in SUBSET S /\ Cardinality(s \ {x}) <= n
            BY <2>1, <3>1, <5>2
          <5>4. Good(s \ {x})
            BY <3>3, <5>3
          <5>5. c \in s \ {x} /\ (s \ {x}) \ {c} = (s \ {c}) \ {x}
            BY <3>1, <4>2
          <5>6. Sum(s \ {x}) = f[c] + Sum((s \ {c}) \ {x})
            BY <5>4, <5>5 DEF Good
          <5>7. (s \ {c}) \ {x} \in SUBSET S
            OBVIOUS
          <5>8. Sum(s \ {x}) \in Int /\ Sum(s \ {c}) \in Int
            BY <3>4, <5>4 DEF Good
          <5>9. f[x] \in Int /\ f[c] \in Int
            BY <3>1
          <5>10. (s \ {c}) \ {x} \in SUBSET S
                 /\ Cardinality((s \ {c}) \ {x}) <= n
            <6>1. IsFiniteSet(s \ {c})
              BY <3>1, FS_RemoveElement
            <6>2. Cardinality((s \ {c}) \ {x}) = Cardinality(s \ {c}) - 1
              BY <4>2, <6>1, FS_RemoveElement
            <6> QED BY <2>1, <3>1, <5>7, <6>2
          <5>11. Sum((s \ {c}) \ {x}) \in Int
            BY <3>3, <5>10 DEF Good
          <5> QED BY <3>2, <5>1, <5>6, <5>8, <5>9, <5>11
        <4> QED BY <4>1, <4>2
      <3> QED BY <3>5, <3>6 DEF Good
    <2> HIDE DEF Good
    <2> QED BY <1>1, <2>1
  <1>4. \A n \in Nat : n \in N =>
          \A s \in SUBSET S : Cardinality(s) <= n => Good(s)
    OBVIOUS
  <1> HIDE DEF N, Good
  <1>5. Nat \subseteq N
    BY <1>2, <1>3, SetInduction
  <1>6. S \in SUBSET S /\ Cardinality(S) \in Nat /\ Cardinality(S) <= Cardinality(S)
    BY FS_CardinalityType
  <1>7. Good(S)
    BY <1>4, <1>5, <1>6
  <1> QED BY <1>7 DEF Good, Sum

\* A sum depends on what it sums only, and of naturals is one.
LEMMA SumsAgree ==
    ASSUME NEW f, NEW g, NEW S, IsFiniteSet(S),
           \A x \in S : f[x] \in Nat /\ f[x] = g[x]
    PROVE  /\ SumFunctionOnSet(f, S) \in Nat
           /\ SumFunctionOnSet(f, S) = SumFunctionOnSet(g, S)
PROOF
  <1> DEFINE Good(s) == /\ SumFunctionOnSet(f, s) \in Nat
                        /\ SumFunctionOnSet(f, s) = SumFunctionOnSet(g, s)
             N == {n \in Nat : \A s \in SUBSET S : Cardinality(s) <= n => Good(s)}
  <1>1. ASSUME NEW s \in SUBSET S, s = {} PROVE Good(s)
    <2>1. IsFiniteSet(s)
      BY FS_Subset
    <2>2. SumFunctionOnSet(f, s) = 0 /\ SumFunctionOnSet(g, s) = 0
      BY ONLY <1>1, <2>1, SumTakesAny
    <2> QED BY <2>2
  <1>2. 0 \in N
    <2>1. ASSUME NEW s \in SUBSET S, Cardinality(s) <= 0 PROVE s = {}
      <3>1. s # {} => Cardinality(s) \in Nat /\ Cardinality(s) - 1 \in Nat
        BY TakesOne
      <3> QED BY <2>1, <3>1
    <2> HIDE DEF Good
    <2> QED BY <1>1, <2>1
  <1>3. ASSUME NEW n \in Nat, n \in N PROVE n + 1 \in N
    <2>1. ASSUME NEW s \in SUBSET S, Cardinality(s) <= n + 1, s # {}
          PROVE  Good(s)
      <3> DEFINE c == Any(s)
      <3>1. /\ c \in s /\ s \ {c} \in SUBSET S
            /\ Cardinality(s) \in Nat
            /\ Cardinality(s \ {c}) = Cardinality(s) - 1
            /\ IsFiniteSet(s)
        BY <2>1, TakesOne
      <3>2. /\ SumFunctionOnSet(f, s) = f[c] + SumFunctionOnSet(f, s \ {c})
            /\ SumFunctionOnSet(g, s) = g[c] + SumFunctionOnSet(g, s \ {c})
        BY <2>1, <3>1, SumTakesAny
      <3> HIDE DEF c, Good
      <3>3. \A u \in SUBSET S : Cardinality(u) <= n => Good(u)
        BY <1>3
      <3>4. Good(s \ {c})
        BY <2>1, <3>1, <3>3
      <3>5. f[c] \in Nat /\ f[c] = g[c]
        BY <3>1
      <3> QED BY <3>2, <3>4, <3>5 DEF Good
    <2> HIDE DEF Good
    <2> QED BY <1>1, <2>1
  <1>4. \A n \in Nat : n \in N =>
          \A s \in SUBSET S : Cardinality(s) <= n => Good(s)
    OBVIOUS
  <1> HIDE DEF N, Good
  <1>5. Nat \subseteq N
    BY <1>2, <1>3, SetInduction
  <1>6. S \in SUBSET S /\ Cardinality(S) \in Nat /\ Cardinality(S) <= Cardinality(S)
    BY FS_CardinalityType
  <1>7. Good(S)
    BY <1>4, <1>5, <1>6
  <1> QED BY <1>7 DEF Good

\* With one more element, a sum is larger by what that element adds.
LEMMA SumWithOneMore ==
    ASSUME NEW f, NEW S, IsFiniteSet(S), NEW x, x \notin S,
           \A y \in S \cup {x} : f[y] \in Nat
    PROVE  SumFunctionOnSet(f, S \cup {x}) = f[x] + SumFunctionOnSet(f, S)
PROOF
  <1>1. IsFiniteSet(S \cup {x})
    BY FS_AddElement
  <1>2. (S \cup {x}) \ {x} = S
    OBVIOUS
  <1>3. \A y \in S \cup {x} : f[y] \in Int
    OBVIOUS
  <1> QED BY <1>1, <1>2, <1>3, SumTakesEach

\* On the interval p..q, g is what f is on a..b.
Shifted(f, a, b, g, p, q) ==
    /\ a \in Int /\ b \in Int /\ p \in Int /\ q \in Int
    /\ a - 1 <= b /\ q - p = b - a
    /\ \A i \in a..b : f[i] \in Nat /\ g[i + (p - a)] = f[i]

\* What an interval of a function sums up to does not depend on where it is.
LEMMA SumShifted ==
    ASSUME NEW f, NEW g, NEW a, NEW b, NEW p, NEW q, Shifted(f, a, b, g, p, q)
    PROVE  SumFunctionOnSet(f, a..b) = SumFunctionOnSet(g, p..q)
PROOF
  <1> DEFINE d == p - a
  <1>a. /\ a \in Int /\ b \in Int /\ d \in Int /\ a - 1 <= b
        /\ a + d = p /\ b + d = q
    BY DEF Shifted
  <1>b. \A i \in a..b : f[i] \in Nat /\ g[i + d] = f[i]
    BY DEF Shifted
  <1> HIDE DEF d
  <1> DEFINE S == {j \in a - 1 .. b : SumFunctionOnSet(f, a..j)
                                        = SumFunctionOnSet(g, a + d .. j + d)}
  <1>1. a - 1 \in S
    <2>1. a .. a - 1 = {} /\ a + d .. (a - 1) + d = {}
      BY <1>a
    <2>2. IsFiniteSet({})
      BY FS_EmptySet
    <2>3. \A h : SumFunctionOnSet(h, {}) = 0
      BY <2>2, SumTakesAny
    <2>4. a - 1 \in a - 1 .. b
      BY <1>a
    <2> QED BY <1>a, <2>1, <2>3, <2>4
  <1>2. ASSUME NEW j \in a - 1 .. b - 1, j \in S PROVE j + 1 \in S
    <2>1. /\ a .. j + 1 = (a..j) \cup {j + 1} /\ j + 1 \notin a..j
          /\ a + d .. (j + 1) + d = (a + d .. j + d) \cup {(j + 1) + d}
          /\ (j + 1) + d \notin a + d .. j + d
      BY <1>a
    <2>2. IsFiniteSet(a..j) /\ IsFiniteSet(a + d .. j + d)
      BY <1>a, FS_Interval
    <2>3. \A i \in (a..j) \cup {j + 1} : f[i] \in Nat
      BY <1>a, <1>b
    <2>4. ASSUME NEW i \in (a + d .. j + d) \cup {(j + 1) + d}
          PROVE  g[i] \in Nat
      <3>1. i - d \in a..b /\ (i - d) + d = i
        BY <1>a
      <3> QED BY <1>b, <3>1
    <2>5. SumFunctionOnSet(f, (a..j) \cup {j + 1})
            = f[j + 1] + SumFunctionOnSet(f, a..j)
      BY <2>1, <2>2, <2>3, SumWithOneMore
    <2>6. SumFunctionOnSet(g, (a + d .. j + d) \cup {(j + 1) + d})
            = g[(j + 1) + d] + SumFunctionOnSet(g, a + d .. j + d)
      BY <2>1, <2>2, <2>4, SumWithOneMore
    <2>7. j + 1 \in a..b /\ j + 1 \in a - 1 .. b
      BY <1>a
    <2> QED BY <1>2, <1>b, <2>1, <2>5, <2>6, <2>7
  <1>3. b \in S => SumFunctionOnSet(f, a..b) = SumFunctionOnSet(g, a + d .. b + d)
    OBVIOUS
  <1> HIDE DEF S
  <1>4. \A j \in a - 1 .. b : j \in S
    BY <1>a, <1>1, <1>2, IntervalInduction
  <1> QED BY <1>a, <1>3, <1>4
=============================================================================
