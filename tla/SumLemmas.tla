------------------------------- MODULE SumLemmas -------------------------------
(***************************************************************************)
(* What the sum of a function's values is, for the proofs about counters:  *)
(* the sum of naturals is a natural number, and a step that changes one    *)
(* value changes the sum by as much.                                       *)
(*                                                                         *)
(* SumFunction of the community modules adds the values up in the order in *)
(* which CHOOSE takes elements from the domain, by a recursive function on *)
(* its subsets.  That this function exists, and everything about it, is    *)
(* shown by induction over those subsets; the induction is on a set of     *)
(* subsets, as a least counterexample, and not on a formula.               *)
(***************************************************************************)
EXTENDS Integers, FiniteSets, Functions, FiniteSetTheorems,
        WellFoundedInduction, TLAPS

\* The element of a set that is added first.
First(s) == CHOOSE x \in s : TRUE
Rest(s) == s \ {First(s)}

\* Where there is a natural number there is a least one.
LEMMA LeastNatural ==
    ASSUME NEW T \in SUBSET Nat, T # {}
    PROVE  \E n \in T : \A m \in T : n <= m
  <1>1. PICK n \in T : \A m \in T : ~ <<m, n>> \in OpToRel(<, Nat)
    BY NatLessThanWellFounded, WFMin
  <1>2. ASSUME NEW m \in T, m < n PROVE FALSE
    <2>1. <<m, n>> \in OpToRel(<, Nat)
      <3>1. <<m, n>> \in Nat \X Nat /\ <<m, n>>[1] < <<m, n>>[2]
        BY <1>2
      <3>2. QED BY <3>1 DEF OpToRel
    <2>2. QED BY <1>1, <2>1, Zenon
  <1>3. QED BY <1>2

\* A set of naturals with 0, and with the successor of all it has, is all.
LEMMA AllNaturals ==
    ASSUME NEW T, 0 \in T, \A n \in Nat : n \in T => n + 1 \in T
    PROVE  \A n \in Nat : n \in T
  <1> DEFINE C == {n \in Nat : n \notin T}
  <1>1. SUFFICES ASSUME C # {} PROVE FALSE
    OBVIOUS
  <1>2. PICK n \in C : \A m \in C : n <= m
    BY <1>1, LeastNatural
  <1>3. n # 0 /\ n - 1 \in Nat /\ n - 1 \notin C
    BY <1>2
  <1>4. n \in T
    BY <1>3
  <1>5. QED BY <1>4

\* What is left of a finite set without its first element.
LEMMA RestIsSmaller ==
    ASSUME NEW s, IsFiniteSet(s), s # {}
    PROVE  /\ First(s) \in s
           /\ Rest(s) \subseteq s
           /\ IsFiniteSet(Rest(s))
           /\ Cardinality(Rest(s)) = Cardinality(s) - 1
           /\ Cardinality(s) \in Nat \ {0}
  <1>1. First(s) \in s
    BY DEF First
  <1>2. Cardinality(s) \in Nat \ {0}
    BY FS_CardinalityType, FS_EmptySet
  <1>3. QED BY <1>1, <1>2, FS_RemoveElement DEF Rest

\* Induction along the order of the summation.
LEMMA PeelInduction ==
    ASSUME NEW S, IsFiniteSet(S), NEW T, {} \in T,
           \A s \in SUBSET S : s # {} /\ Rest(s) \in T => s \in T
    PROVE  \A s \in SUBSET S : s \in T
  <1> DEFINE N == {n \in Nat : \A s \in SUBSET S : Cardinality(s) = n => s \in T}
  <1>1. \A s \in SUBSET S : IsFiniteSet(s) /\ Cardinality(s) \in Nat
    BY FS_Subset, FS_CardinalityType
  <1>2. 0 \in N
    BY <1>1, FS_EmptySet
  <1>3. ASSUME NEW n \in Nat, n \in N PROVE n + 1 \in N
    <2>1. ASSUME NEW s \in SUBSET S, Cardinality(s) = n + 1 PROVE s \in T
      <3>1. s # {}
        BY <2>1, FS_EmptySet
      <3>2. Rest(s) \in SUBSET S /\ Cardinality(Rest(s)) = n
        BY <1>1, <2>1, <3>1, RestIsSmaller
      <3>3. QED BY <1>3, <3>1, <3>2
    <2>2. QED BY <2>1
  <1> HIDE DEF N
  <1>4. \A n \in Nat : n \in N
    BY <1>2, <1>3, AllNaturals
  <1>5. QED BY <1>1, <1>4 DEF N

-----------------------------------------------------------------------------
(* The iteration.                                                          *)

\* What the recursive function of the summation of f over S is equal to.
Unrolled(f, S, g) ==
    [s \in SUBSET S |-> IF s = {} THEN 0 ELSE f[First(s)] + g[Rest(s)]]

\* That function.
Iteration(f, S) == CHOOSE g : g = Unrolled(f, S, g)

LEMMA SumIsIteration ==
    ASSUME NEW f
    PROVE  SumFunction(f) = Iteration(f, DOMAIN f)[DOMAIN f]
  BY DEF SumFunction, SumFunctionOnSet, FoldFunctionOnSet, MapThenFoldSet,
         Iteration, Unrolled, First, Rest

\* It exists: what it is on the sets of n elements extends to those of n + 1.
LEMMA IterationExists ==
    ASSUME NEW S, IsFiniteSet(S), NEW f \in [S -> Nat]
    PROVE  \E g \in [SUBSET S -> Nat] : g = Unrolled(f, S, g)
  <1> DEFINE Upto(n) == {s \in SUBSET S : Cardinality(s) <= n}
             Solves(g, n) ==
                \A s \in Upto(n) :
                    g[s] = IF s = {} THEN 0 ELSE f[First(s)] + g[Rest(s)]
             N == {n \in Nat : \E g \in [Upto(n) -> Nat] : Solves(g, n)}
  <1>1. \A s \in SUBSET S : IsFiniteSet(s) /\ Cardinality(s) \in Nat
    BY FS_Subset, FS_CardinalityType
  <1>2. 0 \in N
    <2> DEFINE g == [s \in Upto(0) |-> 0]
    <2>1. \A s \in Upto(0) : s = {}
      BY <1>1, FS_EmptySet
    <2>2. g \in [Upto(0) -> Nat] /\ Solves(g, 0)
      BY <2>1
    <2>3. QED BY <2>2
  <1>3. ASSUME NEW n \in Nat, n \in N PROVE n + 1 \in N
    <2>1. PICK h \in [Upto(n) -> Nat] : Solves(h, n)
      BY <1>3
    <2> DEFINE g == [s \in Upto(n + 1) |->
                        IF s = {} THEN 0 ELSE f[First(s)] + h[Rest(s)]]
    <2>2. ASSUME NEW s \in Upto(n + 1), s # {}
          PROVE  First(s) \in S /\ Rest(s) \in Upto(n)
      BY <1>1, <2>2, RestIsSmaller
    <2>3. g \in [Upto(n + 1) -> Nat]
      <3>1. \A s \in Upto(n + 1) : s # {} => f[First(s)] \in Nat /\ h[Rest(s)] \in Nat
        BY <2>1, <2>2
      <3>2. QED BY <3>1
    <2>4. \A s \in Upto(n) : s \in Upto(n + 1) /\ g[s] = h[s]
      BY <1>1, <2>1
    <2>5. Solves(g, n + 1)
      BY <2>2, <2>4
    <2> HIDE DEF g, Upto, Solves
    <2>6. \E k \in [Upto(n + 1) -> Nat] : Solves(k, n + 1)
      BY <2>3, <2>5
    <2>7. QED BY <2>6
  <1>4. Cardinality(S) \in N
    <2> HIDE DEF N
    <2>1. \A n \in Nat : n \in N
      BY <1>2, <1>3, AllNaturals
    <2>2. QED BY <2>1, FS_CardinalityType
  <1>5. Upto(Cardinality(S)) = SUBSET S
    BY FS_Subset
  <1>6. PICK g \in [SUBSET S -> Nat] : Solves(g, Cardinality(S))
    BY <1>4, <1>5
  <1>7. g = Unrolled(f, S, g)
    BY <1>5, <1>6 DEF Unrolled
  <1>8. QED BY <1>7

\* So it is what the recursion says, on all subsets.
LEMMA IterationUnrolls ==
    ASSUME NEW S, IsFiniteSet(S), NEW f \in [S -> Nat]
    PROVE  \A s \in SUBSET S : Iteration(f, S)[s] =
                IF s = {} THEN 0 ELSE f[First(s)] + Iteration(f, S)[Rest(s)]
  <1>1. Iteration(f, S) = Unrolled(f, S, Iteration(f, S))
    BY IterationExists DEF Iteration
  <1>2. QED BY <1>1 DEF Unrolled

LEMMA IterationIsNatural ==
    ASSUME NEW S, IsFiniteSet(S), NEW f \in [S -> Nat]
    PROVE  \A s \in SUBSET S : Iteration(f, S)[s] \in Nat
  <1> DEFINE it == Iteration(f, S)
             T == {s \in SUBSET S : it[s] \in Nat}
  <1>1. \A s \in SUBSET S : it[s] = IF s = {} THEN 0 ELSE f[First(s)] + it[Rest(s)]
    BY IterationUnrolls
  <1> HIDE DEF it
  <1>2. {} \in T
    BY <1>1
  <1>3. ASSUME NEW s \in SUBSET S, s # {}, Rest(s) \in T PROVE s \in T
    <2>1. First(s) \in S
      BY <1>3 DEF First
    <2>2. QED BY <1>1, <1>3, <2>1
  <1> HIDE DEF T
  <1>4. \A s \in SUBSET S : s \in T
    BY <1>2, <1>3, PeelInduction
  <1>5. QED BY <1>4 DEF T, it

-----------------------------------------------------------------------------
(* What the proofs use.                                                    *)

\* A sum of naturals is a natural number.
LEMMA SumIsNatural ==
    ASSUME NEW S, IsFiniteSet(S), NEW f \in [S -> Nat]
    PROVE  SumFunction(f) \in Nat
  BY SumIsIteration, IterationIsNatural

\* Nothing but zeros adds up to zero.
LEMMA SumOfZeros ==
    ASSUME NEW S, IsFiniteSet(S), NEW f \in [S -> Nat], \A x \in S : f[x] = 0
    PROVE  SumFunction(f) = 0
  <1> DEFINE it == Iteration(f, S)
             T == {s \in SUBSET S : it[s] = 0}
  <1>1. \A s \in SUBSET S : it[s] = IF s = {} THEN 0 ELSE f[First(s)] + it[Rest(s)]
    BY IterationUnrolls
  <1> HIDE DEF it
  <1>2. {} \in T
    BY <1>1
  <1>3. ASSUME NEW s \in SUBSET S, s # {}, Rest(s) \in T PROVE s \in T
    <2>1. First(s) \in S
      BY <1>3 DEF First
    <2>2. QED BY <1>1, <1>3, <2>1
  <1> HIDE DEF T
  <1>4. \A s \in SUBSET S : s \in T
    BY <1>2, <1>3, PeelInduction
  <1>5. QED BY <1>4, SumIsIteration DEF T, it

\* One value changed is the sum changed by as much.
LEMMA SumChanges ==
    ASSUME NEW S, IsFiniteSet(S), NEW f \in [S -> Nat], NEW g \in [S -> Nat],
           NEW x \in S, \A y \in S : y # x => g[y] = f[y]
    PROVE  SumFunction(g) = SumFunction(f) - f[x] + g[x]
  <1> DEFINE it == Iteration(f, S)
             jt == Iteration(g, S)
             T == {s \in SUBSET S :
                    jt[s] = IF x \in s THEN it[s] - f[x] + g[x] ELSE it[s]}
  <1>1. \A s \in SUBSET S : it[s] = IF s = {} THEN 0 ELSE f[First(s)] + it[Rest(s)]
    BY IterationUnrolls
  <1>2. \A s \in SUBSET S : jt[s] = IF s = {} THEN 0 ELSE g[First(s)] + jt[Rest(s)]
    BY IterationUnrolls
  <1>3. \A s \in SUBSET S : it[s] \in Nat /\ jt[s] \in Nat
    BY IterationIsNatural
  <1> HIDE DEF it, jt
  <1>4. {} \in T
    BY <1>1, <1>2
  <1>5. ASSUME NEW s \in SUBSET S, s # {}, Rest(s) \in T PROVE s \in T
    <2>1. First(s) \in S /\ First(s) \in s /\ First(s) \notin Rest(s)
          /\ Rest(s) \in SUBSET S
      BY <1>5 DEF First, Rest
    <2>2. it[s] = f[First(s)] + it[Rest(s)] /\ jt[s] = g[First(s)] + jt[Rest(s)]
      BY <1>1, <1>2, <1>5
    <2>3. it[Rest(s)] \in Nat /\ jt[Rest(s)] \in Nat /\ f[x] \in Nat /\ g[x] \in Nat
      BY <1>3, <2>1
    <2>4. CASE First(s) = x
      BY <1>5, <2>1, <2>2, <2>3, <2>4
    <2>5. CASE First(s) # x
      <3>1. g[First(s)] = f[First(s)] /\ f[First(s)] \in Nat
        BY <2>1, <2>5
      <3>2. x \in s <=> x \in Rest(s)
        BY <2>5 DEF Rest
      <3>3. QED BY <1>5, <2>2, <2>3, <3>1, <3>2
    <2>6. QED BY <2>4, <2>5
  <1> HIDE DEF T
  <1>6. \A s \in SUBSET S : s \in T
    BY <1>4, <1>5, PeelInduction
  <1>7. SumFunction(f) = it[S] /\ SumFunction(g) = jt[S]
    BY SumIsIteration DEF it, jt
  <1>8. QED BY <1>6, <1>7 DEF T

-----------------------------------------------------------------------------
(* Any element may be added first.                                         *)

LEMMA AnyElementFirst ==
    ASSUME NEW S, IsFiniteSet(S), NEW f \in [S -> Nat]
    PROVE  \A s \in SUBSET S : \A y \in s :
                Iteration(f, S)[s] = f[y] + Iteration(f, S)[s \ {y}]
  <1> DEFINE it == Iteration(f, S)
             N == {n \in Nat : \A s \in SUBSET S : Cardinality(s) = n =>
                        \A y \in s : it[s] = f[y] + it[s \ {y}]}
  <1>1. \A s \in SUBSET S : it[s] = IF s = {} THEN 0 ELSE f[First(s)] + it[Rest(s)]
    BY IterationUnrolls
  <1>2. \A s \in SUBSET S : it[s] \in Nat
    BY IterationIsNatural
  <1>3. \A s \in SUBSET S : IsFiniteSet(s) /\ Cardinality(s) \in Nat
    BY FS_Subset, FS_CardinalityType
  <1> HIDE DEF it
  <1>4. 0 \in N
    BY <1>3, FS_EmptySet
  <1>5. ASSUME NEW n \in Nat, n \in N PROVE n + 1 \in N
    <2>1. ASSUME NEW s \in SUBSET S, Cardinality(s) = n + 1, NEW y \in s
          PROVE  it[s] = f[y] + it[s \ {y}]
      <3> DEFINE z == First(s)
                 u == s \ {y}
                 v == s \ {z}
                 w == (s \ {z}) \ {y}
      <3>1. z \in s /\ Rest(s) = v
        BY DEF First, Rest
      <3>2. it[s] = f[z] + it[v]
        BY <1>1, <2>1, <3>1
      <3> HIDE DEF z
      <3>3. CASE y = z
        BY <3>2, <3>3
      <3>4. CASE y # z
        <4>1. Cardinality(u) = n /\ Cardinality(v) = n
          <5>1. IsFiniteSet(s)
            BY <1>3
          <5>2. \A a \in s : Cardinality(s \ {a}) = Cardinality(s) - 1
            BY <5>1, FS_RemoveElement
          <5>3. QED BY <2>1, <3>1, <5>2
        <4>2. u \in SUBSET S /\ v \in SUBSET S /\ w \in SUBSET S
              /\ z \in u /\ y \in v /\ u \ {z} = w /\ v \ {y} = w
          BY <3>1, <3>4
        <4> HIDE DEF u, v, w
        <4>3. it[u] = f[z] + it[w] /\ it[v] = f[y] + it[w]
          BY <1>5, <4>1, <4>2
        <4>4. f[y] \in Nat /\ f[z] \in Nat /\ it[w] \in Nat
          BY <1>2, <3>1, <4>2
        <4>5. it[s] = f[y] + it[u]
          BY <3>2, <4>3, <4>4
        <4>6. QED BY <4>5 DEF u
      <3>5. QED BY <3>3, <3>4
    <2>2. QED BY <2>1
  <1> HIDE DEF N
  <1>6. \A n \in Nat : n \in N
    BY <1>4, <1>5, AllNaturals
  <1>7. QED BY <1>3, <1>6 DEF N, it

LEMMA TakenFirst ==
    ASSUME NEW S, IsFiniteSet(S), NEW f \in [S -> Nat], NEW y \in S
    PROVE  Iteration(f, S)[S] = f[y] + Iteration(f, S)[S \ {y}]
  <1>1. \A s \in SUBSET S : \A z \in s :
            Iteration(f, S)[s] = f[z] + Iteration(f, S)[s \ {z}]
    BY AnyElementFirst
  <1>2. QED BY <1>1

\* One more value adds itself to the sum.
LEMMA SumGrows ==
    ASSUME NEW S, IsFiniteSet(S), NEW x, x \notin S, NEW f \in [S -> Nat],
           NEW g \in [S \union {x} -> Nat], \A y \in S : g[y] = f[y]
    PROVE  SumFunction(g) = SumFunction(f) + g[x]
  <1> DEFINE S1 == S \union {x}
             it == Iteration(f, S)
             jt == Iteration(g, S1)
             T == {s \in SUBSET S : jt[s] = it[s]}
  <1>1. IsFiniteSet(S1)
    BY FS_AddElement
  <1>2. \A s \in SUBSET S : it[s] = IF s = {} THEN 0 ELSE f[First(s)] + it[Rest(s)]
    BY IterationUnrolls
  <1>3. \A s \in SUBSET S1 : jt[s] = IF s = {} THEN 0 ELSE g[First(s)] + jt[Rest(s)]
    BY <1>1, IterationUnrolls
  <1>4. jt[S1] = g[x] + jt[S1 \ {x}]
    <2>1. x \in S1 /\ g \in [S1 -> Nat]
      OBVIOUS
    <2> HIDE DEF S1, it, T
    <2>2. QED BY <1>1, <2>1, TakenFirst
  <1>5. \A s \in SUBSET S : it[s] \in Nat
    BY IterationIsNatural
  <1> HIDE DEF it, jt
  <1>6. {} \in T
    BY <1>2, <1>3
  <1>7. ASSUME NEW s \in SUBSET S, s # {}, Rest(s) \in T PROVE s \in T
    <2>1. First(s) \in S
      BY <1>7 DEF First
    <2>2. QED BY <1>2, <1>3, <1>7, <2>1
  <1> HIDE DEF T
  <1>8. \A s \in SUBSET S : s \in T
    BY <1>6, <1>7, PeelInduction
  <1>9. jt[S] = it[S]
    BY <1>8 DEF T
  <1>10. S1 \ {x} = S
    OBVIOUS
  <1>11. SumFunction(f) = it[S] /\ SumFunction(g) = jt[S1]
    BY SumIsIteration DEF it, jt
  <1>12. g[x] \in Nat /\ it[S] \in Nat
    BY <1>5
  <1>13. QED BY <1>4, <1>9, <1>10, <1>11, <1>12

-----------------------------------------------------------------------------
(* Least and greatest elements.                                            *)

LEMMA GreatestNatural ==
    ASSUME NEW S \in SUBSET Nat, IsFiniteSet(S), S # {}
    PROVE  \E n \in S : \A m \in S : m <= n
  <1> DEFINE T == {s \in SUBSET S : \E b \in Nat : \A y \in s : y <= b}
             U == {b \in Nat : \A y \in S : y <= b}
  <1>1. {} \in T
    OBVIOUS
  <1>2. ASSUME NEW s \in SUBSET S, s # {}, Rest(s) \in T PROVE s \in T
    <2>1. PICK b \in Nat : \A y \in Rest(s) : y <= b
      BY <1>2
    <2>2. First(s) \in Nat /\ \A y \in s : y = First(s) \/ y \in Rest(s)
      BY <1>2 DEF First, Rest
    <2>3. \A y \in s : y <= b + First(s)
      BY <2>1, <2>2
    <2>4. b + First(s) \in Nat
      BY <2>2
    <2>5. QED BY <2>3, <2>4
  <1> HIDE DEF T
  <1>3. S \in T
    BY <1>1, <1>2, PeelInduction
  <1>4. PICK n \in U : \A m \in U : n <= m
    BY <1>3, LeastNatural DEF T
  <1>5. n \in S
    <2>1. SUFFICES ASSUME n \notin S PROVE FALSE
      OBVIOUS
    <2>2. \A y \in S : y <= n - 1
      BY <2>1
    <2>3. PICK y \in S : y \in Nat /\ y <= n - 1
      BY <2>2
    <2>4. n - 1 \in Nat
      BY <2>3
    <2>5. n - 1 \in U
      BY <2>2, <2>4
    <2>6. QED BY <1>4, <2>5
  <1>6. QED BY <1>5
=============================================================================
