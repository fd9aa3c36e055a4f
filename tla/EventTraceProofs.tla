--------------------------- MODULE EventTraceProofs ---------------------------
(***************************************************************************)
(* Proofs about EventTrace, for every file, duration, unit and width.      *)
(*                                                                         *)
(* The file is sorted, so that the events under way at one timestamp are   *)
(* the latest so many, and those of the next timestamp are among them or   *)
(* new: what remove_if() takes from the list is always its far end.        *)
(***************************************************************************)
EXTENDS EventTrace, SumLemmas, SequenceTheorems

-----------------------------------------------------------------------------
(* Numbers.                                                                *)

LEMMA ModulusIsNatural == U64Mod \in Nat \ {0}
  BY EventTraceAssumption DEF U64Mod

\* Whole seconds are in the order of the timestamps they are taken from.
LEMMA DivisionKeepsOrder ==
    ASSUME NEW a \in Nat, NEW b \in Nat, a <= b, NEW u \in Nat \ {0}
    PROVE  /\ a \div u \in Nat
           /\ a \div u <= a
           /\ a \div u <= b \div u
  <1> DEFINE p == a \div u
             q == b \div u
  <1>1. /\ p \in Int /\ u * p <= a /\ a < u * (p + 1)
        /\ q \in Int /\ u * q <= b /\ b < u * (q + 1)
    OBVIOUS
  <1> HIDE DEF p, q
  <1>2. p >= 0
    <2>1. ASSUME p <= -1 PROVE FALSE
      <3>1. u * (p + 1) <= 0
        BY <1>1, <2>1
      <3>2. QED BY <1>1, <3>1
    <2>2. QED BY <1>1, <2>1
  <1>3. p <= a
    <2>1. p <= u * p
      BY <1>1, <1>2
    <2>2. QED BY <1>1, <2>1
  <1>4. p <= q
    <2>1. ASSUME q + 1 <= p PROVE FALSE
      <3>1. u * (q + 1) <= u * p
        BY <1>1, <2>1
      <3>2. QED BY <1>1, <3>1
    <2>2. QED BY <1>1, <2>1
  <1>5. QED BY <1>1, <1>2, <1>3, <1>4 DEF p, q

LEMMA ProductKeepsOrder ==
    ASSUME NEW a \in Nat, NEW b \in Nat, a <= b, NEW u \in Nat \ {0}
    PROVE  a * u \in Nat /\ a * u <= b * u
  OBVIOUS

\* The number of elements of an interval that ends at n.
LEMMA LatestCount ==
    ASSUME NEW n \in Nat, NEW c \in 0..n
    PROVE  Cardinality(n - c + 1..n) = c
  BY FS_Interval

-----------------------------------------------------------------------------
(* The sorted file.                                                        *)

Less(file, v) == {j \in DOMAIN file : file[j] < v}
NotGreater(file, v) == {j \in DOMAIN file : file[j] <= v}

LEMMA CountsAreNatural ==
    ASSUME NEW n \in Nat, NEW file \in [1..n -> Nat], NEW v
    PROVE  /\ IsFiniteSet(Less(file, v)) /\ Cardinality(Less(file, v)) \in Nat
           /\ IsFiniteSet(NotGreater(file, v)) /\ Cardinality(NotGreater(file, v)) \in Nat
  <1>1. IsFiniteSet(1..n)
    BY FS_Interval
  <1>2. Less(file, v) \subseteq 1..n /\ NotGreater(file, v) \subseteq 1..n
    BY DEF Less, NotGreater
  <1>3. QED BY <1>1, <1>2, FS_Subset, FS_CardinalityType

\* There is an entry of every rank: the least number that so many entries do
\* not exceed.
LEMMA RankedExists ==
    ASSUME NEW n \in Nat, NEW file \in [1..n -> Nat], NEW bound \in Nat,
           \A j \in 1..n : file[j] <= bound, NEW i \in 1..n
    PROVE  \E v \in Range(file) : /\ Cardinality(Less(file, v)) < i
                                  /\ Cardinality(NotGreater(file, v)) >= i
  <1> DEFINE T == {x \in Nat : Cardinality(NotGreater(file, x)) >= i}
  <1>1. bound \in T
    <2>1. NotGreater(file, bound) = 1..n
      BY DEF NotGreater
    <2>2. Cardinality(1..n) = n
      BY FS_Interval
    <2>3. QED BY <2>1, <2>2
  <1>2. PICK x \in T : \A y \in T : x <= y
    BY <1>1, LeastNatural
  <1>3. Cardinality(Less(file, x)) < i
    <2>1. CASE x = 0
      <3>1. Less(file, x) = {}
        BY <2>1 DEF Less
      <3>2. QED BY <3>1, FS_EmptySet
    <2>2. CASE x # 0
      <3>1. x - 1 \in Nat /\ x - 1 \notin T
        BY <1>2, <2>2
      <3>2. Less(file, x) = NotGreater(file, x - 1)
        BY <2>2 DEF Less, NotGreater
      <3>3. QED BY <3>1, <3>2, CountsAreNatural
    <2>3. QED BY <2>1, <2>2
  <1>4. x \in Range(file)
    <2>1. ASSUME x \notin Range(file) PROVE FALSE
      <3>1. \A j \in 1..n : file[j] # x
        BY <2>1 DEF Range
      <3>2. NotGreater(file, x) = Less(file, x)
        BY <3>1 DEF Less, NotGreater
      <3>3. QED BY <1>2, <1>3, <3>2, CountsAreNatural
    <2>2. QED BY <2>1
  <1>5. QED BY <1>2, <1>3, <1>4

\* The sorted file has the entries of the file, in order.
LEMMA SortedIsOrdered ==
    ASSUME NEW n \in Nat, NEW S \in SUBSET Nat, NEW bound \in Nat,
           \A x \in S : x <= bound, NEW file \in [1..n -> S]
    PROVE  /\ Sorted(file) \in [1..n -> S]
           /\ \A i, j \in 1..n : i < j => Sorted(file)[i] <= Sorted(file)[j]
  <1>1. file \in [1..n -> Nat] /\ \A j \in 1..n : file[j] <= bound
    OBVIOUS
  <1>2. ASSUME NEW i \in 1..n
        PROVE  /\ Ranked(file, i) \in Range(file)
               /\ Cardinality(Less(file, Ranked(file, i))) < i
               /\ Cardinality(NotGreater(file, Ranked(file, i))) >= i
    BY <1>1, RankedExists DEF Ranked, Less, NotGreater
  <1>3. ASSUME NEW i \in 1..n
        PROVE  Sorted(file)[i] = Ranked(file, i) /\ Ranked(file, i) \in S
    BY <1>2 DEF Sorted, Range
  <1>4. ASSUME NEW i \in 1..n, NEW j \in 1..n, i < j,
               Ranked(file, j) < Ranked(file, i)
        PROVE  FALSE
    <2> DEFINE v == Ranked(file, i)
               w == Ranked(file, j)
    <2>1. v \in Nat /\ w \in Nat
      BY <1>3
    <2>2. NotGreater(file, w) \subseteq Less(file, v)
      BY <1>1, <1>4, <2>1 DEF NotGreater, Less
    <2>3. Cardinality(NotGreater(file, w)) <= Cardinality(Less(file, v))
      BY <1>1, <2>2, CountsAreNatural, FS_Subset
    <2>4. Cardinality(Less(file, v)) < i /\ Cardinality(NotGreater(file, w)) >= j
      BY <1>2
    <2>5. Cardinality(Less(file, v)) \in Nat /\ Cardinality(NotGreater(file, w)) \in Nat
      BY <1>1, CountsAreNatural
    <2>6. QED BY <1>4, <2>3, <2>4, <2>5
  <1>5. ASSUME NEW i \in 1..n, NEW j \in 1..n, i < j
        PROVE  Sorted(file)[i] <= Sorted(file)[j]
    <2> DEFINE v == Ranked(file, i)
               w == Ranked(file, j)
    <2>1. v \in Nat /\ w \in Nat /\ Sorted(file)[i] = v /\ Sorted(file)[j] = w
      BY <1>3
    <2>2. ~(w < v)
      BY <1>4, <1>5
    <2> HIDE DEF v, w
    <2>3. QED BY <2>1, <2>2
  <1>6. Sorted(file) \in [1..n -> S]
    <2>1. Sorted(file) = [i \in 1..n |-> Ranked(file, i)]
      BY <1>1 DEF Sorted
    <2>2. \A i \in 1..n : Ranked(file, i) \in S
      BY <1>3
    <2>3. QED BY <2>1, <2>2
  <1>7. QED BY <1>5, <1>6

-----------------------------------------------------------------------------
(* What remove_if() leaves.                                                *)

\* What its recursive function is equal to.
Filtered(list, timestamp, g) ==
    [n \in 0..Len(list) |->
        IF n = 0 THEN <<>>
        ELSE IF Expired(list[n], timestamp) THEN g[n - 1]
        ELSE Append(g[n - 1], list[n])]

\* That function.
Filtering(list, timestamp) == CHOOSE g : g = Filtered(list, timestamp, g)

LEMMA RemainingIsFiltering ==
    ASSUME NEW list, NEW timestamp
    PROVE  Remaining(list, timestamp) = Filtering(list, timestamp)[Len(list)]
  BY DEF Remaining, Filtering, Filtered

\* It exists: what it is up to n extends to n + 1.
LEMMA FilteringExists ==
    ASSUME NEW S, NEW list \in Seq(S), NEW timestamp
    PROVE  \E g : g = Filtered(list, timestamp, g)
  <1> DEFINE L == Len(list)
             Solves(g, n) ==
                \A k \in 0..n :
                    g[k] = IF k = 0 THEN <<>>
                           ELSE IF Expired(list[k], timestamp) THEN g[k - 1]
                           ELSE Append(g[k - 1], list[k])
             N == {n \in Nat : n <= L => \E g : DOMAIN g = 0..n /\ Solves(g, n)}
  <1>1. L \in Nat
    OBVIOUS
  <1>2. 0 \in N
    <2> DEFINE g == [k \in 0..0 |-> <<>>]
    <2>1. DOMAIN g = 0..0 /\ Solves(g, 0)
      OBVIOUS
    <2> HIDE DEF g, Solves
    <2>2. \E h : DOMAIN h = 0..0 /\ Solves(h, 0)
      BY <2>1
    <2>3. QED BY <2>2
  <1>3. ASSUME NEW n \in Nat, n \in N PROVE n + 1 \in N
    <2>1. SUFFICES ASSUME n + 1 <= L
                   PROVE  \E g : DOMAIN g = 0..n + 1 /\ Solves(g, n + 1)
      OBVIOUS
    <2>2. PICK h : DOMAIN h = 0..n /\ Solves(h, n)
      BY <1>1, <1>3, <2>1
    <2> DEFINE g == [k \in 0..n + 1 |->
                        IF k = 0 THEN <<>>
                        ELSE IF Expired(list[k], timestamp) THEN h[k - 1]
                        ELSE Append(h[k - 1], list[k])]
    <2>3. \A k \in 0..n : g[k] = h[k]
      BY <2>2
    <2>4. Solves(g, n + 1)
      <3>1. ASSUME NEW k \in 0..n + 1
            PROVE  g[k] = IF k = 0 THEN <<>>
                          ELSE IF Expired(list[k], timestamp) THEN g[k - 1]
                          ELSE Append(g[k - 1], list[k])
        <4>1. CASE k = 0
          BY <4>1
        <4>2. CASE k # 0
          <5>1. k - 1 \in 0..n
            BY <4>2
          <5>2. g[k - 1] = h[k - 1]
            BY <2>3, <5>1, Zenon
          <5>3. g[k] = IF Expired(list[k], timestamp) THEN h[k - 1]
                       ELSE Append(h[k - 1], list[k])
            BY <4>2
          <5> HIDE DEF g
          <5>4. QED BY <4>2, <5>2, <5>3
        <4>3. QED BY <4>1, <4>2
      <3>2. QED BY <3>1
    <2>5. DOMAIN g = 0..n + 1
      OBVIOUS
    <2> HIDE DEF g, Solves
    <2>6. QED BY <2>4, <2>5
  <1>4. L \in N
    <2> HIDE DEF N
    <2>1. \A n \in Nat : n \in N
      BY <1>2, <1>3, AllNaturals
    <2>2. QED BY <1>1, <2>1
  <1>5. PICK g : DOMAIN g = 0..L /\ Solves(g, L)
    BY <1>1, <1>4
  <1> DEFINE h == [k \in 0..L |-> g[k]]
  <1>6. \A k \in 0..L : h[k] = g[k] /\ (k # 0 => h[k - 1] = g[k - 1])
    BY <1>1
  <1>7. h = Filtered(list, timestamp, h)
    <2>1. ASSUME NEW k \in 0..L PROVE h[k] = Filtered(list, timestamp, h)[k]
      BY <1>5, <1>6 DEF Filtered
    <2>2. QED BY <2>1 DEF Filtered
  <1>8. QED BY <1>7

\* So it is what the recursion says.
LEMMA FilteringUnrolls ==
    ASSUME NEW S, NEW list \in Seq(S), NEW timestamp
    PROVE  \A n \in 0..Len(list) : Filtering(list, timestamp)[n] =
                IF n = 0 THEN <<>>
                ELSE IF Expired(list[n], timestamp)
                     THEN Filtering(list, timestamp)[n - 1]
                ELSE Append(Filtering(list, timestamp)[n - 1], list[n])
  <1>1. Filtering(list, timestamp) =
            Filtered(list, timestamp, Filtering(list, timestamp))
    BY FilteringExists DEF Filtering
  <1>2. QED BY <1>1 DEF Filtered

\* No list gets longer, and no element is new.
LEMMA RemainingIsList ==
    ASSUME NEW S, NEW list \in Seq(S), NEW timestamp
    PROVE  /\ Remaining(list, timestamp) \in Seq(S)
           /\ Len(Remaining(list, timestamp)) <= Len(list)
  <1> DEFINE g == Filtering(list, timestamp)
             L == Len(list)
             N == {n \in Nat : n <= L => g[n] \in Seq(S) /\ Len(g[n]) <= n}
  <1>1. \A n \in 0..L : g[n] =
                IF n = 0 THEN <<>>
                ELSE IF Expired(list[n], timestamp) THEN g[n - 1]
                ELSE Append(g[n - 1], list[n])
    BY FilteringUnrolls
  <1>2. L \in Nat
    OBVIOUS
  <1> HIDE DEF g
  <1>3. 0 \in N
    <2>1. g[0] = <<>>
      BY <1>1, <1>2
    <2>2. <<>> \in Seq(S) /\ Len(<<>>) <= 0
      BY EmptySeq
    <2>3. QED BY <2>1, <2>2
  <1>4. ASSUME NEW n \in Nat, n \in N PROVE n + 1 \in N
    <2>1. SUFFICES ASSUME n + 1 <= L
                   PROVE  g[n + 1] \in Seq(S) /\ Len(g[n + 1]) <= n + 1
      OBVIOUS
    <2>2. /\ g[n] \in Seq(S) /\ Len(g[n]) <= n /\ Len(g[n]) \in Nat
          /\ list[n + 1] \in S
      BY <1>2, <1>4, <2>1
    <2>3. g[n + 1] = IF Expired(list[n + 1], timestamp) THEN g[n]
                     ELSE Append(g[n], list[n + 1])
      BY <1>1, <1>2, <2>1
    <2>4. QED BY <2>2, <2>3
  <1>5. L \in N
    <2> HIDE DEF N
    <2>1. \A n \in Nat : n \in N
      BY <1>3, <1>4, AllNaturals
    <2>2. QED BY <1>2, <2>1
  <1>6. QED BY <1>2, <1>5, RemainingIsFiltering DEF g

\* When what has expired is the end of the list, what is left is its beginning.
LEMMA RemainingIsFront ==
    ASSUME NEW S, NEW list \in Seq(S), NEW timestamp, NEW d \in 0..Len(list),
           \A k \in 1..Len(list) : Expired(list[k], timestamp) <=> k > d
    PROVE  Remaining(list, timestamp) = SubSeq(list, 1, d)
  <1> DEFINE g == Filtering(list, timestamp)
             L == Len(list)
             Front(n) == SubSeq(list, 1, IF n <= d THEN n ELSE d)
             N == {n \in Nat : n <= L => g[n] = Front(n)}
  <1>1. \A n \in 0..L : g[n] =
                IF n = 0 THEN <<>>
                ELSE IF Expired(list[n], timestamp) THEN g[n - 1]
                ELSE Append(g[n - 1], list[n])
    BY FilteringUnrolls
  <1>2. L \in Nat
    OBVIOUS
  <1> HIDE DEF g
  <1>3. 0 \in N
    <2>1. g[0] = <<>>
      BY <1>1, <1>2
    <2>2. Front(0) = <<>>
      <3>1. Front(0) = SubSeq(list, 1, 0)
        BY <1>2
      <3>2. QED BY <3>1, SubSeqEmpty
    <2> HIDE DEF Front
    <2>3. QED BY <2>1, <2>2
  <1>4. ASSUME NEW n \in Nat, n \in N PROVE n + 1 \in N
    <2>1. SUFFICES ASSUME n + 1 <= L PROVE g[n + 1] = Front(n + 1)
      OBVIOUS
    <2>2. g[n] = Front(n)
      BY <1>2, <1>4, <2>1
    <2>3. g[n + 1] = IF Expired(list[n + 1], timestamp) THEN g[n]
                     ELSE Append(g[n], list[n + 1])
      BY <1>1, <1>2, <2>1
    <2>4. CASE n + 1 <= d
      <3>1. g[n + 1] = Append(SubSeq(list, 1, n), list[n + 1])
        BY <1>2, <2>1, <2>2, <2>3, <2>4
      <3>2. Append(SubSeq(list, 1, n), list[n + 1]) = SubSeq(list, 1, n + 1)
        BY <1>2, <2>1
      <3>3. QED BY <2>4, <3>1, <3>2
    <2>5. CASE ~(n + 1 <= d)
      <3>1. g[n + 1] = g[n]
        BY <1>2, <2>1, <2>3, <2>5
      <3>2. QED BY <2>2, <2>5, <3>1
    <2>6. QED BY <2>4, <2>5
  <1>5. L \in N
    <2> HIDE DEF N
    <2>1. \A n \in Nat : n \in N
      BY <1>3, <1>4, AllNaturals
    <2>2. QED BY <1>2, <2>1
  <1>6. QED BY <1>2, <1>5, RemainingIsFiltering DEF g

-----------------------------------------------------------------------------
(* The events under way.                                                   *)

FileSorted ==
    /\ buf \in Seq(Entries)
    /\ \A i, j \in 1..Len(buf) : i < j => buf[i] <= buf[j]

\* Events start in the order of the file.
LEMMA StartsInOrder ==
    ASSUME FileSorted
    PROVE  /\ Len(buf) \in Nat
           /\ \A i \in 1..Len(buf) :
                /\ Timestamp(i) \in 0..U64Mod - 1
                /\ StartOf(i) \in Nat
                /\ type = "UINT64" => StartOf(i) = buf[i]
                /\ type # "UINT64" => StartOf(i) = Timestamp(i) * Unit
           /\ \A i, j \in 1..Len(buf) : i <= j => StartOf(i) <= StartOf(j)
  <1>1. Len(buf) \in Nat /\ \A i \in 1..Len(buf) : buf[i] \in Entries
    BY DEF FileSorted
  <1>2. Unit \in Nat \ {0} /\ Entries \subseteq 0..U64Mod - 1 /\ U64Mod \in Nat
    BY EventTraceAssumption, ModulusIsNatural
  <1>3. ASSUME NEW i \in 1..Len(buf)
        PROVE  buf[i] \in Nat /\ buf[i] \in 0..U64Mod - 1
    <2>1. buf[i] \in 0..U64Mod - 1
      BY <1>1, <1>2, Zenon
    <2>2. QED BY <1>2, <2>1
  <1>4. \A i \in 1..Len(buf) : buf[i] \div Unit \in Nat /\ buf[i] \div Unit <= buf[i]
    BY <1>2, <1>3, DivisionKeepsOrder
  <1>5. \A i, j \in 1..Len(buf) : i <= j => buf[i] <= buf[j]
    <2>1. \A i, j \in 1..Len(buf) : i < j => buf[i] <= buf[j]
      BY DEF FileSorted
    <2>2. \A i, j \in 1..Len(buf) : i <= j => i < j \/ i = j
      BY <1>1
    <2>3. \A i \in 1..Len(buf) : buf[i] <= buf[i]
      BY <1>3
    <2>4. QED BY <2>1, <2>2, <2>3, Zenon
  <1>6. ASSUME NEW i \in 1..Len(buf), NEW j \in 1..Len(buf), i <= j
        PROVE  StartOf(i) <= StartOf(j)
    <2>1. buf[i] <= buf[j] /\ buf[i] \in Nat /\ buf[j] \in Nat
      BY <1>3, <1>5, <1>6
    <2>2. CASE type = "UINT64"
      BY <2>1, <2>2 DEF StartOf, Timestamp
    <2>3. CASE type # "UINT64"
      <3> DEFINE a == buf[i] \div Unit
                 b == buf[j] \div Unit
      <3>1. a \in Nat /\ b \in Nat /\ a <= b
        BY <1>2, <1>4, <2>1, DivisionKeepsOrder
      <3>2. StartOf(i) = a * Unit /\ StartOf(j) = b * Unit
        BY <2>3 DEF StartOf, Timestamp
      <3> HIDE DEF a, b
      <3>3. QED BY <1>2, <3>1, <3>2, ProductKeepsOrder
    <2>4. QED BY <2>2, <2>3
  <1>7. ASSUME NEW i \in 1..Len(buf)
        PROVE  Timestamp(i) \in 0..U64Mod - 1 /\ Timestamp(i) \in Nat
    <2> DEFINE a == buf[i] \div Unit
    <2>1. a \in Nat /\ a <= buf[i] /\ buf[i] \in 0..U64Mod - 1
      BY <1>3, <1>4
    <2>2. Timestamp(i) = buf[i] \/ Timestamp(i) = a
      BY DEF Timestamp
    <2> HIDE DEF a
    <2>3. QED BY <1>2, <2>1, <2>2
  <1>8. ASSUME NEW i \in 1..Len(buf)
        PROVE  /\ StartOf(i) \in Nat
               /\ type = "UINT64" => StartOf(i) = buf[i]
               /\ type # "UINT64" => StartOf(i) = Timestamp(i) * Unit
    <2>1. type = "UINT64" => StartOf(i) = buf[i]
      BY DEF StartOf, Timestamp
    <2>2. type # "UINT64" => StartOf(i) = Timestamp(i) * Unit
      BY DEF StartOf
    <2>3. Timestamp(i) * Unit \in Nat
      BY <1>2, <1>7, ProductKeepsOrder
    <2>4. QED BY <1>3, <2>1, <2>2, <2>3
  <1>9. QED BY <1>1, <1>6, <1>7, <1>8

\* Those under way are the latest.
LEMMA LatestUnderWay ==
    ASSUME FileSorted, event_duration \in Nat, NEW n \in 0..Len(buf)
    PROVE  /\ Cardinality(UnderWay(n)) \in 0..n
           /\ \A i \in 1..n : i \in UnderWay(n) <=> i > n - Cardinality(UnderWay(n))
  <1> DEFINE U == UnderWay(n)
  <1>1. /\ n \in Nat
        /\ \A i \in 1..n : StartOf(i) \in Nat
        /\ \A i, j \in 1..n : i <= j => StartOf(i) <= StartOf(j)
    BY StartsInOrder
  <1>2. U \subseteq 1..n
    BY DEF UnderWay
  <1>3. ASSUME NEW i \in 1..n, NEW j \in 1..n, i \in U, i <= j PROVE j \in U
    <2>1. StartOf(i) <= StartOf(j) /\ StartOf(i) \in Nat /\ StartOf(j) \in Nat
          /\ StartOf(n) \in Nat
      BY <1>1, <1>3
    <2>2. StartOf(i) + event_duration > StartOf(n)
      BY <1>3 DEF UnderWay
    <2>3. StartOf(j) + event_duration > StartOf(n)
      BY <2>1, <2>2
    <2>4. QED BY <2>3 DEF UnderWay
  <1> HIDE DEF U
  <1>4. CASE U = {}
    <2>1. Cardinality(U) = 0
      BY <1>4, FS_EmptySet
    <2>2. QED BY <1>1, <1>4, <2>1 DEF U
  <1>5. CASE U # {}
    <2>1. PICK m \in U : \A i \in U : m <= i
      <3>1. U \in SUBSET Nat
        BY <1>1, <1>2
      <3>2. QED BY <1>5, <3>1, LeastNatural
    <2> DEFINE c == n - m + 1
    <2>2. m \in 1..n /\ c \in 0..n /\ n - c + 1 = m
      BY <1>1, <1>2, <2>1
    <2>3. U = n - c + 1..n
      <3>1. ASSUME NEW i \in m..n PROVE i \in U
        <4>1. i \in 1..n /\ m <= i
          BY <1>1, <2>2
        <4>2. QED BY <1>3, <2>1, <2>2, <4>1
      <3>2. ASSUME NEW i \in U PROVE i \in m..n
        BY <1>1, <1>2, <2>1, <2>2
      <3>3. U = m..n
        BY <3>1, <3>2
      <3>4. QED BY <2>2, <3>3
    <2>4. Cardinality(U) = c
      BY <1>1, <2>2, <2>3, LatestCount
    <2>5. \A i \in 1..n : i \in U <=> i > n - c
      BY <1>1, <2>2, <2>3
    <2> HIDE DEF c
    <2>6. QED BY <2>2, <2>4, <2>5 DEF U
  <1>6. QED BY <1>4, <1>5

\* An event has expired when the next one starts just if it is not under way
\* then.
LEMMA ExpiredIsOver ==
    ASSUME FileSorted, event_duration \in Nat, DurationFits,
           NEW n \in 1..Len(buf), NEW i \in 1..n
    PROVE  Expired(Timestamp(i), Timestamp(n)) <=> i \notin UnderWay(n)
  <1>1. /\ i \in 1..Len(buf)
        /\ StartOf(i) \in Nat /\ StartOf(n) \in Nat
        /\ type = "UINT64" => Timestamp(i) = StartOf(i) /\ Timestamp(n) = StartOf(n)
        /\ type = "UINT64" => StartOf(i) = buf[i]
        /\ type # "UINT64" => /\ StartOf(i) = Timestamp(i) * Unit
                              /\ StartOf(n) = Timestamp(n) * Unit
    <2>1. i \in 1..Len(buf) /\ Len(buf) \in Nat
      BY StartsInOrder
    <2>2. QED BY <2>1, StartsInOrder DEF StartOf
  <1>2. i \in UnderWay(n) <=> StartOf(i) + event_duration > StartOf(n)
    BY DEF UnderWay
  <1>3. CASE type = "UINT64"
    <2>1. StartOf(i) + event_duration \in Nat /\ StartOf(i) + event_duration < U64Mod
      BY <1>1, <1>3 DEF DurationFits
    <2>2. (StartOf(i) + event_duration) % U64Mod = StartOf(i) + event_duration
      BY <2>1, ModulusIsNatural
    <2>3. Expired(Timestamp(i), Timestamp(n)) <=>
                StartOf(i) + event_duration <= StartOf(n)
      BY <1>1, <1>3, <2>2 DEF Expired
    <2>4. QED BY <1>1, <1>2, <2>3
  <1>4. CASE type # "UINT64"
    <2>1. Expired(Timestamp(i), Timestamp(n)) <=>
                StartOf(i) + event_duration <= StartOf(n)
      BY <1>1, <1>4 DEF Expired
    <2>2. QED BY <1>1, <1>2, <2>1
  <1>5. QED BY <1>3, <1>4

CountUnderWay(n) == Cardinality(UnderWay(n))

\* The list of those under way, newest first.
Listed(n) == [k \in 1..CountUnderWay(n) |-> Timestamp(n + 1 - k)]

\* From one timestamp to the next, those under way are the new event and some
\* of those under way before.
LEMMA UnderWayFollows ==
    ASSUME FileSorted, event_duration \in Nat, DurationFits,
           NEW n \in 0..Len(buf), n < Len(buf)
    PROVE  /\ n + 1 \in 1..Len(buf)
           /\ CountUnderWay(n) \in 0..n
           /\ CountUnderWay(n + 1) \in 1..n + 1
           /\ CountUnderWay(n + 1) <= CountUnderWay(n) + 1
  <1> DEFINE c == CountUnderWay(n)
             d == CountUnderWay(n + 1)
  <1>1. n \in Nat /\ n + 1 \in 1..Len(buf) /\ n + 1 \in 0..Len(buf)
    BY StartsInOrder
  <1>2. c \in 0..n /\ \A i \in 1..n : i \in UnderWay(n) <=> i > n - c
    BY LatestUnderWay DEF CountUnderWay
  <1>3. d \in 0..n + 1 /\ \A i \in 1..n + 1 : i \in UnderWay(n + 1) <=> i > n + 1 - d
    BY <1>1, LatestUnderWay DEF CountUnderWay
  <1> HIDE DEF c, d
  <1>4. d # 0
    <2>1. n + 1 \in UnderWay(n + 1)
      <3>1. StartOf(n + 1) \in Nat /\ event_duration > 0
        BY <1>1, StartsInOrder DEF DurationFits
      <3>2. QED BY <1>1, <3>1 DEF UnderWay
    <2>2. n + 1 > n + 1 - d
      BY <1>1, <1>3, <2>1
    <2>3. QED BY <1>1, <1>3, <2>2
  <1>5. ASSUME d > c + 1 PROVE FALSE
    <2> DEFINE i == n - c
    <2>1. i \in 1..n /\ i > n + 1 - d /\ ~(i > n - c)
      BY <1>1, <1>2, <1>3, <1>5
    <2>2. i \in UnderWay(n + 1) /\ i \notin UnderWay(n)
      BY <1>1, <1>2, <1>3, <2>1
    <2>3. /\ StartOf(i) \in Nat /\ StartOf(n) \in Nat /\ StartOf(n + 1) \in Nat
          /\ StartOf(n) <= StartOf(n + 1)
      <3>1. i \in 1..Len(buf) /\ n \in 1..Len(buf) /\ n <= n + 1
        BY <1>1, <2>1
      <3> HIDE DEF i
      <3>2. QED BY <1>1, <3>1, StartsInOrder
    <2> HIDE DEF i
    <2>4. StartOf(i) + event_duration > StartOf(n + 1)
      BY <2>2 DEF UnderWay
    <2>5. ~(StartOf(i) + event_duration > StartOf(n))
      BY <2>1, <2>2 DEF UnderWay
    <2>6. QED BY <2>3, <2>4, <2>5
  <1>6. QED BY <1>1, <1>2, <1>3, <1>4, <1>5 DEF c, d

\* So removing what has expired takes the far end of the list, and no more.
LEMMA ListFollows ==
    ASSUME FileSorted, event_duration \in Nat, DurationFits,
           NEW n \in 0..Len(buf), n < Len(buf)
    PROVE  Remaining(<<Timestamp(n + 1)>> \o Listed(n), Timestamp(n + 1)) =
                Listed(n + 1)
  <1> DEFINE S == 0..U64Mod - 1
             t == Timestamp(n + 1)
             c == CountUnderWay(n)
             d == CountUnderWay(n + 1)
             old == Listed(n)
             list == <<t>> \o old
  <1>1. /\ n \in Nat /\ n + 1 \in 1..Len(buf) /\ n + 1 \in 0..Len(buf)
        /\ c \in 0..n /\ d \in 1..n + 1 /\ d <= c + 1
    BY UnderWayFollows, StartsInOrder
  <1>2. \A i \in 1..Len(buf) : Timestamp(i) \in S
    BY StartsInOrder
  <1>3. old \in Seq(S) /\ Len(old) = c /\ \A k \in 1..c : old[k] = Timestamp(n + 1 - k)
    <2>1. ASSUME NEW k \in 1..c PROVE Timestamp(n + 1 - k) \in S
      <3>1. n + 1 - k \in 1..Len(buf)
        BY <1>1
      <3>2. QED BY <1>2, <3>1
    <2>2. old = [k \in 1..c |-> Timestamp(n + 1 - k)]
      BY DEF Listed
    <2> HIDE DEF c, S, old
    <2>3. QED BY <1>1, <2>1, <2>2
  <1>4. t \in S
    BY <1>1, <1>2
  <1> HIDE DEF S, t, old
  <1>5. /\ list \in Seq(S) /\ Len(list) = c + 1
        /\ list[1] = t
        /\ \A k \in 2..c + 1 : list[k] = old[k - 1]
    BY <1>1, <1>3, <1>4
  <1> HIDE DEF list
  <1>6. ASSUME NEW k \in 1..c + 1 PROVE list[k] = Timestamp(n + 2 - k)
    <2>1. CASE k = 1
      <3>1. n + 2 - k = n + 1
        BY <1>1, <2>1
      <3>2. QED BY <1>5, <2>1, <3>1 DEF t
    <2>2. CASE k # 1
      <3>1. k - 1 \in 1..c /\ k \in 2..c + 1 /\ n + 1 - (k - 1) = n + 2 - k
        BY <1>1, <2>2
      <3>2. QED BY <1>3, <1>5, <3>1
    <2>3. QED BY <2>1, <2>2
  <1>7. ASSUME NEW k \in 1..Len(list) PROVE Expired(list[k], t) <=> k > d
    <2> DEFINE i == n + 2 - k
    <2>1. i \in 1..n + 1 /\ (i > n + 1 - d <=> ~(k > d)) /\ list[k] = Timestamp(i)
      BY <1>1, <1>5, <1>6
    <2>2. i \in UnderWay(n + 1) <=> i > n + 1 - d
      BY <1>1, <2>1, LatestUnderWay DEF CountUnderWay
    <2> HIDE DEF i
    <2>3. Expired(Timestamp(i), Timestamp(n + 1)) <=> i \notin UnderWay(n + 1)
      BY <1>1, <2>1, ExpiredIsOver
    <2>4. QED BY <2>1, <2>2, <2>3 DEF t
  <1>8. Remaining(list, t) = SubSeq(list, 1, d)
    <2>1. d \in 0..Len(list)
      BY <1>1, <1>5
    <2> HIDE DEF d
    <2>2. QED BY <1>5, <1>7, <2>1, RemainingIsFront
  <1>9. SubSeq(list, 1, d) = Listed(n + 1)
    <2>1. SubSeq(list, 1, d) = [k \in 1..d |-> list[k]]
      BY <1>1, <1>5
    <2>2. \A k \in 1..d : list[k] = Timestamp(n + 1 + 1 - k)
      <3>1. ASSUME NEW k \in 1..d PROVE list[k] = Timestamp(n + 1 + 1 - k)
        <4>1. k \in 1..c + 1 /\ n + 2 - k = n + 1 + 1 - k
          BY <1>1
        <4>2. QED BY <1>6, <4>1
      <3>2. QED BY <3>1
    <2>3. Listed(n + 1) = [k \in 1..d |-> Timestamp(n + 1 + 1 - k)]
      BY DEF Listed
    <2>4. QED BY <2>1, <2>2, <2>3, Zenon
  <1>10. QED BY <1>8, <1>9 DEF list, t, old

-----------------------------------------------------------------------------
(* The invariant.                                                          *)

\* The depths the events read so far found.
Depths(n) == {0} \union {CountUnderWay(m) - 1 : m \in 1..n}

\* The depth reported is one of them, and none is larger.
DepthReached ==
    /\ max_queue_depth \in Depths(n_read)
    /\ \A depth \in Depths(n_read) : depth <= max_queue_depth

Inv ==
    /\ TypeOK
    /\ FileSorted
    /\ DurationFits => start_times = Listed(n_read) /\ DepthReached

LEMMA TypeFacts ==
    ASSUME TypeOK
    PROVE  /\ event_duration \in Nat
           /\ Len(buf) \in Nat
           /\ Len(buf) < U64Mod
           /\ n_read \in Nat
  <1>1. event_duration \in Nat
    BY EventTraceAssumption, ModulusIsNatural DEF TypeOK
  <1>2. Len(buf) \in Nat /\ Len(buf) <= MaxNEntries
    BY DEF TypeOK
  <1>3. MaxNEntries \in Nat /\ MaxNEntries < U64Mod
    BY EventTraceAssumption, ModulusIsNatural
  <1>4. QED BY <1>1, <1>2, <1>3, ModulusIsNatural DEF TypeOK

\* A maximum that is reached is the maximum.
LEMMA ReachedIsMax ==
    ASSUME NEW S \in SUBSET Int, NEW m \in S, \A x \in S : x <= m
    PROVE  Max(S) = m
  <1>1. \E x \in S : \A y \in S : x >= y
    OBVIOUS
  <1>2. Max(S) \in S /\ \A y \in S : Max(S) >= y
    BY <1>1 DEF Max
  <1> DEFINE x == Max(S)
  <1>3. x \in Int /\ m \in Int /\ x <= m /\ x >= m
    BY <1>2
  <1> HIDE DEF x
  <1>4. x = m
    BY <1>3
  <1>5. QED BY <1>4 DEF x

LEMMA InitHolds ==
    ASSUME Init
    PROVE  Inv
  <1>1. PICK file \in Files : buf = Sorted(file)
    BY DEF Init
  <1>2. PICK n \in 0..MaxNEntries : file \in [1..n -> Entries]
    BY <1>1 DEF Files
  <1>3. Entries \in SUBSET Nat /\ MaxNEntries \in Nat /\ U64Mod - 1 \in Nat
        /\ \A x \in Entries : x <= U64Mod - 1
    BY EventTraceAssumption, ModulusIsNatural
  <1>4. /\ buf \in [1..n -> Entries]
        /\ \A i, j \in 1..n : i < j => buf[i] <= buf[j]
    <2>1. n \in Nat
      BY <1>2, <1>3
    <2> DEFINE bound == U64Mod - 1
    <2>2. bound \in Nat /\ \A x \in Entries : x <= bound
      BY <1>3
    <2> HIDE DEF bound
    <2>3. QED BY <1>1, <1>2, <1>3, <2>1, <2>2, SortedIsOrdered
  <1>5. buf \in Seq(Entries) /\ Len(buf) = n /\ n \in Nat /\ n <= MaxNEntries
    BY <1>2, <1>3, <1>4
  <1>6. FileSorted
    BY <1>4, <1>5 DEF FileSorted
  <1>7. n_read = 0 /\ start_times = <<>> /\ max_queue_depth = 0
    BY DEF Init
  <1>8. TypeOK
    <2>1. /\ type \in {"UINT64", "FLOAT64"}
          /\ event_duration \in IF type = "UINT64" THEN DurationsU64 ELSE DurationsF64
      BY DEF Init
    <2>2. start_times \in Seq(0..U64Mod - 1) /\ Len(start_times) <= n_read
      BY <1>7, EmptySeq
    <2>3. QED BY <1>5, <1>7, <2>1, <2>2 DEF TypeOK
  <1>9. start_times = Listed(n_read)
    <2>1. UnderWay(0) = {}
      BY DEF UnderWay
    <2>2. CountUnderWay(0) = 0
      BY <2>1, FS_EmptySet DEF CountUnderWay
    <2>3. Listed(0) = <<>>
      BY <2>2 DEF Listed
    <2>4. QED BY <1>7, <2>3
  <1>10. DepthReached
    BY <1>7 DEF DepthReached, Depths
  <1>11. QED BY <1>6, <1>8, <1>9, <1>10 DEF Inv

LEMMA ReadEventKeeps ==
    ASSUME Inv, ReadEvent
    PROVE  Inv'
  <1> DEFINE n == n_read
             t == Timestamp(n + 1)
             list == <<t>> \o start_times
             depth == QueueDepth(start_times')
  <1>1. /\ n_read' = n + 1 /\ n < Len(buf) /\ n \in 0..Len(buf)
        /\ type' = type /\ event_duration' = event_duration /\ buf' = buf
        /\ start_times' = Remaining(list, t)
        /\ max_queue_depth' = Deepest(depth)
    BY DEF Inv, TypeOK, ReadEvent, args, Timestamp
  <1>2. /\ event_duration \in Nat /\ Len(buf) \in Nat /\ Len(buf) < U64Mod
        /\ n \in Nat /\ n + 1 \in 1..Len(buf) /\ U64Mod \in Nat \ {0}
    BY <1>1, TypeFacts, ModulusIsNatural DEF Inv
  <1>3. /\ start_times' \in Seq(0..U64Mod - 1)
        /\ Len(start_times') \in 0..n + 1
    <2> DEFINE S == 0..U64Mod - 1
    <2>1. t \in S
      BY <1>2, StartsInOrder DEF Inv
    <2>2. start_times \in Seq(S) /\ Len(start_times) <= n /\ Len(start_times) \in Nat
      BY DEF Inv, TypeOK
    <2> HIDE DEF S, t
    <2>3. list \in Seq(S) /\ Len(list) <= n + 1
      BY <1>2, <2>1, <2>2
    <2> HIDE DEF list
    <2>4. Remaining(list, t) \in Seq(S) /\ Len(Remaining(list, t)) <= Len(list)
      BY <2>3, RemainingIsList
    <2>5. Len(Remaining(list, t)) \in Nat /\ Len(list) \in Nat
      BY <2>3, <2>4
    <2>6. QED BY <1>1, <1>2, <2>3, <2>4, <2>5 DEF S
  <1>4. depth \in {0, U64Mod - 1} \union 0..n
    <2> DEFINE l == Len(start_times')
    <2>1. l \in 0..n + 1 /\ depth = (l - 1) % U64Mod
      BY <1>3 DEF QueueDepth
    <2> HIDE DEF l
    <2>2. CASE l = 0
      <3>1. (-1) % U64Mod = U64Mod - 1
        BY <1>2
      <3>2. QED BY <2>1, <2>2, <3>1
    <2>3. CASE l # 0
      <3>1. l - 1 \in 0..n /\ l - 1 < U64Mod
        BY <1>1, <1>2, <2>1, <2>3
      <3>2. (l - 1) % U64Mod = l - 1
        BY <1>2, <3>1
      <3>3. QED BY <2>1, <3>1, <3>2
    <2>4. QED BY <2>2, <2>3
  <1> HIDE DEF depth
  <1>5. TypeOK'
    <2>1. max_queue_depth \in {0, U64Mod - 1} \union 0..n - 1
      BY DEF Inv, TypeOK
    <2>2. max_queue_depth' \in {0, U64Mod - 1} \union 0..n
      BY <1>1, <1>2, <1>4, <2>1 DEF Deepest
    <2>3. n_read' \in 0..Len(buf') /\ Len(start_times') <= n_read' /\ n_read' - 1 = n
      BY <1>1, <1>2, <1>3
    <2>4. QED BY <1>1, <1>3, <2>2, <2>3 DEF Inv, TypeOK
  <1>6. FileSorted'
    BY <1>1 DEF Inv, FileSorted
  <1>7. ASSUME DurationFits'
        PROVE  start_times' = Listed(n_read)' /\ DepthReached'
    <2>1. DurationFits
      BY <1>1, <1>7 DEF DurationFits
    <2>2. start_times = Listed(n) /\ DepthReached
      BY <2>1 DEF Inv
    <2>3. start_times' = Listed(n + 1)
      BY <1>1, <1>2, <2>1, <2>2, ListFollows DEF Inv
    <2>4. Listed(n_read)' = Listed(n + 1)
      BY <1>1 DEF Listed, CountUnderWay, UnderWay, StartOf, Timestamp
    <2>5. Depths(n_read)' = Depths(n + 1)
      BY <1>1 DEF Depths, CountUnderWay, UnderWay, StartOf, Timestamp
    <2> DEFINE d == CountUnderWay(n + 1)
    <2>6. d \in 1..n + 1
      BY <1>1, <1>2, <2>1, UnderWayFollows DEF Inv
    <2>7. depth = d - 1
      <3>1. Len(start_times') = d
        BY <2>3, <2>6 DEF Listed
      <3> HIDE DEF d
      <3>2. d - 1 \in Nat /\ d - 1 < U64Mod
        BY <1>1, <1>2, <2>6
      <3>3. QED BY <1>2, <3>1, <3>2 DEF depth, QueueDepth
    <2>8. Depths(n + 1) = Depths(n) \union {d - 1}
      <3>1. 1..n + 1 = (1..n) \union {n + 1}
        BY <1>2
      <3>2. QED BY <3>1 DEF Depths
    <2>9. \A x \in Depths(n) : x \in Int
      <3>1. \A m \in 1..n : CountUnderWay(m) \in Int
        <4>1. ASSUME NEW m \in 1..n PROVE CountUnderWay(m) \in Int
          <5>1. m \in 0..Len(buf)
            BY <1>1, <1>2
          <5>2. Cardinality(UnderWay(m)) \in 0..m
            BY <1>2, <5>1, LatestUnderWay DEF Inv
          <5>3. QED BY <5>2 DEF CountUnderWay
        <4>2. QED BY <4>1
      <3>2. QED BY <3>1 DEF Depths
    <2> HIDE DEF d
    <2>10. DepthReached'
      <3>1. /\ max_queue_depth' \in Depths(n + 1)
            /\ \A x \in Depths(n + 1) : x <= max_queue_depth'
        BY <1>1, <2>2, <2>6, <2>7, <2>8, <2>9 DEF DepthReached, Deepest
      <3>2. QED BY <2>5, <3>1 DEF DepthReached
    <2>11. QED BY <2>3, <2>4, <2>10
  <1>8. QED BY <1>5, <1>6, <1>7 DEF Inv

LEMMA StutterKeeps ==
    ASSUME Inv, UNCHANGED vars
    PROVE  Inv'
  <1>1. UNCHANGED <<type, event_duration, buf, n_read, start_times, max_queue_depth>>
    BY DEF vars, args
  <1>2. TypeOK' /\ FileSorted'
    BY <1>1 DEF Inv, TypeOK, FileSorted
  <1>3. DurationFits' <=> DurationFits
    BY <1>1 DEF DurationFits
  <1>4. Listed(n_read)' = Listed(n_read) /\ Depths(n_read)' = Depths(n_read)
    BY <1>1 DEF Listed, Depths, CountUnderWay, UnderWay, StartOf, Timestamp
  <1>5. DepthReached' <=> DepthReached
    BY <1>1, <1>4 DEF DepthReached
  <1>6. QED BY <1>1, <1>2, <1>3, <1>4, <1>5 DEF Inv

\* The strengthened invariant of the tool: the file is sorted, the list is what
\* the events under way make it, and the depth is a maximum that was reached
\* (EventTrace::run).
THEOREM InvariantHolds == Spec => []Inv
  <1>1. Inv /\ [Next]_vars => Inv'
    BY ReadEventKeeps, StutterKeeps DEF Next
  <1>2. QED BY InitHolds, <1>1, PTL DEF Spec

\* Every variable keeps its type, for every duration: the depth is less than the
\* number of events read, unless it is the wrapped -1 of an empty list.
THEOREM TypeCorrect == Spec => []TypeOK
  <1>1. Inv => TypeOK
    BY DEF Inv
  <1>2. QED BY <1>1, InvariantHolds, PTL

\* start_times holds the events under way, newest first, for every file and
\* every duration that does not wrap (EventTrace::run, remove_if).
THEOREM List == Spec => []ListIsUnderWay
  <1>1. Inv => ListIsUnderWay
    BY DEF Inv, ListIsUnderWay, Listed, CountUnderWay
  <1>2. QED BY <1>1, InvariantHolds, PTL

\* max_queue_depth is the largest number of events under way besides the one
\* that starts.
THEOREM Depth == Spec => []DepthIsPeak
  <1>1. Inv => DepthIsPeak
    <2>1. SUFFICES ASSUME Inv, DurationFits
                   PROVE  max_queue_depth = Max(Depths(n_read))
      BY DEF DepthIsPeak, Depths, CountUnderWay
    <2>2. \A m \in 1..n_read : CountUnderWay(m) \in Int
      <3>1. ASSUME NEW m \in 1..n_read PROVE CountUnderWay(m) \in Int
        <4>1. m \in 0..Len(buf) /\ event_duration \in Nat
          BY <2>1, TypeFacts DEF Inv, TypeOK
        <4>2. Cardinality(UnderWay(m)) \in 0..m
          BY <2>1, <4>1, LatestUnderWay DEF Inv
        <4>3. QED BY <4>2 DEF CountUnderWay
      <3>2. QED BY <3>1
    <2>3. Depths(n_read) \in SUBSET Int
      BY <2>2 DEF Depths
    <2>4. QED BY <2>1, <2>3, ReachedIsMax DEF Inv, DepthReached
  <1>2. QED BY <1>1, InvariantHolds, PTL
=============================================================================
