------------------------------ MODULE QueueLemmas ------------------------------
(***************************************************************************)
(* Facts about the operations on queues of frames: what erasing by         *)
(* iterator, appending and rotating do to the elements of a list that      *)
(* holds no element twice.                                                 *)
(***************************************************************************)
EXTENDS Integers, Sequences, SequencesExt, SequenceTheorems, TLAPS

Place(s, f) == CHOOSE i \in 1..Len(s) : s[i] = f

\* The position CHOOSE finds is one where the element is.
LEMMA PlaceIsWhere ==
    ASSUME NEW S, NEW s \in Seq(S), NEW f, Contains(s, f)
    PROVE  Place(s, f) \in 1..Len(s) /\ s[Place(s, f)] = f
  BY DEF Place, Contains

\* What RemoveAt leaves, position by position.
LEMMA RemoveAtElements ==
    ASSUME NEW S, NEW s \in Seq(S), NEW i \in 1..Len(s)
    PROVE  /\ RemoveAt(s, i) \in Seq(S)
           /\ Len(RemoveAt(s, i)) = Len(s) - 1
           /\ \A j \in 1..Len(s) - 1 :
                RemoveAt(s, i)[j] = IF j < i THEN s[j] ELSE s[j + 1]
  <1> DEFINE front == SubSeq(s, 1, i - 1)
             rear == SubSeq(s, i + 1, Len(s))
  <1>1. /\ front \in Seq(S) /\ Len(front) = i - 1
        /\ \A j \in 1..i - 1 : front[j] = s[j]
    <2>1. \A j \in 1..i - 1 : s[j] \in S
      BY LenProperties, ElementOfSeq
    <2>2. QED BY <2>1, SubSeqProperties
  <1>2. /\ rear \in Seq(S) /\ Len(rear) = Len(s) - i
        /\ \A j \in 1..Len(s) - i : rear[j] = s[i + j]
    <2>1. \A j \in i + 1..Len(s) : s[j] \in S
      BY LenProperties, ElementOfSeq
    <2>2. /\ rear \in Seq(S)
          /\ Len(rear) = IF i + 1 <= Len(s) THEN Len(s) - (i + 1) + 1 ELSE 0
          /\ \A j \in 1..Len(s) - (i + 1) + 1 : rear[j] = s[(i + 1) + j - 1]
      BY <2>1, SubSeqProperties, LenProperties
    <2>3. QED BY <2>2, LenProperties
  <1> HIDE DEF front, rear
  <1>3. /\ front \o rear \in Seq(S)
        /\ Len(front \o rear) = Len(front) + Len(rear)
        /\ \A j \in 1..Len(front) + Len(rear) : (front \o rear)[j] =
                IF j <= Len(front) THEN front[j] ELSE rear[j - Len(front)]
    BY <1>1, <1>2, ConcatProperties
  <1>4. RemoveAt(s, i) = front \o rear
    BY DEF RemoveAt, front, rear
  <1>5. ASSUME NEW j \in 1..Len(s) - 1
        PROVE  (front \o rear)[j] = IF j < i THEN s[j] ELSE s[j + 1]
    <2>1. CASE j < i
      BY <2>1, <1>1, <1>2, <1>3, LenProperties
    <2>2. CASE ~(j < i)
      <3>1. (front \o rear)[j] = rear[j - (i - 1)]
        BY <2>2, <1>1, <1>2, <1>3, LenProperties
      <3>2. j - (i - 1) \in 1..Len(s) - i
        BY <2>2, LenProperties
      <3>3. rear[j - (i - 1)] = s[i + (j - (i - 1))]
        BY <3>2, <1>2
      <3>4. i + (j - (i - 1)) = j + 1
        BY LenProperties
      <3>5. QED BY <3>1, <3>3, <3>4, <2>2
    <2>3. QED BY <2>1, <2>2
  <1>6. QED BY <1>1, <1>2, <1>3, <1>4, <1>5, LenProperties

\* Erasing an element that is there once takes that element out and no other.
LEMMA ErasedElements ==
    ASSUME NEW S, NEW s \in Seq(S), IsInjective(s), NEW f \in S, Contains(s, f)
    PROVE  LET t == RemoveAt(s, Place(s, f))
           IN /\ t \in Seq(S)
              /\ IsInjective(t)
              /\ \A g \in S : Contains(t, g) <=> (Contains(s, g) /\ g # f)
  <1> DEFINE i == Place(s, f)
             t == RemoveAt(s, i)
  <1>1. i \in 1..Len(s) /\ s[i] = f
    BY PlaceIsWhere
  <1> HIDE DEF i
  <1>2. /\ t \in Seq(S)
        /\ Len(t) = Len(s) - 1
        /\ \A j \in 1..Len(s) - 1 : t[j] = IF j < i THEN s[j] ELSE s[j + 1]
    BY <1>1, RemoveAtElements
  <1> HIDE DEF t
  <1>3. Len(s) \in Nat /\ DOMAIN s = 1..Len(s) /\ DOMAIN t = 1..Len(t)
    BY <1>2, LenProperties
  <1>4. IsInjective(t)
    <2> DEFINE source(j) == IF j < i THEN j ELSE j + 1
    <2>1. ASSUME NEW j \in DOMAIN t
          PROVE  source(j) \in DOMAIN s /\ t[j] = s[source(j)]
      BY <1>1, <1>2, <1>3
    <2>2. ASSUME NEW j \in DOMAIN t, NEW k \in DOMAIN t, t[j] = t[k]
          PROVE  j = k
      <3>1. s[source(j)] = s[source(k)]
        BY <2>1, <2>2
      <3>2. source(j) = source(k)
        BY <2>1, <3>1 DEF IsInjective
      <3>3. QED BY <3>2, <1>1, <1>3
    <2>3. QED BY <2>2 DEF IsInjective
  <1>5. ASSUME NEW g \in S, Contains(t, g)
        PROVE  Contains(s, g) /\ g # f
    <2>1. PICK j \in 1..Len(t) : t[j] = g
      BY <1>5 DEF Contains
    <2>2. PICK k \in 1..Len(s) : k # i /\ s[k] = g
      BY <1>1, <1>2, <1>3, <2>1
    <2>3. QED BY <1>1, <1>3, <2>2 DEF Contains, IsInjective
  <1>6. ASSUME NEW g \in S, Contains(s, g), g # f
        PROVE  Contains(t, g)
    <2>1. PICK k \in 1..Len(s) : s[k] = g
      BY <1>6 DEF Contains
    <2>2. k # i
      BY <1>1, <1>6, <2>1
    <2>3. CASE k < i
      <3>1. k \in 1..Len(t) /\ t[k] = g
        BY <1>1, <1>2, <1>3, <2>1, <2>3
      <3>2. QED BY <3>1 DEF Contains
    <2>4. CASE k > i
      <3>1. k - 1 \in 1..Len(t) /\ t[k - 1] = s[(k - 1) + 1]
        BY <1>1, <1>2, <1>3, <2>1, <2>4
      <3>2. s[(k - 1) + 1] = g
        BY <2>1, <1>3
      <3>3. QED BY <3>1, <3>2 DEF Contains
    <2>5. QED BY <2>2, <2>3, <2>4, <1>1, <1>3
  <1>7. QED BY <1>2, <1>4, <1>5, <1>6 DEF t, i

\* Appending a new element.
LEMMA AppendedElements ==
    ASSUME NEW S, NEW s \in Seq(S), IsInjective(s), NEW f \in S, ~Contains(s, f)
    PROVE  /\ Append(s, f) \in Seq(S)
           /\ Append(s, f) # <<>>
           /\ IsInjective(Append(s, f))
           /\ \A g \in S : Contains(Append(s, f), g) <=> (Contains(s, g) \/ g = f)
  <1> DEFINE t == Append(s, f)
  <1>1. /\ t \in Seq(S) /\ Len(t) = Len(s) + 1
        /\ t[Len(s) + 1] = f
        /\ \A j \in 1..Len(s) : t[j] = s[j]
    BY AppendProperties
  <1> HIDE DEF t
  <1>2. Len(s) \in Nat /\ DOMAIN s = 1..Len(s) /\ DOMAIN t = 1..Len(t)
    BY <1>1, LenProperties
  <1>3. IsInjective(t)
    BY <1>1, <1>2 DEF IsInjective, Contains
  <1>4. \A g \in S : Contains(t, g) <=> (Contains(s, g) \/ g = f)
    BY <1>1, <1>2 DEF Contains
  <1>5. t # <<>>
    BY <1>1, <1>2, EmptySeq
  <1>6. QED BY <1>1, <1>3, <1>4, <1>5 DEF t

\* Moving the front element to the back.
LEMMA RotatedElements ==
    ASSUME NEW S, NEW s \in Seq(S), IsInjective(s), s # <<>>
    PROVE  LET t == Append(Tail(s), Head(s))
           IN /\ Head(s) \in S
              /\ Contains(s, Head(s))
              /\ t \in Seq(S)
              /\ t # <<>>
              /\ IsInjective(t)
              /\ \A g \in S : Contains(t, g) <=> Contains(s, g)
  <1> DEFINE r == Tail(s)
             h == Head(s)
  <1>1. /\ h \in S /\ r \in Seq(S) /\ Len(r) = Len(s) - 1
        /\ \A i \in 1..Len(r) : r[i] = s[i + 1]
    BY HeadTailProperties
  <1>2. h = s[1]
    BY DEF h
  <1> HIDE DEF r, h
  <1>3. /\ Len(s) \in Nat \ {0} /\ DOMAIN s = 1..Len(s) /\ DOMAIN r = 1..Len(r)
    BY <1>1, EmptySeq, LenProperties
  <1>4. IsInjective(r)
    <2>1. ASSUME NEW j \in DOMAIN r, NEW k \in DOMAIN r, r[j] = r[k]
          PROVE  j = k
      <3>1. /\ j + 1 \in DOMAIN s /\ k + 1 \in DOMAIN s
            /\ s[j + 1] = s[k + 1]
        BY <1>1, <1>3, <2>1
      <3>2. j + 1 = k + 1
        BY <3>1 DEF IsInjective
      <3>3. QED BY <3>2, <1>1, <1>3
    <2>2. QED BY <2>1 DEF IsInjective
  <1>5. ~Contains(r, h)
    BY <1>1, <1>2, <1>3 DEF IsInjective, Contains
  <1>6. \A g \in S : (Contains(r, g) \/ g = h) <=> Contains(s, g)
    <2>1. ASSUME NEW g \in S, Contains(r, g) PROVE Contains(s, g)
      BY <2>1, <1>1, <1>3 DEF Contains
    <2>2. Contains(s, h)
      BY <1>2, <1>3 DEF Contains
    <2>3. ASSUME NEW g \in S, Contains(s, g), g # h PROVE Contains(r, g)
      <3>1. PICK k \in 1..Len(s) : s[k] = g
        BY <2>3 DEF Contains
      <3>2. k - 1 \in 1..Len(r) /\ r[k - 1] = s[(k - 1) + 1]
        BY <3>1, <2>3, <1>1, <1>2, <1>3
      <3>3. s[(k - 1) + 1] = g
        BY <3>1, <1>3
      <3>4. QED BY <3>2, <3>3 DEF Contains
    <2>4. QED BY <2>1, <2>2, <2>3
  <1>7. /\ Append(r, h) \in Seq(S)
        /\ Append(r, h) # <<>>
        /\ IsInjective(Append(r, h))
        /\ \A g \in S : Contains(Append(r, h), g) <=> (Contains(r, g) \/ g = h)
    BY <1>1, <1>4, <1>5, AppendedElements
  <1>8. Contains(s, h)
    BY <1>1, <1>6
  <1>9. QED BY <1>1, <1>6, <1>7, <1>8 DEF r, h

\* A list is empty exactly when it holds nothing.
LEMMA EmptyHoldsNothing ==
    ASSUME NEW S, NEW s \in Seq(S)
    PROVE  s = <<>> <=> \A f \in S : ~Contains(s, f)
  <1>1. ASSUME s = <<>>, NEW f \in S PROVE ~Contains(s, f)
    BY <1>1 DEF Contains
  <1>2. ASSUME s # <<>> PROVE \E f \in S : Contains(s, f)
    <2>1. Len(s) \in Nat \ {0}
      BY <1>2, EmptySeq
    <2>2. s[1] \in S
      BY <2>1, ElementOfSeq
    <2>3. Contains(s, s[1])
      BY <2>1 DEF Contains
    <2>4. QED BY <2>2, <2>3
  <1>3. QED BY <1>1, <1>2
=============================================================================
