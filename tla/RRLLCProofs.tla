------------------------------ MODULE RRLLCProofs ------------------------------
(***************************************************************************)
(* Proofs about RRLLC, for every trace, geometry, assignment of lines to   *)
(* sets, and allocation and eviction policy of the two caches.             *)
(*                                                                         *)
(* An access is first reduced to four cases of one set, each told by what  *)
(* becomes of its lines, its index, its counters and the victim; all else  *)
(* follows from these.                                                     *)
(***************************************************************************)
EXTENDS RRLLC, QueueLemmas, SumLemmas

-----------------------------------------------------------------------------
(* One access of one set.                                                  *)

SetType(A, n) ==
    [lines : Seq(A), index : SUBSET A, n_ways_active : 0..n, stats : StatsType]

\* The copies of a set's contents agree, and a set that evicted is full.
SetGood(s, A, n) ==
    /\ s \in SetType(A, n)
    /\ IsInjective(s.lines)
    /\ s.index = ToSet(s.lines)
    /\ s.n_ways_active = Len(s.lines)
    /\ s.stats.n_evictions > 0 => s.n_ways_active = n

\* Its fields, and what EXCEPT makes of them.
ASet(l, i, w, c) == [lines |-> l, index |-> i, n_ways_active |-> w, stats |-> c]

LEMMA SetUpdates ==
    ASSUME NEW s, s = ASet(s.lines, s.index, s.n_ways_active, s.stats),
           NEW line, NEW type
    PROVE  /\ Missed(s, type) = ASet(s.lines, s.index, s.n_ways_active,
                                     CountMiss(s.stats, type))
           /\ Evicting(s) = ASet(s.lines, s.index, s.n_ways_active,
                                 CountEviction(s.stats))
           /\ AddLine(s, line) = ASet(Append(s.lines, line), s.index \union {line},
                                      s.n_ways_active + 1, s.stats)
  <1> DEFINE l == s.lines
             i == s.index
             w == s.n_ways_active
             c == s.stats
             i1 == i \union {line}
             l1 == Append(l, line)
             s1 == [s EXCEPT !.lines = l1]
             s2 == [s1 EXCEPT !.index = i1]
  <1>1. s = ASet(l, i, w, c)
    OBVIOUS
  <1>2. Missed(s, type) = [s EXCEPT !.stats = CountMiss(c, type)]
    BY DEF Missed
  <1>3. Evicting(s) = [s EXCEPT !.stats = CountEviction(c)]
    BY DEF Evicting
  <1>4. AddLine(s, line) = [s2 EXCEPT !.n_ways_active = w + 1]
    BY DEF AddLine
  <1> HIDE DEF l, i, w, c, i1, l1
  <1>5. [s EXCEPT !.stats = CountMiss(c, type)] = ASet(l, i, w, CountMiss(c, type))
    BY <1>1 DEF ASet
  <1>6. [s EXCEPT !.stats = CountEviction(c)] = ASet(l, i, w, CountEviction(c))
    BY <1>1 DEF ASet
  <1>7. s1 = ASet(l1, i, w, c)
    BY <1>1 DEF ASet
  <1> HIDE DEF s1
  <1>8. s2 = ASet(l1, i1, w, c)
    BY <1>7 DEF ASet
  <1> HIDE DEF s2
  <1>9. [s2 EXCEPT !.n_ways_active = w + 1] = ASet(l1, i1, w + 1, c)
    BY <1>8 DEF ASet
  <1>10. QED
    BY <1>2, <1>3, <1>4, <1>5, <1>6, <1>9 DEF l, i, w, c, i1, l1

LEMMA FoundUpdates ==
    ASSUME NEW s, s = ASet(s.lines, s.index, s.n_ways_active, s.stats),
           NEW line, NEW type, NEW ep
    PROVE  Found(s, line, type, ep) =
                ASet(IF ep = "LRU" THEN Touch(s.lines, line) ELSE s.lines,
                     s.index, s.n_ways_active, CountHit(s.stats, type))
  <1> DEFINE l == s.lines
             i == s.index
             w == s.n_ways_active
             c == s.stats
             l1 == IF ep = "LRU" THEN Touch(s.lines, line) ELSE s.lines
             c1 == CountHit(c, type)
             s1 == [s EXCEPT !.stats = c1]
  <1>1. s = ASet(l, i, w, c)
    OBVIOUS
  <1>2. Found(s, line, type, ep) = [s1 EXCEPT !.lines = l1]
    BY DEF Found
  <1> HIDE DEF l, i, w, c, l1, c1
  <1>3. s1 = ASet(l, i, w, c1)
    BY <1>1 DEF ASet
  <1> HIDE DEF s1
  <1>4. [s1 EXCEPT !.lines = l1] = ASet(l1, i, w, c1)
    BY <1>3 DEF ASet
  <1>5. QED
    BY <1>2, <1>4 DEF l, i, w, c, l1, c1

LEMMA ReplaceUpdates ==
    ASSUME NEW s, s = ASet(s.lines, s.index, s.n_ways_active, s.stats),
           NEW line, NEW lines, NEW victim
    PROVE  ReplaceLine(s, lines, victim, line) =
                ASet(lines, (s.index \ {victim}) \union {line},
                     s.n_ways_active, s.stats)
  <1> DEFINE l == s.lines
             i == s.index
             w == s.n_ways_active
             c == s.stats
             i1 == (i \ {victim}) \union {line}
             s1 == [s EXCEPT !.lines = lines]
  <1>1. s = ASet(l, i, w, c)
    OBVIOUS
  <1>2. ReplaceLine(s, lines, victim, line) = [s1 EXCEPT !.index = i1]
    BY DEF ReplaceLine
  <1> HIDE DEF l, i, w, c, i1
  <1>3. s1 = ASet(lines, i, w, c)
    BY <1>1 DEF ASet
  <1> HIDE DEF s1
  <1>4. [s1 EXCEPT !.index = i1] = ASet(lines, i1, w, c)
    BY <1>3 DEF ASet
  <1>5. QED
    BY <1>2, <1>4 DEF i, w, c, i1

HitStep(s, line, type, ep, zero, o) ==
    /\ line \in s.index
    /\ o.set = ASet(IF ep = "LRU" THEN Touch(s.lines, line) ELSE s.lines,
                    s.index, s.n_ways_active, CountHit(s.stats, type))
    /\ o.result = ACCESS_RESULT_HIT
    /\ o.evicted = zero

BypassStep(s, line, type, ap, zero, o) ==
    /\ line \notin s.index
    /\ ~DoAllocate(type, ap)
    /\ o.set = ASet(s.lines, s.index, s.n_ways_active, CountMiss(s.stats, type))
    /\ o.result = ACCESS_RESULT_INVALID
    /\ o.evicted = zero

FillStep(s, line, type, n, ap, zero, o) ==
    /\ line \notin s.index
    /\ DoAllocate(type, ap)
    /\ s.n_ways_active # n
    /\ o.set = ASet(Append(s.lines, line), s.index \union {line},
                    s.n_ways_active + 1, CountMiss(s.stats, type))
    /\ o.result = ACCESS_RESULT_MISS
    /\ o.evicted = zero

ReplaceStep(s, line, type, n, ap, ep, o) ==
    /\ line \notin s.index
    /\ DoAllocate(type, ap)
    /\ s.n_ways_active = n
    /\ \E i \in 1..Len(s.lines) :
        /\ ep = "LRU" => i = 1
        /\ o.evicted = s.lines[i]
        /\ o.set = ASet(IF ep = "LRU" THEN Append(Tail(s.lines), line)
                        ELSE [s.lines EXCEPT ![i] = line],
                        (s.index \ {s.lines[i]}) \union {line},
                        s.n_ways_active,
                        CountEviction(CountMiss(s.stats, type)))
    /\ o.result = ACCESS_RESULT_MISS_EVICTION

\* An access is one of the four.
LEMMA AccessCases ==
    ASSUME NEW A, NEW n \in Nat \ {0}, NEW s, SetGood(s, A, n),
           NEW line \in A, NEW type, NEW ap, NEW ep, NEW zero,
           NEW o \in SetAccess(s, line, type, n, ap, ep, zero)
    PROVE  \/ HitStep(s, line, type, ep, zero, o)
           \/ BypassStep(s, line, type, ap, zero, o)
           \/ FillStep(s, line, type, n, ap, zero, o)
           \/ ReplaceStep(s, line, type, n, ap, ep, o)
  <1> DEFINE missed == Missed(s, type)
             evicting == Evicting(missed)
             c == CountMiss(s.stats, type)
  <1>1. s = ASet(s.lines, s.index, s.n_ways_active, s.stats)
    BY DEF SetGood, SetType, ASet
  <1>2. missed = ASet(s.lines, s.index, s.n_ways_active, c)
    BY <1>1, SetUpdates
  <1> HIDE DEF missed
  <1>3. /\ missed.lines = s.lines
        /\ missed.index = s.index
        /\ missed.n_ways_active = s.n_ways_active
        /\ missed.stats = c
    BY <1>2 DEF ASet
  <1>4. missed = ASet(missed.lines, missed.index, missed.n_ways_active, missed.stats)
    BY <1>2, <1>3
  <1>5. evicting = ASet(s.lines, s.index, s.n_ways_active, CountEviction(c))
    BY <1>3, <1>4, SetUpdates
  <1>6. AddLine(missed, line) = ASet(Append(s.lines, line), s.index \union {line},
                                     s.n_ways_active + 1, c)
    BY <1>3, <1>4, SetUpdates
  <1> HIDE DEF evicting
  <1>7. /\ evicting.lines = s.lines
        /\ evicting.index = s.index
        /\ evicting.n_ways_active = s.n_ways_active
        /\ evicting.stats = CountEviction(c)
        /\ evicting = ASet(evicting.lines, evicting.index,
                           evicting.n_ways_active, evicting.stats)
    BY <1>5 DEF ASet
  <1>8. CASE line \in s.index
    <2>1. o = Outcome(Found(s, line, type, ep), ACCESS_RESULT_HIT, zero)
      BY <1>8 DEF SetAccess
    <2>2. Found(s, line, type, ep) =
            ASet(IF ep = "LRU" THEN Touch(s.lines, line) ELSE s.lines,
                 s.index, s.n_ways_active, CountHit(s.stats, type))
      BY <1>1, FoundUpdates
    <2>3. QED BY <1>8, <2>1, <2>2 DEF Outcome, HitStep
  <1>9. CASE line \notin s.index /\ ~DoAllocate(type, ap)
    <2>1. o = Outcome(missed, ACCESS_RESULT_INVALID, zero)
      BY <1>9 DEF SetAccess, missed
    <2>2. QED BY <1>2, <1>9, <2>1 DEF Outcome, BypassStep
  <1>10. CASE line \notin s.index /\ DoAllocate(type, ap) /\ s.n_ways_active = n
    <2>1. o \in Evictions(evicting, line, ep)
      BY <1>10 DEF SetAccess, IsFull, missed, evicting
    <2>2. ASSUME NEW t, NEW v
          PROVE  ReplaceLine(evicting, t, v, line) =
                    ASet(t, (s.index \ {v}) \union {line}, s.n_ways_active,
                         CountEviction(c))
      BY <1>7, ReplaceUpdates
    <2>3. /\ Len(s.lines) \in Nat \ {0}
          /\ s.lines \in Seq(A)
          /\ Head(s.lines) = s.lines[1]
      BY <1>10 DEF SetGood, SetType
    <2>4. CASE ep = "LRU"
      <3>1. o = Outcome(ReplaceLine(evicting, Append(Tail(s.lines), line),
                                    Head(s.lines), line),
                        ACCESS_RESULT_MISS_EVICTION, Head(s.lines))
        BY <2>1, <1>7, <2>4 DEF Evictions
      <3>2. QED BY <1>10, <2>2, <2>3, <2>4, <3>1 DEF Outcome, ReplaceStep
    <2>5. CASE ep # "LRU"
      <3>1. PICK i \in 1..Len(s.lines) :
                o = Outcome(ReplaceLine(evicting, [s.lines EXCEPT ![i] = line],
                                        s.lines[i], line),
                            ACCESS_RESULT_MISS_EVICTION, s.lines[i])
        BY <2>1, <1>7, <2>5 DEF Evictions
      <3>2. QED BY <1>10, <2>2, <2>5, <3>1 DEF Outcome, ReplaceStep
    <2>6. QED BY <2>4, <2>5
  <1>11. CASE line \notin s.index /\ DoAllocate(type, ap) /\ s.n_ways_active # n
    <2>1. o = Outcome(AddLine(missed, line), ACCESS_RESULT_MISS, zero)
      BY <1>11 DEF SetAccess, IsFull, missed
    <2>2. QED BY <1>6, <1>11, <2>1 DEF Outcome, FillStep
  <1>12. QED BY <1>8, <1>9, <1>10, <1>11

-----------------------------------------------------------------------------
(* The counters of one set.                                                *)

AStats(rh, wh, rm, wm, e) ==
    [n_rd_hits |-> rh, n_wr_hits |-> wh, n_rd_misses |-> rm, n_wr_misses |-> wm,
     n_evictions |-> e]

One(condition) == IF condition THEN 1 ELSE 0

\* A hit or a miss is one access, a read or a write.
LEMMA CountedAccess ==
    ASSUME NEW c \in StatsType, NEW type \in MemRefTypes,
           NEW d, d = CountHit(c, type) \/ d = CountMiss(c, type)
    PROVE  /\ d \in StatsType
           /\ Accesses(d) = Accesses(c) + 1
           /\ RdAccesses(d) = RdAccesses(c) + One(type = "LD")
           /\ d.n_evictions = c.n_evictions
  <1> DEFINE rh == c.n_rd_hits
             wh == c.n_wr_hits
             rm == c.n_rd_misses
             wm == c.n_wr_misses
             e == c.n_evictions
  <1>1. c = AStats(rh, wh, rm, wm, e)
    BY DEF StatsType, AStats
  <1>2. rh \in Nat /\ wh \in Nat /\ rm \in Nat /\ wm \in Nat /\ e \in Nat
    BY DEF StatsType
  <1>3. \/ /\ d \in {AStats(rh + 1, wh, rm, wm, e), AStats(rh, wh, rm + 1, wm, e)}
           /\ type = "LD"
        \/ /\ d \in {AStats(rh, wh + 1, rm, wm, e), AStats(rh, wh, rm, wm + 1, e)}
           /\ type # "LD"
    <2>1. /\ [c EXCEPT !.n_rd_hits = @ + 1] = [c EXCEPT !.n_rd_hits = rh + 1]
          /\ [c EXCEPT !.n_wr_hits = @ + 1] = [c EXCEPT !.n_wr_hits = wh + 1]
          /\ [c EXCEPT !.n_rd_misses = @ + 1] = [c EXCEPT !.n_rd_misses = rm + 1]
          /\ [c EXCEPT !.n_wr_misses = @ + 1] = [c EXCEPT !.n_wr_misses = wm + 1]
      OBVIOUS
    <2> HIDE DEF rh, wh, rm, wm, e
    <2>2. [c EXCEPT !.n_rd_hits = rh + 1] = AStats(rh + 1, wh, rm, wm, e)
      BY <1>1 DEF AStats
    <2>3. [c EXCEPT !.n_wr_hits = wh + 1] = AStats(rh, wh + 1, rm, wm, e)
      BY <1>1 DEF AStats
    <2>4. [c EXCEPT !.n_rd_misses = rm + 1] = AStats(rh, wh, rm + 1, wm, e)
      BY <1>1 DEF AStats
    <2>5. [c EXCEPT !.n_wr_misses = wm + 1] = AStats(rh, wh, rm, wm + 1, e)
      BY <1>1 DEF AStats
    <2>6. CASE type = "LD"
      <3>1. d = [c EXCEPT !.n_rd_hits = rh + 1] \/ d = [c EXCEPT !.n_rd_misses = rm + 1]
        BY <2>6, <2>1, Zenon DEF CountHit, CountMiss
      <3>2. QED BY <2>6, <3>1, <2>2, <2>4
    <2>7. CASE type # "LD"
      <3>1. d = [c EXCEPT !.n_wr_hits = wh + 1] \/ d = [c EXCEPT !.n_wr_misses = wm + 1]
        BY <2>7, <2>1, Zenon DEF CountHit, CountMiss
      <3>2. QED BY <2>7, <3>1, <2>3, <2>5
    <2>8. QED BY <2>6, <2>7
  <1>4. QED
    BY <1>1, <1>2, <1>3
    DEF AStats, StatsType, Accesses, RdAccesses, Hits, Misses, One

LEMMA CountedEviction ==
    ASSUME NEW c \in StatsType
    PROVE  /\ CountEviction(c) \in StatsType
           /\ Accesses(CountEviction(c)) = Accesses(c)
           /\ RdAccesses(CountEviction(c)) = RdAccesses(c)
           /\ CountEviction(c).n_evictions = c.n_evictions + 1
  <1> DEFINE rh == c.n_rd_hits
             wh == c.n_wr_hits
             rm == c.n_rd_misses
             wm == c.n_wr_misses
             e == c.n_evictions
             d == CountEviction(c)
  <1>1. c = AStats(rh, wh, rm, wm, e)
    BY DEF StatsType, AStats
  <1>2. rh \in Nat /\ wh \in Nat /\ rm \in Nat /\ wm \in Nat /\ e \in Nat
    BY DEF StatsType
  <1>3. d = [c EXCEPT !.n_evictions = e + 1]
    BY DEF CountEviction
  <1> HIDE DEF rh, wh, rm, wm, e, d
  <1>4. [c EXCEPT !.n_evictions = e + 1] = AStats(rh, wh, rm, wm, e + 1)
    BY <1>1 DEF AStats
  <1>5. d = AStats(rh, wh, rm, wm, e + 1)
    BY <1>3, <1>4
  <1>6. /\ d \in StatsType
        /\ Accesses(d) = Accesses(c)
        /\ RdAccesses(d) = RdAccesses(c)
        /\ d.n_evictions = c.n_evictions + 1
    BY <1>1, <1>2, <1>5
    DEF AStats, StatsType, Accesses, RdAccesses, Hits, Misses
  <1>7. QED BY <1>6 DEF d

-----------------------------------------------------------------------------
(* The sequence of lines.                                                  *)

\* The lines are in the order of their last use.
Ordered(lines, use) ==
    \A j, k \in 1..Len(lines) : j < k => use[lines[j]] <= use[lines[k]]

LEMMA ToSetContains ==
    ASSUME NEW A, NEW s \in Seq(A)
    PROVE  /\ ToSet(s) \in SUBSET A
           /\ \A f : f \in ToSet(s) <=> Contains(s, f)
  BY DEF ToSet, Contains

LEMMA SameElements ==
    ASSUME NEW A, NEW s \in Seq(A), NEW C \in SUBSET A,
           \A f \in A : Contains(s, f) <=> f \in C
    PROVE  ToSet(s) = C
  BY ToSetContains

\* All elements but the last come from another sequence, in its order.
Embeds(t, lines) ==
    \A j, k \in 1..Len(t) - 1 : j < k =>
        \E p, q \in 1..Len(lines) : p < q /\ t[j] = lines[p] /\ t[k] = lines[q]

\* A line becoming the last keeps the order, when its use is renewed.
LEMMA RenewedOrder ==
    ASSUME NEW A, NEW lines \in Seq(A), NEW t \in Seq(A), NEW line \in A,
           NEW use \in [A -> Nat], NEW now \in Nat, \A f \in A : use[f] <= now,
           Len(t) \in Nat \ {0}, t[Len(t)] = line,
           Ordered(lines, use),
           \A j \in 1..Len(t) - 1 : t[j] # line,
           Embeds(t, lines)
    PROVE  Ordered(t, [use EXCEPT ![line] = now + 1])
  <1> DEFINE use2 == [use EXCEPT ![line] = now + 1]
  <1>1. \A f \in A : use2[f] = IF f = line THEN now + 1 ELSE use[f]
    OBVIOUS
  <1>2. \A j \in 1..Len(t) : t[j] \in A
    OBVIOUS
  <1>3. SUFFICES ASSUME NEW j \in 1..Len(t), NEW k \in 1..Len(t), j < k
                 PROVE  use2[t[j]] <= use2[t[k]]
    BY DEF Ordered
  <1> HIDE DEF use2
  <1>4. j \in 1..Len(t) - 1 /\ use2[t[j]] = use[t[j]] /\ use[t[j]] \in Nat
    BY <1>1, <1>2, <1>3
  <1>5. CASE k = Len(t)
    BY <1>1, <1>2, <1>4, <1>5
  <1>6. CASE k # Len(t)
    <2>1. k \in 1..Len(t) - 1 /\ use2[t[k]] = use[t[k]]
      BY <1>1, <1>2, <1>6
    <2>2. PICK p, q \in 1..Len(lines) : p < q /\ t[j] = lines[p] /\ t[k] = lines[q]
      BY <1>3, <1>4, <2>1 DEF Embeds
    <2>3. QED BY <1>4, <2>1, <2>2 DEF Ordered
  <1>7. QED BY <1>5, <1>6

\* A line moved to the end, or added there.
LEMMA Touched ==
    ASSUME NEW A, NEW lines \in Seq(A), IsInjective(lines), NEW line \in A,
           Contains(lines, line)
    PROVE  LET t == Touch(lines, line)
           IN /\ t \in Seq(A)
              /\ IsInjective(t)
              /\ ToSet(t) = ToSet(lines)
              /\ Len(t) = Len(lines)
              /\ Len(t) \in Nat \ {0}
              /\ t[Len(t)] = line
              /\ \A j \in 1..Len(t) - 1 : t[j] # line
              /\ Embeds(t, lines)
  <1> DEFINE p == Place(lines, line)
             r == RemoveAt(lines, p)
             t == Append(r, line)
  <1>1. Touch(lines, line) = t
    BY DEF Touch, LineIndex, Place
  <1>2. p \in 1..Len(lines) /\ lines[p] = line
    BY PlaceIsWhere
  <1>3. /\ r \in Seq(A)
        /\ IsInjective(r)
        /\ \A g \in A : Contains(r, g) <=> (Contains(lines, g) /\ g # line)
    BY ErasedElements
  <1> HIDE DEF p
  <1>4. /\ Len(r) = Len(lines) - 1
        /\ \A j \in 1..Len(lines) - 1 :
                r[j] = IF j < p THEN lines[j] ELSE lines[j + 1]
    BY <1>2, RemoveAtElements
  <1> HIDE DEF r
  <1>5. /\ t \in Seq(A)
        /\ IsInjective(t)
        /\ \A g \in A : Contains(t, g) <=> (Contains(r, g) \/ g = line)
    BY <1>3, AppendedElements
  <1>6. /\ Len(t) = Len(r) + 1
        /\ t[Len(t)] = line
        /\ \A j \in 1..Len(r) : t[j] = r[j]
    BY <1>3
  <1> HIDE DEF t
  <1>7. ToSet(t) = ToSet(lines)
    <2>1. \A g \in A : Contains(t, g) <=> g \in ToSet(lines)
      BY <1>3, <1>5, ToSetContains
    <2>2. QED BY <1>5, <2>1, ToSetContains, SameElements
  <1>8. Len(lines) \in Nat /\ Len(t) = Len(lines) /\ Len(r) \in Nat
    BY <1>4, <1>6
  <1>9. \A j \in 1..Len(t) - 1 : t[j] # line
    BY <1>5, <1>6, <1>8 DEF IsInjective
  <1>10. ASSUME NEW j \in 1..Len(t) - 1, NEW k \in 1..Len(t) - 1, j < k
         PROVE  \E x, y \in 1..Len(lines) :
                    x < y /\ t[j] = lines[x] /\ t[k] = lines[y]
    <2> DEFINE from(z) == IF z < p THEN z ELSE z + 1
    <2>1. \A z \in 1..Len(t) - 1 : from(z) \in 1..Len(lines) /\ t[z] = lines[from(z)]
      BY <1>2, <1>4, <1>6, <1>8
    <2>2. from(j) < from(k)
      BY <1>2, <1>10
    <2>3. QED BY <2>1, <2>2
  <1>11. Embeds(t, lines)
    BY <1>10 DEF Embeds
  <1>12. QED BY <1>1, <1>2, <1>5, <1>6, <1>7, <1>8, <1>9, <1>11

LEMMA Added ==
    ASSUME NEW A, NEW lines \in Seq(A), IsInjective(lines), NEW line \in A,
           line \notin ToSet(lines)
    PROVE  LET t == Append(lines, line)
           IN /\ t \in Seq(A)
              /\ IsInjective(t)
              /\ ToSet(t) = ToSet(lines) \union {line}
              /\ Len(t) = Len(lines) + 1
              /\ Len(t) \in Nat \ {0}
              /\ t[Len(t)] = line
              /\ \A j \in 1..Len(t) - 1 : t[j] = lines[j]
              /\ \A j \in 1..Len(t) - 1 : t[j] # line
  <1> DEFINE t == Append(lines, line)
  <1>1. ~Contains(lines, line)
    BY ToSetContains
  <1>2. /\ t \in Seq(A)
        /\ IsInjective(t)
        /\ \A g \in A : Contains(t, g) <=> (Contains(lines, g) \/ g = line)
    BY <1>1, AppendedElements
  <1>3. /\ Len(t) = Len(lines) + 1
        /\ t[Len(t)] = line
        /\ \A j \in 1..Len(lines) : t[j] = lines[j]
    OBVIOUS
  <1> HIDE DEF t
  <1>4. ToSet(t) = ToSet(lines) \union {line}
    <2>1. \A g \in A : Contains(t, g) <=> g \in ToSet(lines) \union {line}
      BY <1>2, ToSetContains
    <2>2. ToSet(lines) \union {line} \in SUBSET A
      BY ToSetContains
    <2>3. QED BY <1>2, <2>1, <2>2, SameElements
  <1>5. \A j \in 1..Len(t) - 1 : t[j] # line
    BY <1>1, <1>3 DEF Contains
  <1>6. Len(lines) \in Nat
    OBVIOUS
  <1>7. QED BY <1>2, <1>3, <1>4, <1>5, <1>6 DEF t

\* A line in the place of another, the first of which goes to the end.
LEMMA FrontReplaced ==
    ASSUME NEW A, NEW lines \in Seq(A), IsInjective(lines), NEW line \in A,
           line \notin ToSet(lines), Len(lines) # 0
    PROVE  LET t == Append(Tail(lines), line)
           IN /\ lines[1] \in ToSet(lines)
              /\ t \in Seq(A)
              /\ IsInjective(t)
              /\ ToSet(t) = (ToSet(lines) \ {lines[1]}) \union {line}
              /\ Len(t) = Len(lines)
              /\ t[Len(t)] = line
              /\ \A j \in 1..Len(t) - 1 : t[j] # line
              /\ \A j \in 1..Len(t) - 1 : t[j] = lines[j + 1]
  <1> DEFINE r == Tail(lines)
             t == Append(r, line)
  <1>1. /\ Len(lines) \in Nat \ {0}
        /\ lines # <<>>
        /\ \A j \in 1..Len(lines) : lines[j] \in A /\ lines[j] \in ToSet(lines)
    BY DEF ToSet
  <1>2. /\ r \in Seq(A)
        /\ Len(r) = Len(lines) - 1
        /\ \A j \in 1..Len(lines) - 1 : r[j] = lines[j + 1]
    BY <1>1, HeadTailProperties
  <1> HIDE DEF r
  <1>d. DOMAIN lines = 1..Len(lines) /\ DOMAIN r = 1..Len(lines) - 1
    BY <1>2
  <1>3. IsInjective(r)
    <2>1. SUFFICES ASSUME NEW a \in 1..Len(lines) - 1, NEW b \in 1..Len(lines) - 1,
                          r[a] = r[b]
                   PROVE  a = b
      BY <1>d DEF IsInjective
    <2>2. lines[a + 1] = lines[b + 1] /\ a + 1 \in 1..Len(lines) /\ b + 1 \in 1..Len(lines)
      BY <1>1, <1>2, <2>1
    <2>3. a + 1 = b + 1
      BY <1>d, <2>2 DEF IsInjective
    <2>4. QED BY <2>3
  <1>4. ToSet(r) = ToSet(lines) \ {lines[1]}
    <2>1. ASSUME NEW j \in 1..Len(lines) - 1 PROVE r[j] \in ToSet(lines) \ {lines[1]}
      BY <1>1, <1>2, <1>d, <2>1 DEF IsInjective
    <2>2. ASSUME NEW g \in ToSet(lines), g # lines[1] PROVE g \in ToSet(r)
      <3>1. PICK k \in 1..Len(lines) : g = lines[k]
        BY <2>2 DEF ToSet
      <3>2. k - 1 \in 1..Len(r) /\ r[k - 1] = g
        BY <1>1, <1>2, <2>2, <3>1
      <3>3. QED BY <1>2, <3>2 DEF ToSet
    <2>3. \A g \in ToSet(r) : \E j \in 1..Len(lines) - 1 : g = r[j]
      BY <1>d DEF ToSet
    <2>4. QED BY <2>1, <2>2, <2>3
  <1>5. line \notin ToSet(r)
    BY <1>4
  <1>6. /\ t \in Seq(A)
        /\ IsInjective(t)
        /\ ToSet(t) = ToSet(r) \union {line}
        /\ Len(t) = Len(r) + 1
        /\ t[Len(t)] = line
        /\ \A j \in 1..Len(t) - 1 : t[j] = r[j]
        /\ \A j \in 1..Len(t) - 1 : t[j] # line
    BY <1>2, <1>3, <1>5, Added
  <1> HIDE DEF t
  <1>7. Len(t) = Len(lines) /\ \A j \in 1..Len(t) - 1 : t[j] = lines[j + 1]
    BY <1>1, <1>2, <1>6
  <1>8. QED BY <1>1, <1>4, <1>6, <1>7 DEF t, r

LEMMA SlotReplaced ==
    ASSUME NEW A, NEW lines \in Seq(A), IsInjective(lines), NEW line \in A,
           line \notin ToSet(lines), NEW i \in 1..Len(lines)
    PROVE  LET t == [lines EXCEPT ![i] = line]
           IN /\ lines[i] \in ToSet(lines)
              /\ t \in Seq(A)
              /\ IsInjective(t)
              /\ ToSet(t) = (ToSet(lines) \ {lines[i]}) \union {line}
              /\ Len(t) = Len(lines)
  <1> DEFINE t == [lines EXCEPT ![i] = line]
  <1>1. /\ Len(lines) \in Nat
        /\ DOMAIN lines = 1..Len(lines)
        /\ \A j \in 1..Len(lines) : lines[j] \in A /\ lines[j] \in ToSet(lines)
    BY DEF ToSet
  <1>2. /\ t \in Seq(A)
        /\ Len(t) = Len(lines)
        /\ DOMAIN t = 1..Len(lines)
        /\ \A j \in 1..Len(lines) : t[j] = IF j = i THEN line ELSE lines[j]
    BY <1>1
  <1> HIDE DEF t
  <1>3. \A j \in 1..Len(lines) : lines[j] # line
    BY <1>1
  <1>4. IsInjective(t)
    BY <1>1, <1>2, <1>3 DEF IsInjective
  <1>5. ToSet(t) = (ToSet(lines) \ {lines[i]}) \union {line}
    <2>1. ASSUME NEW j \in 1..Len(lines)
          PROVE  t[j] \in (ToSet(lines) \ {lines[i]}) \union {line}
      BY <1>1, <1>2, <2>1 DEF IsInjective
    <2>2. ASSUME NEW g \in ToSet(lines), g # lines[i] PROVE g \in ToSet(t)
      <3>1. PICK k \in 1..Len(lines) : g = lines[k]
        BY <1>1, <2>2 DEF ToSet
      <3>2. t[k] = g
        BY <1>2, <2>2, <3>1
      <3>3. QED BY <1>2, <3>2 DEF ToSet
    <2>3. line \in ToSet(t)
      BY <1>2 DEF ToSet
    <2>4. QED BY <1>2, <2>1, <2>2, <2>3 DEF ToSet
  <1>6. QED BY <1>1, <1>2, <1>4, <1>5 DEF t

-----------------------------------------------------------------------------
(* What an access does to one set.                                         *)

SetContents(s) == <<s.lines, s.index, s.n_ways_active>>

AccessEffect(s, line, type, ap, A, n, o) ==
    /\ SetGood(o.set, A, n)
    /\ o.evicted \in A
    /\ o.result \in [hit : BOOLEAN, eviction : BOOLEAN]
    /\ o.set.index \subseteq s.index \union {line}
    /\ Accesses(o.set.stats) = Accesses(s.stats) + 1
    /\ RdAccesses(o.set.stats) = RdAccesses(s.stats) + One(type = "LD")
    /\ o.set.stats.n_evictions =
            s.stats.n_evictions + One(o.result = ACCESS_RESULT_MISS_EVICTION)
    /\ DoAllocate(type, ap) =>
            /\ line \in o.set.index
            /\ o.result.eviction <=> o.result = ACCESS_RESULT_MISS_EVICTION

LEMMA SetAccessKeeps ==
    ASSUME NEW A, NEW n \in Nat \ {0}, NEW s, SetGood(s, A, n),
           NEW line \in A, NEW type \in MemRefTypes, NEW ap, NEW ep, NEW zero \in A,
           NEW o \in SetAccess(s, line, type, n, ap, ep, zero)
    PROVE  AccessEffect(s, line, type, ap, A, n, o)
  <1>1. /\ s.lines \in Seq(A)
        /\ s.index \in SUBSET A
        /\ s.n_ways_active \in 0..n
        /\ s.stats \in StatsType
        /\ s.stats.n_evictions \in Nat
        /\ IsInjective(s.lines)
        /\ s.index = ToSet(s.lines)
        /\ s.n_ways_active = Len(s.lines)
        /\ s.stats.n_evictions > 0 => s.n_ways_active = n
    BY DEF SetGood, SetType, StatsType
  <1>2. \A l, i, w, c : /\ ASet(l, i, w, c).lines = l
                        /\ ASet(l, i, w, c).index = i
                        /\ ASet(l, i, w, c).n_ways_active = w
                        /\ ASet(l, i, w, c).stats = c
    BY DEF ASet
  <1>3. \A l \in Seq(A), i \in SUBSET A, w \in 0..n, c \in StatsType :
            /\ IsInjective(l) /\ i = ToSet(l) /\ w = Len(l)
            /\ c.n_evictions > 0 => w = n
            => SetGood(ASet(l, i, w, c), A, n)
    BY DEF SetGood, SetType, ASet
  <1>4. /\ \A c : c = CountHit(s.stats, type) \/ c = CountMiss(s.stats, type) =>
                /\ c \in StatsType
                /\ Accesses(c) = Accesses(s.stats) + 1
                /\ RdAccesses(c) = RdAccesses(s.stats) + One(type = "LD")
                /\ c.n_evictions = s.stats.n_evictions
    BY <1>1, CountedAccess
  <1>5. /\ ACCESS_RESULT_HIT # ACCESS_RESULT_MISS_EVICTION
        /\ ACCESS_RESULT_MISS # ACCESS_RESULT_MISS_EVICTION
        /\ ACCESS_RESULT_INVALID # ACCESS_RESULT_MISS_EVICTION
        /\ ACCESS_RESULT_MISS_EVICTION.eviction
        /\ ~ACCESS_RESULT_HIT.eviction
        /\ ~ACCESS_RESULT_MISS.eviction
        /\ {ACCESS_RESULT_HIT, ACCESS_RESULT_MISS, ACCESS_RESULT_INVALID,
             ACCESS_RESULT_MISS_EVICTION} \subseteq [hit : BOOLEAN, eviction : BOOLEAN]
    BY DEF ACCESS_RESULT_HIT, ACCESS_RESULT_MISS, ACCESS_RESULT_MISS_EVICTION,
           ACCESS_RESULT_INVALID
  <1>6. CASE HitStep(s, line, type, ep, zero, o)
    <2> DEFINE l == IF ep = "LRU" THEN Touch(s.lines, line) ELSE s.lines
               c == CountHit(s.stats, type)
    <2>1. /\ line \in s.index
          /\ o.set = ASet(l, s.index, s.n_ways_active, c)
          /\ o.result = ACCESS_RESULT_HIT
          /\ o.evicted = zero
      BY <1>6 DEF HitStep
    <2>2. l \in Seq(A) /\ IsInjective(l) /\ s.index = ToSet(l) /\ Len(l) = Len(s.lines)
      <3>1. CASE ep = "LRU"
        BY <1>1, <2>1, <3>1, Touched, ToSetContains
      <3>2. CASE ep # "LRU"
        BY <1>1, <3>2
      <3>3. QED BY <3>1, <3>2
    <2>3. /\ c \in StatsType
          /\ Accesses(c) = Accesses(s.stats) + 1
          /\ RdAccesses(c) = RdAccesses(s.stats) + One(type = "LD")
          /\ c.n_evictions = s.stats.n_evictions
      BY <1>4
    <2> HIDE DEF l, c
    <2>4. SetGood(o.set, A, n)
      BY <1>1, <1>3, <2>1, <2>2, <2>3
    <2>5. QED BY <1>1, <1>2, <1>5, <2>1, <2>3, <2>4
      DEF One, AccessEffect
  <1>7. CASE BypassStep(s, line, type, ap, zero, o)
    <2> DEFINE c == CountMiss(s.stats, type)
    <2>1. /\ ~DoAllocate(type, ap)
          /\ o.set = ASet(s.lines, s.index, s.n_ways_active, c)
          /\ o.result = ACCESS_RESULT_INVALID
          /\ o.evicted = zero
      BY <1>7 DEF BypassStep
    <2>2. /\ c \in StatsType
          /\ Accesses(c) = Accesses(s.stats) + 1
          /\ RdAccesses(c) = RdAccesses(s.stats) + One(type = "LD")
          /\ c.n_evictions = s.stats.n_evictions
      BY <1>4
    <2> HIDE DEF c
    <2>3. SetGood(o.set, A, n)
      BY <1>1, <1>3, <2>1, <2>2
    <2>4. QED BY <1>1, <1>2, <1>5, <2>1, <2>2, <2>3
      DEF One, AccessEffect
  <1>8. CASE FillStep(s, line, type, n, ap, zero, o)
    <2> DEFINE c == CountMiss(s.stats, type)
               l == Append(s.lines, line)
               x == s.index \union {line}
               w == s.n_ways_active + 1
    <2>1. /\ line \notin s.index
          /\ s.n_ways_active # n
          /\ o.set = ASet(l, x, w, c)
          /\ o.result = ACCESS_RESULT_MISS
          /\ o.evicted = zero
      BY <1>8 DEF FillStep
    <2>2. /\ c \in StatsType
          /\ Accesses(c) = Accesses(s.stats) + 1
          /\ RdAccesses(c) = RdAccesses(s.stats) + One(type = "LD")
          /\ c.n_evictions = s.stats.n_evictions
      BY <1>4
    <2>3. /\ l \in Seq(A)
          /\ IsInjective(l)
          /\ ToSet(l) = x
          /\ Len(l) = w
      BY <1>1, <2>1, Added
    <2>4. w \in 0..n /\ ~(c.n_evictions > 0)
      BY <1>1, <2>1, <2>2
    <2>5. line \in x /\ x \in SUBSET A
      BY <1>1
    <2> HIDE DEF c, l, w
    <2>6. SetGood(ASet(l, x, w, c), A, n)
      BY <1>3, <2>2, <2>3, <2>4, <2>5
    <2>7. QED BY <1>1, <1>2, <1>5, <2>1, <2>2, <2>5, <2>6
      DEF One, AccessEffect
  <1>9. CASE ReplaceStep(s, line, type, n, ap, ep, o)
    <2>1. PICK i \in 1..Len(s.lines) :
            /\ ep = "LRU" => i = 1
            /\ o.evicted = s.lines[i]
            /\ o.set = ASet(IF ep = "LRU" THEN Append(Tail(s.lines), line)
                            ELSE [s.lines EXCEPT ![i] = line],
                            (s.index \ {s.lines[i]}) \union {line},
                            s.n_ways_active,
                            CountEviction(CountMiss(s.stats, type)))
      BY <1>9 DEF ReplaceStep
    <2> DEFINE l == IF ep = "LRU" THEN Append(Tail(s.lines), line)
                    ELSE [s.lines EXCEPT ![i] = line]
               c == CountEviction(CountMiss(s.stats, type))
               x == (s.index \ {s.lines[i]}) \union {line}
    <2>2. /\ line \notin s.index
          /\ s.n_ways_active = n
          /\ o.set = ASet(l, x, n, c)
          /\ o.result = ACCESS_RESULT_MISS_EVICTION
      BY <1>9, <2>1 DEF ReplaceStep
    <2>3. /\ c \in StatsType
          /\ Accesses(c) = Accesses(s.stats) + 1
          /\ RdAccesses(c) = RdAccesses(s.stats) + One(type = "LD")
          /\ c.n_evictions = s.stats.n_evictions + 1
      BY <1>4, CountedEviction
    <2>4. /\ s.lines[i] \in A
          /\ l \in Seq(A)
          /\ IsInjective(l)
          /\ ToSet(l) = x
          /\ Len(l) = n
      <3>1. Len(s.lines) # 0
        BY <1>1, <2>2
      <3>2. CASE ep = "LRU"
        <4>1. l = Append(Tail(s.lines), line)
          BY <3>2
        <4>2. line \notin ToSet(s.lines)
          BY <1>1, <2>2
        <4>3. /\ s.lines[i] \in ToSet(s.lines)
              /\ Append(Tail(s.lines), line) \in Seq(A)
              /\ IsInjective(Append(Tail(s.lines), line))
              /\ ToSet(Append(Tail(s.lines), line)) =
                    (ToSet(s.lines) \ {s.lines[i]}) \union {line}
              /\ Len(Append(Tail(s.lines), line)) = Len(s.lines)
          BY <1>1, <2>1, <3>1, <3>2, <4>2, FrontReplaced
        <4> HIDE DEF l
        <4>4. QED BY <1>1, <2>2, <4>1, <4>3, ToSetContains
      <3>3. CASE ep # "LRU"
        <4>1. l = [s.lines EXCEPT ![i] = line]
          BY <3>3
        <4>2. line \notin ToSet(s.lines)
          BY <1>1, <2>2
        <4>3. /\ s.lines[i] \in ToSet(s.lines)
              /\ [s.lines EXCEPT ![i] = line] \in Seq(A)
              /\ IsInjective([s.lines EXCEPT ![i] = line])
              /\ ToSet([s.lines EXCEPT ![i] = line]) =
                    (ToSet(s.lines) \ {s.lines[i]}) \union {line}
              /\ Len([s.lines EXCEPT ![i] = line]) = Len(s.lines)
          BY <1>1, <4>2, SlotReplaced
        <4> HIDE DEF l
        <4>4. QED BY <1>1, <2>2, <4>1, <4>3, ToSetContains
      <3>4. QED BY <3>2, <3>3
    <2>5. line \in x /\ x \subseteq s.index \union {line} /\ x \in SUBSET A
      BY <1>1
    <2> HIDE DEF c, l, x
    <2>6. SetGood(o.set, A, n)
      BY <1>1, <1>3, <2>2, <2>3, <2>4, <2>5
    <2>7. QED BY <1>1, <1>2, <1>5, <2>1, <2>2, <2>3, <2>4, <2>5, <2>6
      DEF One, AccessEffect
  <1>10. QED BY <1>6, <1>7, <1>8, <1>9, AccessCases

\* Under LRU a set keeps its lines in the order of their last use.
LEMMA SetAccessOrders ==
    ASSUME NEW A, NEW n \in Nat \ {0}, NEW s, SetGood(s, A, n),
           NEW line \in A, NEW type, NEW ap, NEW zero,
           NEW o \in SetAccess(s, line, type, n, ap, "LRU", zero),
           NEW use \in [A -> Nat], NEW now \in Nat, \A f \in A : use[f] <= now,
           Ordered(s.lines, use)
    PROVE  Ordered(o.set.lines, [use EXCEPT ![line] = now + 1])
  <1> DEFINE ls == s.lines
             t == o.set.lines
  <1>1. /\ ls \in Seq(A)
        /\ IsInjective(ls)
        /\ s.index = ToSet(ls)
        /\ s.n_ways_active = Len(ls)
        /\ Len(ls) \in Nat
    BY DEF SetGood, SetType
  <1>2. \A l, i, w, c : ASet(l, i, w, c).lines = l
    BY DEF ASet
  <1>3. CASE HitStep(s, line, type, "LRU", zero, o)
    <2>1. line \in s.index /\ t = Touch(ls, line)
      <3>1. /\ line \in s.index
            /\ o.set = ASet(Touch(s.lines, line), s.index, s.n_ways_active,
                            CountHit(s.stats, type))
        BY <1>3 DEF HitStep
      <3>2. QED BY <1>2, <3>1
    <2>2. Contains(ls, line)
      BY <1>1, <2>1, ToSetContains
    <2> HIDE DEF ls, t
    <2>3. /\ t \in Seq(A)
          /\ Len(t) \in Nat \ {0}
          /\ t[Len(t)] = line
          /\ \A j \in 1..Len(t) - 1 : t[j] # line
          /\ Embeds(t, ls)
      BY <1>1, <2>1, <2>2, Touched
    <2>4. Ordered(ls, use)
      BY DEF ls
    <2>5. Ordered(t, [use EXCEPT ![line] = now + 1])
      BY <1>1, <2>3, <2>4, RenewedOrder
    <2>6. QED BY <2>5 DEF t
  <1>4. CASE BypassStep(s, line, type, ap, zero, o)
    <2>1. line \notin ToSet(ls) /\ t = ls
      <3>1. /\ line \notin s.index
            /\ o.set = ASet(s.lines, s.index, s.n_ways_active,
                            CountMiss(s.stats, type))
        BY <1>4 DEF BypassStep
      <3>2. QED BY <1>1, <1>2, <3>1
    <2>2. \A j \in 1..Len(ls) : ls[j] \in A /\ ls[j] # line
      BY <1>1, <2>1 DEF ToSet
    <2>3. \A j \in 1..Len(ls) : [use EXCEPT ![line] = now + 1][ls[j]] = use[ls[j]]
      BY <2>2
    <2>4. QED BY <2>1, <2>3 DEF Ordered
  <1>5. CASE FillStep(s, line, type, n, ap, zero, o)
    <2>1. line \notin ToSet(ls) /\ t = Append(ls, line)
      <3>1. /\ line \notin s.index
            /\ o.set = ASet(Append(s.lines, line), s.index \union {line},
                            s.n_ways_active + 1, CountMiss(s.stats, type))
        BY <1>5 DEF FillStep
      <3>2. t = Append(ls, line)
        BY <3>1 DEF ASet
      <3>3. QED BY <1>1, <3>1, <3>2
    <2> HIDE DEF ls, t
    <2>2. /\ t \in Seq(A)
          /\ Len(t) \in Nat \ {0}
          /\ Len(t) = Len(ls) + 1
          /\ t[Len(t)] = line
          /\ \A j \in 1..Len(t) - 1 : t[j] = ls[j]
          /\ \A j \in 1..Len(t) - 1 : t[j] # line
      BY <1>1, <2>1, Added
    <2>3. Embeds(t, ls)
      <3>1. SUFFICES ASSUME NEW j \in 1..Len(t) - 1, NEW k \in 1..Len(t) - 1, j < k
                     PROVE  \E p, q \in 1..Len(ls) :
                                p < q /\ t[j] = ls[p] /\ t[k] = ls[q]
        BY DEF Embeds
      <3>2. j \in 1..Len(ls) /\ k \in 1..Len(ls) /\ t[j] = ls[j] /\ t[k] = ls[k]
        BY <1>1, <2>2
      <3>3. QED BY <3>1, <3>2
    <2>4. Ordered(ls, use)
      BY DEF ls
    <2>5. Ordered(t, [use EXCEPT ![line] = now + 1])
      BY <1>1, <2>2, <2>3, <2>4, RenewedOrder
    <2>6. QED BY <2>5 DEF t
  <1>6. CASE ReplaceStep(s, line, type, n, ap, "LRU", o)
    <2>1. line \notin ToSet(ls) /\ t = Append(Tail(ls), line) /\ Len(ls) # 0
      <3>1. PICK i \in 1..Len(s.lines) :
                o.set = ASet(Append(Tail(s.lines), line),
                             (s.index \ {s.lines[i]}) \union {line},
                             s.n_ways_active,
                             CountEviction(CountMiss(s.stats, type)))
        BY <1>6 DEF ReplaceStep
      <3>2. line \notin s.index
        BY <1>6 DEF ReplaceStep
      <3>3. t = Append(Tail(ls), line)
        BY <3>1 DEF ASet
      <3>4. line \notin ToSet(ls)
        BY <1>1, <3>2
      <3>5. Len(ls) # 0
        BY <1>1, <3>1
      <3>6. QED BY <3>3, <3>4, <3>5
    <2> HIDE DEF ls, t
    <2>2. /\ Len(t) = Len(ls)
          /\ \A j \in 1..Len(t) - 1 : t[j] = ls[j + 1]
      BY <1>1, <2>1, FrontReplaced
    <2>r. t \in Seq(A) /\ t[Len(t)] = line /\ \A j \in 1..Len(t) - 1 : t[j] # line
      BY <1>1, <2>1, FrontReplaced
    <2>3. Embeds(t, ls)
      <3>1. SUFFICES ASSUME NEW j \in 1..Len(t) - 1, NEW k \in 1..Len(t) - 1, j < k
                     PROVE  \E p, q \in 1..Len(ls) :
                                p < q /\ t[j] = ls[p] /\ t[k] = ls[q]
        BY DEF Embeds
      <3>2. /\ j + 1 \in 1..Len(ls) /\ k + 1 \in 1..Len(ls) /\ j + 1 < k + 1
            /\ t[j] = ls[j + 1] /\ t[k] = ls[k + 1]
        BY <1>1, <2>2, <3>1
      <3>3. QED BY <3>2
    <2>4. Ordered(ls, use)
      BY DEF ls
    <2>5. Len(t) \in Nat \ {0}
      BY <1>1, <2>1, <2>2
    <2>6. Ordered(t, [use EXCEPT ![line] = now + 1])
      BY <1>1, <2>r, <2>3, <2>4, <2>5, RenewedOrder
    <2>7. QED BY <2>6 DEF t
  <1>7. QED BY <1>3, <1>4, <1>5, <1>6, AccessCases

\* The other sets do not hold the line.
LEMMA OrderUnaffected ==
    ASSUME NEW A, NEW lines \in Seq(A), NEW line \in A, line \notin ToSet(lines),
           NEW use \in [A -> Nat], NEW now \in Nat, Ordered(lines, use)
    PROVE  Ordered(lines, [use EXCEPT ![line] = now + 1])
  <1>1. \A j \in 1..Len(lines) : lines[j] \in A /\ lines[j] # line
    BY DEF ToSet
  <1>2. \A j \in 1..Len(lines) : [use EXCEPT ![line] = now + 1][lines[j]] = use[lines[j]]
    BY <1>1
  <1>3. QED BY <1>2 DEF Ordered

LEMMA FrontIsLeastRecent ==
    ASSUME NEW A, NEW lines \in Seq(A), NEW use \in [A -> Nat], Ordered(lines, use),
           Len(lines) # 0
    PROVE  \A f \in ToSet(lines) : use[lines[1]] <= use[f]
  <1>1. SUFFICES ASSUME NEW f \in ToSet(lines) PROVE use[lines[1]] <= use[f]
    OBVIOUS
  <1>2. PICK k \in 1..Len(lines) : f = lines[k]
    BY DEF ToSet
  <1>3. lines[1] \in A /\ use[lines[1]] \in Nat /\ 1 \in 1..Len(lines)
    OBVIOUS
  <1>4. k = 1 \/ 1 < k
    OBVIOUS
  <1>5. QED BY <1>2, <1>3, <1>4 DEF Ordered

-----------------------------------------------------------------------------
(* The counters of a cache.                                                *)

Fields == DOMAIN ZeroStats

LEMMA FieldsOfStats ==
    /\ Fields = {"n_rd_hits", "n_wr_hits", "n_rd_misses", "n_wr_misses", "n_evictions"}
    /\ ZeroStats \in StatsType
    /\ \A field \in Fields : ZeroStats[field] = 0
    /\ \A c \in StatsType, field \in Fields : c[field] \in Nat
  BY DEF Fields, ZeroStats, StatsType

\* The sums are natural, and follow the one set that changes.
LEMMA SumsAreNatural ==
    ASSUME NEW N \in Nat, NEW cache, DOMAIN cache = 0..N - 1,
           \A i \in 0..N - 1 : cache[i].stats \in StatsType
    PROVE  SumStats(cache) \in StatsType
  <1>1. IsFiniteSet(0..N - 1)
    BY FS_Interval
  <1>2. ASSUME NEW field \in Fields PROVE SumStats(cache)[field] \in Nat
    <2> DEFINE f == [i \in DOMAIN cache |-> cache[i].stats[field]]
    <2>1. f \in [0..N - 1 -> Nat]
      BY FieldsOfStats
    <2>2. SumStats(cache)[field] = SumFunction(f)
      BY DEF SumStats, Fields
    <2> HIDE DEF f
    <2>3. QED BY <1>1, <2>1, <2>2, SumIsNatural
  <1>3. SumStats(cache) = [field \in Fields |-> SumStats(cache)[field]]
    BY DEF SumStats, Fields
  <1>4. QED BY <1>2, <1>3, FieldsOfStats DEF StatsType

SumsChange(cache, changed, c, d) ==
    \A field \in Fields :
        SumStats(changed)[field] = SumStats(cache)[field] - c[field] + d[field]

LEMMA SumsFollow ==
    ASSUME NEW N \in Nat, NEW cache, DOMAIN cache = 0..N - 1,
           \A i \in 0..N - 1 : cache[i].stats \in StatsType,
           NEW i \in 0..N - 1, NEW s, s.stats \in StatsType
    PROVE  SumsChange(cache, [cache EXCEPT ![i] = s], cache[i].stats, s.stats)
  <1> DEFINE changed == [cache EXCEPT ![i] = s]
  <1>1. IsFiniteSet(0..N - 1)
    BY FS_Interval
  <1>2. SUFFICES ASSUME NEW field \in Fields
                 PROVE  SumStats(changed)[field] =
                            SumStats(cache)[field] - cache[i].stats[field] + s.stats[field]
    BY DEF SumsChange
  <1>3. DOMAIN changed = 0..N - 1 /\ changed[i] = s
        /\ \A j \in 0..N - 1 : j # i => changed[j] = cache[j]
    OBVIOUS
  <1> HIDE DEF changed
  <1> DEFINE f == [j \in DOMAIN cache |-> cache[j].stats[field]]
             g == [j \in DOMAIN changed |-> changed[j].stats[field]]
  <1>4. f \in [0..N - 1 -> Nat] /\ g \in [0..N - 1 -> Nat]
    BY <1>3, FieldsOfStats
  <1>5. /\ f[i] = cache[i].stats[field]
        /\ g[i] = s.stats[field]
        /\ \A j \in 0..N - 1 : j # i => g[j] = f[j]
    BY <1>3
  <1>6. SumStats(cache)[field] = SumFunction(f) /\ SumStats(changed)[field] = SumFunction(g)
    BY DEF SumStats, Fields
  <1> HIDE DEF f, g
  <1>7. SumFunction(g) = SumFunction(f) - f[i] + g[i]
    BY <1>1, <1>4, <1>5, SumChanges
  <1>8. QED BY <1>5, <1>6, <1>7

LEMMA CountersFollow ==
    ASSUME NEW a \in StatsType, NEW b \in StatsType, NEW c \in StatsType,
           NEW d \in StatsType,
           \A field \in Fields : b[field] = a[field] - c[field] + d[field]
    PROVE  /\ Accesses(b) = Accesses(a) - Accesses(c) + Accesses(d)
           /\ RdAccesses(b) = RdAccesses(a) - RdAccesses(c) + RdAccesses(d)
           /\ Evicted(b) = Evicted(a) - Evicted(c) + Evicted(d)
  <1>1. /\ b.n_rd_hits = a.n_rd_hits - c.n_rd_hits + d.n_rd_hits
        /\ b.n_wr_hits = a.n_wr_hits - c.n_wr_hits + d.n_wr_hits
        /\ b.n_rd_misses = a.n_rd_misses - c.n_rd_misses + d.n_rd_misses
        /\ b.n_wr_misses = a.n_wr_misses - c.n_wr_misses + d.n_wr_misses
        /\ b.n_evictions = a.n_evictions - c.n_evictions + d.n_evictions
    BY FieldsOfStats
  <1>2. QED BY <1>1 DEF StatsType, Accesses, RdAccesses, Hits, Misses, Evicted

LEMMA SumsOfZeros ==
    ASSUME NEW N \in Nat, NEW cache, DOMAIN cache = 0..N - 1,
           \A i \in 0..N - 1 : cache[i].stats = ZeroStats
    PROVE  \A field \in Fields : SumStats(cache)[field] = 0
  <1>1. IsFiniteSet(0..N - 1)
    BY FS_Interval
  <1>2. SUFFICES ASSUME NEW field \in Fields PROVE SumStats(cache)[field] = 0
    OBVIOUS
  <1> DEFINE f == [i \in DOMAIN cache |-> cache[i].stats[field]]
  <1>3. f \in [0..N - 1 -> Nat] /\ \A i \in 0..N - 1 : f[i] = 0
    BY FieldsOfStats
  <1>4. SumStats(cache)[field] = SumFunction(f)
    BY DEF SumStats, Fields
  <1> HIDE DEF f
  <1>5. QED BY <1>1, <1>3, <1>4, SumOfZeros

-----------------------------------------------------------------------------
(* What an access does to a cache.                                         *)

CacheGood(cache, A, N, conf) ==
    /\ cache \in CacheType(A, N, conf.n_ways)
    /\ Coherent(cache, conf)

GoodSet(s, A, conf, i) ==
    SetGood(s, A, conf.n_ways) /\ \A line \in s.index : conf.set_of[line] = i

LEMMA GoodSets ==
    ASSUME NEW A, NEW N \in Nat, NEW conf, NEW cache
    PROVE  CacheGood(cache, A, N, conf) <=>
                /\ cache \in [0..N - 1 -> SetType(A, conf.n_ways)]
                /\ \A i \in 0..N - 1 : GoodSet(cache[i], A, conf, i)
  <1>1. CacheType(A, N, conf.n_ways) = [0..N - 1 -> SetType(A, conf.n_ways)]
    BY DEF CacheType, SetType
  <1>2. ASSUME cache \in [0..N - 1 -> SetType(A, conf.n_ways)]
        PROVE  /\ DOMAIN cache = 0..N - 1
               /\ \A i \in 0..N - 1 : cache[i] \in SetType(A, conf.n_ways)
    BY <1>2
  <1>3. QED BY <1>1, <1>2 DEF CacheGood, Coherent, SetGood, GoodSet

LEMMA GoodCounters ==
    ASSUME NEW A, NEW N \in Nat, NEW conf, NEW cache, CacheGood(cache, A, N, conf)
    PROVE  /\ DOMAIN cache = 0..N - 1
           /\ \A i \in 0..N - 1 : cache[i].stats \in StatsType
           /\ SumStats(cache) \in StatsType
  <1>1. DOMAIN cache = 0..N - 1 /\ \A i \in 0..N - 1 : cache[i].stats \in StatsType
    <2>1. CacheType(A, N, conf.n_ways) = [0..N - 1 -> SetType(A, conf.n_ways)]
      BY DEF CacheType, SetType
    <2>2. cache \in [0..N - 1 -> SetType(A, conf.n_ways)]
      BY <2>1 DEF CacheGood
    <2>3. QED BY <2>2 DEF SetType
  <1>2. QED BY <1>1, SumsAreNatural

LEMMA CacheAccessKeeps ==
    ASSUME NEW A, NEW N \in Nat \ {0}, NEW conf, conf.n_ways \in Nat \ {0},
           conf.set_of \in [A -> 0..N - 1],
           NEW cache, CacheGood(cache, A, N, conf),
           NEW line \in A, NEW type \in MemRefTypes, NEW zero \in A,
           NEW r \in CacheAccess(cache, conf, line, type, zero)
    PROVE  /\ CacheGood(r.cache, A, N, conf)
           /\ r.evicted \in A
           /\ r.result \in [hit : BOOLEAN, eviction : BOOLEAN]
           /\ Accesses(SumStats(r.cache)) = Accesses(SumStats(cache)) + 1
           /\ RdAccesses(SumStats(r.cache)) =
                    RdAccesses(SumStats(cache)) + One(type = "LD")
           /\ Evicted(SumStats(r.cache)) = Evicted(SumStats(cache))
                    + One(r.result = ACCESS_RESULT_MISS_EVICTION)
           /\ DoAllocate(type, conf.allocation_policy) =>
                /\ \E i \in DOMAIN r.cache : line \in r.cache[i].index
                /\ r.result.eviction <=> r.result = ACCESS_RESULT_MISS_EVICTION
  <1> DEFINE i == conf.set_of[line]
             s == cache[i]
  <1>1. PICK o \in SetAccess(s, line, type, conf.n_ways, conf.allocation_policy,
                             conf.eviction_policy, zero) :
            r = [cache |-> [cache EXCEPT ![i] = o.set],
                 result |-> o.result, evicted |-> o.evicted]
    BY DEF CacheAccess
  <1>2. /\ r.cache = [cache EXCEPT ![i] = o.set]
        /\ r.result = o.result
        /\ r.evicted = o.evicted
    BY <1>1
  <1>3. i \in 0..N - 1
    OBVIOUS
  <1>4. /\ cache \in [0..N - 1 -> SetType(A, conf.n_ways)]
        /\ \A j \in 0..N - 1 : GoodSet(cache[j], A, conf, j)
    BY GoodSets
  <1>5. AccessEffect(s, line, type, conf.allocation_policy, A, conf.n_ways, o)
    BY <1>3, <1>4, SetAccessKeeps DEF GoodSet
  <1>6. CacheGood(r.cache, A, N, conf)
    <2>1. /\ r.cache \in [0..N - 1 -> SetType(A, conf.n_ways)]
          /\ r.cache[i] = o.set
          /\ \A j \in 0..N - 1 : j # i => r.cache[j] = cache[j]
      BY <1>2, <1>3, <1>4, <1>5 DEF SetGood, AccessEffect
    <2>2. ASSUME NEW j \in 0..N - 1 PROVE GoodSet(r.cache[j], A, conf, j)
      <3>1. CASE j = i
        <4>1. \A ln \in s.index \union {line} : conf.set_of[ln] = i
          BY <1>3, <1>4 DEF GoodSet
        <4>2. QED BY <1>5, <2>1, <3>1, <4>1 DEF GoodSet, AccessEffect
      <3>2. CASE j # i
        BY <1>4, <2>1, <3>2
      <3>3. QED BY <3>1, <3>2
    <2>3. QED BY <2>1, <2>2, GoodSets
  <1>7. /\ DOMAIN cache = 0..N - 1
        /\ \A j \in 0..N - 1 : cache[j].stats \in StatsType
        /\ SumStats(cache) \in StatsType
        /\ SumStats(r.cache) \in StatsType
    BY <1>6, GoodCounters
  <1>8. o.set.stats \in StatsType /\ s.stats \in StatsType
    BY <1>3, <1>5, <1>7 DEF SetGood, SetType, AccessEffect
  <1>9. \A field \in Fields : SumStats(r.cache)[field] =
            SumStats(cache)[field] - s.stats[field] + o.set.stats[field]
    <2>1. SumsChange(cache, [cache EXCEPT ![i] = o.set], s.stats, o.set.stats)
      BY <1>3, <1>7, <1>8, SumsFollow
    <2>2. QED BY <1>2, <2>1 DEF SumsChange
  <1> DEFINE a == SumStats(cache)
             b == SumStats(r.cache)
             c == s.stats
             d == o.set.stats
  <1>10. /\ a \in StatsType /\ b \in StatsType /\ c \in StatsType /\ d \in StatsType
         /\ \A field \in Fields : b[field] = a[field] - c[field] + d[field]
    BY <1>7, <1>8, <1>9
  <1>11. /\ Accesses(d) = Accesses(c) + 1
         /\ RdAccesses(d) = RdAccesses(c) + One(type = "LD")
         /\ d.n_evictions = c.n_evictions + One(r.result = ACCESS_RESULT_MISS_EVICTION)
    BY <1>2, <1>5 DEF AccessEffect
  <1> HIDE DEF a, b, c, d
  <1>12. /\ Accesses(b) = Accesses(a) + 1
         /\ RdAccesses(b) = RdAccesses(a) + One(type = "LD")
         /\ Evicted(b) = Evicted(a) + One(r.result = ACCESS_RESULT_MISS_EVICTION)
    <2>1. /\ Accesses(b) = Accesses(a) - Accesses(c) + Accesses(d)
          /\ RdAccesses(b) = RdAccesses(a) - RdAccesses(c) + RdAccesses(d)
          /\ Evicted(b) = Evicted(a) - Evicted(c) + Evicted(d)
      BY <1>10, CountersFollow
    <2>2. \A e \in StatsType : Accesses(e) \in Nat /\ RdAccesses(e) \in Nat /\ Evicted(e) \in Nat
      BY DEF StatsType, Accesses, Hits, Misses, RdAccesses, Evicted
    <2> DEFINE x == One(type = "LD")
               y == One(r.result = ACCESS_RESULT_MISS_EVICTION)
    <2>3. x \in Nat /\ y \in Nat
      BY DEF One
    <2>4. RdAccesses(d) = RdAccesses(c) + x /\ Evicted(d) = Evicted(c) + y
      BY <1>11 DEF Evicted
    <2>5. /\ Accesses(a) \in Nat /\ Accesses(c) \in Nat
          /\ RdAccesses(a) \in Nat /\ RdAccesses(c) \in Nat
          /\ Evicted(a) \in Nat /\ Evicted(c) \in Nat
      BY <1>10, <2>2
    <2> HIDE DEF x, y
    <2>6. Accesses(b) = Accesses(a) + 1 /\ RdAccesses(b) = RdAccesses(a) + x
          /\ Evicted(b) = Evicted(a) + y
      BY <1>11, <2>1, <2>3, <2>4, <2>5
    <2>7. QED BY <2>6 DEF x, y
  <1>13. r.cache[i] = o.set /\ i \in DOMAIN r.cache
    BY <1>2, <1>3, <1>7
  <1>14. QED BY <1>2, <1>5, <1>6, <1>12, <1>13 DEF a, b, AccessEffect

\* Clearing the counters keeps the lines.
ClearEffect(cache, cleared, A, N, conf) ==
    /\ CacheGood(cleared, A, N, conf)
    /\ DOMAIN cleared = 0..N - 1
    /\ \A i \in 0..N - 1 : /\ cleared[i].lines = cache[i].lines
                           /\ cleared[i].index = cache[i].index
    /\ \A field \in Fields : SumStats(cleared)[field] = 0

LEMMA ClearStatsKeeps ==
    ASSUME NEW A, NEW N \in Nat, NEW conf, NEW cache, CacheGood(cache, A, N, conf)
    PROVE  ClearEffect(cache, ClearStats(cache), A, N, conf)
  <1> DEFINE cleared == ClearStats(cache)
  <1>1. /\ cache \in [0..N - 1 -> SetType(A, conf.n_ways)]
        /\ \A j \in 0..N - 1 : GoodSet(cache[j], A, conf, j)
    BY GoodSets
  <1>2. cleared = [j \in 0..N - 1 |-> [cache[j] EXCEPT !.stats = ZeroStats]]
    BY <1>1 DEF ClearStats
  <1>3. ASSUME NEW j \in 0..N - 1
        PROVE  cleared[j] = ASet(cache[j].lines, cache[j].index,
                                 cache[j].n_ways_active, ZeroStats)
    <2> DEFINE s == cache[j]
               l == s.lines
               x == s.index
               w == s.n_ways_active
               c == s.stats
    <2>1. s = ASet(l, x, w, c)
      BY <1>1 DEF SetType, ASet
    <2>2. cleared[j] = [s EXCEPT !.stats = ZeroStats]
      BY <1>2
    <2> HIDE DEF s, l, x, w, c
    <2>3. [s EXCEPT !.stats = ZeroStats] = ASet(l, x, w, ZeroStats)
      BY <2>1 DEF ASet
    <2>4. QED BY <2>2, <2>3 DEF s, l, x, w
  <1> HIDE DEF cleared
  <1>4. ASSUME NEW j \in 0..N - 1
        PROVE  /\ SetGood(cleared[j], A, conf.n_ways)
               /\ cleared[j].lines = cache[j].lines
               /\ cleared[j].index = cache[j].index
               /\ cleared[j].stats = ZeroStats
    <2>0. cleared[j] = ASet(cache[j].lines, cache[j].index,
                            cache[j].n_ways_active, ZeroStats)
      BY <1>3
    <2>1. /\ cleared[j].lines = cache[j].lines
          /\ cleared[j].index = cache[j].index
          /\ cleared[j].n_ways_active = cache[j].n_ways_active
          /\ cleared[j].stats = ZeroStats
      BY <2>0 DEF ASet
    <2>2. ZeroStats \in StatsType /\ ~(ZeroStats.n_evictions > 0)
      BY DEF ZeroStats, StatsType
    <2>3. cleared[j] \in SetType(A, conf.n_ways)
      <3>1. cache[j] \in SetType(A, conf.n_ways)
        BY <1>1
      <3>2. QED BY <2>0, <2>2, <3>1 DEF ASet, SetType
    <2>4. QED BY <1>1, <2>1, <2>2, <2>3 DEF SetGood, GoodSet
  <1>5. cleared \in [0..N - 1 -> SetType(A, conf.n_ways)] /\ DOMAIN cleared = 0..N - 1
    <2>1. \A j \in 0..N - 1 :
            cleared[j] \in SetType(A, conf.n_ways)
            /\ cleared[j] = [cache[j] EXCEPT !.stats = ZeroStats]
      BY <1>2, <1>4 DEF SetGood
    <2>2. QED BY <1>2, <2>1, Zenon
  <1>6. CacheGood(cleared, A, N, conf)
    <2>1. \A j \in 0..N - 1 : GoodSet(cleared[j], A, conf, j)
      BY <1>1, <1>4 DEF GoodSet
    <2>2. QED BY <1>5, <2>1, GoodSets
  <1>7. \A field \in Fields : SumStats(cleared)[field] = 0
    BY <1>4, <1>5, SumsOfZeros
  <1>8. QED BY <1>4, <1>5, <1>6, <1>7 DEF cleared, ClearEffect

LEMMA NewCacheIsGood ==
    ASSUME NEW A, NEW N \in Nat, NEW conf, conf.n_ways \in Nat
    PROVE  /\ CacheGood(NewCache(N), A, N, conf)
           /\ \A i \in 0..N - 1 : NewCache(N)[i].index = {} /\ NewCache(N)[i].lines = <<>>
           /\ \A field \in Fields : SumStats(NewCache(N))[field] = 0
  <1> DEFINE new == NewCache(N)
  <1>1. new = [i \in 0..N - 1 |-> NewSet] /\ DOMAIN new = 0..N - 1
    BY DEF NewCache
  <1>2. /\ NewSet \in SetType(A, conf.n_ways)
        /\ NewSet.lines = <<>>
        /\ NewSet.index = {}
        /\ NewSet.n_ways_active = 0
        /\ NewSet.stats = ZeroStats
        /\ ~(ZeroStats.n_evictions > 0)
    BY DEF NewSet, ZeroStats, SetType, StatsType
  <1>3. IsInjective(<<>>) /\ ToSet(<<>>) = {} /\ Len(<<>>) = 0
    BY DEF IsInjective, ToSet
  <1>4. SetGood(NewSet, A, conf.n_ways)
    BY <1>2, <1>3 DEF SetGood
  <1> HIDE DEF new
  <1>5. CacheGood(new, A, N, conf)
    <2>1. new \in [0..N - 1 -> SetType(A, conf.n_ways)]
      BY <1>1, <1>2
    <2>2. \A j \in 0..N - 1 : GoodSet(new[j], A, conf, j)
      BY <1>1, <1>2, <1>4 DEF GoodSet
    <2>3. QED BY <2>1, <2>2, GoodSets
  <1>6. \A field \in Fields : SumStats(new)[field] = 0
    BY <1>1, <1>2, SumsOfZeros
  <1>7. QED BY <1>1, <1>2, <1>5, <1>6 DEF new

-----------------------------------------------------------------------------
(* The inductive invariant.                                                *)

ConfsFixed ==
    /\ llc_conf \in [n_ways : {NLlcWays}, set_of : {LlcSetOf},
                     allocation_policy : AllocationPolicies,
                     eviction_policy : EvictionPolicies]
    /\ rrc_conf \in [n_ways : {NRrcWays}, set_of : {RrcSetOf},
                     allocation_policy : {"AORW"},
                     eviction_policy : EvictionPolicies]

\* No more lines were evicted than accessed.
EvictionsAreAccesses == Evicted(SumStats(llc)) <= Accesses(SumStats(llc))

\* lru_list is in the order of last use.
LinesInLruOrder ==
    llc_conf.eviction_policy = "LRU" =>
        \A i \in DOMAIN llc : Ordered(llc[i].lines, last_use)

UsesArePast == \A line \in Lines : last_use[line] <= clock

Inv ==
    /\ ConfsFixed
    /\ TypeOK
    /\ SetsCoherent
    /\ EvictedPageIsLookedUp
    /\ StatsTally
    /\ EvictionsAreAccesses
    /\ LinesInLruOrder
    /\ UsesArePast

CachesGood ==
    /\ CacheGood(llc, Lines, NLlcSets, llc_conf)
    /\ CacheGood(rrc, Pages, NRrcSets, rrc_conf)

LEMMA Geometry ==
    /\ ZeroLine \in Lines
    /\ \A line \in Lines : PageOf[line] \in Pages
    /\ NLlcSets \in Nat \ {0} /\ NLlcWays \in Nat \ {0}
    /\ NRrcSets \in Nat \ {0} /\ NRrcWays \in Nat \ {0}
    /\ LlcSetOf \in [Lines -> 0..NLlcSets - 1]
    /\ RrcSetOf \in [Pages -> 0..NRrcSets - 1]
    /\ \A t \in Traces : /\ Len(t) \in Nat
                          /\ \A i \in 1..Len(t) : /\ t[i].line \in Lines
                                                  /\ t[i].type \in MemRefTypes
  <1>1. \A line \in Lines : PageOf[line] \in Pages
    BY DEF Pages
  <1>2. ASSUME NEW t \in Traces
        PROVE  /\ Len(t) \in Nat
               /\ \A i \in 1..Len(t) : t[i].line \in Lines /\ t[i].type \in MemRefTypes
    <2>1. t \in Seq([line : Lines, type : MemRefTypes])
      BY GeometryAssumption
    <2> DEFINE R == [line : Lines, type : MemRefTypes]
    <2>2. Len(t) \in Nat /\ \A i \in 1..Len(t) : t[i] \in R
      <3> HIDE DEF R
      <3>1. t \in Seq(R)
        BY <2>1 DEF R
      <3>2. QED BY <3>1
    <2>3. \A x \in R : x.line \in Lines /\ x.type \in MemRefTypes
      OBVIOUS
    <2> HIDE DEF R
    <2>4. QED BY <2>2, <2>3
  <1>3. QED BY <1>1, <1>2, GeometryAssumption

LEMMA Confs ==
    ASSUME ConfsFixed
    PROVE  /\ llc_conf.n_ways = NLlcWays
           /\ llc_conf.set_of = LlcSetOf
           /\ llc_conf.allocation_policy \in AllocationPolicies
           /\ rrc_conf.n_ways = NRrcWays
           /\ rrc_conf.set_of = RrcSetOf
           /\ rrc_conf.allocation_policy = "AORW"
  BY DEF ConfsFixed

\* The caches' part of the type invariant.
LEMMA GoodCaches ==
    ASSUME ConfsFixed
    PROVE  CachesGood <=> /\ llc \in CacheType(Lines, NLlcSets, NLlcWays)
                          /\ rrc \in CacheType(Pages, NRrcSets, NRrcWays)
                          /\ SetsCoherent
  BY Confs DEF CachesGood, CacheGood, SetsCoherent

LoadsOf(t, n) == Cardinality({i \in 1..n : t[i].type = "LD"})

LEMMA LoadsCount ==
    ASSUME NEW t, NEW n \in Nat
    PROVE  /\ LoadsOf(t, 0) = 0
           /\ LoadsOf(t, n) \in Nat
           /\ LoadsOf(t, n + 1) = LoadsOf(t, n) + One(t[n + 1].type = "LD")
  <1> DEFINE L(m) == {i \in 1..m : t[i].type = "LD"}
  <1>1. L(0) = {}
    OBVIOUS
  <1>2. IsFiniteSet(L(n)) /\ n + 1 \notin L(n)
    <2>1. IsFiniteSet(1..n) /\ L(n) \subseteq 1..n
      BY FS_Interval
    <2>2. QED BY <2>1, FS_Subset
  <1>3. L(n + 1) = IF t[n + 1].type = "LD" THEN L(n) \union {n + 1} ELSE L(n)
    OBVIOUS
  <1>4. LoadsOf(t, n) = Cardinality(L(n)) /\ LoadsOf(t, n + 1) = Cardinality(L(n + 1))
        /\ LoadsOf(t, 0) = Cardinality(L(0))
    BY DEF LoadsOf
  <1> HIDE DEF L
  <1>5. Cardinality(L(n)) \in Nat
    BY <1>2, FS_CardinalityType
  <1>6. Cardinality(L(n) \union {n + 1}) = Cardinality(L(n)) + 1
    BY <1>2, FS_AddElement
  <1>7. Cardinality(L(0)) = 0
    BY <1>1, FS_EmptySet
  <1>8. CASE t[n + 1].type = "LD"
    BY <1>3, <1>4, <1>5, <1>6, <1>7, <1>8 DEF One
  <1>9. CASE t[n + 1].type # "LD"
    BY <1>3, <1>4, <1>5, <1>7, <1>9 DEF One
  <1>10. QED BY <1>8, <1>9

\* One access of the RRC.
LEMMA RrcAccessKeeps ==
    ASSUME ConfsFixed, NEW cache, CacheGood(cache, Pages, NRrcSets, rrc_conf),
           NEW page \in Pages, NEW type \in MemRefTypes,
           NEW next \in RrcAccess(cache, page, type)
    PROVE  /\ CacheGood(next, Pages, NRrcSets, rrc_conf)
           /\ Accesses(SumStats(next)) = Accesses(SumStats(cache)) + 1
           /\ RdAccesses(SumStats(next)) = RdAccesses(SumStats(cache)) + One(type = "LD")
           /\ type = "LD" => \E i \in DOMAIN next : page \in next[i].index
  <1>1. PICK r \in CacheAccess(cache, rrc_conf, page, type, PageOf[ZeroLine]) :
                next = r.cache
    BY DEF RrcAccess
  <1>2. /\ rrc_conf.n_ways \in Nat \ {0}
        /\ rrc_conf.set_of \in [Pages -> 0..NRrcSets - 1]
        /\ PageOf[ZeroLine] \in Pages
        /\ NRrcSets \in Nat \ {0}
    BY Confs, Geometry
  <1>3. /\ CacheGood(r.cache, Pages, NRrcSets, rrc_conf)
        /\ Accesses(SumStats(r.cache)) = Accesses(SumStats(cache)) + 1
        /\ RdAccesses(SumStats(r.cache)) =
                    RdAccesses(SumStats(cache)) + One(type = "LD")
        /\ DoAllocate(type, rrc_conf.allocation_policy) =>
                \E i \in DOMAIN r.cache : page \in r.cache[i].index
    BY <1>2, CacheAccessKeeps
  <1>4. type = "LD" => DoAllocate(type, rrc_conf.allocation_policy)
    BY Confs DEF DoAllocate
  <1>5. QED BY <1>1, <1>3, <1>4

\* What an iteration of run_pass() does to the two caches.
AccessParts(ref, o, loaded) ==
    /\ llc' = o.cache
    /\ llc_result' = o.result
    /\ llc_evicted' = o.evicted
    /\ loaded \in AfterLoad(rrc, ref)
    /\ rrc' \in AfterEviction(loaded, ref, o)
    /\ last_use' = [last_use EXCEPT ![ref.line] = clock + 1]

LEMMA AccessOfRrc ==
    ASSUME ConfsFixed, CacheGood(rrc, Pages, NRrcSets, rrc_conf),
           NEW ref, ref.line \in Lines, ref.type \in MemRefTypes,
           NEW o, o.evicted \in Lines, NEW loaded, AccessParts(ref, o, loaded)
    PROVE  /\ CacheGood(rrc', Pages, NRrcSets, rrc_conf)
           /\ RdAccesses(SumStats(rrc')) =
                RdAccesses(SumStats(rrc)) + IF o.result.eviction THEN 1 ELSE 0
           /\ Accesses(SumStats(rrc')) - RdAccesses(SumStats(rrc')) =
                Accesses(SumStats(rrc)) - RdAccesses(SumStats(rrc)) + One(ref.type = "LD")
           /\ o.result.eviction =>
                \E i \in DOMAIN rrc' : PageOf[o.evicted] \in rrc'[i].index
  <1> DEFINE Acc(cache) == Accesses(SumStats(cache))
             Rd(cache) == RdAccesses(SumStats(cache))
             Good(cache) == CacheGood(cache, Pages, NRrcSets, rrc_conf)
             next == rrc'
             before == rrc
  <1>1. \A cache : Good(cache) => Acc(cache) \in Nat /\ Rd(cache) \in Nat
    <2>1. ASSUME NEW cache, Good(cache) PROVE Acc(cache) \in Nat /\ Rd(cache) \in Nat
      <3>1. SumStats(cache) \in StatsType
        BY <2>1, Geometry, GoodCounters
      <3>2. \A e \in StatsType : Accesses(e) \in Nat /\ RdAccesses(e) \in Nat
        BY DEF StatsType, Accesses, Hits, Misses, RdAccesses
      <3>3. QED BY <3>1, <3>2
    <2>2. QED BY <2>1
  <1>2. PageOf[ref.line] \in Pages /\ PageOf[o.evicted] \in Pages
    BY Geometry
  <1>3. /\ "ST" \in MemRefTypes /\ "LD" \in MemRefTypes
        /\ One("ST" = "LD") = 0 /\ One("LD" = "LD") = 1
    BY DEF MemRefTypes, One
  <1>4. /\ Good(loaded)
        /\ Acc(loaded) = Acc(before) + One(ref.type = "LD")
        /\ Rd(loaded) = Rd(before)
    <2>1. CASE ref.type = "LD"
      <3>1. loaded \in RrcAccess(rrc, PageOf[ref.line], "ST")
        BY <2>1 DEF AccessParts, AfterLoad
      <3>2. /\ Good(loaded)
            /\ Acc(loaded) = Acc(before) + 1
            /\ Rd(loaded) = Rd(before) + One("ST" = "LD")
        BY <1>2, <1>3, <3>1, RrcAccessKeeps
      <3>3. One(ref.type = "LD") = 1
        BY <2>1 DEF One
      <3> HIDE DEF Acc, Rd, Good, before
      <3>4. Rd(before) \in Nat
        BY <1>1 DEF Good, before
      <3>5. QED BY <1>3, <3>2, <3>3, <3>4
    <2>2. CASE ref.type # "LD"
      <3>1. loaded = rrc
        BY <2>2 DEF AccessParts, AfterLoad
      <3>2. One(ref.type = "LD") = 0
        BY <2>2 DEF One
      <3>3. Good(before)
        OBVIOUS
      <3> HIDE DEF Acc, Rd, Good
      <3>4. QED BY <1>1, <3>1, <3>2, <3>3
    <2>3. QED BY <2>1, <2>2
  <1>5. /\ Good(next)
        /\ o.result.eviction =>
            /\ Acc(next) = Acc(loaded) + 1
            /\ Rd(next) = Rd(loaded) + 1
            /\ \E i \in DOMAIN next : PageOf[o.evicted] \in next[i].index
        /\ ~o.result.eviction => next = loaded
    <2>1. CASE o.result.eviction
      <3>1. next \in RrcAccess(loaded, PageOf[o.evicted], "LD")
        BY <2>1 DEF AccessParts, AfterEviction
      <3> HIDE DEF next
      <3>2. /\ Good(next)
            /\ Acc(next) = Acc(loaded) + 1
            /\ Rd(next) = Rd(loaded) + One("LD" = "LD")
            /\ \E i \in DOMAIN next : PageOf[o.evicted] \in next[i].index
        BY <1>2, <1>3, <1>4, <3>1, RrcAccessKeeps
      <3>3. QED BY <1>3, <2>1, <3>2
    <2>2. CASE ~o.result.eviction
      <3>1. next = loaded
        BY <2>2 DEF AccessParts, AfterEviction
      <3> HIDE DEF next
      <3>2. QED BY <1>4, <2>2, <3>1
    <2>3. QED BY <2>1, <2>2
  <1>6. Good(before)
    OBVIOUS
  <1> DEFINE ld == One(ref.type = "LD")
  <1>7. ld \in Nat
    BY DEF One
  <1> HIDE DEF Acc, Rd, Good, next, before, ld
  <1>8. Acc(loaded) = Acc(before) + ld
    BY <1>4 DEF ld
  <1>9. /\ Rd(next) = Rd(before) + IF o.result.eviction THEN 1 ELSE 0
        /\ Acc(next) - Rd(next) = Acc(before) - Rd(before) + ld
    <2>1. CASE o.result.eviction
      BY <1>1, <1>4, <1>5, <1>6, <1>7, <1>8, <2>1
    <2>2. CASE ~o.result.eviction
      BY <1>1, <1>4, <1>5, <1>6, <1>7, <1>8, <2>2
    <2>3. QED BY <2>1, <2>2
  <1>10. QED BY <1>5, <1>9 DEF Acc, Rd, Good, next, before, ld

LEMMA GoodTotals ==
    ASSUME ConfsFixed, CachesGood
    PROVE  /\ SumStats(llc) \in StatsType
           /\ SumStats(rrc) \in StatsType
           /\ DOMAIN llc = 0..NLlcSets - 1
           /\ DOMAIN rrc = 0..NRrcSets - 1
  BY Geometry, GoodCounters DEF CachesGood

\* The other sets, and the set accessed, stay in the order of last use.
LEMMA AccessKeepsOrder ==
    ASSUME ConfsFixed, CachesGood, LinesInLruOrder, UsesArePast,
           last_use \in [Lines -> Nat], clock \in Nat,
           NEW ref, ref.line \in Lines, ref.type \in MemRefTypes,
           NEW o \in CacheAccess(llc, llc_conf, ref.line, ref.type, ZeroLine),
           llc_conf.eviction_policy = "LRU"
    PROVE  \A j \in DOMAIN llc :
                Ordered(o.cache[j].lines, [last_use EXCEPT ![ref.line] = clock + 1])
  <1> DEFINE i == llc_conf.set_of[ref.line]
             s == llc[i]
             use == last_use
             line == ref.line
             now == clock
  <1>1. PICK p \in SetAccess(s, line, ref.type, llc_conf.n_ways,
                             llc_conf.allocation_policy, "LRU", ZeroLine) :
            o.cache = [llc EXCEPT ![i] = p.set]
    BY DEF CacheAccess
  <1>2. /\ llc \in [0..NLlcSets - 1 -> SetType(Lines, llc_conf.n_ways)]
        /\ \A j \in 0..NLlcSets - 1 : GoodSet(llc[j], Lines, llc_conf, j)
        /\ DOMAIN llc = 0..NLlcSets - 1
    <2>1. NLlcSets \in Nat
      BY Geometry
    <2>2. QED BY <2>1, GoodSets DEF CachesGood
  <1>3. i \in 0..NLlcSets - 1 /\ llc_conf.n_ways \in Nat \ {0}
    BY Geometry, Confs
  <1>4. \A j \in 0..NLlcSets - 1 : Ordered(llc[j].lines, use)
    BY <1>2 DEF LinesInLruOrder
  <1>5. \A f \in Lines : use[f] <= now
    BY DEF UsesArePast
  <1>6. SUFFICES ASSUME NEW j \in 0..NLlcSets - 1
                 PROVE  Ordered(o.cache[j].lines, [use EXCEPT ![line] = now + 1])
    BY <1>2
  <1>7. line \in Lines /\ use \in [Lines -> Nat] /\ now \in Nat
    OBVIOUS
  <1>8. CASE j = i
    <2>1. SetGood(s, Lines, llc_conf.n_ways) /\ Ordered(s.lines, use)
      BY <1>2, <1>3, <1>4 DEF GoodSet
    <2>2. o.cache[j] = p.set
      BY <1>1, <1>2, <1>3, <1>8
    <2> HIDE DEF i, s, use, now, line
    <2>3. Ordered(p.set.lines, [use EXCEPT ![line] = now + 1])
      BY <1>1, <1>3, <1>5, <1>7, <2>1, SetAccessOrders
    <2>4. QED BY <2>2, <2>3
  <1>9. CASE j # i
    <2>1. o.cache[j] = llc[j] /\ Ordered(llc[j].lines, use)
      BY <1>1, <1>2, <1>3, <1>4, <1>9
    <2>2. llc[j].lines \in Seq(Lines) /\ line \notin ToSet(llc[j].lines)
      <3>1. /\ SetGood(llc[j], Lines, llc_conf.n_ways)
            /\ \A f \in llc[j].index : llc_conf.set_of[f] = j
        BY <1>2 DEF GoodSet
      <3>2. llc[j].index = ToSet(llc[j].lines) /\ llc[j].lines \in Seq(Lines)
        BY <3>1 DEF SetGood, SetType
      <3>3. QED BY <1>9, <3>1, <3>2
    <2> DEFINE ls == llc[j].lines
    <2>3. ls \in Seq(Lines) /\ line \notin ToSet(ls) /\ Ordered(ls, use)
      BY <2>1, <2>2
    <2> HIDE DEF ls, use, now, line
    <2>4. Ordered(ls, [use EXCEPT ![line] = now + 1])
      BY <1>7, <2>3, OrderUnaffected
    <2>5. QED BY <2>1, <2>4 DEF ls
  <1>10. QED BY <1>8, <1>9

LEMMA AccessKeeps ==
    ASSUME Inv, Access
    PROVE  Inv'
  <1> DEFINE ref == trace[pos + 1]
  <1>1. PICK o \in CacheAccess(llc, llc_conf, ref.line, ref.type, ZeroLine) :
            \E loaded \in AfterLoad(rrc, ref) : AccessParts(ref, o, loaded)
    BY DEF Access, AccessParts
  <1>2. PICK loaded : AccessParts(ref, o, loaded)
    BY <1>1
  <1>3. /\ trace' = trace /\ llc_conf' = llc_conf /\ rrc_conf' = rrc_conf
        /\ pass' = pass /\ totals' = totals
        /\ clock' = clock + 1
        /\ pos' = pos + 1
        /\ pass \in {"warm_up", "counted"}
        /\ pos < Len(trace)
    BY DEF Access, confs
  <1>4. /\ trace \in Traces /\ pos \in Nat /\ pos + 1 \in 0..Len(trace)
        /\ ref.line \in Lines /\ ref.type \in MemRefTypes
    <2>1. trace \in Traces /\ pos \in 0..Len(trace)
      BY DEF Inv, TypeOK
    <2>2. QED BY <1>3, <2>1, Geometry
  <1>5. ConfsFixed /\ CachesGood
    BY GoodCaches DEF Inv, TypeOK
  <1>6. /\ CacheGood(o.cache, Lines, NLlcSets, llc_conf)
        /\ o.evicted \in Lines
        /\ o.result \in [hit : BOOLEAN, eviction : BOOLEAN]
        /\ Accesses(SumStats(o.cache)) = Accesses(SumStats(llc)) + 1
        /\ RdAccesses(SumStats(o.cache)) =
                    RdAccesses(SumStats(llc)) + One(ref.type = "LD")
        /\ Evicted(SumStats(o.cache)) = Evicted(SumStats(llc))
                    + One(o.result = ACCESS_RESULT_MISS_EVICTION)
        /\ DoAllocate(ref.type, llc_conf.allocation_policy) =>
                (o.result.eviction <=> o.result = ACCESS_RESULT_MISS_EVICTION)
    <2> DEFINE line == ref.line
               type == ref.type
    <2>1. /\ llc_conf.n_ways \in Nat \ {0}
          /\ llc_conf.set_of \in [Lines -> 0..NLlcSets - 1]
          /\ NLlcSets \in Nat \ {0}
          /\ ZeroLine \in Lines
          /\ CacheGood(llc, Lines, NLlcSets, llc_conf)
          /\ line \in Lines /\ type \in MemRefTypes
          /\ o \in CacheAccess(llc, llc_conf, line, type, ZeroLine)
      BY <1>4, <1>5, Geometry, Confs DEF CachesGood
    <2> HIDE DEF line, type, ref
    <2>2. /\ CacheGood(o.cache, Lines, NLlcSets, llc_conf)
          /\ o.evicted \in Lines
          /\ o.result \in [hit : BOOLEAN, eviction : BOOLEAN]
          /\ Accesses(SumStats(o.cache)) = Accesses(SumStats(llc)) + 1
          /\ RdAccesses(SumStats(o.cache)) = RdAccesses(SumStats(llc)) + One(type = "LD")
          /\ Evicted(SumStats(o.cache)) = Evicted(SumStats(llc))
                    + One(o.result = ACCESS_RESULT_MISS_EVICTION)
          /\ DoAllocate(type, llc_conf.allocation_policy) =>
                (o.result.eviction <=> o.result = ACCESS_RESULT_MISS_EVICTION)
      BY <2>1, CacheAccessKeeps
    <2>3. QED BY <2>2 DEF line, type
  <1>7. /\ CacheGood(rrc', Pages, NRrcSets, rrc_conf)
        /\ RdAccesses(SumStats(rrc')) =
                RdAccesses(SumStats(rrc)) + IF o.result.eviction THEN 1 ELSE 0
        /\ Accesses(SumStats(rrc')) - RdAccesses(SumStats(rrc')) =
                Accesses(SumStats(rrc)) - RdAccesses(SumStats(rrc)) + One(ref.type = "LD")
        /\ o.result.eviction =>
                \E i \in DOMAIN rrc' : PageOf[o.evicted] \in rrc'[i].index
    <2>1. CacheGood(rrc, Pages, NRrcSets, rrc_conf)
      BY <1>5 DEF CachesGood
    <2> HIDE DEF ref
    <2>2. QED BY <1>2, <1>4, <1>5, <1>6, <2>1, AccessOfRrc
  <1>8. ConfsFixed'
    BY <1>3, <1>5 DEF ConfsFixed
  <1>9. CachesGood'
    BY <1>2, <1>3, <1>6, <1>7 DEF CachesGood, AccessParts
  <1>10. TypeOK' /\ SetsCoherent'
    <2>1. SetsCoherent' /\ (llc \in CacheType(Lines, NLlcSets, NLlcWays))'
                        /\ (rrc \in CacheType(Pages, NRrcSets, NRrcWays))'
      BY <1>8, <1>9, GoodCaches, PTL
    <2>2. /\ llc_result' \in [hit : BOOLEAN, eviction : BOOLEAN]
          /\ llc_evicted' \in Lines
          /\ last_use' \in [Lines -> Nat]
          /\ clock' \in Nat
      <3>1. last_use \in [Lines -> Nat] /\ clock \in Nat
        BY DEF Inv, TypeOK
      <3>2. last_use' = [last_use EXCEPT ![ref.line] = clock + 1]
        BY <1>2 DEF AccessParts
      <3> DEFINE now == clock + 1
                 line == ref.line
      <3>n. now \in Nat /\ last_use' = [last_use EXCEPT ![line] = now]
        BY <3>1, <3>2
      <3> HIDE DEF now, line
      <3>3. last_use' \in [Lines -> Nat]
        BY <3>1, <3>n
      <3>4. QED BY <1>2, <1>3, <1>6, <3>1, <3>3 DEF AccessParts
    <2>3. QED BY <1>3, <1>4, <2>1, <2>2 DEF Inv, TypeOK
  <1>11. EvictedPageIsLookedUp'
    <2>1. o.result = ACCESS_RESULT_MISS_EVICTION => o.result.eviction
      BY DEF ACCESS_RESULT_MISS_EVICTION
    <2>2. llc_result' = o.result /\ llc_evicted' = o.evicted
      BY <1>2 DEF AccessParts
    <2>3. QED BY <1>7, <2>1, <2>2 DEF EvictedPageIsLookedUp
  <1>12. StatsTally' /\ EvictionsAreAccesses'
    <2> DEFINE a == SumStats(llc)
               b == SumStats(o.cache)
               c == SumStats(rrc)
               d == SumStats(rrc')
               ld == One(ref.type = "LD")
               ev == One(o.result = ACCESS_RESULT_MISS_EVICTION)
               n == LoadsOf(trace, pos)
    <2>1. llc' = o.cache
      BY <1>2 DEF AccessParts
    <2>2. a \in StatsType /\ c \in StatsType
      BY <1>5, GoodTotals
    <2>3. /\ Accesses(a) \in Nat /\ RdAccesses(a) \in Nat /\ Evicted(a) \in Nat
          /\ Accesses(c) \in Nat /\ RdAccesses(c) \in Nat
      BY <2>2 DEF StatsType, Accesses, RdAccesses, Evicted, Hits, Misses
    <2>4. /\ Accesses(a) = pos
          /\ RdAccesses(a) = n
          /\ Accesses(c) - RdAccesses(c) = n
          /\ llc_conf.allocation_policy = "AORW" => RdAccesses(c) = Evicted(a)
          /\ Evicted(a) <= Accesses(a)
      BY DEF Inv, StatsTally, Loads, LoadsOf, EvictionsAreAccesses
    <2>5. LoadsOf(trace, pos + 1) = n + ld /\ n \in Nat
      BY <1>4, LoadsCount
    <2>6. ld \in Nat /\ ev \in {0, 1}
      BY DEF One
    <2>7. llc_conf.allocation_policy = "AORW" =>
            (IF o.result.eviction THEN 1 ELSE 0) = ev
      <3>1. llc_conf.allocation_policy = "AORW" =>
                DoAllocate(ref.type, llc_conf.allocation_policy)
        BY <1>4 DEF DoAllocate, MemRefTypes
      <3>2. QED BY <1>6, <3>1 DEF One
    <2>8. /\ Accesses(b) = Accesses(a) + 1
          /\ RdAccesses(b) = RdAccesses(a) + ld
          /\ Evicted(b) = Evicted(a) + ev
          /\ RdAccesses(d) = RdAccesses(c) + IF o.result.eviction THEN 1 ELSE 0
          /\ Accesses(d) - RdAccesses(d) = Accesses(c) - RdAccesses(c) + ld
      BY <1>6, <1>7
    <2> HIDE DEF a, b, c, d, ld, ev, n, ref
    <2>9. /\ Accesses(b) = pos + 1
          /\ RdAccesses(b) = n + ld
          /\ Accesses(d) - RdAccesses(d) = n + ld
          /\ Evicted(b) <= Accesses(b)
      BY <2>3, <2>4, <2>5, <2>6, <2>8
    <2>10. llc_conf.allocation_policy = "AORW" => RdAccesses(d) = Evicted(b)
      BY <2>3, <2>4, <2>6, <2>7, <2>8
    <2>11. EvictionsAreAccesses'
      BY <2>1, <2>9 DEF EvictionsAreAccesses, b
    <2>12. Loads(pos)' = n + ld
      BY <1>3, <2>5 DEF Loads, LoadsOf
    <2>13. StatsTally'
      BY <1>3, <2>1, <2>9, <2>10, <2>12 DEF StatsTally, b, d
    <2>14. QED BY <2>11, <2>13
  <1>13. LinesInLruOrder'
    <2>1. ASSUME llc_conf.eviction_policy = "LRU"
          PROVE  \A j \in DOMAIN llc :
                    Ordered(o.cache[j].lines, [last_use EXCEPT ![ref.line] = clock + 1])
      <3>1. /\ LinesInLruOrder /\ UsesArePast
            /\ last_use \in [Lines -> Nat] /\ clock \in Nat
        BY DEF Inv, TypeOK
      <3> HIDE DEF ref
      <3>2. QED BY <1>1, <1>4, <1>5, <2>1, <3>1, AccessKeepsOrder
    <2>2. DOMAIN llc' = DOMAIN llc
      <3>1. DOMAIN llc = 0..NLlcSets - 1
        BY <1>5, GoodTotals
      <3>2. DOMAIN llc' = 0..NLlcSets - 1
        <4>1. (DOMAIN llc = 0..NLlcSets - 1)'
          BY <1>8, <1>9, GoodTotals, PTL
        <4>2. QED BY <4>1
      <3>3. QED BY <3>1, <3>2
    <2>3. /\ llc' = o.cache
          /\ last_use' = [last_use EXCEPT ![ref.line] = clock + 1]
      BY <1>2 DEF AccessParts
    <2>4. QED BY <1>3, <2>1, <2>2, <2>3 DEF LinesInLruOrder
  <1>14. UsesArePast'
    <2>1. /\ last_use \in [Lines -> Nat] /\ clock \in Nat
          /\ \A line \in Lines : last_use[line] <= clock
      BY DEF Inv, TypeOK, UsesArePast
    <2>2. last_use' = [last_use EXCEPT ![ref.line] = clock + 1]
      BY <1>2 DEF AccessParts
    <2> HIDE DEF ref
    <2>3. \A line \in Lines : last_use'[line] = IF line = ref.line THEN clock + 1
                                                ELSE last_use[line]
      BY <2>1, <2>2
    <2>4. QED BY <1>3, <2>1, <2>3 DEF UsesArePast
  <1>15. QED
    BY <1>8, <1>10, <1>11, <1>12, <1>13, <1>14 DEF Inv

LEMMA InitHolds == Init => Inv
  <1>1. SUFFICES ASSUME Init PROVE Inv
    OBVIOUS
  <1>2. ConfsFixed
    BY <1>1 DEF Init, ConfsFixed
  <1>3. llc = NewCache(NLlcSets) /\ rrc = NewCache(NRrcSets)
    BY <1>1 DEF Init
  <1>4. /\ NLlcSets \in Nat /\ NRrcSets \in Nat
        /\ llc_conf.n_ways \in Nat /\ rrc_conf.n_ways \in Nat
    BY <1>2, Confs, Geometry
  <1>5. /\ CacheGood(llc, Lines, NLlcSets, llc_conf)
        /\ \A i \in 0..NLlcSets - 1 : llc[i].index = {} /\ llc[i].lines = <<>>
        /\ \A field \in Fields : SumStats(llc)[field] = 0
    BY <1>3, <1>4, NewCacheIsGood
  <1>6. /\ CacheGood(rrc, Pages, NRrcSets, rrc_conf)
        /\ \A field \in Fields : SumStats(rrc)[field] = 0
    BY <1>3, <1>4, NewCacheIsGood
  <1>7. CachesGood
    BY <1>5, <1>6 DEF CachesGood
  <1>8. SetsCoherent /\ llc \in CacheType(Lines, NLlcSets, NLlcWays)
                     /\ rrc \in CacheType(Pages, NRrcSets, NRrcWays)
    BY <1>2, <1>7, GoodCaches
  <1>9. /\ trace \in Traces
        /\ pass = "warm_up"
        /\ pos = 0
        /\ llc_result = ACCESS_RESULT_MISS
        /\ llc_evicted = ZeroLine
        /\ last_use = [line \in Lines |-> 0]
        /\ clock = 0
        /\ totals = ZeroTotals
    BY <1>1 DEF Init
  <1>10. TypeOK
    <2>1. /\ pos \in 0..Len(trace)
          /\ llc_evicted \in Lines
      BY <1>9, Geometry
    <2>2. llc_result \in [hit : BOOLEAN, eviction : BOOLEAN]
      BY <1>9 DEF ACCESS_RESULT_MISS
    <2>3. totals \in [DOMAIN ZeroTotals -> Nat]
      BY <1>9 DEF ZeroTotals
    <2>4. last_use \in [Lines -> Nat] /\ clock \in Nat
      BY <1>9
    <2>5. QED BY <1>8, <1>9, <2>1, <2>2, <2>3, <2>4 DEF TypeOK
  <1>11. EvictedPageIsLookedUp
    BY <1>9 DEF EvictedPageIsLookedUp, ACCESS_RESULT_MISS, ACCESS_RESULT_MISS_EVICTION
  <1>12. StatsTally /\ EvictionsAreAccesses
    <2>1. /\ Accesses(SumStats(llc)) = 0 /\ RdAccesses(SumStats(llc)) = 0
          /\ Evicted(SumStats(llc)) = 0
          /\ Accesses(SumStats(rrc)) = 0 /\ RdAccesses(SumStats(rrc)) = 0
      BY <1>5, <1>6, FieldsOfStats DEF Accesses, RdAccesses, Evicted, Hits, Misses
    <2>2. Loads(pos) = 0
      BY <1>9, LoadsCount DEF Loads, LoadsOf
    <2>3. QED BY <1>9, <2>1, <2>2 DEF StatsTally, EvictionsAreAccesses
  <1>13. LinesInLruOrder
    <2>1. DOMAIN llc = 0..NLlcSets - 1
      BY <1>2, <1>7, GoodTotals
    <2>2. QED BY <1>5, <2>1 DEF LinesInLruOrder, Ordered
  <1>14. UsesArePast
    BY <1>9 DEF UsesArePast
  <1>15. QED
    BY <1>2, <1>8, <1>10, <1>11, <1>12, <1>13, <1>14 DEF Inv

LEMMA EndWarmUpKeeps ==
    ASSUME Inv, EndWarmUp
    PROVE  Inv'
  <1>1. /\ trace' = trace /\ llc_conf' = llc_conf /\ rrc_conf' = rrc_conf
        /\ pass' = "counted" /\ pos' = 0
        /\ llc' = ClearStats(llc) /\ rrc' = ClearStats(rrc)
        /\ llc_result' = llc_result /\ llc_evicted' = llc_evicted
        /\ last_use' = last_use /\ clock' = clock /\ totals' = totals
    BY DEF EndWarmUp, confs
  <1>2. ConfsFixed /\ CachesGood
    BY GoodCaches DEF Inv, TypeOK
  <1>3. NLlcSets \in Nat /\ NRrcSets \in Nat
    BY Geometry
  <1>4. /\ CacheGood(llc', Lines, NLlcSets, llc_conf)
        /\ DOMAIN llc' = 0..NLlcSets - 1
        /\ \A i \in 0..NLlcSets - 1 : llc'[i].lines = llc[i].lines
        /\ \A field \in Fields : SumStats(llc')[field] = 0
    <2>1. CacheGood(llc, Lines, NLlcSets, llc_conf)
      BY <1>2 DEF CachesGood
    <2>2. ClearEffect(llc, ClearStats(llc), Lines, NLlcSets, llc_conf)
      BY <1>3, <2>1, ClearStatsKeeps
    <2>3. QED BY <1>1, <2>2 DEF ClearEffect
  <1>5. /\ CacheGood(rrc', Pages, NRrcSets, rrc_conf)
        /\ DOMAIN rrc' = 0..NRrcSets - 1
        /\ \A i \in 0..NRrcSets - 1 : rrc'[i].index = rrc[i].index
        /\ \A field \in Fields : SumStats(rrc')[field] = 0
    <2>1. CacheGood(rrc, Pages, NRrcSets, rrc_conf)
      BY <1>2 DEF CachesGood
    <2>2. ClearEffect(rrc, ClearStats(rrc), Pages, NRrcSets, rrc_conf)
      BY <1>3, <2>1, ClearStatsKeeps
    <2>3. QED BY <1>1, <2>2 DEF ClearEffect
  <1>6. ConfsFixed' /\ CachesGood'
    BY <1>1, <1>2, <1>4, <1>5 DEF ConfsFixed, CachesGood
  <1>7. SetsCoherent' /\ (llc \in CacheType(Lines, NLlcSets, NLlcWays))'
                      /\ (rrc \in CacheType(Pages, NRrcSets, NRrcWays))'
    BY <1>6, GoodCaches, PTL
  <1>8. TypeOK'
    <2>1. trace \in Traces /\ pos' \in 0..Len(trace)
      <3>1. trace \in Traces
        BY DEF Inv, TypeOK
      <3>2. QED BY <1>1, <3>1, Geometry
    <2>2. QED BY <1>1, <1>7, <2>1 DEF Inv, TypeOK
  <1>9. DOMAIN llc = 0..NLlcSets - 1 /\ DOMAIN rrc = 0..NRrcSets - 1
    BY <1>2, GoodTotals
  <1>10. EvictedPageIsLookedUp'
    BY <1>1, <1>5, <1>9 DEF Inv, EvictedPageIsLookedUp
  <1>11. StatsTally' /\ EvictionsAreAccesses'
    <2>1. /\ Accesses(SumStats(llc')) = 0 /\ RdAccesses(SumStats(llc')) = 0
          /\ Evicted(SumStats(llc')) = 0
          /\ Accesses(SumStats(rrc')) = 0 /\ RdAccesses(SumStats(rrc')) = 0
      BY <1>4, <1>5, FieldsOfStats DEF Accesses, RdAccesses, Evicted, Hits, Misses
    <2>2. Loads(pos)' = 0
      BY <1>1, LoadsCount DEF Loads, LoadsOf
    <2>3. QED BY <1>1, <2>1, <2>2 DEF StatsTally, EvictionsAreAccesses
  <1>12. LinesInLruOrder'
    BY <1>1, <1>4, <1>9 DEF Inv, LinesInLruOrder, Ordered
  <1>13. UsesArePast'
    BY <1>1 DEF Inv, UsesArePast
  <1>14. QED
    BY <1>6, <1>7, <1>8, <1>10, <1>11, <1>12, <1>13 DEF Inv

LEMMA AggregateKeeps ==
    ASSUME Inv, Aggregate
    PROVE  Inv'
  <1>1. /\ trace' = trace /\ llc_conf' = llc_conf /\ rrc_conf' = rrc_conf
        /\ pass' = "done" /\ pos' = pos /\ pos = Len(trace)
        /\ llc' = llc /\ rrc' = rrc
        /\ llc_result' = llc_result /\ llc_evicted' = llc_evicted
        /\ last_use' = last_use /\ clock' = clock
    BY DEF Aggregate, confs, caches
  <1>2. SumStats(llc) \in StatsType /\ SumStats(rrc) \in StatsType
    BY GoodCaches, GoodTotals DEF Inv, TypeOK
  <1> DEFINE a == SumStats(llc)
             b == SumStats(rrc)
  <1>3. totals' = [llc_n_hits |-> Hits(a), llc_n_accesses |-> Accesses(a),
                   llc_n_evictions |-> Evicted(a), rrc_n_hits |-> Hits(b),
                   rrc_n_accesses |-> Accesses(b), rrc_n_evictions |-> Evicted(b)]
    BY DEF Aggregate
  <1>4. \A e \in StatsType : /\ Hits(e) \in Nat /\ Accesses(e) \in Nat
                              /\ Evicted(e) \in Nat /\ Hits(e) <= Accesses(e)
    BY DEF StatsType, Hits, Misses, Accesses, Evicted
  <1>5. Accesses(a) = pos /\ Evicted(a) <= Accesses(a)
    BY DEF Inv, StatsTally, EvictionsAreAccesses
  <1> HIDE DEF a, b
  <1>6. /\ Hits(a) \in Nat /\ Accesses(a) \in Nat /\ Evicted(a) \in Nat
        /\ Hits(b) \in Nat /\ Accesses(b) \in Nat /\ Evicted(b) \in Nat
        /\ Hits(a) <= Accesses(a)
    BY <1>2, <1>4 DEF a, b
  <1>7. totals' \in [DOMAIN ZeroTotals -> Nat]
    BY <1>3, <1>6 DEF ZeroTotals
  <1>8. TypeOK'
    BY <1>1, <1>7 DEF Inv, TypeOK
  <1>9. StatsTally'
    <2>1. /\ totals'.llc_n_accesses = Len(trace)
          /\ totals'.llc_n_hits <= totals'.llc_n_accesses
          /\ totals'.llc_n_evictions <= totals'.llc_n_accesses
      BY <1>1, <1>3, <1>5, <1>6
    <2>2. QED BY <1>1, <2>1 DEF Inv, StatsTally, Loads
  <1>10. QED
    BY <1>1, <1>8, <1>9
    DEF Inv, ConfsFixed, SetsCoherent, EvictedPageIsLookedUp, EvictionsAreAccesses,
        LinesInLruOrder, UsesArePast

LEMMA StutterKeeps ==
    ASSUME Inv, UNCHANGED vars
    PROVE  Inv'
  BY DEF Inv, vars, confs, caches, ConfsFixed, TypeOK, SetsCoherent,
         EvictedPageIsLookedUp, StatsTally, Loads, EvictionsAreAccesses,
         LinesInLruOrder, UsesArePast

\* The strengthened invariant of the caches: in every reachable state the copies
\* of each set's contents agree, the counters tally, and lru_list is in the order
\* of last use (RRLLC::run_pass, Set::access).
THEOREM InvariantHolds == Spec => []Inv
  <1>1. Inv /\ [Next]_vars => Inv'
    BY AccessKeeps, EndWarmUpKeeps, AggregateKeeps, StutterKeeps DEF Next
  <1>2. QED BY InitHolds, <1>1, PTL DEF Spec

\* Every variable keeps its type: no set has more than n_ways lines.
THEOREM TypeCorrect == Spec => []TypeOK
  <1>1. Inv => TypeOK
    BY DEF Inv
  <1>2. QED BY <1>1, InvariantHolds, PTL

\* The sequence and the index of each set hold the same lines, each once and in
\* its own set (Set::access, whatever the policies).
THEOREM Coherence == Spec => []SetsCoherent
  <1>1. Inv => SetsCoherent
    BY DEF Inv
  <1>2. QED BY <1>1, InvariantHolds, PTL

\* The counters reported cover the second pass, and nothing of the first.
THEOREM Tally == Spec => []StatsTally
  <1>1. Inv => StatsTally
    BY DEF Inv
  <1>2. QED BY <1>1, InvariantHolds, PTL

\* After an eviction from the LLC the page of the line evicted is in the RRC.
THEOREM LooksUpEvicted == Spec => []EvictedPageIsLookedUp
  <1>1. Inv => EvictedPageIsLookedUp
    BY DEF Inv
  <1>2. QED BY <1>1, InvariantHolds, PTL

-----------------------------------------------------------------------------
(* The LLC implements the abstract cache.                                  *)

\* A sequence without repetitions has as many elements as places.
LEMMA DistinctCount ==
    ASSUME NEW A, NEW lines \in Seq(A), IsInjective(lines)
    PROVE  IsFiniteSet(ToSet(lines)) /\ Cardinality(ToSet(lines)) = Len(lines)
  <1>1. Len(lines) \in Nat /\ lines \in [1..Len(lines) -> ToSet(lines)]
    BY DEF ToSet
  <1>2. lines \in Surjection(1..Len(lines), ToSet(lines))
    BY <1>1 DEF Surjection, ToSet
  <1>3. lines \in Injection(1..Len(lines), ToSet(lines))
    BY <1>1 DEF Injection
  <1>4. ExistsBijection(1..Len(lines), ToSet(lines))
    BY <1>2, <1>3 DEF ExistsBijection, Bijection
  <1>5. QED BY <1>1, <1>4, FS_NatBijection, FS_CountingElements

\* What an access makes of a set's contents, as the abstract cache tells it.
Victim(victim, x, ep, use) ==
    /\ victim \in x
    /\ ep = "LRU" => \A other \in x : use[victim] <= use[other]

ContentsStep(x, line, y, n, ap, ep, use) ==
    \/ line \in x /\ y = x
    \/ line \notin x /\ ap = "AOWO" /\ y = x
    \/ line \notin x /\ Cardinality(x) < n /\ y = x \union {line}
    \/ /\ line \notin x /\ ~(Cardinality(x) < n)
       /\ \E victim \in x : /\ Victim(victim, x, ep, use)
                            /\ y = (x \ {victim}) \union {line}

\* The four cases of an access are the four actions of the abstract cache; the
\* victim under LRU is least recently used because lru_list is in that order.
LEMMA AccessSteps ==
    ASSUME NEW A, NEW n \in Nat \ {0}, NEW s, SetGood(s, A, n),
           NEW line \in A, NEW type \in MemRefTypes, NEW ap \in AllocationPolicies,
           NEW ep, NEW zero,
           NEW o \in SetAccess(s, line, type, n, ap, ep, zero),
           NEW use \in [A -> Nat], ep = "LRU" => Ordered(s.lines, use)
    PROVE  ContentsStep(s.index, line, o.set.index, n, ap, ep, use)
  <1>1. /\ s.lines \in Seq(A) /\ Len(s.lines) \in Nat
        /\ s.index = ToSet(s.lines)
        /\ s.n_ways_active = Len(s.lines)
        /\ s.n_ways_active \in 0..n
        /\ Cardinality(s.index) = Len(s.lines)
    BY DistinctCount DEF SetGood, SetType
  <1>2. CASE HitStep(s, line, type, ep, zero, o)
    BY <1>2 DEF HitStep, ContentsStep, ASet
  <1>3. CASE BypassStep(s, line, type, ap, zero, o)
    BY <1>3 DEF BypassStep, ContentsStep, ASet, DoAllocate, MemRefTypes, AllocationPolicies
  <1>4. CASE FillStep(s, line, type, n, ap, zero, o)
    <2>1. line \notin s.index /\ s.n_ways_active # n
          /\ o.set.index = s.index \union {line}
      BY <1>4 DEF FillStep, ASet
    <2>2. Cardinality(s.index) < n
      BY <1>1, <2>1
    <2>3. QED BY <2>1, <2>2 DEF ContentsStep
  <1>5. CASE ReplaceStep(s, line, type, n, ap, ep, o)
    <2>1. /\ line \notin s.index
          /\ s.n_ways_active = n
          /\ \E i \in 1..Len(s.lines) :
                /\ ep = "LRU" => i = 1
                /\ o.set.index = (s.index \ {s.lines[i]}) \union {line}
      BY <1>5 DEF ReplaceStep, ASet
    <2>2. PICK i \in 1..Len(s.lines) :
                /\ ep = "LRU" => i = 1
                /\ o.set.index = (s.index \ {s.lines[i]}) \union {line}
      BY <2>1
    <2>3. s.lines[i] \in s.index
      BY <1>1, <2>2 DEF ToSet
    <2>4. ASSUME ep = "LRU"
          PROVE  \A other \in s.index : use[s.lines[i]] <= use[other]
      <3>1. Len(s.lines) # 0 /\ i = 1
        BY <1>1, <2>2, <2>4
      <3>2. QED BY <1>1, <2>4, <3>1, FrontIsLeastRecent
    <2>5. Victim(s.lines[i], s.index, ep, use)
      BY <2>3, <2>4 DEF Victim
    <2>6. ~(Cardinality(s.index) < n)
      BY <1>1, <2>1
    <2>7. QED BY <2>1, <2>2, <2>3, <2>5, <2>6 DEF ContentsStep
  <1>6. QED BY <1>2, <1>3, <1>4, <1>5, AccessCases

\* The abstract cache counts the lines of a set with the same operator.
LEMMA CountIsCardinality ==
    ASSUME NEW S
    PROVE  LLC!Cardinality(S) = Cardinality(S)
  BY DEF LLC!Cardinality, Cardinality

\* One access of the LLC is a step of the abstract cache.
LEMMA AccessImplements ==
    ASSUME Inv, Access
    PROVE  LLC!Next
  <1> DEFINE ref == trace[pos + 1]
             line == ref.line
             i == llc_conf.set_of[line]
             s == llc[i]
             use == last_use
             ap == llc_conf.allocation_policy
             ep == llc_conf.eviction_policy
             n == llc_conf.n_ways
  <1>1. ConfsFixed /\ CachesGood /\ last_use \in [Lines -> Nat] /\ clock \in Nat
    BY GoodCaches DEF Inv, TypeOK
  <1>2. ref.line \in Lines /\ ref.type \in MemRefTypes
    <2>1. trace \in Traces /\ pos \in 0..Len(trace) /\ pos < Len(trace)
      BY DEF Inv, TypeOK, Access
    <2>2. Len(trace) \in Nat
      BY <2>1, Geometry
    <2>3. pos + 1 \in 1..Len(trace)
      BY <2>1, <2>2
    <2>4. QED BY <2>1, <2>3, Geometry
  <1>3. PICK p \in SetAccess(s, line, ref.type, n, ap, ep, ZeroLine) :
            llc' = [llc EXCEPT ![i] = p.set]
    BY DEF Access, CacheAccess
  <1>4. /\ llc \in [0..NLlcSets - 1 -> SetType(Lines, n)]
        /\ \A j \in 0..NLlcSets - 1 : GoodSet(llc[j], Lines, llc_conf, j)
        /\ DOMAIN llc = 0..NLlcSets - 1
    <2>1. NLlcSets \in Nat
      BY Geometry
    <2>2. QED BY <1>1, <2>1, GoodSets DEF CachesGood
  <1>5. i \in DOMAIN llc /\ n \in Nat \ {0} /\ ap \in AllocationPolicies
    BY <1>1, <1>2, <1>4, Geometry, Confs
  <1>6. SetGood(s, Lines, n) /\ (ep = "LRU" => Ordered(s.lines, use))
    BY <1>4, <1>5 DEF GoodSet, Inv, LinesInLruOrder
  <1>7. llc_conf' = llc_conf /\ clock' = clock + 1
        /\ last_use' = [last_use EXCEPT ![line] = clock + 1]
    BY DEF Access, confs
  <1> HIDE DEF s, use, n, ap, ep, ref
  <1>8. ContentsStep(s.index, line, p.set.index, n, ap, ep, use)
    BY <1>1, <1>2, <1>3, <1>5, <1>6, AccessSteps DEF use
  <1> DEFINE x == [j \in DOMAIN llc |-> llc[j].index]
             y == [j \in DOMAIN llc' |-> llc'[j].index]
  <1>9. /\ x[i] = s.index
        /\ y = [x EXCEPT ![i] = p.set.index]
    BY <1>3, <1>4, <1>5 DEF s
  <1>10. LLC!Tick(line)
    BY <1>7 DEF LLC!Tick
  <1>11. x' = y
    BY DEF x, y
  <1> HIDE DEF x, y
  <1>12. /\ LLC!Resident(line) <=> line \in x[i]
         /\ LLC!HasRoom(i) <=> Cardinality(x[i]) < n
         /\ llc_conf.set_of[line] = i
    BY CountIsCardinality DEF LLC!Resident, LLC!HasRoom, LLC!SetOf, x, n
  <1>13. CASE line \in x[i] /\ x' = x
    BY <1>2, <1>10, <1>12, <1>13 DEF LLC!Hit, LLC!Next, x
  <1>14. CASE line \notin x[i] /\ ap = "AOWO" /\ x' = x
    BY <1>2, <1>10, <1>12, <1>14 DEF LLC!Bypass, LLC!Next, x, ap
  <1>15. CASE /\ line \notin x[i] /\ Cardinality(x[i]) < n
              /\ x' = [x EXCEPT ![i] = x[i] \union {line}]
    BY <1>2, <1>10, <1>12, <1>15 DEF LLC!Fill, LLC!Next, LLC!SetOf, x
  <1>16. CASE /\ line \notin x[i] /\ ~(Cardinality(x[i]) < n)
              /\ \E victim \in x[i] :
                    /\ Victim(victim, x[i], ep, use)
                    /\ x' = [x EXCEPT ![i] = (x[i] \ {victim}) \union {line}]
    <2>1. PICK victim \in x[i] :
                    /\ Victim(victim, x[i], ep, use)
                    /\ x' = [x EXCEPT ![i] = (x[i] \ {victim}) \union {line}]
      BY <1>16
    <2>2. victim \in Lines
      BY <1>9, <1>6, <2>1 DEF SetGood, SetType
    <2>3. llc_conf.eviction_policy = "LRU" => LLC!LeastRecent(victim, i)
      BY <2>1 DEF Victim, LLC!LeastRecent, x, ep, use
    <2>4. LLC!Replace(line, victim)
      BY <1>10, <1>12, <1>16, <2>1, <2>3 DEF LLC!Replace, LLC!SetOf, x
    <2>5. QED BY <1>2, <2>2, <2>4 DEF LLC!Next
  <1>17. /\ ContentsStep(x[i], line, p.set.index, n, ap, ep, use)
         /\ x' = [x EXCEPT ![i] = p.set.index]
    BY <1>8, <1>9, <1>11
  <1>18. p.set.index = x[i] => x' = x
    BY <1>17 DEF x
  <1> DEFINE z == p.set.index
  <1> HIDE DEF x, z
  <1>19. \/ line \in x[i] /\ z = x[i]
         \/ line \notin x[i] /\ ap = "AOWO" /\ z = x[i]
         \/ line \notin x[i] /\ Cardinality(x[i]) < n /\ z = x[i] \union {line}
         \/ /\ line \notin x[i] /\ ~(Cardinality(x[i]) < n)
            /\ \E victim \in x[i] : /\ Victim(victim, x[i], ep, use)
                                    /\ z = (x[i] \ {victim}) \union {line}
    BY <1>17, Zenon DEF ContentsStep, z
  <1>20. x' = [x EXCEPT ![i] = z] /\ (z = x[i] => x' = x)
    BY <1>17, <1>18 DEF z
  <1>21. QED
    BY <1>13, <1>14, <1>15, <1>16, <1>19, <1>20, Zenon

\* Between accesses no set's contents change: clearing the counters keeps them.
LEMMA ContentsUnchanged ==
    ASSUME Inv, EndWarmUp \/ Aggregate \/ UNCHANGED vars
    PROVE  UNCHANGED LLC!vars
  <1>1. llc_conf' = llc_conf /\ last_use' = last_use /\ clock' = clock
    BY DEF EndWarmUp, Aggregate, vars, confs, caches
  <1>2. [i \in DOMAIN llc |-> llc[i].index]' = [i \in DOMAIN llc |-> llc[i].index]
    <2>1. CASE EndWarmUp
      <3>1. NLlcSets \in Nat /\ CacheGood(llc, Lines, NLlcSets, llc_conf)
            /\ DOMAIN llc = 0..NLlcSets - 1
        BY Geometry, GoodCaches, GoodTotals DEF Inv, TypeOK, CachesGood
      <3>2. ClearEffect(llc, ClearStats(llc), Lines, NLlcSets, llc_conf)
        BY <3>1, ClearStatsKeeps
      <3>3. QED BY <2>1, <3>1, <3>2 DEF EndWarmUp, ClearEffect
    <2>2. CASE Aggregate \/ UNCHANGED vars
      BY <2>2 DEF Aggregate, vars, caches
    <2>3. QED BY <2>1, <2>2
  <1>3. QED BY <1>1, <1>2 DEF LLC!vars

LEMMA InitImplements ==
    ASSUME Init
    PROVE  LLC!Init
  <1>1. /\ llc = NewCache(NLlcSets)
        /\ last_use = [line \in Lines |-> 0]
        /\ clock = 0
    BY DEF Init
  <1>2. QED BY <1>1 DEF LLC!Init, NewCache, NewSet

\* The LLC behaves as the abstract cache, whatever the trace, the geometry and
\* the policies: no set holds more than n_ways lines, and the victim under LRU
\* is the line of its set whose last access is oldest (Set::access).
THEOREM Refinement == Spec => LlcImplementsCache
  <1>1. Init => LLC!Init
    BY InitImplements
  <1>2. Inv /\ [Next]_vars => [LLC!Next]_LLC!vars
    BY AccessImplements, ContentsUnchanged DEF Next
  <1>3. QED BY <1>1, <1>2, InvariantHolds, PTL
            DEF Spec, LlcImplementsCache, LLC!Spec
=============================================================================
