---------------------------- MODULE SNQueuesProofs ----------------------------
(***************************************************************************)
(* Proofs about SNQueues, for every trace, memory size, number of buckets, *)
(* endurance and write factor.                                             *)
(*                                                                         *)
(* The inductive invariant is the conjunction of the type invariant and    *)
(* the four structural properties.  None is inductive alone: that a        *)
(* promotion stays within the queues needs the backpointers to be right,   *)
(* that the lowest queue moves by at most one needs the promoted frame to  *)
(* be in the queue it claims, and a swap partner is a frame only because   *)
(* the memoised queue is not empty.                                        *)
(***************************************************************************)
EXTENDS SNQueues, QueueLemmas, FiniteSetTheorems

USE ConstantsAssumption, MemoryAssumption DEF NoFrame

\* What the division by the number of buckets and the rounding up yield.
LEMMA IntervalIsPositive == bucket_interval \in Nat \ {0}
  <1>1. bucket_interval \in Int
    BY DEF bucket_interval
  <1>2. QED BY <1>1

\* (a + u - 1) div u is the ceiling of a / u, at most b when a is at most b * u.
LEMMA CeilingBound ==
    ASSUME NEW a \in Nat, NEW u \in Nat \ {0}, NEW b \in Nat, a <= b * u
    PROVE  (a + u - 1) \div u \in 0..b
  <1> DEFINE x == a + u - 1
             d == x \div u
  <1>1. x \in Nat /\ x < b * u + u
    OBVIOUS
  <1>2. d \in Int /\ u * d <= x /\ x < u * d + u
    <2> HIDE DEF x
    <2>1. QED BY <1>1, Z3
  <1>3. d >= 0
    <2> HIDE DEF x, d
    <2>1. CASE d < 0
      <3>1. u * d <= -u
        BY <1>2, <2>1, Z3
      <3>2. QED BY <3>1, <1>1, <1>2
    <2>2. QED BY <2>1, <1>2
  <1>4. d <= b
    <2> HIDE DEF x, d
    <2>1. CASE d > b
      <3>1. u * d >= u * b + u
        BY <1>2, <2>1, Z3
      <3>2. QED BY <3>1, <1>1, <1>2, Z3
    <2>2. QED BY <2>1, <1>2
  <1>5. QED BY <1>2, <1>3, <1>4

\* No write flips more bits than a line has.
LEMMA BfpwBound ==
    ASSUME NEW p \in AllPages
    PROVE  page_bfpw(p) \in 0..BitsPerLine
  <1>1. page_wf(p) \in 0..WfUnit
    BY DEF page_wf
  <1>2. /\ page_wf(p) * BitsPerLine \in Nat
        /\ page_wf(p) * BitsPerLine <= BitsPerLine * WfUnit
    BY <1>1, Z3
  <1>3. (page_wf(p) * BitsPerLine + WfUnit - 1) \div WfUnit \in 0..BitsPerLine
    BY <1>2, CeilingBound
  <1>4. QED BY <1>3 DEF page_bfpw, Bfpw

-----------------------------------------------------------------------------
(* What the operations of a promotion do to the queues.                    *)

\* A frame whose simulation goes on is in the queue it claims to be in.
LEMMA FrameIsQueued ==
    ASSUME TypeOK, QueuesPartitionFrames, status = "running", NEW f \in Frames
    PROVE  queue[f] \in Queues /\ Contains(queues_vec[queue[f]], f)
  BY DEF TypeOK, QueuesPartitionFrames

\* Erasing a frame takes it out of the queues and moves no other.
LEMMA ErasedQueues ==
    ASSUME TypeOK, QueuesPartitionFrames, status = "running", NEW f \in Frames
    PROVE  /\ Erased(f) \in [Queues -> Seq(Frames)]
           /\ \A q \in Queues : IsInjective(Erased(f)[q])
           /\ \A q \in Queues, g \in Frames :
                Contains(Erased(f)[q], g) <=> (Contains(queues_vec[q], g) /\ g # f)
  <1> DEFINE old == queue[f]
             s == queues_vec[old]
             t == RemoveAt(s, Place(s, f))
  <1>1. /\ old \in Queues /\ s \in Seq(Frames)
        /\ IsInjective(s) /\ Contains(s, f)
    BY FrameIsQueued DEF TypeOK, QueuesPartitionFrames
  <1>2. /\ t \in Seq(Frames) /\ IsInjective(t)
        /\ \A g \in Frames : Contains(t, g) <=> (Contains(s, g) /\ g # f)
    BY <1>1, ErasedElements
  <1>3. Erased(f) = [queues_vec EXCEPT ![old] = t]
    BY DEF Erased, Position, Place
  <1> HIDE DEF t
  <1>4. Erased(f) \in [Queues -> Seq(Frames)]
    BY <1>1, <1>2, <1>3 DEF TypeOK
  <1>5. \A q \in Queues : Erased(f)[q] = IF q = old THEN t ELSE queues_vec[q]
    BY <1>1, <1>3 DEF TypeOK
  <1>6. \A q \in Queues : IsInjective(Erased(f)[q])
    BY <1>2, <1>5 DEF QueuesPartitionFrames
  <1>7. ASSUME NEW q \in Queues, NEW g \in Frames
        PROVE  Contains(Erased(f)[q], g) <=> (Contains(queues_vec[q], g) /\ g # f)
    <2>1. CASE q = old
      BY <2>1, <1>2, <1>5
    <2>2. CASE q # old
      BY <2>2, <1>5 DEF QueuesPartitionFrames
    <2>3. QED BY <2>1, <2>2
  <1>8. QED BY <1>4, <1>6, <1>7

\* A frame that does not leave the last queue is put into the next one.
LEMMA EmplacedQueues ==
    ASSUME TypeOK, QueuesPartitionFrames, status = "running", NEW f \in Frames,
           ~MaxedOut(f)
    PROVE  /\ queue[f] + 1 \in Queues
           /\ Emplaced(f) \in [Queues -> Seq(Frames)]
           /\ \A q \in Queues : IsInjective(Emplaced(f)[q])
           /\ \A q \in Queues, g \in Frames :
                Contains(Emplaced(f)[q], g) <=>
                    IF g = f THEN q = queue[f] + 1 ELSE Contains(queues_vec[q], g)
           /\ \A q \in Queues : q # queue[f] + 1 => Emplaced(f)[q] = Erased(f)[q]
           /\ Emplaced(f)[queue[f] + 1] # <<>>
  <1> DEFINE new == queue[f] + 1
             s == Erased(f)[new]
             t == Append(s, f)
  <1>1. new \in Queues
    BY FrameIsQueued DEF MaxedOut, Queues
  <1>2. /\ Erased(f) \in [Queues -> Seq(Frames)]
        /\ \A q \in Queues : IsInjective(Erased(f)[q])
        /\ \A q \in Queues, g \in Frames :
            Contains(Erased(f)[q], g) <=> (Contains(queues_vec[q], g) /\ g # f)
    BY ErasedQueues
  <1>3. Emplaced(f) = [Erased(f) EXCEPT ![new] = t]
    BY DEF Emplaced
  <1>4. s \in Seq(Frames) /\ IsInjective(s) /\ ~Contains(s, f)
    BY <1>1, <1>2
  <1>5. /\ t \in Seq(Frames) /\ t # <<>> /\ IsInjective(t)
        /\ \A g \in Frames : Contains(t, g) <=> (Contains(s, g) \/ g = f)
    BY <1>4, AppendedElements
  <1> HIDE DEF t, new
  <1>6. /\ Emplaced(f) \in [Queues -> Seq(Frames)]
        /\ \A q \in Queues :
            Emplaced(f)[q] = IF q = new THEN t ELSE Erased(f)[q]
    BY <1>1, <1>2, <1>3, <1>5
  <1>7. \A q \in Queues : IsInjective(Emplaced(f)[q])
    BY <1>2, <1>5, <1>6
  <1>8. ASSUME NEW q \in Queues, NEW g \in Frames
        PROVE  Contains(Emplaced(f)[q], g) <=>
                    IF g = f THEN q = new ELSE Contains(queues_vec[q], g)
    <2>1. CASE q = new
      BY <2>1, <1>1, <1>2, <1>5, <1>6
    <2>2. CASE q # new
      BY <2>2, <1>2, <1>6
    <2>3. QED BY <2>1, <2>2
  <1>9. Emplaced(f)[new] # <<>>
    BY <1>1, <1>5, <1>6
  <1>10. QED BY <1>1, <1>6, <1>7, <1>8, <1>9 DEF new

\* The memoised queue is right again before the swap partner is looked up.
LEMMA LowestAfterPromotion ==
    ASSUME TypeOK, QueuesPartitionFrames, LowestActiveIsLowest,
           status = "running", NEW f \in Frames, ~MaxedOut(f)
    PROVE  LET l == LowestAfterErase(f)
           IN /\ l \in Queues
              /\ l <= queue[f] + 1
              /\ Emplaced(f)[l] # <<>>
              /\ \A q \in Queues : q < l => Emplaced(f)[q] = <<>>
  <1> DEFINE low == lowest_active_queue
             old == queue[f]
  <1>1. /\ low \in Queues /\ queues_vec[low] # <<>>
        /\ \A q \in Queues : q < low => queues_vec[q] = <<>>
    BY DEF LowestActiveIsLowest
  <1>2. old \in Queues /\ Contains(queues_vec[old], f)
    BY FrameIsQueued
  <1>3. /\ old + 1 \in Queues
        /\ \A q \in Queues : q # old + 1 => Emplaced(f)[q] = Erased(f)[q]
        /\ Emplaced(f)[old + 1] # <<>>
    BY EmplacedQueues
  <1>4. /\ Erased(f) \in [Queues -> Seq(Frames)]
        /\ \A q \in Queues, g \in Frames :
            Contains(Erased(f)[q], g) <=> (Contains(queues_vec[q], g) /\ g # f)
    BY ErasedQueues
  <1>5. low <= old
    <2>1. queues_vec[old] # <<>>
      BY <1>2, EmptyHoldsNothing DEF TypeOK
    <2>2. QED BY <2>1, <1>1, <1>2 DEF Queues
  <1>6. \A q \in Queues : q < low => Erased(f)[q] = <<>>
    <2>1. ASSUME NEW q \in Queues, q < low PROVE Erased(f)[q] = <<>>
      <3>1. \A g \in Frames : ~Contains(queues_vec[q], g)
        BY <1>1, <2>1, EmptyHoldsNothing DEF TypeOK
      <3>2. \A g \in Frames : ~Contains(Erased(f)[q], g)
        BY <1>4, <3>1
      <3>3. QED BY <1>4, <3>2, EmptyHoldsNothing
    <2>2. QED BY <2>1
  <1>7. CASE Erased(f)[low] = <<>>
    <2>1. low = old
      <3>1. PICK g \in Frames : Contains(queues_vec[low], g)
        BY <1>1, EmptyHoldsNothing DEF TypeOK
      <3>2. ~Contains(Erased(f)[low], g)
        BY <1>1, <1>4, <1>7, EmptyHoldsNothing
      <3>3. g = f
        BY <1>1, <1>4, <3>1, <3>2
      <3>4. QED BY <1>1, <3>1, <3>3 DEF QueuesPartitionFrames
    <2>2. LowestAfterErase(f) = old + 1
      BY <1>7, <2>1 DEF LowestAfterErase
    <2>3. \A q \in Queues : q < old + 1 => Erased(f)[q] = <<>>
      BY <1>2, <1>6, <1>7, <2>1 DEF Queues
    <2>4. QED BY <1>2, <1>3, <2>2, <2>3 DEF Queues
  <1>8. CASE Erased(f)[low] # <<>>
    <2>1. LowestAfterErase(f) = low
      BY <1>8 DEF LowestAfterErase
    <2>2. \A q \in Queues : q <= low => Emplaced(f)[q] = Erased(f)[q]
      BY <1>1, <1>2, <1>3, <1>5 DEF Queues
    <2>3. QED BY <1>1, <1>2, <1>5, <1>6, <1>8, <2>1, <2>2 DEF Queues
  <1>9. QED BY <1>7, <1>8

\* The swap partner is another frame, one of the lowest active queue; rotating
\* that queue changes what no queue holds.
LEMMA SwapPartnerFacts ==
    ASSUME TypeOK, QueuesPartitionFrames, LowestActiveIsLowest,
           status = "running", NEW f \in Frames, ~MaxedOut(f),
           LowestAfterErase(f) < queue[f] + 1
    PROVE  LET l == LowestAfterErase(f)
               Q == [Emplaced(f) EXCEPT ![l] = Rotate(@)]
           IN /\ SwapPartner(f) \in Frames \ {f}
              /\ queue[SwapPartner(f)] = l
              /\ Q \in [Queues -> Seq(Frames)]
              /\ \A q \in Queues : IsInjective(Q[q])
              /\ \A q \in Queues, g \in Frames :
                    Contains(Q[q], g) <=> Contains(Emplaced(f)[q], g)
              /\ \A q \in Queues : Q[q] = <<>> <=> Emplaced(f)[q] = <<>>
  <1> DEFINE l == LowestAfterErase(f)
             s == Emplaced(f)[l]
             t == Rotate(s)
             Q == [Emplaced(f) EXCEPT ![l] = t]
  <1>1. l \in Queues /\ s # <<>>
    BY LowestAfterPromotion
  <1>2. /\ Emplaced(f) \in [Queues -> Seq(Frames)]
        /\ \A q \in Queues : IsInjective(Emplaced(f)[q])
        /\ \A q \in Queues, g \in Frames :
            Contains(Emplaced(f)[q], g) <=>
                IF g = f THEN q = queue[f] + 1 ELSE Contains(queues_vec[q], g)
    BY EmplacedQueues
  <1>3. /\ Head(s) \in Frames
        /\ Contains(s, Head(s))
        /\ t \in Seq(Frames) /\ t # <<>> /\ IsInjective(t)
        /\ \A g \in Frames : Contains(t, g) <=> Contains(s, g)
    BY <1>1, <1>2, RotatedElements DEF Rotate
  <1>4. SwapPartner(f) = Head(s)
    BY DEF SwapPartner
  <1>5. l # queue[f] + 1
    BY <1>1, FrameIsQueued DEF Queues
  <1>6. Head(s) # f /\ Contains(queues_vec[l], Head(s))
    BY <1>1, <1>2, <1>3, <1>5
  <1>7. queue[Head(s)] = l
    BY <1>1, <1>3, <1>6 DEF QueuesPartitionFrames
  <1> HIDE DEF t, l
  <1>8. /\ Q \in [Queues -> Seq(Frames)]
        /\ \A q \in Queues : Q[q] = IF q = l THEN t ELSE Emplaced(f)[q]
    BY <1>1, <1>2, <1>3
  <1> HIDE DEF Q
  <1>9. \A q \in Queues, g \in Frames :
            Contains(Q[q], g) <=> Contains(Emplaced(f)[q], g)
    BY <1>1, <1>3, <1>8
  <1>10. \A q \in Queues : IsInjective(Q[q])
    BY <1>2, <1>3, <1>8
  <1>11. \A q \in Queues : Q[q] = <<>> <=> Emplaced(f)[q] = <<>>
    BY <1>1, <1>3, <1>8
  <1>12. QED BY <1>3, <1>4, <1>6, <1>7, <1>8, <1>9, <1>10, <1>11 DEF Q, l, t

-----------------------------------------------------------------------------
(* The inductive invariant.                                                *)

\* One timestamp is written per promotion, up to the number asked for.
EventsCounted ==
    n_events = IF total_n_promotions <= NPromotionsToEventTrace
               THEN total_n_promotions ELSE NPromotionsToEventTrace

\* The frame that ended the simulation stood at the end of the last queue, and
\* its write was compared with the memoised most-written frame.
WornFrameIsLast ==
    status = "worn_out" =>
        /\ most_written_frame \in Frames
        /\ \E f \in Frames :
            /\ queue[f] = NBuckets - 1
            /\ interval_bfs[f] >= bucket_interval
            /\ lifetime_bfs[f] <= lifetime_bfs[most_written_frame]

Inv ==
    /\ TypeOK
    /\ QueuesPartitionFrames
    /\ LowestActiveIsLowest
    /\ MappingConsistent
    /\ WearAccounting
    /\ EventsCounted
    /\ WornFrameIsLast

\* The lists hold every frame, once, after the scan and the prefill.
LEMMA InitialQueue ==
    ASSUME Init
    PROVE  /\ queues_vec \in [Queues -> Seq(Frames)]
           /\ \A q \in Queues : IsInjective(queues_vec[q])
           /\ \A q \in Queues, f \in Frames : Contains(queues_vec[q], f) <=> q = 0
           /\ queues_vec[0] # <<>>
           /\ \A q \in Queues : q # 0 => queues_vec[q] = <<>>
  <1> DEFINE n == n_pages_mem
             free == n_pages_mem - n_pages_rss
             place(i) == IF i <= free THEN n + 1 - i ELSE i - free
             first == [i \in Frames |-> place(i)]
  <1>1. n_pages_rss \in Nat \ {0} /\ n \in Nat \ {0} /\ free \in 0..n - 1
    <2>1. n_pages_rss \in Nat \ {0}
      BY FS_CardinalityType, FS_EmptySet DEF n_pages_rss
    <2>2. QED BY <2>1
  <1>2. /\ queues_vec \in [Queues -> {first, <<>>}]
        /\ queues_vec[0] = first
        /\ \A q \in Queues : q # 0 => queues_vec[q] = <<>>
        /\ 0 \in Queues
    BY DEF Init, Queues
  <1>3. \A i \in Frames : place(i) \in Frames
    BY <1>1 DEF Frames
  <1>4. first \in Seq(Frames) /\ Len(first) = n
    BY <1>1, <1>3 DEF Frames
  <1>5. DOMAIN first = 1..n /\ \A i \in 1..n : first[i] = place(i)
    BY DEF Frames
  <1>6. IsInjective(first)
    BY <1>1, <1>5 DEF IsInjective
  <1>7. \A f \in Frames : Contains(first, f)
    <2>1. ASSUME NEW f \in Frames PROVE Contains(first, f)
      <3>1. CASE f <= n_pages_rss
        <4>1. f + free \in 1..n /\ first[f + free] = f
          BY <1>1, <1>5, <3>1 DEF Frames
        <4>2. QED BY <4>1, <1>4 DEF Contains
      <3>2. CASE f > n_pages_rss
        <4>1. n + 1 - f \in 1..n /\ first[n + 1 - f] = f
          BY <1>1, <1>5, <3>2 DEF Frames
        <4>2. QED BY <4>1, <1>4 DEF Contains
      <3>3. QED BY <3>1, <3>2, <1>1 DEF Frames
    <2>2. QED BY <2>1
  <1>8. first # <<>>
    BY <1>1, <1>4, EmptySeq
  <1> HIDE DEF first
  <1>9. queues_vec \in [Queues -> Seq(Frames)]
    <2>1. \A q \in Queues : queues_vec[q] \in Seq(Frames)
      BY <1>2, <1>4, EmptySeq
    <2>2. QED BY <1>2, <2>1
  <1>10. IsInjective(<<>>)
    BY DEF IsInjective
  <1>11. \A q \in Queues : IsInjective(queues_vec[q])
    BY <1>2, <1>6, <1>10
  <1>12. \A f \in Frames : ~Contains(<<>>, f)
    BY EmptySeq, EmptyHoldsNothing
  <1>13. QED BY <1>2, <1>7, <1>8, <1>9, <1>11, <1>12

\* The scan of the first pass establishes the invariant.
LEMMA InitInv ==
    ASSUME Init
    PROVE  Inv
  <1>1. n_pages_rss \in Nat \ {0} /\ n_pages_mem \in Nat \ {0}
    <2>1. n_pages_rss \in Nat \ {0}
      BY FS_CardinalityType, FS_EmptySet DEF n_pages_rss
    <2>2. QED BY <2>1
  <1>2. PICK first_touch \in Bijection(1..n_pages_rss, Pages) :
            /\ page_addr = [f \in Frames |->
                    IF f <= n_pages_rss THEN first_touch[f] ELSE Zero]
            /\ page_map = [p \in AllPages |->
                    IF p \in Pages
                    THEN CHOOSE f \in 1..n_pages_rss : first_touch[f] = p
                    ELSE NoFrame]
    BY DEF Init
  <1>3. /\ first_touch \in [1..n_pages_rss -> Pages]
        /\ \A f, g \in 1..n_pages_rss : first_touch[f] = first_touch[g] => f = g
        /\ \A p \in Pages : \E f \in 1..n_pages_rss : first_touch[f] = p
    BY <1>2 DEF Bijection, Injection, Surjection, IsInjective
  <1>4. 1..n_pages_rss \subseteq Frames
    BY <1>1 DEF Frames
  <1>5. \A p \in Pages : /\ page_map[p] \in 1..n_pages_rss
                         /\ first_touch[page_map[p]] = p
    BY <1>2, <1>3 DEF AllPages
  <1>6. TypeOK
    <2>1. page_addr \in [Frames -> AllPages]
      BY <1>1, <1>2, <1>3 DEF AllPages, Frames
    <2>2. page_map \in [AllPages -> Frames \union {NoFrame}]
      BY <1>2, <1>4, <1>5
    <2>3. \A p \in Pages : page_map[p] \in Frames
      BY <1>4, <1>5
    <2>4. 0 \in Queues
      BY DEF Queues
    <2>5. queues_vec \in [Queues -> Seq(Frames)]
      BY InitialQueue
    <2>6. /\ interval_bfs \in [Frames -> Nat]
          /\ lifetime_bfs \in [Frames -> Nat]
          /\ queue \in [Frames -> Queues]
      BY <2>4 DEF Init
    <2>7. /\ lowest_active_queue \in 0..NBuckets
          /\ n_events \in 0..NPromotionsToEventTrace
          /\ total_n_promotions \in Nat /\ system_time \in Nat
      BY DEF Init
    <2>8. /\ n_iterations \in NIterationsChoices
          /\ pages_in_trace \in SUBSET Pages
          /\ written_this_pass \in SUBSET Pages
          /\ dangling \in SUBSET AllPages
          /\ most_written_frame \in Frames \union {NoFrame}
          /\ status \in {"running", "worn_out", "iterations_done", "crashed"}
      BY DEF Init
    <2>9. QED BY <2>1, <2>2, <2>3, <2>5, <2>6, <2>7, <2>8 DEF TypeOK
  <1>7. QueuesPartitionFrames
    <2>1. \A f \in Frames : queue[f] = 0
      BY DEF Init
    <2>2. 0 \in Queues
      BY DEF Queues
    <2>3. QED BY <2>1, <2>2, InitialQueue DEF QueuesPartitionFrames
  <1>8. LowestActiveIsLowest
    <2>1. lowest_active_queue = 0
      BY DEF Init
    <2>2. 0 \in Queues /\ \A q \in Queues : ~(q < 0)
      BY DEF Queues
    <2>3. QED BY <2>1, <2>2, InitialQueue DEF LowestActiveIsLowest
  <1>9. MappingConsistent
    <2>1. ASSUME Zero \notin Pages, NEW p \in Pages, NEW f \in Frames
          PROVE  page_map[p] = f <=> page_addr[f] = p
      <3>1. CASE f <= n_pages_rss
        <4>1. f \in 1..n_pages_rss /\ page_addr[f] = first_touch[f]
          BY <1>1, <1>2, <3>1 DEF Frames
        <4>2. QED BY <4>1, <1>3, <1>5
      <3>2. CASE ~(f <= n_pages_rss)
        <4>1. f \notin 1..n_pages_rss /\ page_addr[f] = Zero
          BY <1>1, <1>2, <3>2 DEF Frames
        <4>2. QED BY <4>1, <1>5, <2>1
      <3>3. QED BY <3>1, <3>2
    <2>2. QED BY <2>1 DEF MappingConsistent
  <1>10. WearAccounting
    <2>1. \A f \in Frames : 0 * bucket_interval + 0 = 0 /\ 0 * MaxBfpw = 0
      BY IntervalIsPositive DEF MaxBfpw
    <2>2. QED BY <2>1 DEF Init, WearAccounting
  <1>11. EventsCounted /\ WornFrameIsLast
    BY DEF Init, EventsCounted, WornFrameIsLast
  <1>12. QED BY <1>6, <1>7, <1>8, <1>9, <1>10, <1>11 DEF Inv

-----------------------------------------------------------------------------
(* The steps.                                                              *)

\* The wear counters of a frame in queue q agree, after w promotions.
Agree(q, i, l, w) ==
    l \in q * bucket_interval + i..q * bucket_interval + i + w * MaxBfpw

\* WearAccounting says that the counters of every frame agree.
LEMMA WearIsAgreement ==
    ASSUME TypeOK
    PROVE  /\ status # "worn_out" =>
                (WearAccounting <=> \A f \in Frames :
                    Agree(queue[f], interval_bfs[f], lifetime_bfs[f], queue[f]))
           /\ status = "worn_out" =>
                (WearAccounting <=> \A f \in Frames :
                    Agree(queue[f], interval_bfs[f], lifetime_bfs[f], queue[f] + 1))
  BY DEF WearAccounting, Agree

\* Bit flips counted for both keep the agreement; a promotion moves an
\* interval's worth into the queue and one write into the slack.
LEMMA AgreementKept ==
    ASSUME NEW q \in Nat, NEW i \in Nat, NEW l \in Nat, NEW w \in Nat,
           NEW b \in 0..MaxBfpw, NEW c \in Nat, Agree(q, i, l, w)
    PROVE  /\ Agree(q, i + c, l + c, w)
           /\ Agree(q, i, l + b, w + 1)
           /\ Agree(q, i, l, w + 1)
           /\ i >= bucket_interval =>
                Agree(q + 1, i - bucket_interval + c, l + c + b, w + 1)
  <1> DEFINE B == bucket_interval
             M == MaxBfpw
  <1>1. B \in Nat /\ M \in Nat
    BY IntervalIsPositive DEF MaxBfpw
  <1> HIDE DEF B, M
  <1>2. /\ q * B \in Nat /\ w * M \in Nat
        /\ (q + 1) * B = q * B + B
        /\ (w + 1) * M = w * M + M
    BY <1>1, Z3
  <1> DEFINE x == q * B
             y == w * M
             x1 == (q + 1) * B
             y1 == (w + 1) * M
  <1>3. x \in Nat /\ y \in Nat /\ x1 = x + B /\ y1 = y + M
    BY <1>2
  <1>4. l \in x + i..x + i + y
    BY DEF Agree, B, M
  <1>5. b \in 0..M
    BY DEF M
  <1> HIDE DEF x, y, x1, y1
  <1>6. /\ l + c \in x + (i + c)..x + (i + c) + y
        /\ l + b \in x + i..x + i + y1
        /\ l \in x + i..x + i + y1
        /\ i >= B => l + c + b \in x1 + (i - B + c)..x1 + (i - B + c) + y1
    BY <1>1, <1>3, <1>4, <1>5
  <1>7. QED BY <1>6 DEF Agree, B, M, x, y, x1, y1

\* The three ways a frame's counters move.
LEMMA CountedAgreement ==
    ASSUME NEW q \in Nat, NEW i \in Nat, NEW l \in Nat, NEW w \in Nat,
           NEW c \in Nat, Agree(q, i, l, w)
    PROVE  Agree(q, i + c, l + c, w)
  <1>1. 0 \in 0..MaxBfpw
    BY DEF MaxBfpw
  <1>2. QED BY <1>1, AgreementKept

\* A write that counts for the life only is one more write of slack.
LEMMA WornAgreement ==
    ASSUME NEW q \in Nat, NEW i \in Nat, NEW l \in Nat, NEW w \in Nat,
           NEW b \in 0..MaxBfpw, Agree(q, i, l, w)
    PROVE  Agree(q, i, l + b, w + 1) /\ Agree(q, i, l, w + 1)
  <1>1. 0 \in Nat
    OBVIOUS
  <1>2. QED BY <1>1, AgreementKept

\* A promotion turns an interval's worth into one more queue.
LEMMA PromotedAgreement ==
    ASSUME NEW q \in Nat, NEW i \in Nat, NEW l \in Nat, NEW w \in Nat,
           NEW b \in 0..MaxBfpw, NEW c \in Nat, Agree(q, i, l, w),
           i >= bucket_interval
    PROVE  Agree(q + 1, i - bucket_interval + c, l + c + b, w + 1)
  BY AgreementKept

\* What holds before any write of the main loop.
LEMMA BeforeWrite ==
    ASSUME Inv, status = "running", NEW p \in pages_in_trace
    PROVE  /\ p \in Pages
           /\ page_map[p] \in Frames
           /\ queue[page_map[p]] \in Queues
           /\ page_bfpw(p) \in 0..MaxBfpw
           /\ \A f \in Frames :
                Agree(queue[f], interval_bfs[f], lifetime_bfs[f], queue[f])
           /\ \A f \in Frames : Contains(queues_vec[queue[f]], f)
  <1>1. p \in Pages /\ page_map[p] \in Frames /\ queue[page_map[p]] \in Queues
    BY DEF Inv, TypeOK
  <1>2. page_bfpw(p) \in 0..MaxBfpw
    BY <1>1, BfpwBound DEF MaxBfpw, AllPages
  <1>3. QED BY <1>1, <1>2, WearIsAgreement DEF Inv, QueuesPartitionFrames

\* A write that promotes nothing only moves the counters of its frame.
LEMMA AccumulateInv ==
    ASSUME Inv, NEW p \in pages_in_trace, Accumulate(p)
    PROVE  Inv'
  <1> DEFINE fm == page_map[p]
             b == page_bfpw(p)
  <1>1. /\ status = "running" /\ status' = "running"
        /\ interval_bfs' = [interval_bfs EXCEPT ![fm] = @ + b]
        /\ lifetime_bfs' = [lifetime_bfs EXCEPT ![fm] = @ + b]
        /\ most_written_frame' \in {fm, most_written_frame}
        /\ written_this_pass' = written_this_pass \union {p}
        /\ UNCHANGED <<n_iterations, pages_in_trace, system_time, queues_vec,
                       queue, page_addr, page_map, dangling, lowest_active_queue,
                       total_n_promotions, n_events>>
    BY DEF Accumulate, CountWrite, trace_vars
  <1>2. /\ p \in Pages /\ fm \in Frames /\ b \in 0..MaxBfpw /\ b \in Nat
        /\ \A f \in Frames :
                Agree(queue[f], interval_bfs[f], lifetime_bfs[f], queue[f])
    BY <1>1, BeforeWrite DEF MaxBfpw
  <1> HIDE DEF fm, b
  <1>3. TypeOK'
    <2>1. interval_bfs' \in [Frames -> Nat] /\ lifetime_bfs' \in [Frames -> Nat]
      BY <1>1, <1>2 DEF Inv, TypeOK
    <2>2. /\ most_written_frame' \in Frames \union {NoFrame}
          /\ written_this_pass' \in SUBSET Pages
      BY <1>1, <1>2 DEF Inv, TypeOK
    <2>3. QED BY <1>1, <2>1, <2>2 DEF Inv, TypeOK
  <1>4. WearAccounting'
    <2>1. ASSUME NEW f \in Frames
          PROVE  Agree(queue[f], interval_bfs'[f], lifetime_bfs'[f], queue[f])
      <3>1. /\ queue[f] \in Nat /\ interval_bfs[f] \in Nat /\ lifetime_bfs[f] \in Nat
        BY DEF Inv, TypeOK, Queues
      <3>2. CASE f = fm
        <4>1. /\ interval_bfs'[f] = interval_bfs[f] + b
              /\ lifetime_bfs'[f] = lifetime_bfs[f] + b
          BY <1>1, <3>2 DEF Inv, TypeOK
        <4>2. QED BY <1>2, <3>1, <4>1, CountedAgreement
      <3>3. CASE f # fm
        <4>1. interval_bfs'[f] = interval_bfs[f] /\ lifetime_bfs'[f] = lifetime_bfs[f]
          BY <1>1, <3>3 DEF Inv, TypeOK
        <4>2. QED BY <1>2, <4>1
      <3>4. QED BY <3>2, <3>3
    <2>2. \A f \in Frames :
            Agree(queue'[f], interval_bfs'[f], lifetime_bfs'[f], queue'[f])
      BY <1>1, <2>1
    <2>3. QED BY <1>1, <2>2 DEF WearAccounting, Agree
  <1>5. QED BY <1>1, <1>3, <1>4 DEF Inv, QueuesPartitionFrames, LowestActiveIsLowest,
                MappingConsistent, EventsCounted, WornFrameIsLast

LEMMA MaxOutInv ==
    ASSUME Inv, NEW p \in pages_in_trace, MaxOut(p)
    PROVE  Inv'
  <1> DEFINE fm == page_map[p]
             b == page_bfpw(p)
  <1>1. /\ status = "running" /\ status' = "worn_out"
        /\ HitInterval(fm) /\ MaxedOut(fm)
        /\ queues_vec' = Erased(fm)
        /\ lowest_active_queue' = LowestAfterErase(fm)
        /\ dangling' = dangling \union {p}
        /\ lifetime_bfs' = [lifetime_bfs EXCEPT ![fm] = @ + b]
        /\ most_written_frame' =
            IF \/ most_written_frame = NoFrame
               \/ lifetime_bfs'[fm] > lifetime_bfs'[most_written_frame]
            THEN fm
            ELSE most_written_frame
        /\ written_this_pass' = written_this_pass \union {p}
        /\ UNCHANGED <<n_iterations, pages_in_trace, system_time, interval_bfs,
                       queue, page_addr, page_map, total_n_promotions, n_events>>
    BY DEF MaxOut, CountWrite, trace_vars
  <1>2. /\ p \in Pages /\ fm \in Frames /\ b \in 0..MaxBfpw /\ b \in Nat
        /\ \A f \in Frames :
                Agree(queue[f], interval_bfs[f], lifetime_bfs[f], queue[f])
        /\ \A f \in Frames : Contains(queues_vec[queue[f]], f)
    BY <1>1, BeforeWrite DEF MaxBfpw
  <1>3. /\ Erased(fm) \in [Queues -> Seq(Frames)]
        /\ \A q \in Queues : IsInjective(Erased(fm)[q])
        /\ \A q \in Queues, g \in Frames :
            Contains(Erased(fm)[q], g) <=> (Contains(queues_vec[q], g) /\ g # fm)
    BY <1>1, <1>2, ErasedQueues DEF Inv
  <1> HIDE DEF fm, b
  <1>4. lowest_active_queue' \in 0..NBuckets
    BY <1>1 DEF LowestAfterErase, Inv, LowestActiveIsLowest, Queues
  <1>5. TypeOK'
    <2>1. lifetime_bfs' \in [Frames -> Nat]
      BY <1>1, <1>2 DEF Inv, TypeOK
    <2>2. /\ most_written_frame' \in Frames \union {NoFrame}
          /\ written_this_pass' \in SUBSET Pages
          /\ dangling' \in SUBSET AllPages
      BY <1>1, <1>2 DEF Inv, TypeOK, AllPages
    <2>3. queues_vec' \in [Queues -> Seq(Frames)]
      BY <1>1, <1>3
    <2>4. QED BY <1>1, <1>4, <2>1, <2>2, <2>3 DEF Inv, TypeOK
  <1>6. queue[fm] = NBuckets - 1 /\ interval_bfs[fm] >= bucket_interval
    BY <1>1, <1>2 DEF MaxedOut, HitInterval, Inv, TypeOK, Queues
  <1>7. QueuesPartitionFrames'
    <2>1. \A f \in Frames : queue[f] \in Queues
      BY DEF Inv, TypeOK
    <2>2. \A q \in Queues, f \in Frames : Contains(Erased(fm)[q], f) => queue[f] = q
      BY <1>3 DEF Inv, QueuesPartitionFrames
    <2>3. \A f \in Frames : Contains(Erased(fm)[queue[f]], f) \/ f = fm
      BY <1>2, <1>3, <2>1
    <2>4. QED BY <1>1, <1>3, <1>6, <2>2, <2>3 DEF QueuesPartitionFrames
  <1>8. WearAccounting'
    <2>1. ASSUME NEW f \in Frames
          PROVE  Agree(queue[f], interval_bfs[f], lifetime_bfs'[f], queue[f] + 1)
      <3>1. /\ queue[f] \in Nat /\ interval_bfs[f] \in Nat /\ lifetime_bfs[f] \in Nat
        BY DEF Inv, TypeOK, Queues
      <3>2. lifetime_bfs'[f] = lifetime_bfs[f] + b \/ lifetime_bfs'[f] = lifetime_bfs[f]
        BY <1>1, <1>2 DEF Inv, TypeOK
      <3>3. QED BY <1>2, <3>1, <3>2, WornAgreement
    <2>2. \A f \in Frames :
            Agree(queue'[f], interval_bfs'[f], lifetime_bfs'[f], queue'[f] + 1)
      BY <1>1, <2>1
    <2>3. QED BY <1>1, <2>2 DEF WearAccounting, Agree
  <1>9. WornFrameIsLast'
    <2>1. lifetime_bfs' \in [Frames -> Nat]
      BY <1>5 DEF TypeOK
    <2>2. most_written_frame \in Frames \union {NoFrame}
      BY DEF Inv, TypeOK
    <2>3. /\ most_written_frame' \in Frames
          /\ lifetime_bfs'[fm] <= lifetime_bfs'[most_written_frame']
      BY <1>1, <1>2, <2>1, <2>2
    <2>4. QED BY <1>1, <1>2, <1>6, <2>3 DEF WornFrameIsLast
  <1>10. LowestActiveIsLowest' /\ MappingConsistent' /\ EventsCounted'
    BY <1>1 DEF Inv, LowestActiveIsLowest, MappingConsistent, EventsCounted
  <1>11. QED BY <1>5, <1>7, <1>8, <1>9, <1>10 DEF Inv

\* Moving one frame to the next queue, in the lists and in its backpointer,
\* keeps every frame in one queue.
LEMMA PromotionPartitions ==
    ASSUME Inv, status = "running", NEW f \in Frames, ~MaxedOut(f),
           queue' = [queue EXCEPT ![f] = @ + 1],
           \A q \in Queues : IsInjective(queues_vec'[q]),
           \A q \in Queues, g \in Frames :
                Contains(queues_vec'[q], g) <=> Contains(Emplaced(f)[q], g)
    PROVE  QueuesPartitionFrames' /\ queue' \in [Frames -> Queues]
  <1>1. /\ queue[f] + 1 \in Queues
        /\ \A q \in Queues, g \in Frames :
                Contains(Emplaced(f)[q], g) <=>
                    IF g = f THEN q = queue[f] + 1 ELSE Contains(queues_vec[q], g)
    BY EmplacedQueues DEF Inv
  <1>2. /\ queue' \in [Frames -> Queues]
        /\ \A g \in Frames : queue'[g] = IF g = f THEN queue[f] + 1 ELSE queue[g]
    BY <1>1 DEF Inv, TypeOK
  <1>3. ASSUME NEW q \in Queues, NEW g \in Frames, Contains(queues_vec'[q], g)
        PROVE  queue'[g] = q
    BY <1>1, <1>2, <1>3 DEF Inv, QueuesPartitionFrames
  <1>4. ASSUME NEW g \in Frames
        PROVE  Contains(queues_vec'[queue'[g]], g)
    <2>1. CASE g = f
      BY <2>1, <1>1, <1>2
    <2>2. CASE g # f
      <3>1. queue[g] \in Queues /\ Contains(queues_vec[queue[g]], g)
        BY FrameIsQueued DEF Inv
      <3>2. QED BY <2>2, <3>1, <1>1, <1>2
    <2>3. QED BY <2>1, <2>2
  <1>5. QED BY <1>2, <1>3, <1>4 DEF QueuesPartitionFrames

\* A promotion into the lowest active queue moves one frame.
LEMMA PromoteAloneInv ==
    ASSUME Inv, NEW p \in pages_in_trace, PromoteAlone(p)
    PROVE  Inv'
  <1> DEFINE fm == page_map[p]
             b == page_bfpw(p)
             B == bucket_interval
  <1>1. /\ status = "running" /\ status' = "running"
        /\ HitInterval(fm) /\ ~MaxedOut(fm)
        /\ queues_vec' = Emplaced(fm)
        /\ queue' = [queue EXCEPT ![fm] = @ + 1]
        /\ interval_bfs' = [interval_bfs EXCEPT ![fm] = @ - B]
        /\ lowest_active_queue' = LowestAfterErase(fm)
        /\ dangling' = dangling \union {p}
        /\ lifetime_bfs' = [lifetime_bfs EXCEPT ![fm] = @ + b]
        /\ most_written_frame' \in {fm, most_written_frame}
        /\ written_this_pass' = written_this_pass \union {p}
        /\ UNCHANGED <<n_iterations, pages_in_trace, system_time, page_addr,
                       page_map, total_n_promotions, n_events>>
    BY DEF PromoteAlone, CountWrite, trace_vars, IntervalCarried
  <1>2. /\ p \in Pages /\ fm \in Frames /\ b \in 0..MaxBfpw /\ b \in Nat
        /\ \A f \in Frames :
                Agree(queue[f], interval_bfs[f], lifetime_bfs[f], queue[f])
    BY <1>1, BeforeWrite DEF MaxBfpw
  <1>3. B \in Nat
    BY IntervalIsPositive
  <1>4. /\ Emplaced(fm) \in [Queues -> Seq(Frames)]
        /\ \A q \in Queues : IsInjective(Emplaced(fm)[q])
    BY <1>1, <1>2, EmplacedQueues DEF Inv
  <1>5. /\ lowest_active_queue' \in Queues
        /\ queues_vec'[lowest_active_queue'] # <<>>
        /\ \A q \in Queues : q < lowest_active_queue' => queues_vec'[q] = <<>>
    BY <1>1, <1>2, LowestAfterPromotion DEF Inv
  <1> HIDE DEF fm, b
  <1>6. interval_bfs[fm] >= B /\ interval_bfs[fm] \in Nat
    BY <1>1, <1>2 DEF HitInterval, Inv, TypeOK
  <1> HIDE DEF B
  <1>7. QueuesPartitionFrames' /\ queue' \in [Frames -> Queues]
    BY <1>1, <1>2, <1>4, PromotionPartitions
  <1>8. TypeOK'
    <2>1. interval_bfs' \in [Frames -> Nat] /\ lifetime_bfs' \in [Frames -> Nat]
      BY <1>1, <1>2, <1>3, <1>6 DEF Inv, TypeOK
    <2>2. /\ most_written_frame' \in Frames \union {NoFrame}
          /\ written_this_pass' \in SUBSET Pages
          /\ dangling' \in SUBSET AllPages
      BY <1>1, <1>2 DEF Inv, TypeOK, AllPages
    <2>3. queues_vec' \in [Queues -> Seq(Frames)] /\ lowest_active_queue' \in 0..NBuckets
      BY <1>1, <1>4, <1>5 DEF Queues
    <2>4. QED BY <1>1, <1>7, <2>1, <2>2, <2>3 DEF Inv, TypeOK
  <1>9. WearAccounting'
    <2>1. ASSUME NEW f \in Frames
          PROVE  Agree(queue'[f], interval_bfs'[f], lifetime_bfs'[f], queue'[f])
      <3>1. /\ queue[f] \in Nat /\ interval_bfs[f] \in Nat /\ lifetime_bfs[f] \in Nat
        BY DEF Inv, TypeOK, Queues
      <3>2. CASE f = fm
        <4>1. /\ queue'[f] = queue[f] + 1
              /\ interval_bfs'[f] = interval_bfs[f] - B + 0
              /\ lifetime_bfs'[f] = lifetime_bfs[f] + 0 + b
          BY <1>1, <1>2, <1>3, <3>1, <3>2 DEF Inv, TypeOK
        <4>2. interval_bfs[f] >= bucket_interval
          BY <1>6, <3>2 DEF B
        <4>3. Agree(queue[f] + 1, interval_bfs[f] - bucket_interval + 0,
                    lifetime_bfs[f] + 0 + b, queue[f] + 1)
          BY <1>2, <3>1, <4>2, PromotedAgreement
        <4>4. QED BY <4>1, <4>3 DEF B
      <3>3. CASE f # fm
        <4>1. /\ queue'[f] = queue[f]
              /\ interval_bfs'[f] = interval_bfs[f]
              /\ lifetime_bfs'[f] = lifetime_bfs[f]
          BY <1>1, <3>3 DEF Inv, TypeOK
        <4>2. QED BY <1>2, <4>1
      <3>4. QED BY <3>2, <3>3
    <2>2. QED BY <1>1, <2>1 DEF WearAccounting, Agree
  <1>10. LowestActiveIsLowest'
    BY <1>5 DEF LowestActiveIsLowest
  <1>11. MappingConsistent' /\ EventsCounted' /\ WornFrameIsLast'
    BY <1>1 DEF Inv, MappingConsistent, EventsCounted, WornFrameIsLast
  <1>12. QED BY <1>7, <1>8, <1>9, <1>10, <1>11 DEF Inv

\* A promotion with a swap moves two frames and exchanges their pages.
LEMMA PromoteAndSwapInv ==
    ASSUME Inv, NEW p \in pages_in_trace, PromoteAndSwap(p)
    PROVE  Inv'
  <1> DEFINE fm == page_map[p]
             lfm == SwapPartner(fm)
             low == LowestAfterErase(fm)
             b == page_bfpw(p)
             c == page_bfpw(page_addr'[lfm])
             B == bucket_interval
             Q == [Emplaced(fm) EXCEPT ![low] = Rotate(@)]
             new_events == IF total_n_promotions' <= NPromotionsToEventTrace
                           THEN n_events + 1 ELSE n_events
  <1>1. /\ status = "running" /\ status' = "running"
        /\ HitInterval(fm) /\ ~MaxedOut(fm)
        /\ low < queue[fm] + 1
        /\ queues_vec' = Q
        /\ queue' = [queue EXCEPT ![fm] = @ + 1]
        /\ lowest_active_queue' = low
        /\ page_addr' = [page_addr EXCEPT ![fm] = page_addr[lfm], ![lfm] = p]
        /\ page_map' = [page_map EXCEPT ![page_addr[lfm]] = fm, ![p] = lfm]
        /\ dangling' = dangling \ {p, page_addr[lfm]}
        /\ interval_bfs' = [[interval_bfs EXCEPT ![fm] = @ - B]
                                EXCEPT ![fm] = @ + c, ![lfm] = @ + b]
        /\ total_n_promotions' = total_n_promotions + 1
        /\ n_events' = new_events
        /\ lifetime_bfs' = [[lifetime_bfs EXCEPT ![fm] = @ + c, ![lfm] = @ + b]
                                EXCEPT ![fm] = @ + b]
        /\ most_written_frame' \in {fm, most_written_frame}
        /\ written_this_pass' = written_this_pass \union {p}
        /\ UNCHANGED <<n_iterations, pages_in_trace, system_time>>
    BY DEF PromoteAndSwap, CountWrite, trace_vars, IntervalCarried, ChargeSwap,
           Reseated
  <1>2. /\ p \in Pages /\ fm \in Frames /\ b \in 0..MaxBfpw /\ b \in Nat
        /\ \A f \in Frames :
                Agree(queue[f], interval_bfs[f], lifetime_bfs[f], queue[f])
    BY <1>1, BeforeWrite DEF MaxBfpw
  <1>3. B \in Nat
    BY IntervalIsPositive
  <1>4. /\ lfm \in Frames /\ lfm # fm
        /\ Q \in [Queues -> Seq(Frames)]
        /\ \A q \in Queues : IsInjective(Q[q])
        /\ \A q \in Queues, g \in Frames :
                Contains(Q[q], g) <=> Contains(Emplaced(fm)[q], g)
        /\ \A q \in Queues : Q[q] = <<>> <=> Emplaced(fm)[q] = <<>>
    BY <1>1, <1>2, SwapPartnerFacts DEF Inv
  <1>5. /\ low \in Queues
        /\ Emplaced(fm)[low] # <<>>
        /\ \A q \in Queues : q < low => Emplaced(fm)[q] = <<>>
    BY <1>1, <1>2, LowestAfterPromotion DEF Inv
  <1> HIDE DEF fm, lfm, low, b, c, Q
  <1>6. /\ interval_bfs[fm] >= B /\ interval_bfs[fm] \in Nat
    BY <1>1, <1>2 DEF HitInterval, Inv, TypeOK
  <1> HIDE DEF B
  <1>7. QueuesPartitionFrames' /\ queue' \in [Frames -> Queues]
    BY <1>1, <1>2, <1>4, PromotionPartitions
  <1>8. page_addr[lfm] \in AllPages /\ p \in AllPages
    BY <1>2, <1>4 DEF Inv, TypeOK, AllPages
  <1>9. /\ page_addr' \in [Frames -> AllPages]
        /\ page_addr'[fm] = page_addr[lfm]
        /\ page_addr'[lfm] = p
        /\ \A f \in Frames : f # fm /\ f # lfm => page_addr'[f] = page_addr[f]
    BY <1>1, <1>2, <1>4, <1>8 DEF Inv, TypeOK
  <1>10. c \in 0..MaxBfpw /\ c \in Nat
    <2>1. c = b
      BY <1>9 DEF c, b
    <2>2. QED BY <1>2, <2>1
  <1>11. /\ page_map' \in [AllPages -> Frames \union {NoFrame}]
         /\ page_map'[p] = lfm
         /\ p # page_addr[lfm] => page_map'[page_addr[lfm]] = fm
         /\ \A r \in AllPages : r # p /\ r # page_addr[lfm] => page_map'[r] = page_map[r]
    BY <1>1, <1>2, <1>4, <1>8 DEF Inv, TypeOK
  <1>12. \A f \in Frames :
            /\ interval_bfs'[f] = IF f = fm THEN interval_bfs[f] - B + c
                                  ELSE IF f = lfm THEN interval_bfs[f] + b
                                  ELSE interval_bfs[f]
            /\ lifetime_bfs'[f] = IF f = fm THEN lifetime_bfs[f] + c + b
                                  ELSE IF f = lfm THEN lifetime_bfs[f] + b
                                  ELSE lifetime_bfs[f]
            /\ queue'[f] = IF f = fm THEN queue[f] + 1 ELSE queue[f]
    <2>1. /\ interval_bfs \in [Frames -> Nat] /\ lifetime_bfs \in [Frames -> Nat]
          /\ queue \in [Frames -> Queues]
      BY DEF Inv, TypeOK
    <2>2. TAKE f \in Frames
    <2>3. interval_bfs'[f] = IF f = fm THEN interval_bfs[f] - B + c
                             ELSE IF f = lfm THEN interval_bfs[f] + b
                             ELSE interval_bfs[f]
      BY <1>1, <1>2, <1>4, <2>1
    <2>4. lifetime_bfs'[f] = IF f = fm THEN lifetime_bfs[f] + c + b
                             ELSE IF f = lfm THEN lifetime_bfs[f] + b
                             ELSE lifetime_bfs[f]
      BY <1>1, <1>2, <1>4, <2>1
    <2>5. queue'[f] = IF f = fm THEN queue[f] + 1 ELSE queue[f]
      BY <1>1, <1>2, <2>1
    <2>6. QED BY <2>3, <2>4, <2>5
  <1>13. TypeOK'
    <2>1. interval_bfs' \in [Frames -> Nat]
      <3>1. interval_bfs \in [Frames -> Nat]
        BY DEF Inv, TypeOK
      <3>2. interval_bfs' = [f \in Frames |-> interval_bfs'[f]]
        BY <1>1, <3>1
      <3>3. \A f \in Frames : interval_bfs'[f] \in Nat
        BY <1>2, <1>3, <1>6, <1>10, <1>12, <3>1
      <3>4. QED BY <3>2, <3>3
    <2>2. lifetime_bfs' \in [Frames -> Nat]
      <3>1. lifetime_bfs \in [Frames -> Nat]
        BY DEF Inv, TypeOK
      <3>2. lifetime_bfs' = [f \in Frames |-> lifetime_bfs'[f]]
        BY <1>1, <3>1
      <3>3. \A f \in Frames : lifetime_bfs'[f] \in Nat
        BY <1>2, <1>10, <1>12, <3>1
      <3>4. QED BY <3>2, <3>3
    <2>3. /\ most_written_frame' \in Frames \union {NoFrame}
          /\ written_this_pass' \in SUBSET Pages
          /\ dangling' \in SUBSET AllPages
      BY <1>1, <1>2 DEF Inv, TypeOK
    <2>4. queues_vec' \in [Queues -> Seq(Frames)] /\ lowest_active_queue' \in 0..NBuckets
      BY <1>1, <1>4, <1>5 DEF Queues
    <2>5. \A r \in Pages : page_map'[r] \in Frames
      BY <1>2, <1>4, <1>11 DEF Inv, TypeOK, AllPages
    <2>6. total_n_promotions' \in Nat /\ n_events' \in 0..NPromotionsToEventTrace
      BY <1>1 DEF Inv, TypeOK, EventsCounted
    <2>7. QED BY <1>1, <1>7, <1>9, <1>11, <2>1, <2>2, <2>3, <2>4, <2>5, <2>6
                 DEF Inv, TypeOK
  <1>14. WearAccounting'
    <2>1. ASSUME NEW f \in Frames
          PROVE  Agree(queue'[f], interval_bfs'[f], lifetime_bfs'[f], queue'[f])
      <3>1. /\ queue[f] \in Nat /\ interval_bfs[f] \in Nat /\ lifetime_bfs[f] \in Nat
        BY DEF Inv, TypeOK, Queues
      <3>2. CASE f = fm
        <4>1. interval_bfs[f] >= bucket_interval
          BY <1>6, <3>2 DEF B
        <4>2. Agree(queue[f] + 1, interval_bfs[f] - bucket_interval + c,
                    lifetime_bfs[f] + c + b, queue[f] + 1)
          BY <1>2, <1>10, <3>1, <4>1, PromotedAgreement
        <4>3. QED BY <1>12, <3>2, <4>2 DEF B
      <3>3. CASE f = lfm
        <4>1. Agree(queue[f], interval_bfs[f] + b, lifetime_bfs[f] + b, queue[f])
          BY <1>2, <3>1, CountedAgreement
        <4>2. QED BY <1>4, <1>12, <3>3, <4>1
      <3>4. CASE f # fm /\ f # lfm
        BY <1>2, <1>12, <3>4
      <3>5. QED BY <3>2, <3>3, <3>4
    <2>2. status' # "worn_out"
      BY <1>1
    <2>3. QED BY <2>1, <2>2 DEF WearAccounting, Agree
  <1>15. LowestActiveIsLowest'
    BY <1>1, <1>4, <1>5 DEF LowestActiveIsLowest
  <1>16. MappingConsistent'
    <2>1. SUFFICES ASSUME Zero \notin Pages, NEW r \in Pages, NEW f \in Frames
                   PROVE  page_map'[r] = f <=> page_addr'[f] = r
      BY DEF MappingConsistent
    <2>2. \A s \in Pages, g \in Frames : page_map[s] = g <=> page_addr[g] = s
      BY <2>1 DEF Inv, MappingConsistent
    <2>3. page_addr[fm] = p
      BY <1>2, <2>2 DEF fm
    <2>4. page_addr[lfm] # p
      BY <1>2, <1>4, <2>2 DEF fm
    <2>5. r \in AllPages
      BY DEF AllPages
    <2>6. QED BY <1>2, <1>4, <1>9, <1>11, <2>2, <2>3, <2>4, <2>5
  <1>17. EventsCounted' /\ WornFrameIsLast'
    BY <1>1 DEF Inv, TypeOK, EventsCounted, WornFrameIsLast
  <1>18. QED BY <1>7, <1>13, <1>14, <1>15, <1>16, <1>17 DEF Inv

\* The end of a pass leaves the frames alone.
LEMMA PassInv ==
    ASSUME Inv, PassComplete,
           status' \in {"running", "iterations_done", "crashed"}
    PROVE  Inv'
  <1>1. /\ status = "running" /\ status' # "worn_out"
        /\ written_this_pass' = {}
        /\ system_time' = system_time + 1
        /\ UNCHANGED <<n_iterations, pages_in_trace, queues_vec, interval_bfs,
                       lifetime_bfs, queue, page_addr, page_map, dangling,
                       lowest_active_queue, most_written_frame,
                       total_n_promotions, n_events>>
    BY DEF PassComplete, trace_vars, frame_vars
  <1>2. TypeOK'
    BY <1>1 DEF Inv, TypeOK
  <1>3. QueuesPartitionFrames' /\ LowestActiveIsLowest' /\ MappingConsistent'
    BY <1>1 DEF Inv, QueuesPartitionFrames, LowestActiveIsLowest, MappingConsistent
  <1>4. WearAccounting'
    BY <1>1 DEF Inv, WearAccounting
  <1>5. EventsCounted' /\ WornFrameIsLast'
    BY <1>1 DEF Inv, EventsCounted, WornFrameIsLast
  <1>6. QED BY <1>2, <1>3, <1>4, <1>5 DEF Inv

\* A stuttering step changes nothing.
LEMMA StutterInv ==
    ASSUME Inv, UNCHANGED vars
    PROVE  Inv'
  <1>1. UNCHANGED <<n_iterations, pages_in_trace, written_this_pass, queues_vec,
                    interval_bfs, lifetime_bfs, queue, page_addr, page_map,
                    dangling, lowest_active_queue, most_written_frame,
                    total_n_promotions, n_events, system_time, status>>
    BY DEF vars, trace_vars, frame_vars
  <1>2. TypeOK'
    BY <1>1 DEF Inv, TypeOK
  <1>3. QueuesPartitionFrames' /\ LowestActiveIsLowest' /\ MappingConsistent'
    BY <1>1 DEF Inv, QueuesPartitionFrames, LowestActiveIsLowest, MappingConsistent
  <1>4. WearAccounting'
    BY <1>1 DEF Inv, WearAccounting
  <1>5. EventsCounted' /\ WornFrameIsLast'
    BY <1>1 DEF Inv, EventsCounted, WornFrameIsLast
  <1>6. QED BY <1>2, <1>3, <1>4, <1>5 DEF Inv

\* Every step of the simulation keeps the invariant.
LEMMA NextInv ==
    ASSUME Inv, [Next]_vars
    PROVE  Inv'
  <1>1. CASE \E p \in pages_in_trace : Write(p)
    <2>1. PICK p \in pages_in_trace : Write(p)
      BY <1>1
    <2>2. CASE Accumulate(p)
      BY <2>2, AccumulateInv
    <2>3. CASE MaxOut(p)
      BY <2>3, MaxOutInv
    <2>4. CASE PromoteAlone(p)
      BY <2>4, PromoteAloneInv
    <2>5. CASE PromoteAndSwap(p)
      BY <2>5, PromoteAndSwapInv
    <2>6. QED BY <2>1, <2>2, <2>3, <2>4, <2>5 DEF Write
  <1>2. CASE CrashInDump
    <2>1. PassComplete /\ status' = "crashed"
      BY <1>2 DEF CrashInDump
    <2>2. QED BY <2>1, PassInv
  <1>3. CASE NextPass
    <2>1. PassComplete /\ status' = "running"
      BY <1>3 DEF NextPass, PassComplete
    <2>2. QED BY <2>1, PassInv
  <1>4. CASE LastPass
    <2>1. PassComplete /\ status' = "iterations_done"
      BY <1>4 DEF LastPass
    <2>2. QED BY <2>1, PassInv
  <1>5. CASE UNCHANGED vars
    BY <1>5, StutterInv
  <1>6. QED BY <1>1, <1>2, <1>3, <1>4, <1>5 DEF Next

-----------------------------------------------------------------------------
(* The theorems.                                                           *)

\* The strengthened invariant holds in every state the simulator reaches.
THEOREM InvariantHolds == Spec => []Inv
  <1>1. Init => Inv
    BY InitInv
  <1>2. Inv /\ [Next]_vars => Inv'
    BY NextInv
  <1>3. QED BY <1>1, <1>2, PTL DEF Spec

\* Every variable keeps its type; in particular a promotion never names a
\* queue past the last one, and every page of the trace keeps a frame.
THEOREM TypeCorrect == Spec => []TypeOK
  <1>1. Inv => TypeOK
    BY DEF Inv
  <1>2. QED BY <1>1, InvariantHolds, PTL

\* Promotions and rotations keep every frame in exactly the queue its
\* backpointer names, once.
THEOREM QueuesPartition == Spec => []QueuesPartitionFrames
  <1>1. Inv => QueuesPartitionFrames
    BY DEF Inv
  <1>2. QED BY <1>1, InvariantHolds, PTL

\* Advancing the memoised queue by one, only when a promotion empties it, is
\* enough for it to be the lowest non-empty queue.
THEOREM LowestActive == Spec => []LowestActiveIsLowest
  <1>1. Inv => LowestActiveIsLowest
    BY DEF Inv
  <1>2. QED BY <1>1, InvariantHolds, PTL

\* Swaps lose no page and never leave two pages on a frame.
THEOREM Mapping == Spec => []MappingConsistent
  <1>1. Inv => MappingConsistent
    BY DEF Inv
  <1>2. QED BY <1>1, InvariantHolds, PTL

\* The lifetime counter is what the queue and the interval counter say, up to
\* one write per promotion.
THEOREM Wear == Spec => []WearAccounting
  <1>1. Inv => WearAccounting
    BY DEF Inv
  <1>2. QED BY <1>1, InvariantHolds, PTL

\* A frame that has used up the last bucket has used up all of them, and the
\* most-written frame is no less worn.
LEMMA LastBucketIsTheSum ==
    ASSUME Inv
    PROVE  WornOutIsJustified
  <1>1. SUFFICES ASSUME status = "worn_out"
                 PROVE  lifetime_bfs[most_written_frame] >= NBuckets * bucket_interval
    BY DEF WornOutIsJustified
  <1>2. most_written_frame \in Frames
    BY <1>1 DEF Inv, WornFrameIsLast
  <1>3. PICK f \in Frames :
            /\ queue[f] = NBuckets - 1
            /\ interval_bfs[f] >= bucket_interval
            /\ lifetime_bfs[f] <= lifetime_bfs[most_written_frame]
    BY <1>1 DEF Inv, WornFrameIsLast
  <1>4. /\ interval_bfs[f] \in Nat /\ lifetime_bfs[f] \in Nat
        /\ lifetime_bfs[most_written_frame] \in Nat
        /\ bucket_interval \in Nat
    BY <1>2, IntervalIsPositive DEF Inv, TypeOK
  <1>5. lifetime_bfs[f] >= queue[f] * bucket_interval + interval_bfs[f]
    BY <1>1, WearIsAgreement DEF Inv, Agree
  <1>6. NBuckets * bucket_interval = (NBuckets - 1) * bucket_interval + bucket_interval
    BY <1>4, Z3
  <1>7. (NBuckets - 1) * bucket_interval \in Nat
    BY <1>4, Z3
  <1>8. QED BY <1>3, <1>4, <1>5, <1>6, <1>7

\* The simulator reports wear-out only together with a frame that has taken
\* as many bit flips as all the buckets stand for.
THEOREM WornOut == Spec => []WornOutIsJustified
  <1>1. Inv => WornOutIsJustified
    BY LastBucketIsTheSum
  <1>2. QED BY <1>1, InvariantHolds, PTL

\* What one step of the simulation may do to page_map.
SwapGoesToTheLowestQueue ==
    page_map' # page_map =>
        \E p \in Pages :
            LET from == page_map[p]
                to == page_map'[p]
            IN /\ interval_bfs[from] >= bucket_interval
               /\ queue'[from] = queue[from] + 1
               /\ page_addr'[from] = page_addr[to]
               /\ queue[to] < queue'[from]
               /\ Last(queues_vec'[queue[to]]) = to
               /\ \A f \in Frames : queue[to] <= queue[f]

\* Only a promotion with a swap moves pages, and it takes its partner from the
\* front of the lowest non-empty queue.
LEMMA SwapStep ==
    ASSUME Inv, NEW p \in pages_in_trace, PromoteAndSwap(p)
    PROVE  SwapGoesToTheLowestQueue
  <1> DEFINE fm == page_map[p]
             lfm == SwapPartner(fm)
             low == LowestAfterErase(fm)
             s == Emplaced(fm)[low]
  <1>1. /\ status = "running"
        /\ HitInterval(fm) /\ ~MaxedOut(fm)
        /\ low < queue[fm] + 1
        /\ queues_vec' = [Emplaced(fm) EXCEPT ![low] = Rotate(@)]
        /\ queue' = [queue EXCEPT ![fm] = @ + 1]
        /\ page_addr' = [page_addr EXCEPT ![fm] = page_addr[lfm], ![lfm] = p]
        /\ page_map' = [page_map EXCEPT ![page_addr[lfm]] = fm, ![p] = lfm]
    BY DEF PromoteAndSwap, Reseated
  <1>2. p \in Pages /\ fm \in Frames
    BY <1>1, BeforeWrite
  <1>3. lfm \in Frames /\ lfm # fm /\ queue[lfm] = low
    BY <1>1, <1>2, SwapPartnerFacts DEF Inv
  <1>4. /\ low \in Queues /\ s # <<>>
        /\ \A q \in Queues : q < low => Emplaced(fm)[q] = <<>>
    BY <1>1, <1>2, LowestAfterPromotion DEF Inv
  <1>5. /\ Emplaced(fm) \in [Queues -> Seq(Frames)]
        /\ \A q \in Queues, g \in Frames :
            Contains(Emplaced(fm)[q], g) <=>
                IF g = fm THEN q = queue[fm] + 1 ELSE Contains(queues_vec[q], g)
    BY <1>1, <1>2, EmplacedQueues DEF Inv
  <1>6. lfm = Head(s)
    BY DEF SwapPartner
  <1>7. page_map'[p] = lfm
    BY <1>1, <1>2 DEF Inv, TypeOK, AllPages
  <1>8. Last(queues_vec'[low]) = lfm
    <2>1. queues_vec'[low] = Append(Tail(s), Head(s))
      BY <1>1, <1>4, <1>5 DEF Rotate
    <2>2. Tail(s) \in Seq(Frames) /\ Head(s) \in Frames
      BY <1>4, <1>5
    <2> HIDE DEF s
    <2>3. Last(Append(Tail(s), Head(s))) = Head(s)
      BY <2>2 DEF Last
    <2>4. QED BY <1>6, <2>1, <2>3
  <1>9. ASSUME NEW f \in Frames PROVE low <= queue[f]
    <2>1. queue[f] \in Queues /\ Contains(queues_vec[queue[f]], f)
      BY <1>1, FrameIsQueued DEF Inv
    <2>2. CASE f = fm
      BY <2>1, <2>2, <1>1, <1>4 DEF Queues
    <2>3. CASE f # fm
      <3>1. Contains(Emplaced(fm)[queue[f]], f)
        BY <2>1, <2>3, <1>5
      <3>2. Emplaced(fm)[queue[f]] # <<>>
        BY <2>1, <3>1, <1>5, EmptyHoldsNothing
      <3>3. ~(queue[f] < low)
        BY <2>1, <3>2, <1>4
      <3>4. QED BY <2>1, <3>3, <1>4 DEF Queues
    <2>4. QED BY <2>2, <2>3
  <1>10. /\ interval_bfs[fm] >= bucket_interval
         /\ queue'[fm] = queue[fm] + 1
         /\ page_addr'[fm] = page_addr[lfm]
    BY <1>1, <1>2, <1>3 DEF HitInterval, Inv, TypeOK
  <1> HIDE DEF fm, lfm, low, s
  <1>11. LET from == page_map[p]
             to == page_map'[p]
         IN /\ interval_bfs[from] >= bucket_interval
            /\ queue'[from] = queue[from] + 1
            /\ page_addr'[from] = page_addr[to]
            /\ queue[to] < queue'[from]
            /\ Last(queues_vec'[queue[to]]) = to
            /\ \A f \in Frames : queue[to] <= queue[f]
    BY <1>1, <1>3, <1>7, <1>8, <1>9, <1>10 DEF fm
  <1>12. QED BY <1>2, <1>11 DEF SwapGoesToTheLowestQueue

\* Levelling, for every trace and geometry: pages move only from a frame that
\* has used up its interval to the front of the lowest non-empty queue.
THEOREM Levelling == Spec => SwapsGoToTheLowestQueue
  <1>1. Inv /\ [Next]_vars => [SwapGoesToTheLowestQueue]_vars
    <2>1. SUFFICES ASSUME Inv, [Next]_vars, page_map' # page_map
                   PROVE  SwapGoesToTheLowestQueue
      BY DEF SwapGoesToTheLowestQueue
    <2>2. PICK p \in pages_in_trace : PromoteAndSwap(p)
      BY <2>1 DEF Next, Write, Accumulate, MaxOut, PromoteAlone, CrashInDump,
                  NextPass, LastPass, PassComplete, vars
    <2>3. QED BY <2>1, <2>2, SwapStep
  <1>2. [][SwapGoesToTheLowestQueue]_vars => SwapsGoToTheLowestQueue
    BY DEF SwapGoesToTheLowestQueue, SwapsGoToTheLowestQueue
  <1>3. QED BY <1>1, <1>2, InvariantHolds, PTL DEF Spec

-----------------------------------------------------------------------------
(* The simulator implements the abstract levelling.                        *)

\* A step that moves no frame and no page is a stuttering step of the
\* levelling.
LEMMA LevelsUnchanged ==
    ASSUME queues_vec' = queues_vec, queue' = queue, page_map' = page_map
    PROVE  UNCHANGED AbstractLevelling!vars
  BY DEF AbstractLevelling!vars, ListLevel

\* While the simulation runs, every frame is at the level of its queue.
LEMMA LevelOf ==
    ASSUME Inv, status = "running", NEW f \in Frames
    PROVE  ListLevel(f) = queue[f] /\ queue[f] \in 0..NBuckets - 1
  BY FrameIsQueued DEF Inv, Queues, ListLevel

\* One level up for the frame that leaves its list, whether into the next list
\* or out of the last one, is what a promotion is at the abstract level.
LEMMA LevelClimbs ==
    ASSUME Inv, status = "running", NEW f \in Frames,
           \A g \in Frames : g # f => /\ Contains(queues_vec'[queue'[g]], g)
                                      /\ queue'[g] = queue[g],
           \/ queue[f] = NBuckets - 1 /\ ~Contains(queues_vec'[queue'[f]], f)
           \/ queue'[f] = queue[f] + 1 /\ Contains(queues_vec'[queue'[f]], f)
    PROVE  [g \in Frames |-> ListLevel(g)]' =
                [[g \in Frames |-> ListLevel(g)] EXCEPT ![f] = @ + 1]
  <1>1. ASSUME NEW g \in Frames, g # f PROVE ListLevel(g)' = ListLevel(g)
    BY <1>1, LevelOf DEF ListLevel
  <1>2. ListLevel(f)' = ListLevel(f) + 1
    BY LevelOf DEF ListLevel
  <1>3. QED BY <1>1, <1>2

\* Once a frame has climbed, no other is below the memoised queue.
LEMMA NobodyBelow ==
    ASSUME Inv, status = "running", NEW f \in Frames, ~MaxedOut(f),
           NEW v \in Frames, v # f
    PROVE  LowestAfterErase(f) <= ListLevel(v)
  <1>1. /\ LowestAfterErase(f) \in Queues
        /\ \A q \in Queues : q < LowestAfterErase(f) => Emplaced(f)[q] = <<>>
    BY LowestAfterPromotion DEF Inv
  <1>2. /\ Emplaced(f) \in [Queues -> Seq(Frames)]
        /\ \A q \in Queues, g \in Frames :
            Contains(Emplaced(f)[q], g) <=>
                IF g = f THEN q = queue[f] + 1 ELSE Contains(queues_vec[q], g)
    BY EmplacedQueues DEF Inv
  <1>3. queue[v] \in Queues /\ ListLevel(v) = queue[v]
    BY LevelOf DEF Queues
  <1>4. Contains(Emplaced(f)[queue[v]], v)
    BY <1>2, <1>3, FrameIsQueued DEF Inv
  <1>5. Emplaced(f)[queue[v]] # <<>>
    BY <1>2, <1>3, <1>4, EmptyHoldsNothing
  <1>6. QED BY <1>1, <1>3, <1>5 DEF Queues

\* Leaving the last queue is retiring.
LEMMA MaxOutRetires ==
    ASSUME Inv, NEW p \in pages_in_trace, MaxOut(p)
    PROVE  AbstractLevelling!Next
  <1> DEFINE fm == page_map[p]
  <1>1. /\ status = "running" /\ MaxedOut(fm) /\ queues_vec' = Erased(fm)
        /\ UNCHANGED <<queue, page_map>>
    BY DEF MaxOut
  <1>2. fm \in Frames
    BY <1>1, BeforeWrite
  <1>3. \A q \in Queues, g \in Frames :
            Contains(Erased(fm)[q], g) <=> (Contains(queues_vec[q], g) /\ g # fm)
    BY <1>1, <1>2, ErasedQueues DEF Inv
  <1>4. queue \in [Frames -> Queues]
    BY DEF Inv, TypeOK
  <1> HIDE DEF fm
  <1>5. \A g \in Frames : Contains(queues_vec'[queue'[g]], g) <=> g # fm
    BY <1>1, <1>3, <1>4, FrameIsQueued DEF Inv
  <1>6. queue[fm] = NBuckets - 1
    BY <1>1, <1>2, <1>4 DEF MaxedOut, Queues
  <1>7. [g \in Frames |-> ListLevel(g)]' =
            [[g \in Frames |-> ListLevel(g)] EXCEPT ![fm] = @ + 1]
    BY <1>1, <1>2, <1>5, <1>6, LevelClimbs
  <1>8. ListLevel(fm) = NBuckets - 1
    BY <1>1, <1>2, <1>6, LevelOf
  <1>9. AbstractLevelling!Retires(fm)
    BY <1>1, <1>2, <1>8 DEF AbstractLevelling!Retires
  <1>10. AbstractLevelling!Climb(fm)
    BY <1>2, <1>7, <1>8, <1>9 DEF AbstractLevelling!Climb
  <1>11. QED BY <1>2, <1>10 DEF AbstractLevelling!Next

\* Promotion with nobody below is climbing alone.
LEMMA PromoteAloneClimbs ==
    ASSUME Inv, NEW p \in pages_in_trace, PromoteAlone(p)
    PROVE  AbstractLevelling!Next
  <1> DEFINE fm == page_map[p]
  <1>1. /\ status = "running" /\ ~MaxedOut(fm) /\ queues_vec' = Emplaced(fm)
        /\ LowestAfterErase(fm) >= queue[fm] + 1
        /\ queue' = [queue EXCEPT ![fm] = @ + 1]
        /\ page_map' = page_map
    BY DEF PromoteAlone
  <1>2. fm \in Frames
    BY <1>1, BeforeWrite
  <1>3. /\ queue[fm] + 1 \in Queues
        /\ \A q \in Queues, g \in Frames :
            Contains(Emplaced(fm)[q], g) <=>
                IF g = fm THEN q = queue[fm] + 1 ELSE Contains(queues_vec[q], g)
    BY <1>1, <1>2, EmplacedQueues DEF Inv
  <1>4. queue \in [Frames -> Queues]
    BY DEF Inv, TypeOK
  <1>5. LowestAfterErase(fm) = queue[fm] + 1
    <2>1. LowestAfterErase(fm) \in Queues /\ LowestAfterErase(fm) <= queue[fm] + 1
      BY <1>1, <1>2, LowestAfterPromotion DEF Inv
    <2>2. QED BY <1>1, <1>2, <1>3, <2>1 DEF Queues
  <1> HIDE DEF fm
  <1>6. queue'[fm] = queue[fm] + 1 /\ \A g \in Frames : g # fm => queue'[g] = queue[g]
    BY <1>1, <1>2, <1>4
  <1>7. \A g \in Frames : Contains(queues_vec'[queue'[g]], g)
    BY <1>1, <1>2, <1>3, <1>4, <1>6, FrameIsQueued DEF Inv
  <1>8. [g \in Frames |-> ListLevel(g)]' =
            [[g \in Frames |-> ListLevel(g)] EXCEPT ![fm] = @ + 1]
    BY <1>1, <1>2, <1>6, <1>7, LevelClimbs
  <1>9. ListLevel(fm) = queue[fm] /\ queue[fm] < NBuckets - 1 /\ queue[fm] \in Int
    BY <1>1, <1>2, <1>3, <1>4, LevelOf DEF Queues
  <1>10. \A v \in Frames : v # fm => queue[fm] + 1 <= ListLevel(v)
    BY <1>1, <1>2, <1>5, NobodyBelow
  <1>11. AbstractLevelling!IsLowest(ListLevel(fm) + 1, fm, ListLevel(fm) + 1)
    BY <1>9, <1>10 DEF AbstractLevelling!IsLowest
  <1>12. AbstractLevelling!ClimbsAlone(fm)
    BY <1>1, <1>2, <1>9, <1>11 DEF AbstractLevelling!ClimbsAlone
  <1>13. AbstractLevelling!Climb(fm)
    BY <1>2, <1>8, <1>9, <1>12 DEF AbstractLevelling!Climb
  <1>14. QED BY <1>2, <1>13 DEF AbstractLevelling!Next

\* Promotion with a swap exchanges the data with one of the lowest level; a
\* free frame hands over nothing.
LEMMA PromoteAndSwapExchanges ==
    ASSUME Inv, Zero \notin Pages, NEW p \in pages_in_trace, PromoteAndSwap(p)
    PROVE  AbstractLevelling!Next
  <1> DEFINE fm == page_map[p]
             low == LowestAfterErase(fm)
             lfm == SwapPartner(fm)
             r == page_addr[lfm]
             Q == [Emplaced(fm) EXCEPT ![low] = Rotate(@)]
  <1>1. /\ status = "running" /\ ~MaxedOut(fm)
        /\ low < queue[fm] + 1
        /\ queues_vec' = Q
        /\ queue' = [queue EXCEPT ![fm] = @ + 1]
        /\ page_map' = [page_map EXCEPT ![r] = fm, ![p] = lfm]
    BY DEF PromoteAndSwap, Reseated
  <1>2. fm \in Frames /\ p \in Pages
    BY <1>1, BeforeWrite
  <1>3. /\ queue[fm] + 1 \in Queues
        /\ \A q \in Queues, g \in Frames :
            Contains(Emplaced(fm)[q], g) <=>
                IF g = fm THEN q = queue[fm] + 1 ELSE Contains(queues_vec[q], g)
    BY <1>1, <1>2, EmplacedQueues DEF Inv
  <1>4. /\ lfm \in Frames /\ lfm # fm /\ queue[lfm] = low
        /\ \A q \in Queues, g \in Frames :
                Contains(Q[q], g) <=> Contains(Emplaced(fm)[q], g)
    BY <1>1, <1>2, SwapPartnerFacts DEF Inv
  <1>5. \A v \in Frames : v # fm => low <= ListLevel(v)
    BY <1>1, <1>2, NobodyBelow
  <1>6. /\ queue \in [Frames -> Queues]
        /\ page_map \in [AllPages -> Frames \union {NoFrame}]
        /\ r \in AllPages
    BY <1>4 DEF Inv, TypeOK
  <1>7. \A d \in Pages : (page_map[d] = fm <=> d = p) /\ (page_map[d] = lfm <=> d = r)
    BY <1>2, <1>4 DEF Inv, MappingConsistent
  <1> HIDE DEF fm, low, lfm, Q, r
  <1>8. queue'[fm] = queue[fm] + 1 /\ \A g \in Frames : g # fm => queue'[g] = queue[g]
    BY <1>1, <1>2, <1>6
  <1>9. \A g \in Frames : Contains(queues_vec'[queue'[g]], g)
    BY <1>1, <1>2, <1>3, <1>4, <1>6, <1>8, FrameIsQueued DEF Inv
  <1>10. [g \in Frames |-> ListLevel(g)]' =
            [[g \in Frames |-> ListLevel(g)] EXCEPT ![fm] = @ + 1]
    BY <1>1, <1>2, <1>8, <1>9, LevelClimbs
  <1>11. /\ ListLevel(fm) = queue[fm] /\ queue[fm] < NBuckets - 1 /\ queue[fm] \in Int
         /\ ListLevel(lfm) = low /\ low \in Int
    BY <1>1, <1>2, <1>3, <1>4, <1>6, LevelOf DEF Queues
  <1>12. AbstractLevelling!IsLowest(ListLevel(lfm), fm, ListLevel(fm) + 1)
    BY <1>1, <1>4, <1>5, <1>11 DEF AbstractLevelling!IsLowest
  <1>13. [d \in Pages |-> page_map[d]]' = AbstractLevelling!Exchange(fm, lfm)
    <2>1. ASSUME NEW d \in Pages
          PROVE  page_map'[d] = IF page_map[d] = fm THEN lfm
                                ELSE IF page_map[d] = lfm THEN fm ELSE page_map[d]
      BY <1>1, <1>2, <1>4, <1>6, <1>7 DEF AllPages
    <2>2. QED BY <2>1 DEF AbstractLevelling!Exchange
  <1>14. AbstractLevelling!ClimbsAndExchanges(fm, lfm)
    <2>1. low < ListLevel(fm) + 1 /\ fm # lfm
      BY <1>1, <1>4, <1>11
    <2>2. QED BY <1>2, <1>4, <1>11, <1>12, <1>13, <2>1
              DEF AbstractLevelling!ClimbsAndExchanges
  <1>15. AbstractLevelling!Climb(fm)
    <2>1. \E v \in Frames : AbstractLevelling!ClimbsAndExchanges(fm, v)
      BY <1>4, <1>14 DEF AbstractLevelling!ClimbsAndExchanges
    <2>2. ListLevel(fm) < NBuckets
      BY <1>11
    <2>3. QED BY <1>2, <1>10, <2>1, <2>2 DEF AbstractLevelling!Climb
  <1>16. QED BY <1>2, <1>15 DEF AbstractLevelling!Next

\* All frames start at level 0, each page in a frame of its own.
LEMMA InitLevels ==
    ASSUME Init, Zero \notin Pages
    PROVE  AbstractLevelling!Init
  <1>1. Inv
    BY InitInv
  <1>2. queue = [f \in Frames |-> 0] /\ status = "running"
    BY DEF Init
  <1>3. \A f \in Frames : ListLevel(f) = 0
    BY <1>1, <1>2, LevelOf
  <1>4. \A p \in Pages : page_map[p] \in Frames
    BY <1>1 DEF Inv, TypeOK
  <1>5. \A p, q \in Pages : page_map[p] = page_map[q] => p = q
    BY <1>1, <1>4 DEF Inv, MappingConsistent
  <1>6. QED BY <1>3, <1>4, <1>5 DEF AbstractLevelling!Init

\* Every step is a step of the levelling, or moves nothing.
LEMMA StepLevels ==
    ASSUME Inv, Zero \notin Pages, [Next]_vars
    PROVE  [AbstractLevelling!Next]_AbstractLevelling!vars
  <1>1. CASE \E p \in pages_in_trace : MaxOut(p) \/ PromoteAlone(p) \/ PromoteAndSwap(p)
    BY <1>1, MaxOutRetires, PromoteAloneClimbs, PromoteAndSwapExchanges
  <1>2. CASE \E p \in pages_in_trace : Accumulate(p)
    <2>1. UNCHANGED <<queues_vec, queue, page_map>>
      BY <1>2 DEF Accumulate
    <2>2. QED BY <2>1, LevelsUnchanged
  <1>3. CASE CrashInDump \/ NextPass \/ LastPass \/ UNCHANGED vars
    <2>1. UNCHANGED <<queues_vec, queue, page_map>>
      BY <1>3 DEF CrashInDump, NextPass, LastPass, PassComplete, vars, frame_vars
    <2>2. QED BY <2>1, LevelsUnchanged
  <1>4. QED BY <1>1, <1>2, <1>3 DEF Next, Write

\* For every trace that does not touch the page at address 0x0, which stands
\* for no page in the free frames, the lists, iterators and backpointers and
\* the memoised queue amount to the abstract levelling.
THEOREM Refinement ==
    ASSUME Zero \notin Pages
    PROVE  Spec => ImplementsWearLevelling
  <1>1. Init => AbstractLevelling!Init
    BY InitLevels
  <1>2. Inv /\ [Next]_vars => [AbstractLevelling!Next]_AbstractLevelling!vars
    BY StepLevels
  <1>3. QED BY <1>1, <1>2, InvariantHolds, PTL
            DEF Spec, ImplementsWearLevelling, AbstractLevelling!Spec
=============================================================================
