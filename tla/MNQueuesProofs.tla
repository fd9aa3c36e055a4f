---------------------------- MODULE MNQueuesProofs ----------------------------
(***************************************************************************)
(* Proofs about MNQueues, for every number of nodes and buckets, every     *)
(* assignment of jobs, every endurance and every width of the integers.    *)
(*                                                                         *)
(* What the single-node simulator does not have is the last epoch, which   *)
(* goes on after a node wore out: a job's turn finds its node in a list    *)
(* only because the nodes that left the lists have had theirs, and the     *)
(* memoised queue and the most-written node have to stay right in between. *)
(***************************************************************************)
EXTENDS MNQueues, QueueLemmas, SumLemmas

USE ConstantsAssumption DEF NoNode, NoRebalanceMwn

-----------------------------------------------------------------------------
(* The numbers derived from the arguments.                                 *)

\* Division of naturals, as an inequality.
LEMMA DivisionBounds ==
    ASSUME NEW a \in Nat, NEW u \in Nat \ {0}
    PROVE  /\ a \div u \in Nat
           /\ u * (a \div u) <= a
           /\ a < u * (a \div u) + u
  <1> DEFINE d == a \div u
  <1>1. d \in Int /\ u * d <= a /\ a < u * d + u
    BY Z3
  <1>2. d >= 0
    <2> HIDE DEF d
    <2>1. CASE d < 0
      <3>1. u * d <= -u
        BY <1>1, <2>1, Z3
      <3>2. QED BY <3>1, <1>1
    <2>2. QED BY <2>1, <1>1
  <1>3. QED BY <1>1, <1>2

LEMMA ProductIsNatural ==
    ASSUME NEW a \in Nat, NEW b \in Nat
    PROVE  a * b \in Nat
  BY Z3

\* What a command line is.
ArgsType ==
    args \in [rebalance : BOOLEAN,
              n_iterations : NIterationsChoices,
              cell_write_endurance : CellWriteEndurances,
              jobs : [Jobs -> JobChoices]]

LEMMA ArgsFacts ==
    ASSUME ArgsType
    PROVE  /\ args.rebalance \in BOOLEAN
           /\ args.cell_write_endurance \in Nat \ {0}
           /\ \A j \in Jobs : /\ args.jobs[j].write_bits \in Nat
                              /\ args.jobs[j].rss_bytes \in Nat
                              /\ args.jobs[j].write_factor \in Nat
  <1>1. \A j \in Jobs : args.jobs[j] \in JobChoices
    BY DEF ArgsType
  <1>2. \A j \in Jobs : args.jobs[j] \in
            [write_bits : Nat, rss_bytes : Nat, write_factor : 0..WfUnit]
    BY <1>1
  <1>3. args.cell_write_endurance \in Nat \ {0}
    BY DEF ArgsType
  <1>4. QED BY <1>2, <1>3 DEF ArgsType

\* bucket_cap is the product, if that fits, and at least what the buckets
\* stand for.
LEMMA BucketFacts ==
    ASSUME ArgsType
    PROVE  /\ bucket_cap \in Nat
           /\ bucket_interval \in Nat
           /\ NBuckets * bucket_interval <= bucket_cap
           /\ bucket_cap < NBuckets * bucket_interval + NBuckets
           /\ BitsPerNode * args.cell_write_endurance < 2^Width =>
                bucket_cap = BitsPerNode * args.cell_write_endurance
  <1> DEFINE m == 2^Width
             p == BitsPerNode * args.cell_write_endurance
  <1>1. m \in Nat \ {0}
    <2>1. m \in Int
      OBVIOUS
    <2>2. BitsPerNode \in 1..m - 1
      OBVIOUS
    <2>3. QED BY <2>1, <2>2
  <1>2. p \in Nat
    BY ArgsFacts, ProductIsNatural, <1>1
  <1> HIDE DEF m, p
  <1>3. p % m \in Nat /\ (p < m => p % m = p)
    BY <1>1, <1>2
  <1>4. bucket_cap = p % m
    BY DEF bucket_cap, p, m
  <1>5. bucket_cap \in Nat
    BY <1>3, <1>4
  <1>6. QED BY <1>3, <1>4, <1>5, DivisionBounds DEF bucket_interval, p, m

\* The bit flips of a quantum and of a move are natural numbers.
LEMMA ChargesAreNatural ==
    ASSUME ArgsType, NEW j \in Jobs
    PROVE  bit_writes_per_quanta(j) \in Nat /\ swap_bfs(j) \in Nat
  BY ArgsFacts, ProductIsNatural, DivisionBounds DEF bit_writes_per_quanta, swap_bfs

-----------------------------------------------------------------------------
(* What the operations of a promotion do to the queues.                    *)

\* The node is in the list its backpointer names.
Queued(n) == Contains(queues_vec[queue[n]], n)

\* A node that is not worn out is where its backpointer says.
LEMMA NotWornOutIsQueued ==
    ASSUME TypeOK, QueuesPartitionNodes, args.rebalance, NEW n \in Nodes
    PROVE  Queued(n) <=> ~IsWornOut(n)
  BY DEF TypeOK, QueuesPartitionNodes, IsWornOut, Queued

\* Erasing a node takes it out of the queues and moves no other.
LEMMA ErasedQueues ==
    ASSUME TypeOK, QueuesPartitionNodes, NEW n \in Nodes, Queued(n)
    PROVE  /\ Erased(n) \in [Queues -> Seq(Nodes)]
           /\ \A q \in Queues : IsInjective(Erased(n)[q])
           /\ \A q \in Queues, g \in Nodes :
                Contains(Erased(n)[q], g) <=> (Contains(queues_vec[q], g) /\ g # n)
  <1> DEFINE old == queue[n]
             s == queues_vec[old]
             t == RemoveAt(s, Place(s, n))
  <1>1. /\ old \in Queues /\ s \in Seq(Nodes)
        /\ IsInjective(s) /\ Contains(s, n)
    BY DEF TypeOK, QueuesPartitionNodes, Queued
  <1>2. /\ t \in Seq(Nodes) /\ IsInjective(t)
        /\ \A g \in Nodes : Contains(t, g) <=> (Contains(s, g) /\ g # n)
    BY <1>1, ErasedElements
  <1>3. Erased(n) = [queues_vec EXCEPT ![old] = t]
    BY DEF Erased, Position, Place
  <1> HIDE DEF t
  <1>4. Erased(n) \in [Queues -> Seq(Nodes)]
    BY <1>1, <1>2, <1>3 DEF TypeOK
  <1>5. \A q \in Queues : Erased(n)[q] = IF q = old THEN t ELSE queues_vec[q]
    BY <1>1, <1>3 DEF TypeOK
  <1>6. \A q \in Queues : IsInjective(Erased(n)[q])
    BY <1>2, <1>5 DEF QueuesPartitionNodes
  <1>7. ASSUME NEW q \in Queues, NEW g \in Nodes
        PROVE  Contains(Erased(n)[q], g) <=> (Contains(queues_vec[q], g) /\ g # n)
    <2>1. CASE q = old
      BY <2>1, <1>2, <1>5
    <2>2. CASE q # old
      BY <2>2, <1>5 DEF QueuesPartitionNodes
    <2>3. QED BY <2>1, <2>2
  <1>8. QED BY <1>4, <1>6, <1>7

\* A node that does not leave the last queue is put into the next one.
LEMMA EmplacedQueues ==
    ASSUME TypeOK, QueuesPartitionNodes, NEW n \in Nodes, Queued(n), ~MaxedOut(n)
    PROVE  /\ queue[n] + 1 \in Queues
           /\ Emplaced(n) \in [Queues -> Seq(Nodes)]
           /\ \A q \in Queues : IsInjective(Emplaced(n)[q])
           /\ \A q \in Queues, g \in Nodes :
                Contains(Emplaced(n)[q], g) <=>
                    IF g = n THEN q = queue[n] + 1 ELSE Contains(queues_vec[q], g)
           /\ \A q \in Queues : q # queue[n] + 1 => Emplaced(n)[q] = Erased(n)[q]
           /\ Emplaced(n)[queue[n] + 1] # <<>>
  <1> DEFINE new == queue[n] + 1
             s == Erased(n)[new]
             t == Append(s, n)
  <1>1. new \in Queues
    <2>1. queue[n] \in Queues
      BY DEF TypeOK
    <2>2. QED BY <2>1 DEF MaxedOut, Queues
  <1>2. /\ Erased(n) \in [Queues -> Seq(Nodes)]
        /\ \A q \in Queues : IsInjective(Erased(n)[q])
        /\ \A q \in Queues, g \in Nodes :
            Contains(Erased(n)[q], g) <=> (Contains(queues_vec[q], g) /\ g # n)
    BY ErasedQueues
  <1>3. Emplaced(n) = [Erased(n) EXCEPT ![new] = t]
    BY DEF Emplaced
  <1>4. s \in Seq(Nodes) /\ IsInjective(s) /\ ~Contains(s, n)
    BY <1>1, <1>2
  <1>5. /\ t \in Seq(Nodes) /\ t # <<>> /\ IsInjective(t)
        /\ \A g \in Nodes : Contains(t, g) <=> (Contains(s, g) \/ g = n)
    BY <1>4, AppendedElements
  <1> HIDE DEF t, new
  <1>6. /\ Emplaced(n) \in [Queues -> Seq(Nodes)]
        /\ \A q \in Queues :
            Emplaced(n)[q] = IF q = new THEN t ELSE Erased(n)[q]
    BY <1>1, <1>2, <1>3, <1>5
  <1>7. \A q \in Queues : IsInjective(Emplaced(n)[q])
    BY <1>2, <1>5, <1>6
  <1>8. ASSUME NEW q \in Queues, NEW g \in Nodes
        PROVE  Contains(Emplaced(n)[q], g) <=>
                    IF g = n THEN q = new ELSE Contains(queues_vec[q], g)
    <2>1. CASE q = new
      BY <2>1, <1>1, <1>2, <1>5, <1>6
    <2>2. CASE q # new
      BY <2>2, <1>2, <1>6
    <2>3. QED BY <2>1, <2>2
  <1>9. Emplaced(n)[new] # <<>>
    BY <1>1, <1>5, <1>6
  <1>10. QED BY <1>1, <1>6, <1>7, <1>8, <1>9 DEF new

\* Erasing a node advances the memoised queue when that one is now empty: it
\* was then the node's, and nothing is left in it or below.
LEMMA LowestOnceErased ==
    ASSUME TypeOK, QueuesPartitionNodes, LowestActiveIsLowest, args.rebalance,
           NEW n \in Nodes, Queued(n)
    PROVE  LET l == LowestAfterErase(n)
           IN /\ lowest_active_queue \in Queues
              /\ \/ /\ l = lowest_active_queue
                    /\ l <= queue[n]
                    /\ Erased(n)[l] # <<>>
                 \/ l = queue[n] + 1
              /\ \A q \in Queues : q < l => Erased(n)[q] = <<>>
  <1> DEFINE low == lowest_active_queue
             old == queue[n]
  <1>1. low \in 0..NBuckets /\ queues_vec \in [Queues -> Seq(Nodes)]
    BY DEF TypeOK
  <1>2. old \in Queues /\ Contains(queues_vec[old], n)
    BY DEF TypeOK, Queued
  <1>3. /\ Erased(n) \in [Queues -> Seq(Nodes)]
        /\ \A q \in Queues, g \in Nodes :
            Contains(Erased(n)[q], g) <=> (Contains(queues_vec[q], g) /\ g # n)
    BY ErasedQueues
  <1>4. low \in Queues /\ queues_vec[low] # <<>>
    BY <1>2 DEF LowestActiveIsLowest, IsWornOut
  <1>5. low <= old
    <2>1. queues_vec[old] # <<>>
      BY <1>1, <1>2, EmptyHoldsNothing
    <2>2. QED BY <2>1, <1>1, <1>2 DEF Queues, LowestActiveIsLowest
  <1>6. \A q \in Queues : q < low => Erased(n)[q] = <<>>
    <2>1. ASSUME NEW q \in Queues, q < low PROVE Erased(n)[q] = <<>>
      <3>1. queues_vec[q] = <<>>
        BY <2>1 DEF LowestActiveIsLowest
      <3>2. \A g \in Nodes : ~Contains(queues_vec[q], g)
        BY <1>1, <3>1, EmptyHoldsNothing
      <3>3. \A g \in Nodes : ~Contains(Erased(n)[q], g)
        BY <1>3, <3>2
      <3>4. QED BY <1>3, <3>3, EmptyHoldsNothing
    <2>2. QED BY <2>1
  <1>7. CASE Erased(n)[low] = <<>>
    <2>1. low = old
      <3>1. PICK g \in Nodes : Contains(queues_vec[low], g)
        BY <1>1, <1>4, EmptyHoldsNothing
      <3>2. ~Contains(Erased(n)[low], g)
        BY <1>4, <1>3, <1>7, EmptyHoldsNothing
      <3>3. g = n
        BY <1>4, <1>3, <3>1, <3>2
      <3>4. QED BY <1>4, <3>1, <3>3 DEF QueuesPartitionNodes
    <2>2. LowestAfterErase(n) = old + 1
      BY <1>7, <2>1 DEF LowestAfterErase
    <2>3. \A q \in Queues : q < old + 1 => Erased(n)[q] = <<>>
      BY <1>2, <1>6, <1>7, <2>1 DEF Queues
    <2>4. QED BY <1>4, <2>2, <2>3
  <1>8. CASE Erased(n)[low] # <<>>
    <2>1. LowestAfterErase(n) = low
      BY <1>8 DEF LowestAfterErase
    <2>2. QED BY <1>4, <1>5, <1>6, <1>8, <2>1
  <1>9. QED BY <1>7, <1>8

\* The memoised queue is right again before the swap partner is looked up.
LEMMA LowestAfterPromotion ==
    ASSUME TypeOK, QueuesPartitionNodes, LowestActiveIsLowest, args.rebalance,
           NEW n \in Nodes, Queued(n), ~MaxedOut(n)
    PROVE  LET l == LowestAfterErase(n)
           IN /\ l \in Queues
              /\ l <= queue[n] + 1
              /\ Emplaced(n)[l] # <<>>
              /\ \A q \in Queues : q < l => Emplaced(n)[q] = <<>>
  <1> DEFINE l == LowestAfterErase(n)
             old == queue[n]
  <1>1. /\ lowest_active_queue \in Queues
        /\ \/ l = lowest_active_queue /\ l <= old /\ Erased(n)[l] # <<>>
           \/ l = old + 1
        /\ \A q \in Queues : q < l => Erased(n)[q] = <<>>
    BY LowestOnceErased
  <1>2. /\ old + 1 \in Queues
        /\ \A q \in Queues : q # old + 1 => Emplaced(n)[q] = Erased(n)[q]
        /\ Emplaced(n)[old + 1] # <<>>
    BY EmplacedQueues
  <1>3. old \in Queues
    BY DEF TypeOK
  <1> HIDE DEF l, old
  <1>4. l \in Queues /\ l <= old + 1
    BY <1>1, <1>2, <1>3 DEF Queues
  <1>5. Emplaced(n)[l] # <<>>
    BY <1>1, <1>2, <1>3, <1>4 DEF Queues
  <1>6. \A q \in Queues : q < l => Emplaced(n)[q] = <<>>
    BY <1>1, <1>2, <1>3, <1>4 DEF Queues
  <1>7. QED BY <1>4, <1>5, <1>6 DEF l, old

\* The swap partner is another node, one of the lowest active queue; rotating
\* that queue changes what no queue holds.
LEMMA SwapPartnerFacts ==
    ASSUME TypeOK, QueuesPartitionNodes, LowestActiveIsLowest, args.rebalance,
           NEW n \in Nodes, Queued(n), ~MaxedOut(n),
           LowestAfterErase(n) < queue[n] + 1
    PROVE  LET l == LowestAfterErase(n)
               Q == [Emplaced(n) EXCEPT ![l] = Rotate(@)]
           IN /\ SwapPartner(n) \in Nodes \ {n}
              /\ queue[SwapPartner(n)] = l
              /\ Queued(SwapPartner(n))
              /\ Q \in [Queues -> Seq(Nodes)]
              /\ \A q \in Queues : IsInjective(Q[q])
              /\ \A q \in Queues, g \in Nodes :
                    Contains(Q[q], g) <=> Contains(Emplaced(n)[q], g)
              /\ \A q \in Queues : Q[q] = <<>> <=> Emplaced(n)[q] = <<>>
  <1> DEFINE l == LowestAfterErase(n)
             s == Emplaced(n)[l]
             t == Rotate(s)
             Q == [Emplaced(n) EXCEPT ![l] = t]
  <1>1. l \in Queues /\ s # <<>>
    BY LowestAfterPromotion
  <1>2. /\ Emplaced(n) \in [Queues -> Seq(Nodes)]
        /\ \A q \in Queues : IsInjective(Emplaced(n)[q])
        /\ \A q \in Queues, g \in Nodes :
            Contains(Emplaced(n)[q], g) <=>
                IF g = n THEN q = queue[n] + 1 ELSE Contains(queues_vec[q], g)
    BY EmplacedQueues
  <1>3. /\ Head(s) \in Nodes
        /\ Contains(s, Head(s))
        /\ t \in Seq(Nodes) /\ t # <<>> /\ IsInjective(t)
        /\ \A g \in Nodes : Contains(t, g) <=> Contains(s, g)
    BY <1>1, <1>2, RotatedElements DEF Rotate
  <1>4. SwapPartner(n) = Head(s)
    BY DEF SwapPartner
  <1>5. l # queue[n] + 1
    BY <1>1 DEF TypeOK, Queues
  <1>6. Head(s) # n /\ Contains(queues_vec[l], Head(s))
    BY <1>1, <1>2, <1>3, <1>5
  <1>7. queue[Head(s)] = l
    BY <1>1, <1>3, <1>6 DEF QueuesPartitionNodes
  <1> HIDE DEF t, l
  <1>8. /\ Q \in [Queues -> Seq(Nodes)]
        /\ \A q \in Queues : Q[q] = IF q = l THEN t ELSE Emplaced(n)[q]
    BY <1>1, <1>2, <1>3
  <1> HIDE DEF Q
  <1>9. \A q \in Queues, g \in Nodes :
            Contains(Q[q], g) <=> Contains(Emplaced(n)[q], g)
    BY <1>1, <1>3, <1>8
  <1>10. \A q \in Queues : IsInjective(Q[q])
    BY <1>2, <1>3, <1>8
  <1>11. \A q \in Queues : Q[q] = <<>> <=> Emplaced(n)[q] = <<>>
    BY <1>1, <1>3, <1>8
  <1>12. Queued(Head(s))
    BY <1>6, <1>7 DEF Queued
  <1>13. QED BY <1>3, <1>4, <1>6, <1>7, <1>8, <1>9, <1>10, <1>11, <1>12 DEF Q, l, t

-----------------------------------------------------------------------------
(* The inductive invariant.                                                *)

\* The constructor refuses fewer cells per bucket than a node has.
IntervalIsLarge == bucket_interval >= BitsPerNode

\* A node that wore out has had its turn in the epoch, and as the loop ends
\* with the epoch it never has another one.
WornNodesHadTheirTurn ==
    \A n \in Nodes : IsWornOut(n) => next_job = 0 \/ job_idx[n] < next_job

\* Once a node has worn out, the node reported has taken more bit flips than
\* all buckets stand for.
MostWrittenIsWorn ==
    /\ args.rebalance => most_written_node \in Nodes \union {NoNode}
    /\ ~cont => /\ args.rebalance
                /\ most_written_node \in Nodes
                /\ lifetime_bfs[most_written_node] > NBuckets * bucket_interval

\* Without rebalancing there are no turns.
NoTurnsWithoutRebalance == ~args.rebalance => next_job = 0 /\ n_events = 0

Inv ==
    /\ TypeOK
    /\ QueuesPartitionNodes
    /\ LowestActiveIsLowest
    /\ MappingConsistent
    /\ WearAccounting
    /\ NoRebalanceBudget
    /\ IntervalIsLarge
    /\ WornNodesHadTheirTurn
    /\ MostWrittenIsWorn
    /\ NoTurnsWithoutRebalance

-----------------------------------------------------------------------------
(* The counters.                                                           *)

\* The wear counters of a node in queue q agree, after w promotions.
Agree(q, i, l, w) ==
    /\ l >= q * bucket_interval + i
    /\ \E j \in Jobs : l <= q * bucket_interval + i + w * bit_writes_per_quanta(j)

\* The turns of a node that counted for its life only.
Promotions(n) == IF IsWornOut(n) THEN queue[n] + 1 ELSE queue[n]

\* WearAccounting says that the counters of every node agree.
LEMMA WearIsAgreement ==
    WearAccounting <=> \A n \in Nodes :
        Agree(queue[n], interval_bfs[n], lifetime_bfs[n], Promotions(n))
  BY DEF WearAccounting, Agree, Promotions

\* The arguments do not change, and what is derived from them does not either.
LEMMA ArgsFixed ==
    ASSUME args' = args
    PROVE  /\ bucket_cap' = bucket_cap
           /\ bucket_interval' = bucket_interval
           /\ \A j \in Jobs : bit_writes_per_quanta(j)' = bit_writes_per_quanta(j)
  BY DEF bucket_cap, bucket_interval, bit_writes_per_quanta

LEMMA WearFromAgreement ==
    ASSUME args' = args,
           \A n \in Nodes : Agree(queue'[n], interval_bfs'[n], lifetime_bfs'[n],
                                  Promotions(n)')
    PROVE  WearAccounting'
  <1>1. /\ bucket_interval' = bucket_interval
        /\ \A j \in Jobs : bit_writes_per_quanta(j)' = bit_writes_per_quanta(j)
    BY ArgsFixed
  <1>2. SUFFICES ASSUME NEW n \in Nodes
                 PROVE  Agree(queue[n], interval_bfs[n], lifetime_bfs[n], Promotions(n))'
    BY DEF WearAccounting, Agree, Promotions
  <1>3. Agree(queue'[n], interval_bfs'[n], lifetime_bfs'[n], Promotions(n)')
    OBVIOUS
  <1>4. QED BY <1>1, <1>3 DEF Agree

\* Of two jobs one writes at least as much as either in a quantum, so that a
\* bound by w turns of one and a turn of the other is one by w + 1 turns.
LEMMA OneMoreTurn ==
    ASSUME ArgsType, NEW j \in Jobs, NEW k \in Jobs, NEW w \in Nat
    PROVE  \E m \in Jobs :
                w * bit_writes_per_quanta(j) + bit_writes_per_quanta(k)
                    <= (w + 1) * bit_writes_per_quanta(m)
  <1> DEFINE b == bit_writes_per_quanta(j)
             c == bit_writes_per_quanta(k)
  <1>1. b \in Nat /\ c \in Nat
    BY ChargesAreNatural
  <1>2. CASE b >= c
    <2>1. w * b + c <= (w + 1) * b
      <3> HIDE DEF b, c
      <3>1. QED BY <1>1, <1>2, Z3
    <2>2. QED BY <2>1
  <1>3. CASE ~(b >= c)
    <2>1. w * b + c <= (w + 1) * c
      <3> HIDE DEF b, c
      <3>1. w * b <= w * c
        BY <1>1, <1>3, Z3
      <3>2. (w + 1) * c = w * c + c
        BY <1>1, Z3
      <3>3. w * b \in Nat /\ w * c \in Nat
        BY <1>1, ProductIsNatural
      <3>4. QED BY <1>1, <3>1, <3>2, <3>3
    <2>2. QED BY <2>1
  <1>4. QED BY <1>2, <1>3

\* Bit flips counted for both keep the agreement; a turn that counts for the
\* life only is one more turn of slack; a promotion moves an interval's worth
\* into the queue.
LEMMA AgreementKept ==
    ASSUME ArgsType, NEW q \in Nat, NEW i \in Nat, NEW l \in Nat, NEW w \in Nat,
           NEW c \in Nat, NEW k \in Jobs, Agree(q, i, l, w)
    PROVE  /\ Agree(q, i + c, l + c, w)
           /\ Agree(q, i, l + bit_writes_per_quanta(k), w + 1)
           /\ i >= bucket_interval =>
                Agree(q + 1, i - bucket_interval + c,
                      l + c + bit_writes_per_quanta(k), w + 1)
  <1> DEFINE B == bucket_interval
             b == bit_writes_per_quanta(k)
  <1>1. B \in Nat /\ b \in Nat
    BY BucketFacts, ChargesAreNatural
  <1>2. PICK j \in Jobs : l <= q * B + i + w * bit_writes_per_quanta(j)
    BY DEF Agree
  <1>3. PICK m \in Jobs :
            w * bit_writes_per_quanta(j) + b <= (w + 1) * bit_writes_per_quanta(m)
    BY OneMoreTurn
  <1> DEFINE x == q * B
             y == w * bit_writes_per_quanta(j)
             y1 == (w + 1) * bit_writes_per_quanta(m)
             x1 == (q + 1) * B
  <1>4. x \in Nat /\ y \in Nat /\ y1 \in Nat
    BY <1>1, ChargesAreNatural, ProductIsNatural
  <1>5. x1 = x + B
    <2> HIDE DEF B
    <2>1. QED BY <1>1, Z3
  <1>6. l >= x + i /\ l <= x + i + y
    BY <1>2 DEF Agree
  <1>7. y + b <= y1
    BY <1>3
  <1> HIDE DEF x, y, y1, x1, B, b
  <1>8. /\ l + c >= x + (i + c) /\ l + c <= x + (i + c) + y
        /\ l + b >= x + i /\ l + b <= x + i + y1
        /\ i >= B => /\ l + c + b >= x1 + (i - B + c)
                     /\ l + c + b <= x1 + (i - B + c) + y1
    BY <1>1, <1>4, <1>5, <1>6, <1>7
  <1>9. Agree(q, i + c, l + c, w)
    BY <1>8 DEF Agree, x, y, B
  <1>10. Agree(q, i, l + b, w + 1)
    BY <1>8 DEF Agree, x, y1, B
  <1>11. i >= B => Agree(q + 1, i - B + c, l + c + b, w + 1)
    BY <1>8 DEF Agree, x1, y1, B
  <1>12. QED BY <1>9, <1>10, <1>11 DEF B, b

-----------------------------------------------------------------------------
(* The parts that all turns share.                                         *)

\* What holds when a job has its turn: its node is in a list.
LEMMA TurnFacts ==
    ASSUME Inv, NEW j \in Jobs, IsTurnOf(j)
    PROVE  /\ status = "running" /\ args.rebalance /\ next_job = j
           /\ ArgsType
           /\ job_map[j] \in Nodes
           /\ job_idx[job_map[j]] = j
           /\ Queued(job_map[j])
           /\ \A n \in Nodes : IsWornOut(n) => job_idx[n] < j
  <1>1. status = "running" /\ args.rebalance /\ next_job = j /\ (j = 0 => cont)
    BY DEF IsTurnOf, LoopGoesOn
  <1>2. ArgsType
    BY DEF Inv, TypeOK, ArgsType
  <1>3. job_map[j] \in Nodes
    BY <1>1 DEF Inv, TypeOK
  <1>4. job_idx[job_map[j]] = j
    BY <1>1, <1>3 DEF Inv, MappingConsistent
  <1>5. ASSUME NEW n \in Nodes, IsWornOut(n) PROVE job_idx[n] < j
    <2>1. ~cont
      BY <1>5 DEF Inv, QueuesPartitionNodes
    <2>2. QED BY <1>1, <1>5, <2>1 DEF Inv, WornNodesHadTheirTurn
  <1>6. ~IsWornOut(job_map[j])
    <2>1. j \in Int
      BY DEF Jobs
    <2>2. QED BY <1>3, <1>4, <1>5, <2>1
  <1>7. Queued(job_map[j])
    BY <1>1, <1>3, <1>6, NotWornOutIsQueued DEF Inv
  <1>8. QED BY <1>1, <1>2, <1>3, <1>4, <1>5, <1>7

\* The tail of a turn: lives only grow, and the node that had its turn is
\* compared with the memoised one.
LEMMA EndTurnFacts ==
    ASSUME Inv, args.rebalance, NEW n \in Nodes,
           NEW lifetime \in [Nodes -> Nat], job_idx'[n] \in Jobs,
           \A g \in Nodes : lifetime[g] >= lifetime_bfs[g],
           EndTurn(n, lifetime)
    PROVE  /\ args' = args /\ no_rebalance_mwn' = no_rebalance_mwn
           /\ n_events' = n_events /\ epoch' = epoch /\ status' = status
           /\ next_job' = next_job + 1
           /\ lifetime_bfs' \in [Nodes -> Nat]
           /\ \A g \in Nodes : lifetime_bfs'[g] =
                IF g = n THEN lifetime[g] + bit_writes_per_quanta(job_idx'[n])
                         ELSE lifetime[g]
           /\ most_written_node' \in Nodes
           /\ lifetime_bfs'[most_written_node'] >= lifetime_bfs'[n]
           /\ most_written_node \in Nodes =>
                lifetime_bfs'[most_written_node'] >= lifetime_bfs[most_written_node]
  <1> DEFINE b == bit_writes_per_quanta(job_idx'[n])
  <1>1. b \in Nat
    BY ChargesAreNatural DEF Inv, TypeOK, ArgsType
  <1>2. lifetime_bfs' = [lifetime EXCEPT ![n] = @ + b]
    BY DEF EndTurn
  <1>3. /\ args' = args /\ no_rebalance_mwn' = no_rebalance_mwn
        /\ n_events' = n_events /\ epoch' = epoch /\ status' = status
        /\ next_job' = next_job + 1
        /\ most_written_node' =
            IF most_written_node = NoNode
               \/ lifetime_bfs'[n] > lifetime_bfs'[most_written_node]
            THEN n ELSE most_written_node
    BY DEF EndTurn, IsMostWritten
  <1> HIDE DEF b
  <1>4. \A g \in Nodes : lifetime_bfs'[g] = IF g = n THEN lifetime[g] + b ELSE lifetime[g]
    BY <1>2
  <1>5. lifetime_bfs' \in [Nodes -> Nat]
    BY <1>1, <1>2
  <1>6. most_written_node \in Nodes \union {NoNode}
    BY DEF Inv, MostWrittenIsWorn
  <1>7. most_written_node' \in Nodes
    BY <1>3, <1>6
  <1>8. lifetime_bfs'[most_written_node'] >= lifetime_bfs'[n]
    BY <1>3, <1>5, <1>6
  <1>9. ASSUME most_written_node \in Nodes
        PROVE  lifetime_bfs'[most_written_node'] >= lifetime_bfs[most_written_node]
    <2>1. most_written_node # NoNode
      BY <1>9 DEF Nodes
    <2>2. lifetime_bfs'[most_written_node'] >= lifetime_bfs'[most_written_node]
      BY <1>3, <1>5, <1>9, <2>1
    <2>3. lifetime_bfs'[most_written_node] >= lifetime_bfs[most_written_node]
      <3>1. /\ lifetime[most_written_node] \in Nat
            /\ lifetime_bfs[most_written_node] \in Nat
            /\ lifetime[most_written_node] >= lifetime_bfs[most_written_node]
        BY <1>9 DEF Inv, TypeOK
      <3>2. QED BY <1>1, <1>4, <1>9, <3>1
    <2>4. lifetime_bfs \in [Nodes -> Nat]
      BY DEF Inv, TypeOK
    <2>5. QED BY <1>5, <1>7, <1>9, <2>2, <2>3, <2>4
  <1>10. QED BY <1>3, <1>4, <1>5, <1>7, <1>8, <1>9 DEF b

\* What the tail of a turn settles of the invariant, whichever way the turn
\* went: a turn that ends the loop must have worn its node out.
LEMMA TurnKeeps ==
    ASSUME Inv, args.rebalance, NEW j \in Jobs, next_job = j,
           NEW n \in Nodes,
           NEW lifetime \in [Nodes -> Nat], job_idx'[n] \in Jobs,
           \A g \in Nodes : lifetime[g] >= lifetime_bfs[g],
           EndTurn(n, lifetime),
           ~cont' => ~cont \/ lifetime_bfs'[n] > NBuckets * bucket_interval
    PROVE  /\ MostWrittenIsWorn' /\ NoTurnsWithoutRebalance' /\ NoRebalanceBudget'
           /\ IntervalIsLarge'
           /\ args' = args /\ next_job' = j + 1 /\ status' = status
           /\ next_job' \in 0..NNodes
           /\ lifetime_bfs' \in [Nodes -> Nat]
           /\ most_written_node' \in Nodes \union {NoNode, NoRebalanceMwn}
           /\ no_rebalance_mwn' \in Nat /\ epoch' \in Nat /\ n_events' \in 0..epoch'
           /\ ArgsType'
  <1>1. /\ args' = args /\ no_rebalance_mwn' = no_rebalance_mwn
        /\ n_events' = n_events /\ epoch' = epoch /\ status' = status
        /\ next_job' = next_job + 1
        /\ lifetime_bfs' \in [Nodes -> Nat]
        /\ most_written_node' \in Nodes
        /\ lifetime_bfs'[most_written_node'] >= lifetime_bfs'[n]
        /\ most_written_node \in Nodes =>
            lifetime_bfs'[most_written_node'] >= lifetime_bfs[most_written_node]
    BY EndTurnFacts
  <1>2. bucket_interval' = bucket_interval /\ bucket_interval \in Nat
    BY <1>1, ArgsFixed, BucketFacts DEF Inv, TypeOK, ArgsType
  <1> DEFINE e == NBuckets * bucket_interval
  <1>3. e \in Nat
    BY <1>2, ProductIsNatural
  <1>4. ASSUME ~cont' PROVE lifetime_bfs'[most_written_node'] > e
    <2> HIDE DEF e
    <2>1. CASE ~cont
      <3>1. most_written_node \in Nodes /\ lifetime_bfs[most_written_node] > e
        BY <2>1 DEF Inv, MostWrittenIsWorn, e
      <3>2. lifetime_bfs[most_written_node] \in Nat
        BY <3>1 DEF Inv, TypeOK
      <3>3. QED BY <1>1, <1>3, <3>1, <3>2
    <2>2. CASE cont
      <3>1. lifetime_bfs'[n] > e
        BY <1>4, <2>2 DEF e
      <3>2. QED BY <1>1, <1>3, <3>1
    <2>3. QED BY <2>1, <2>2
  <1>5. MostWrittenIsWorn'
    BY <1>1, <1>2, <1>4 DEF MostWrittenIsWorn
  <1>6. NoTurnsWithoutRebalance' /\ NoRebalanceBudget'
    BY <1>1 DEF NoTurnsWithoutRebalance, NoRebalanceBudget
  <1>7. IntervalIsLarge'
    BY <1>2 DEF Inv, IntervalIsLarge
  <1>8. next_job' = j + 1 /\ next_job' \in 0..NNodes
    BY <1>1 DEF Jobs
  <1>9. ArgsType'
    BY <1>1 DEF Inv, TypeOK, ArgsType
  <1>10. /\ no_rebalance_mwn' \in Nat /\ epoch' \in Nat /\ n_events' \in 0..epoch'
    BY <1>1 DEF Inv, TypeOK
  <1>11. QED BY <1>1, <1>5, <1>6, <1>7, <1>8, <1>9, <1>10

-----------------------------------------------------------------------------
(* The turns.                                                              *)

\* A turn that promotes nothing only moves the counters of its node.
LEMMA AccumulateInv ==
    ASSUME Inv, NEW j \in Jobs, Accumulate(j)
    PROVE  Inv'
  <1> DEFINE nm == job_map[j]
             b == bit_writes_per_quanta(j)
  <1>1. /\ IsTurnOf(j)
        /\ UNCHANGED <<queues_vec, queue, job_idx, job_map, lowest_active_queue,
                       totals, cont>>
        /\ interval_bfs' =
             [interval_bfs EXCEPT ![nm] = @ + bit_writes_per_quanta(job_idx[nm])]
        /\ EndTurn(nm, lifetime_bfs)
    BY DEF Accumulate
  <1>2. /\ status = "running" /\ args.rebalance /\ next_job = j /\ ArgsType
        /\ nm \in Nodes /\ job_idx[nm] = j /\ Queued(nm)
        /\ \A n \in Nodes : IsWornOut(n) => job_idx[n] < j
    BY <1>1, TurnFacts
  <1>3. /\ lifetime_bfs \in [Nodes -> Nat] /\ interval_bfs \in [Nodes -> Nat]
        /\ queue \in [Nodes -> Queues]
        /\ \A g \in Nodes : lifetime_bfs[g] >= lifetime_bfs[g]
    BY DEF Inv, TypeOK
  <1>4. job_idx'[nm] = j
    BY <1>1, <1>2
  <1> HIDE DEF nm
  <1>5. /\ MostWrittenIsWorn' /\ NoTurnsWithoutRebalance' /\ NoRebalanceBudget'
        /\ IntervalIsLarge'
        /\ args' = args /\ next_job' = j + 1 /\ status' = status
        /\ next_job' \in 0..NNodes
        /\ lifetime_bfs' \in [Nodes -> Nat]
        /\ most_written_node' \in Nodes \union {NoNode, NoRebalanceMwn}
        /\ no_rebalance_mwn' \in Nat /\ epoch' \in Nat /\ n_events' \in 0..epoch'
        /\ ArgsType'
    BY <1>1, <1>2, <1>3, <1>4, TurnKeeps
  <1>6. \A g \in Nodes : lifetime_bfs'[g] =
            IF g = nm THEN lifetime_bfs[g] + b ELSE lifetime_bfs[g]
    BY <1>1, <1>2, <1>3, <1>4, EndTurnFacts
  <1>7. b \in Nat
    BY <1>2, ChargesAreNatural
  <1>8. \A g \in Nodes : interval_bfs'[g] =
            IF g = nm THEN interval_bfs[g] + b ELSE interval_bfs[g]
    BY <1>1, <1>2, <1>3
  <1>9. interval_bfs' \in [Nodes -> Nat]
    BY <1>1, <1>2, <1>3, <1>7
  <1> HIDE DEF b
  <1>10. TypeOK'
    BY <1>1, <1>5, <1>9 DEF Inv, TypeOK, ArgsType
  <1>11. \A g \in Nodes : IsWornOut(g)' <=> IsWornOut(g)
    BY <1>1, <1>5 DEF IsWornOut
  <1>12. QueuesPartitionNodes' /\ LowestActiveIsLowest' /\ MappingConsistent'
    BY <1>1, <1>5, <1>11
       DEF Inv, QueuesPartitionNodes, LowestActiveIsLowest, MappingConsistent
  <1>13. WearAccounting'
    <2>1. ASSUME NEW g \in Nodes
          PROVE  Agree(queue'[g], interval_bfs'[g], lifetime_bfs'[g], Promotions(g)')
      <3>1. /\ queue[g] \in Nat /\ interval_bfs[g] \in Nat /\ lifetime_bfs[g] \in Nat
            /\ Promotions(g) \in Nat
        BY <1>3 DEF Queues, Promotions
      <3>2. Agree(queue[g], interval_bfs[g], lifetime_bfs[g], Promotions(g))
        BY WearIsAgreement DEF Inv
      <3>3. Promotions(g)' = Promotions(g) /\ queue'[g] = queue[g]
        BY <1>1, <1>11 DEF Promotions
      <3>4. Agree(queue[g], interval_bfs[g] + b, lifetime_bfs[g] + b, Promotions(g))
        BY <1>2, <1>7, <3>1, <3>2, AgreementKept
      <3>5. QED BY <1>6, <1>8, <3>2, <3>3, <3>4
    <2>2. QED BY <1>5, <2>1, WearFromAgreement
  <1>14. WornNodesHadTheirTurn'
    <2>1. \A g \in Nodes : IsWornOut(g) => job_idx[g] < j /\ job_idx[g] \in Int
      BY <1>2 DEF Inv, TypeOK, Jobs
    <2>2. j \in Int
      BY DEF Jobs
    <2>3. QED BY <1>1, <1>5, <1>11, <2>1, <2>2 DEF WornNodesHadTheirTurn
  <1>15. QED BY <1>5, <1>10, <1>12, <1>13, <1>14 DEF Inv

\* The node of the job is the first or one more to leave the last queue.
LEMMA MaxOutInv ==
    ASSUME Inv, NEW j \in Jobs, MaxOut(j)
    PROVE  Inv'
  <1> DEFINE nm == job_map[j]
             b == bit_writes_per_quanta(j)
             B == bucket_interval
  <1>1. /\ IsTurnOf(j) /\ HitInterval(nm) /\ MaxedOut(nm)
        /\ queues_vec' = Erased(nm)
        /\ lowest_active_queue' = LowestAfterErase(nm)
        /\ cont' = FALSE
        /\ UNCHANGED <<interval_bfs, queue, job_idx, job_map, totals>>
        /\ EndTurn(nm, lifetime_bfs)
    BY DEF MaxOut
  <1>2. /\ status = "running" /\ args.rebalance /\ next_job = j /\ ArgsType
        /\ nm \in Nodes /\ job_idx[nm] = j /\ Queued(nm)
        /\ \A n \in Nodes : IsWornOut(n) => job_idx[n] < j
    BY <1>1, TurnFacts
  <1>3. /\ lifetime_bfs \in [Nodes -> Nat] /\ interval_bfs \in [Nodes -> Nat]
        /\ queue \in [Nodes -> Queues]
        /\ \A g \in Nodes : lifetime_bfs[g] >= lifetime_bfs[g]
    BY DEF Inv, TypeOK
  <1>4. job_idx'[nm] = j
    BY <1>1, <1>2
  <1>5. /\ Erased(nm) \in [Queues -> Seq(Nodes)]
        /\ \A q \in Queues : IsInjective(Erased(nm)[q])
        /\ \A q \in Queues, g \in Nodes :
            Contains(Erased(nm)[q], g) <=> (Contains(queues_vec[q], g) /\ g # nm)
    BY <1>2, ErasedQueues DEF Inv
  <1>6. /\ lowest_active_queue \in Queues
        /\ \/ /\ LowestAfterErase(nm) = lowest_active_queue
              /\ LowestAfterErase(nm) <= queue[nm]
              /\ Erased(nm)[LowestAfterErase(nm)] # <<>>
           \/ LowestAfterErase(nm) = queue[nm] + 1
        /\ \A q \in Queues : q < LowestAfterErase(nm) => Erased(nm)[q] = <<>>
    BY <1>2, LowestOnceErased DEF Inv
  <1> HIDE DEF nm, b, B
  <1>7. queue[nm] = NBuckets - 1 /\ interval_bfs[nm] > B
    BY <1>1, <1>2, <1>3 DEF MaxedOut, HitInterval, Queues, B
  <1>8. B \in Nat /\ b \in Nat
    BY <1>2, BucketFacts, ChargesAreNatural DEF B, b
  <1>9. \A g \in Nodes : lifetime_bfs'[g] =
            IF g = nm THEN lifetime_bfs[g] + b ELSE lifetime_bfs[g]
    BY <1>1, <1>2, <1>3, <1>4, EndTurnFacts DEF b
  <1>10. lifetime_bfs'[nm] > NBuckets * bucket_interval
    <2>1. lifetime_bfs[nm] >= queue[nm] * B + interval_bfs[nm]
      BY <1>2, WearIsAgreement DEF Inv, Agree, B
    <2>2. NBuckets * B = (NBuckets - 1) * B + B
      BY <1>8, Z3
    <2>3. (NBuckets - 1) * B \in Nat
      BY <1>8, ProductIsNatural
    <2>4. /\ lifetime_bfs[nm] \in Nat /\ interval_bfs[nm] \in Nat
          /\ lifetime_bfs'[nm] = lifetime_bfs[nm] + b
      BY <1>2, <1>3, <1>9
    <2>5. lifetime_bfs'[nm] > NBuckets * B
      BY <1>7, <1>8, <2>1, <2>2, <2>3, <2>4
    <2>6. QED BY <2>5 DEF B
  <1>11. /\ MostWrittenIsWorn' /\ NoTurnsWithoutRebalance' /\ NoRebalanceBudget'
         /\ IntervalIsLarge'
         /\ args' = args /\ next_job' = j + 1 /\ status' = status
         /\ next_job' \in 0..NNodes
         /\ lifetime_bfs' \in [Nodes -> Nat]
         /\ most_written_node' \in Nodes \union {NoNode, NoRebalanceMwn}
         /\ no_rebalance_mwn' \in Nat /\ epoch' \in Nat /\ n_events' \in 0..epoch'
         /\ ArgsType'
    BY <1>1, <1>2, <1>3, <1>4, <1>10, TurnKeeps
  <1>12. TypeOK'
    <2>1. lowest_active_queue' \in 0..NBuckets
      BY <1>1, <1>6, <1>7 DEF Queues
    <2>2. QED BY <1>1, <1>5, <1>11, <2>1 DEF Inv, TypeOK, ArgsType
  <1>13. \A g \in Nodes : IsWornOut(g)' <=> (IsWornOut(g) \/ g = nm)
    BY <1>1, <1>2, <1>5, <1>11 DEF IsWornOut
  <1>14. QueuesPartitionNodes'
    <2>1. \A q \in Queues, g \in Nodes : Contains(queues_vec'[q], g) => queue'[g] = q
      BY <1>1, <1>5 DEF Inv, QueuesPartitionNodes
    <2>2. \A g \in Nodes : IsWornOut(g)' => ~cont' /\ queue'[g] = NBuckets - 1
      BY <1>1, <1>7, <1>13 DEF Inv, QueuesPartitionNodes
    <2>3. QED BY <1>1, <1>5, <2>1, <2>2 DEF QueuesPartitionNodes
  <1>15. LowestActiveIsLowest'
    <2>1. CASE LowestAfterErase(nm) = lowest_active_queue
      BY <1>1, <1>6, <1>7, <2>1 DEF LowestActiveIsLowest, Queues
    <2>2. CASE LowestAfterErase(nm) # lowest_active_queue
      <3>1. LowestAfterErase(nm) = NBuckets
        BY <1>6, <1>7, <2>2
      <3>2. \A q \in Queues : Erased(nm)[q] = <<>>
        BY <1>6, <3>1 DEF Queues
      <3>3. \A q \in Queues, g \in Nodes : ~Contains(Erased(nm)[q], g)
        BY <1>5, <3>2, EmptyHoldsNothing
      <3>4. \A g \in Nodes : IsWornOut(g)'
        BY <1>1, <1>2, <1>11, <3>3 DEF IsWornOut
      <3>5. lowest_active_queue' \notin Queues
        BY <1>1, <3>1 DEF Queues
      <3>6. QED BY <1>1, <3>2, <3>4, <3>5 DEF LowestActiveIsLowest
    <2>3. QED BY <2>1, <2>2
  <1>16. MappingConsistent'
    BY <1>1, <1>11 DEF Inv, MappingConsistent
  <1>17. WearAccounting'
    <2>1. ASSUME NEW g \in Nodes
          PROVE  Agree(queue'[g], interval_bfs'[g], lifetime_bfs'[g], Promotions(g)')
      <3>1. /\ queue[g] \in Nat /\ interval_bfs[g] \in Nat /\ lifetime_bfs[g] \in Nat
            /\ Promotions(g) \in Nat
        BY <1>3 DEF Queues, Promotions
      <3>2. Agree(queue[g], interval_bfs[g], lifetime_bfs[g], Promotions(g))
        BY WearIsAgreement DEF Inv
      <3>3. CASE g = nm
        <4>1. ~IsWornOut(g)
          BY <1>2, <3>3, NotWornOutIsQueued DEF Inv
        <4>2. Promotions(g)' = Promotions(g) + 1 /\ queue'[g] = queue[g]
          BY <1>1, <1>13, <3>3, <4>1 DEF Promotions
        <4>3. Agree(queue[g], interval_bfs[g], lifetime_bfs[g] + b, Promotions(g) + 1)
          BY <1>2, <3>1, <3>2, 0 \in Nat, AgreementKept DEF b
        <4>4. QED BY <1>1, <1>9, <3>3, <4>2, <4>3
      <3>4. CASE g # nm
        <4>1. Promotions(g)' = Promotions(g)
          BY <1>1, <1>13, <3>4 DEF Promotions
        <4>2. QED BY <1>1, <1>9, <3>2, <3>4, <4>1
      <3>5. QED BY <3>3, <3>4
    <2>2. QED BY <1>11, <2>1, WearFromAgreement
  <1>18. WornNodesHadTheirTurn'
    <2>1. \A g \in Nodes : job_idx[g] \in Int
      BY DEF Inv, TypeOK, Jobs
    <2>2. j \in Int
      BY DEF Jobs
    <2>3. \A g \in Nodes : IsWornOut(g)' => job_idx'[g] < next_job'
      BY <1>1, <1>2, <1>11, <1>13, <2>1, <2>2
    <2>4. QED BY <2>3 DEF WornNodesHadTheirTurn
  <1>19. QED BY <1>11, <1>12, <1>14, <1>15, <1>16, <1>17, <1>18 DEF Inv

\* Moving one node to the next queue, in the lists and in its backpointer,
\* keeps every node in one queue and wears none out.
LEMMA PromotionPartitions ==
    ASSUME Inv, args.rebalance, args' = args, cont' = cont,
           NEW n \in Nodes, Queued(n), ~MaxedOut(n),
           queue' = [queue EXCEPT ![n] = @ + 1],
           \A q \in Queues : IsInjective(queues_vec'[q]),
           \A q \in Queues, g \in Nodes :
                Contains(queues_vec'[q], g) <=> Contains(Emplaced(n)[q], g)
    PROVE  /\ QueuesPartitionNodes'
           /\ queue' \in [Nodes -> Queues]
           /\ \A g \in Nodes : queue'[g] = IF g = n THEN queue[n] + 1 ELSE queue[g]
           /\ \A g \in Nodes : IsWornOut(g)' <=> IsWornOut(g)
           /\ ~IsWornOut(n)
  <1>1. /\ queue[n] + 1 \in Queues
        /\ \A q \in Queues, g \in Nodes :
                Contains(Emplaced(n)[q], g) <=>
                    IF g = n THEN q = queue[n] + 1 ELSE Contains(queues_vec[q], g)
    BY EmplacedQueues DEF Inv
  <1>2. /\ queue' \in [Nodes -> Queues]
        /\ \A g \in Nodes : queue'[g] = IF g = n THEN queue[n] + 1 ELSE queue[g]
    BY <1>1 DEF Inv, TypeOK
  <1>3. ASSUME NEW q \in Queues, NEW g \in Nodes, Contains(queues_vec'[q], g)
        PROVE  queue'[g] = q
    BY <1>1, <1>2, <1>3 DEF Inv, QueuesPartitionNodes
  <1>4. ~IsWornOut(n)
    BY NotWornOutIsQueued DEF Inv
  <1>5. ASSUME NEW g \in Nodes PROVE IsWornOut(g)' <=> IsWornOut(g)
    <2>1. CASE g = n
      <3>1. Contains(queues_vec'[queue[n] + 1], n)
        BY <1>1
      <3>2. ~IsWornOut(n)'
        BY <1>1, <3>1 DEF IsWornOut
      <3>3. QED BY <1>4, <2>1, <3>2
    <2>2. CASE g # n
      <3>1. \A q \in Queues : Contains(queues_vec'[q], g) <=> Contains(queues_vec[q], g)
        BY <1>1, <2>2
      <3>2. QED BY <3>1 DEF IsWornOut
    <2>3. QED BY <2>1, <2>2
  <1>6. \A g \in Nodes : IsWornOut(g)' => ~cont' /\ queue'[g] = NBuckets - 1
    BY <1>2, <1>4, <1>5 DEF Inv, QueuesPartitionNodes
  <1>7. QED BY <1>2, <1>3, <1>4, <1>5, <1>6 DEF QueuesPartitionNodes

\* A promotion into the lowest active queue moves one node.
LEMMA PromoteAloneInv ==
    ASSUME Inv, NEW j \in Jobs, PromoteAlone(j)
    PROVE  Inv'
  <1> DEFINE nm == job_map[j]
             b == bit_writes_per_quanta(j)
             B == bucket_interval
  <1>1. /\ IsTurnOf(j) /\ HitInterval(nm) /\ ~MaxedOut(nm)
        /\ queues_vec' = Emplaced(nm)
        /\ queue' = [queue EXCEPT ![nm] = @ + 1]
        /\ interval_bfs' = [interval_bfs EXCEPT ![nm] = @ - B]
        /\ lowest_active_queue' = LowestAfterErase(nm)
        /\ UNCHANGED <<job_idx, job_map, totals, cont>>
        /\ EndTurn(nm, lifetime_bfs)
    BY DEF PromoteAlone, IntervalCarried
  <1>2. /\ status = "running" /\ args.rebalance /\ next_job = j /\ ArgsType
        /\ nm \in Nodes /\ job_idx[nm] = j /\ Queued(nm)
        /\ \A n \in Nodes : IsWornOut(n) => job_idx[n] < j
    BY <1>1, TurnFacts
  <1>3. /\ lifetime_bfs \in [Nodes -> Nat] /\ interval_bfs \in [Nodes -> Nat]
        /\ queue \in [Nodes -> Queues]
        /\ \A g \in Nodes : lifetime_bfs[g] >= lifetime_bfs[g]
    BY DEF Inv, TypeOK
  <1>4. job_idx'[nm] = j
    BY <1>1, <1>2
  <1>5. /\ Emplaced(nm) \in [Queues -> Seq(Nodes)]
        /\ \A q \in Queues : IsInjective(Emplaced(nm)[q])
    BY <1>1, <1>2, EmplacedQueues DEF Inv
  <1>6. /\ lowest_active_queue' \in Queues
        /\ queues_vec'[lowest_active_queue'] # <<>>
        /\ \A q \in Queues : q < lowest_active_queue' => queues_vec'[q] = <<>>
    BY <1>1, <1>2, LowestAfterPromotion DEF Inv
  <1> HIDE DEF nm, b
  <1>7. B \in Nat /\ b \in Nat
    BY <1>2, BucketFacts, ChargesAreNatural DEF b
  <1>8. interval_bfs[nm] >= B /\ interval_bfs[nm] \in Nat
    BY <1>1, <1>2, <1>3, <1>7 DEF HitInterval
  <1> HIDE DEF B
  <1>9. /\ MostWrittenIsWorn' /\ NoTurnsWithoutRebalance' /\ NoRebalanceBudget'
        /\ IntervalIsLarge'
        /\ args' = args /\ next_job' = j + 1 /\ status' = status
        /\ next_job' \in 0..NNodes
        /\ lifetime_bfs' \in [Nodes -> Nat]
        /\ most_written_node' \in Nodes \union {NoNode, NoRebalanceMwn}
        /\ no_rebalance_mwn' \in Nat /\ epoch' \in Nat /\ n_events' \in 0..epoch'
        /\ ArgsType'
    BY <1>1, <1>2, <1>3, <1>4, TurnKeeps
  <1>10. /\ QueuesPartitionNodes' /\ queue' \in [Nodes -> Queues]
         /\ \A g \in Nodes : queue'[g] = IF g = nm THEN queue[nm] + 1 ELSE queue[g]
         /\ \A g \in Nodes : IsWornOut(g)' <=> IsWornOut(g)
         /\ ~IsWornOut(nm)
    BY <1>1, <1>2, <1>5, <1>9, PromotionPartitions
  <1>11. \A g \in Nodes :
            /\ lifetime_bfs'[g] =
                IF g = nm THEN lifetime_bfs[g] + b ELSE lifetime_bfs[g]
            /\ interval_bfs'[g] =
                IF g = nm THEN interval_bfs[g] - B ELSE interval_bfs[g]
    BY <1>1, <1>2, <1>3, <1>4, EndTurnFacts DEF b
  <1>12. TypeOK'
    <2>1. interval_bfs' \in [Nodes -> Nat]
      BY <1>1, <1>2, <1>3, <1>7, <1>8
    <2>2. queues_vec' \in [Queues -> Seq(Nodes)] /\ lowest_active_queue' \in 0..NBuckets
      BY <1>1, <1>5, <1>6 DEF Queues
    <2>3. QED BY <1>1, <1>9, <1>10, <2>1, <2>2 DEF Inv, TypeOK, ArgsType
  <1>13. LowestActiveIsLowest' /\ MappingConsistent'
    BY <1>1, <1>6, <1>9 DEF Inv, LowestActiveIsLowest, MappingConsistent
  <1>14. WearAccounting'
    <2>1. ASSUME NEW g \in Nodes
          PROVE  Agree(queue'[g], interval_bfs'[g], lifetime_bfs'[g], Promotions(g)')
      <3>1. /\ queue[g] \in Nat /\ interval_bfs[g] \in Nat /\ lifetime_bfs[g] \in Nat
            /\ Promotions(g) \in Nat
        BY <1>3 DEF Queues, Promotions
      <3>2. Agree(queue[g], interval_bfs[g], lifetime_bfs[g], Promotions(g))
        BY WearIsAgreement DEF Inv
      <3>3. CASE g = nm
        <4>1. Promotions(g) = queue[g] /\ Promotions(g)' = queue[g] + 1
          BY <1>10, <3>3 DEF Promotions
        <4>2. Agree(queue[g] + 1, interval_bfs[g] - B + 0, lifetime_bfs[g] + 0 + b,
                    queue[g] + 1)
          BY <1>2, <1>8, <3>1, <3>2, <3>3, <4>1, 0 \in Nat, AgreementKept DEF b, B
        <4>3. /\ queue'[g] = queue[g] + 1
              /\ interval_bfs'[g] = interval_bfs[g] - B + 0
              /\ lifetime_bfs'[g] = lifetime_bfs[g] + 0 + b
          BY <1>7, <1>10, <1>11, <3>1, <3>3
        <4>4. QED BY <4>1, <4>2, <4>3
      <3>4. CASE g # nm
        <4>1. Promotions(g)' = Promotions(g) /\ queue'[g] = queue[g]
          BY <1>10, <3>4 DEF Promotions
        <4>2. QED BY <1>11, <3>2, <3>4, <4>1
      <3>5. QED BY <3>3, <3>4
    <2>2. QED BY <1>9, <2>1, WearFromAgreement
  <1>15. WornNodesHadTheirTurn'
    <2>1. \A g \in Nodes : job_idx[g] \in Int
      BY DEF Inv, TypeOK, Jobs
    <2>2. j \in Int
      BY DEF Jobs
    <2>3. QED BY <1>1, <1>2, <1>9, <1>10, <2>1, <2>2 DEF WornNodesHadTheirTurn
  <1>16. QED BY <1>9, <1>10, <1>12, <1>13, <1>14, <1>15 DEF Inv

\* A promotion with a swap exchanges the jobs of two nodes, neither of which
\* is worn out.
LEMMA PromoteAndSwapInv ==
    ASSUME Inv, NEW j \in Jobs, PromoteAndSwap(j)
    PROVE  Inv'
  <1> DEFINE nm == job_map[j]
             low == LowestAfterErase(nm)
             lnm == SwapPartner(nm)
             k == job_idx[lnm]
             b == bit_writes_per_quanta(k)
             c == swap_bfs(j)
             d == swap_bfs(k)
             B == bucket_interval
             Q == [Emplaced(nm) EXCEPT ![low] = Rotate(@)]
             carried == [interval_bfs EXCEPT ![nm] = @ - B]
             lives == [lifetime_bfs EXCEPT ![nm] = @ + c, ![lnm] = @ + d]
  <1>1. /\ IsTurnOf(j) /\ HitInterval(nm) /\ ~MaxedOut(nm)
        /\ low < queue[nm] + 1
        /\ queues_vec' = Q
        /\ queue' = [queue EXCEPT ![nm] = @ + 1]
        /\ lowest_active_queue' = low
        /\ job_idx' = [job_idx EXCEPT ![nm] = k, ![lnm] = j]
        /\ job_map' = [job_map EXCEPT ![k] = nm, ![j] = lnm]
        /\ interval_bfs' = [carried EXCEPT ![nm] = @ + c, ![lnm] = @ + d]
        /\ totals' =
             [promotions |-> totals.promotions + 1,
              bytes |-> totals.bytes + args.jobs[j].rss_bytes + args.jobs[k].rss_bytes,
              delay |-> totals.delay + LongerTransfer(j, k)]
        /\ cont' = cont
        /\ EndTurn(nm, lives)
    BY DEF PromoteAndSwap, IntervalCarried, ChargeSwap, Reseated
  <1>2. /\ status = "running" /\ args.rebalance /\ next_job = j /\ ArgsType
        /\ nm \in Nodes /\ job_idx[nm] = j /\ Queued(nm)
        /\ \A n \in Nodes : IsWornOut(n) => job_idx[n] < j
    BY <1>1, TurnFacts
  <1>3. /\ lifetime_bfs \in [Nodes -> Nat] /\ interval_bfs \in [Nodes -> Nat]
        /\ queue \in [Nodes -> Queues] /\ job_idx \in [Nodes -> Jobs]
        /\ job_map \in [Jobs -> Nodes]
    BY <1>2 DEF Inv, TypeOK
  <1>4. /\ lnm \in Nodes /\ lnm # nm /\ Queued(lnm)
        /\ Q \in [Queues -> Seq(Nodes)]
        /\ \A q \in Queues : IsInjective(Q[q])
        /\ \A q \in Queues, g \in Nodes :
                Contains(Q[q], g) <=> Contains(Emplaced(nm)[q], g)
        /\ \A q \in Queues : Q[q] = <<>> <=> Emplaced(nm)[q] = <<>>
    BY <1>1, <1>2, SwapPartnerFacts DEF Inv
  <1>5. /\ low \in Queues
        /\ Emplaced(nm)[low] # <<>>
        /\ \A q \in Queues : q < low => Emplaced(nm)[q] = <<>>
    BY <1>1, <1>2, LowestAfterPromotion DEF Inv
  <1> HIDE DEF nm, lnm, low, b, c, d, Q
  <1>6. k \in Jobs
    BY <1>3, <1>4
  <1>7. B \in Nat /\ b \in Nat /\ c \in Nat /\ d \in Nat
    BY <1>2, <1>6, BucketFacts, ChargesAreNatural DEF b, c, d
  <1>8. interval_bfs[nm] >= B /\ interval_bfs[nm] \in Nat
    BY <1>1, <1>2, <1>3, <1>7 DEF HitInterval
  <1> HIDE DEF B, k
  <1>9. /\ job_idx' \in [Nodes -> Jobs]
        /\ job_idx'[nm] = k /\ job_idx'[lnm] = j
        /\ \A g \in Nodes : g # nm /\ g # lnm => job_idx'[g] = job_idx[g]
    BY <1>1, <1>2, <1>3, <1>4, <1>6
  <1>10. /\ lives \in [Nodes -> Nat]
         /\ \A g \in Nodes : lives[g] = IF g = lnm THEN lifetime_bfs[g] + d
                                        ELSE IF g = nm THEN lifetime_bfs[g] + c
                                        ELSE lifetime_bfs[g]
    <2>1. \A g \in Nodes : lives[g] = IF g = lnm THEN lifetime_bfs[g] + d
                                      ELSE IF g = nm THEN lifetime_bfs[g] + c
                                      ELSE lifetime_bfs[g]
      BY <1>2, <1>3, <1>4
    <2>2. \A g \in Nodes : lives[g] \in Nat
      BY <1>3, <1>7, <2>1
    <2>3. lives = [g \in Nodes |-> lives[g]]
      BY <1>3
    <2> HIDE DEF lives
    <2>4. QED BY <2>1, <2>2, <2>3
  <1> HIDE DEF lives
  <1>11. \A g \in Nodes : lives[g] >= lifetime_bfs[g]
    BY <1>3, <1>7, <1>10
  <1>12. /\ MostWrittenIsWorn' /\ NoTurnsWithoutRebalance' /\ NoRebalanceBudget'
         /\ IntervalIsLarge'
         /\ args' = args /\ next_job' = j + 1 /\ status' = status
         /\ next_job' \in 0..NNodes
         /\ lifetime_bfs' \in [Nodes -> Nat]
         /\ most_written_node' \in Nodes \union {NoNode, NoRebalanceMwn}
         /\ no_rebalance_mwn' \in Nat /\ epoch' \in Nat /\ n_events' \in 0..epoch'
         /\ ArgsType'
    BY <1>1, <1>2, <1>6, <1>9, <1>10, <1>11, TurnKeeps
  <1>13. /\ QueuesPartitionNodes' /\ queue' \in [Nodes -> Queues]
         /\ \A g \in Nodes : queue'[g] = IF g = nm THEN queue[nm] + 1 ELSE queue[g]
         /\ \A g \in Nodes : IsWornOut(g)' <=> IsWornOut(g)
         /\ ~IsWornOut(nm)
    BY <1>1, <1>2, <1>4, <1>12, PromotionPartitions
  <1>14. \A g \in Nodes : lifetime_bfs'[g] = IF g = nm THEN lifetime_bfs[g] + c + b
                                             ELSE IF g = lnm THEN lifetime_bfs[g] + d
                                             ELSE lifetime_bfs[g]
    <2>1. \A g \in Nodes : lifetime_bfs'[g] = IF g = nm THEN lives[g] + b ELSE lives[g]
      BY <1>1, <1>2, <1>6, <1>9, <1>10, <1>11, EndTurnFacts DEF b
    <2>2. QED BY <1>4, <1>10, <2>1
  <1>15. /\ interval_bfs' \in [Nodes -> Nat]
         /\ \A g \in Nodes : interval_bfs'[g] =
                IF g = nm THEN interval_bfs[g] - B + c
                ELSE IF g = lnm THEN interval_bfs[g] + d
                ELSE interval_bfs[g]
    <2>1. /\ carried \in [Nodes -> Nat]
          /\ \A g \in Nodes : carried[g] =
                IF g = nm THEN interval_bfs[g] - B ELSE interval_bfs[g]
      BY <1>2, <1>3, <1>7, <1>8
    <2> HIDE DEF carried
    <2>2. QED BY <1>1, <1>2, <1>4, <1>7, <2>1
  <1>16. /\ job_map' \in [Jobs -> Nodes]
         /\ job_map'[j] = lnm
         /\ j # k => job_map'[k] = nm
         /\ \A i \in Jobs : i # j /\ i # k => job_map'[i] = job_map[i]
    BY <1>1, <1>2, <1>3, <1>4, <1>6
  <1>17. TypeOK'
    <2>1. totals' \in [promotions : Nat, bytes : Nat, delay : Nat]
      <3>1. totals \in [promotions : Nat, bytes : Nat, delay : Nat]
        BY DEF Inv, TypeOK
      <3>2. args.jobs[j].rss_bytes \in Nat /\ args.jobs[k].rss_bytes \in Nat
        BY <1>2, <1>6, ArgsFacts
      <3>3. LongerTransfer(j, k) \in Nat
        BY <3>2 DEF LongerTransfer
      <3>4. QED BY <1>1, <3>1, <3>2, <3>3
    <2>2. queues_vec' \in [Queues -> Seq(Nodes)] /\ lowest_active_queue' \in 0..NBuckets
      BY <1>1, <1>4, <1>5 DEF Queues
    <2>3. job_map' \in [Jobs -> IF args'.rebalance THEN Nodes ELSE {NoNode}]
      BY <1>2, <1>12, <1>16
    <2>4. QED BY <1>1, <1>9, <1>12, <1>13, <1>15, <2>1, <2>2, <2>3
              DEF Inv, TypeOK, ArgsType
  <1>18. LowestActiveIsLowest'
    BY <1>1, <1>4, <1>5 DEF LowestActiveIsLowest
  <1>19. MappingConsistent'
    <2>1. \A i \in Jobs, g \in Nodes : job_map[i] = g <=> job_idx[g] = i
      BY <1>2 DEF Inv, MappingConsistent
    <2>2. k # j /\ job_map[k] = lnm /\ job_map[j] = nm
      BY <1>2, <1>4, <1>6, <2>1 DEF k, nm
    <2>3. \A i \in Jobs, g \in Nodes : job_map'[i] = g <=> job_idx'[g] = i
      BY <1>2, <1>4, <1>6, <1>9, <1>16, <2>1, <2>2
    <2>4. QED BY <2>3 DEF MappingConsistent
  <1>20. WearAccounting'
    <2>1. ASSUME NEW g \in Nodes
          PROVE  Agree(queue'[g], interval_bfs'[g], lifetime_bfs'[g], Promotions(g)')
      <3>1. /\ queue[g] \in Nat /\ interval_bfs[g] \in Nat /\ lifetime_bfs[g] \in Nat
            /\ Promotions(g) \in Nat
        BY <1>3 DEF Queues, Promotions
      <3>2. Agree(queue[g], interval_bfs[g], lifetime_bfs[g], Promotions(g))
        BY WearIsAgreement DEF Inv
      <3>3. CASE g = nm
        <4>1. Promotions(g) = queue[g] /\ Promotions(g)' = queue[g] + 1
          BY <1>13, <3>3 DEF Promotions
        <4>2. Agree(queue[g] + 1, interval_bfs[g] - B + c, lifetime_bfs[g] + c + b,
                    queue[g] + 1)
          BY <1>2, <1>6, <1>7, <1>8, <3>1, <3>2, <3>3, <4>1, AgreementKept DEF b, B
        <4>3. QED BY <1>13, <1>14, <1>15, <3>3, <4>1, <4>2
      <3>4. CASE g # nm
        <4>1. Promotions(g)' = Promotions(g) /\ queue'[g] = queue[g]
          BY <1>13, <3>4 DEF Promotions
        <4>2. Agree(queue[g], interval_bfs[g] + d, lifetime_bfs[g] + d, Promotions(g))
          BY <1>2, <1>6, <1>7, <3>1, <3>2, AgreementKept
        <4>3. QED BY <1>14, <1>15, <3>2, <3>4, <4>1, <4>2
      <3>5. QED BY <3>3, <3>4
    <2>2. QED BY <1>12, <2>1, WearFromAgreement
  <1>21. WornNodesHadTheirTurn'
    <2>1. \A g \in Nodes : job_idx[g] \in Int
      BY <1>3 DEF Jobs
    <2>2. j \in Int
      BY DEF Jobs
    <2>3. ~IsWornOut(lnm)
      BY <1>2, <1>4, NotWornOutIsQueued DEF Inv
    <2>4. \A g \in Nodes : IsWornOut(g)' => job_idx'[g] < next_job'
      BY <1>2, <1>9, <1>12, <1>13, <2>1, <2>2, <2>3
    <2>5. QED BY <2>4 DEF WornNodesHadTheirTurn
  <1>22. QED BY <1>12, <1>13, <1>17, <1>18, <1>19, <1>20, <1>21 DEF Inv

-----------------------------------------------------------------------------
(* The end of an epoch, of the loop, and the run without rebalancing.      *)

\* What a step that leaves the queues, nodes and jobs alone keeps.
LEMMA NodesAlone ==
    ASSUME Inv,
           UNCHANGED <<args, queues_vec, node_vars, job_map, lowest_active_queue,
                       cont>>
    PROVE  /\ QueuesPartitionNodes' /\ LowestActiveIsLowest' /\ MappingConsistent'
           /\ WearAccounting' /\ IntervalIsLarge' /\ ArgsType'
           /\ \A n \in Nodes : IsWornOut(n)' <=> IsWornOut(n)
  <1>1. UNCHANGED <<args, queues_vec, interval_bfs, lifetime_bfs, queue, job_idx,
                    job_map, lowest_active_queue, cont>>
    BY DEF node_vars
  <1>2. \A n \in Nodes : IsWornOut(n)' <=> IsWornOut(n)
    BY <1>1 DEF IsWornOut
  <1>3. /\ QueuesPartitionNodes' /\ LowestActiveIsLowest' /\ MappingConsistent'
    BY <1>1, <1>2
       DEF Inv, QueuesPartitionNodes, LowestActiveIsLowest, MappingConsistent
  <1>4. WearAccounting'
    <2>1. \A n \in Nodes : Agree(queue[n], interval_bfs[n], lifetime_bfs[n], Promotions(n))
      BY WearIsAgreement DEF Inv
    <2>2. \A n \in Nodes : Promotions(n)' = Promotions(n)
      BY <1>1, <1>2 DEF Promotions
    <2>3. \A n \in Nodes : Agree(queue'[n], interval_bfs'[n], lifetime_bfs'[n],
                                 Promotions(n)')
      BY <1>1, <2>1, <2>2
    <2>4. QED BY <1>1, <2>3, WearFromAgreement
  <1>5. IntervalIsLarge' /\ ArgsType'
    BY <1>1, ArgsFixed DEF Inv, IntervalIsLarge, TypeOK, ArgsType
  <1>6. QED BY <1>2, <1>3, <1>4, <1>5

LEMMA EndEpochInv ==
    ASSUME Inv, EndEpoch
    PROVE  Inv'
  <1>1. /\ status = "running" /\ next_job = NNodes
        /\ next_job' = 0 /\ epoch' = epoch + 1
        /\ n_events' \in {n_events, n_events + 1}
        /\ UNCHANGED <<args, queues_vec, interval_bfs, lifetime_bfs, queue, job_idx,
                       job_map, lowest_active_queue, most_written_node,
                       no_rebalance_mwn, totals, cont, status>>
    BY DEF EndEpoch, node_vars, stat_vars
  <1>2. /\ QueuesPartitionNodes' /\ LowestActiveIsLowest' /\ MappingConsistent'
        /\ WearAccounting' /\ IntervalIsLarge'
    BY <1>1, NodesAlone DEF node_vars
  <1>3. TypeOK'
    BY <1>1 DEF Inv, TypeOK
  <1>4. WornNodesHadTheirTurn'
    BY <1>1 DEF WornNodesHadTheirTurn
  <1>5. MostWrittenIsWorn'
    BY <1>1, ArgsFixed DEF Inv, MostWrittenIsWorn
  <1>6. NoTurnsWithoutRebalance'
    BY <1>1 DEF Inv, NoTurnsWithoutRebalance
  <1>7. NoRebalanceBudget'
    BY <1>1 DEF NoRebalanceBudget
  <1>8. QED BY <1>2, <1>3, <1>4, <1>5, <1>6, <1>7 DEF Inv

LEMMA FinishInv ==
    ASSUME Inv, Finish
    PROVE  Inv'
  <1>1. /\ args.rebalance
        /\ status' \in {"crashed", "done"}
        /\ UNCHANGED <<args, queues_vec, interval_bfs, lifetime_bfs, queue, job_idx,
                       job_map, lowest_active_queue, most_written_node,
                       no_rebalance_mwn, totals, n_events, epoch, next_job, cont>>
    BY DEF Finish, node_vars, stat_vars
  <1>2. /\ QueuesPartitionNodes' /\ LowestActiveIsLowest' /\ MappingConsistent'
        /\ WearAccounting' /\ IntervalIsLarge'
        /\ \A n \in Nodes : IsWornOut(n)' <=> IsWornOut(n)
    BY <1>1, NodesAlone DEF node_vars
  <1>3. TypeOK'
    BY <1>1 DEF Inv, TypeOK
  <1>4. WornNodesHadTheirTurn'
    BY <1>1, <1>2 DEF Inv, WornNodesHadTheirTurn
  <1>5. MostWrittenIsWorn'
    BY <1>1, ArgsFixed DEF Inv, MostWrittenIsWorn
  <1>6. NoTurnsWithoutRebalance' /\ NoRebalanceBudget'
    BY <1>1 DEF NoTurnsWithoutRebalance, NoRebalanceBudget
  <1>7. QED BY <1>2, <1>3, <1>4, <1>5, <1>6 DEF Inv

\* The hottest job uses up the budget in that many quanta, but for a remainder
\* of less than one of its quanta; the others write no more.
LEMMA BudgetOfHottest ==
    ASSUME ArgsType, NEW j \in Jobs, IsHottest(j)
    PROVE  LET n == bucket_cap \div bit_writes_per_quanta(j)
           IN /\ n \in Nat
              /\ n * bit_writes_per_quanta(j) \in Nat
              /\ n * bit_writes_per_quanta(j) <= bucket_cap
              /\ (n + 1) * bit_writes_per_quanta(j) > bucket_cap
              /\ \A k \in Jobs : n * bit_writes_per_quanta(k) <= bucket_cap
  <1> DEFINE b == bit_writes_per_quanta(j)
             n == bucket_cap \div b
  <1>1. b \in Nat \ {0} /\ bucket_cap \in Nat
    BY ChargesAreNatural, BucketFacts DEF IsHottest
  <1>2. n \in Nat /\ b * n <= bucket_cap /\ bucket_cap < b * n + b
    BY <1>1, DivisionBounds
  <1>3. \A k \in Jobs : bit_writes_per_quanta(k) \in Nat /\ bit_writes_per_quanta(k) <= b
    BY ChargesAreNatural DEF IsHottest
  <1> HIDE DEF b, n
  <1>4. n * b = b * n /\ (n + 1) * b = b * n + b /\ n * b \in Nat
    BY <1>1, <1>2, Z3
  <1>5. ASSUME NEW k \in Jobs PROVE n * bit_writes_per_quanta(k) <= bucket_cap
    <2> DEFINE c == bit_writes_per_quanta(k)
    <2>1. c \in Nat /\ c <= b
      BY <1>3
    <2> HIDE DEF c
    <2>2. n * c <= n * b
      BY <1>1, <1>2, <2>1, Z3
    <2>3. n * c \in Nat
      BY <1>2, <2>1, ProductIsNatural
    <2>4. QED BY <1>1, <1>2, <1>4, <2>2, <2>3 DEF c
  <1>6. QED BY <1>1, <1>2, <1>4, <1>5 DEF b, n

LEMMA RunNoRebalanceInv ==
    ASSUME Inv, NEW j \in Jobs, RunNoRebalance(j)
    PROVE  Inv'
  <1> DEFINE n == bucket_cap \div bit_writes_per_quanta(j)
  <1>1. /\ ~args.rebalance /\ IsHottest(j)
        /\ epoch' = n
        /\ no_rebalance_mwn' = n * bit_writes_per_quanta(j)
        /\ most_written_node' = NoRebalanceMwn
        /\ status' = "done"
        /\ UNCHANGED <<args, queues_vec, interval_bfs, lifetime_bfs, queue, job_idx,
                       job_map, lowest_active_queue, totals, n_events, next_job, cont>>
    BY DEF RunNoRebalance, node_vars
  <1>2. ArgsType
    BY DEF Inv, TypeOK, ArgsType
  <1>3. /\ n \in Nat
        /\ n * bit_writes_per_quanta(j) \in Nat
        /\ n * bit_writes_per_quanta(j) <= bucket_cap
        /\ (n + 1) * bit_writes_per_quanta(j) > bucket_cap
        /\ \A k \in Jobs : n * bit_writes_per_quanta(k) <= bucket_cap
    BY <1>1, <1>2, BudgetOfHottest
  <1> HIDE DEF n
  <1>4. /\ QueuesPartitionNodes' /\ LowestActiveIsLowest' /\ MappingConsistent'
        /\ WearAccounting' /\ IntervalIsLarge'
        /\ \A g \in Nodes : IsWornOut(g)' <=> IsWornOut(g)
    BY <1>1, NodesAlone DEF node_vars
  <1>5. TypeOK'
    <2>1. n_events' \in 0..epoch'
      BY <1>1, <1>3 DEF Inv, NoTurnsWithoutRebalance
    <2>2. QED BY <1>1, <1>3, <2>1 DEF Inv, TypeOK
  <1>6. WornNodesHadTheirTurn' /\ NoTurnsWithoutRebalance'
    BY <1>1, <1>4 DEF Inv, WornNodesHadTheirTurn, NoTurnsWithoutRebalance
  <1>7. MostWrittenIsWorn'
    BY <1>1 DEF Inv, MostWrittenIsWorn
  <1>8. NoRebalanceBudget'
    <2>1. /\ bucket_cap' = bucket_cap
          /\ \A k \in Jobs : bit_writes_per_quanta(k)' = bit_writes_per_quanta(k)
      BY <1>1, ArgsFixed
    <2>2. QED BY <1>1, <1>3, <2>1 DEF NoRebalanceBudget
  <1>9. QED BY <1>4, <1>5, <1>6, <1>7, <1>8 DEF Inv

LEMMA NoJobWritesInv ==
    ASSUME Inv, NoJobWrites
    PROVE  Inv'
  <1>1. /\ status' = "undefined"
        /\ UNCHANGED <<args, queues_vec, interval_bfs, lifetime_bfs, queue, job_idx,
                       job_map, lowest_active_queue, most_written_node,
                       no_rebalance_mwn, totals, n_events, epoch, next_job, cont>>
    BY DEF NoJobWrites, node_vars, stat_vars
  <1>2. /\ QueuesPartitionNodes' /\ LowestActiveIsLowest' /\ MappingConsistent'
        /\ WearAccounting' /\ IntervalIsLarge'
        /\ \A n \in Nodes : IsWornOut(n)' <=> IsWornOut(n)
    BY <1>1, NodesAlone DEF node_vars
  <1>3. TypeOK'
    BY <1>1 DEF Inv, TypeOK
  <1>4. WornNodesHadTheirTurn' /\ NoTurnsWithoutRebalance' /\ NoRebalanceBudget'
    BY <1>1, <1>2 DEF Inv, WornNodesHadTheirTurn, NoTurnsWithoutRebalance,
                      NoRebalanceBudget
  <1>5. MostWrittenIsWorn'
    BY <1>1, ArgsFixed DEF Inv, MostWrittenIsWorn
  <1>6. QED BY <1>2, <1>3, <1>4, <1>5 DEF Inv

\* A stuttering step changes nothing.
LEMMA StutterInv ==
    ASSUME Inv, UNCHANGED vars
    PROVE  Inv'
  <1>1. UNCHANGED <<args, queues_vec, interval_bfs, lifetime_bfs, queue, job_idx,
                    job_map, lowest_active_queue, most_written_node,
                    no_rebalance_mwn, totals, n_events, epoch, next_job, cont, status>>
    BY DEF vars, node_vars, stat_vars, loop_vars
  <1>2. /\ QueuesPartitionNodes' /\ LowestActiveIsLowest' /\ MappingConsistent'
        /\ WearAccounting' /\ IntervalIsLarge'
        /\ \A n \in Nodes : IsWornOut(n)' <=> IsWornOut(n)
    BY <1>1, NodesAlone DEF node_vars
  <1>3. TypeOK'
    BY <1>1 DEF Inv, TypeOK
  <1>4. WornNodesHadTheirTurn' /\ NoTurnsWithoutRebalance'
    BY <1>1, <1>2 DEF Inv, WornNodesHadTheirTurn, NoTurnsWithoutRebalance
  <1>5. MostWrittenIsWorn' /\ NoRebalanceBudget'
    BY <1>1, ArgsFixed DEF Inv, MostWrittenIsWorn, NoRebalanceBudget
  <1>6. QED BY <1>2, <1>3, <1>4, <1>5 DEF Inv

\* Every step of the simulation keeps the invariant.
LEMMA NextInv ==
    ASSUME Inv, [Next]_vars
    PROVE  Inv'
  <1>1. CASE \E j \in Jobs : Turn(j)
    <2>1. PICK j \in Jobs : Turn(j)
      BY <1>1
    <2>2. CASE Accumulate(j)
      BY <2>2, AccumulateInv
    <2>3. CASE MaxOut(j)
      BY <2>3, MaxOutInv
    <2>4. CASE PromoteAlone(j)
      BY <2>4, PromoteAloneInv
    <2>5. CASE PromoteAndSwap(j)
      BY <2>5, PromoteAndSwapInv
    <2>6. QED BY <2>1, <2>2, <2>3, <2>4, <2>5 DEF Turn
  <1>2. CASE EndEpoch
    BY <1>2, EndEpochInv
  <1>3. CASE Finish
    BY <1>3, FinishInv
  <1>4. CASE \E j \in Jobs : RunNoRebalance(j)
    BY <1>4, RunNoRebalanceInv
  <1>5. CASE NoJobWrites
    BY <1>5, NoJobWritesInv
  <1>6. CASE UNCHANGED vars
    BY <1>6, StutterInv
  <1>7. QED BY <1>1, <1>2, <1>3, <1>4, <1>5, <1>6 DEF Next

\* The constructor establishes the invariant, with and without rebalancing.
LEMMA InitInv ==
    ASSUME Init
    PROVE  Inv
  <1> DEFINE first == [i \in 1..NNodes |-> i - 1]
  <1>1. /\ ArgsType
        /\ bucket_interval >= BitsPerNode
        /\ queues_vec = [q \in Queues |-> IF q = 0 /\ args.rebalance
                                          THEN first ELSE <<>>]
        /\ interval_bfs = [n \in Nodes |-> 0]
        /\ lifetime_bfs = [n \in Nodes |-> 0]
        /\ queue = [n \in Nodes |-> 0]
        /\ job_idx = [n \in Nodes |-> n]
        /\ job_map = [j \in Jobs |-> IF args.rebalance THEN j ELSE NoNode]
        /\ lowest_active_queue = 0 /\ most_written_node = NoNode
        /\ no_rebalance_mwn = 0
        /\ totals = [promotions |-> 0, bytes |-> 0, delay |-> 0]
        /\ n_events = 0 /\ epoch = 0 /\ next_job = 0 /\ cont = TRUE
        /\ status = "running"
    BY DEF Init, ArgsType
  <1>2. Jobs = Nodes /\ 0 \in Queues /\ 0 \in Nodes
    BY DEF Jobs, Nodes, Queues
  <1>3. first \in Seq(Nodes) /\ IsInjective(first) /\ first # <<>>
        /\ \A n \in Nodes : Contains(first, n)
    <2>1. first \in Seq(Nodes) /\ Len(first) = NNodes
      BY DEF Nodes
    <2>2. IsInjective(first)
      BY DEF IsInjective
    <2>3. first # <<>>
      BY <2>1, EmptySeq
    <2>4. ASSUME NEW n \in Nodes PROVE Contains(first, n)
      <3>1. n + 1 \in 1..NNodes /\ first[n + 1] = n
        BY DEF Nodes
      <3>2. QED BY <2>1, <3>1 DEF Contains
    <2>5. QED BY <2>1, <2>2, <2>3, <2>4
  <1> HIDE DEF first
  <1>4. <<>> \in Seq(Nodes) /\ IsInjective(<<>>) /\ \A n \in Nodes : ~Contains(<<>>, n)
    <2>1. <<>> \in Seq(Nodes)
      BY EmptySeq
    <2>2. IsInjective(<<>>)
      BY DEF IsInjective
    <2>3. \A n \in Nodes : ~Contains(<<>>, n)
      BY EmptySeq, EmptyHoldsNothing
    <2>4. QED BY <2>1, <2>2, <2>3
  <1>5. /\ queues_vec \in [Queues -> Seq(Nodes)]
        /\ \A q \in Queues : IsInjective(queues_vec[q])
        /\ \A q \in Queues, n \in Nodes :
                Contains(queues_vec[q], n) <=> q = 0 /\ args.rebalance
    BY <1>1, <1>3, <1>4
  <1>6. \A n \in Nodes : ~IsWornOut(n)
    BY <1>2, <1>5 DEF IsWornOut
  <1>7. TypeOK
    <2>1. args.rebalance \in BOOLEAN
      BY <1>1, ArgsFacts
    <2>2. job_map \in [Jobs -> IF args.rebalance THEN Nodes ELSE {NoNode}]
      BY <1>1, <1>2, <2>1
    <2>3. lowest_active_queue \in 0..NBuckets /\ next_job \in 0..NNodes
          /\ n_events \in 0..epoch
      BY <1>1
    <2>4. QED BY <1>1, <1>2, <1>5, <2>2, <2>3 DEF TypeOK, ArgsType
  <1>8. QueuesPartitionNodes
    BY <1>1, <1>2, <1>5, <1>6 DEF QueuesPartitionNodes
  <1>9. LowestActiveIsLowest
    <2>1. \A q \in Queues : ~(q < 0)
      BY DEF Queues
    <2>2. args.rebalance => queues_vec[0] # <<>>
      BY <1>1, <1>2, <1>3
    <2>3. QED BY <1>1, <1>2, <2>1, <2>2 DEF LowestActiveIsLowest
  <1>10. MappingConsistent
    BY <1>1, <1>2 DEF MappingConsistent
  <1>11. WearAccounting
    <2>1. ASSUME NEW n \in Nodes
          PROVE  Agree(queue[n], interval_bfs[n], lifetime_bfs[n], Promotions(n))
      <3>1. queue[n] = 0 /\ interval_bfs[n] = 0 /\ lifetime_bfs[n] = 0
            /\ Promotions(n) = 0
        BY <1>1, <1>6 DEF Promotions
      <3>2. bit_writes_per_quanta(0) \in Nat /\ bucket_interval \in Nat
        BY <1>1, <1>2, ChargesAreNatural, BucketFacts
      <3>3. 0 * bucket_interval + 0 = 0 /\ 0 * bit_writes_per_quanta(0) = 0
        BY <3>2
      <3>4. QED BY <1>2, <3>1, <3>3 DEF Agree
    <2>2. QED BY <2>1, WearIsAgreement
  <1>12. /\ NoRebalanceBudget /\ IntervalIsLarge /\ WornNodesHadTheirTurn
         /\ MostWrittenIsWorn /\ NoTurnsWithoutRebalance
    BY <1>1 DEF NoRebalanceBudget, IntervalIsLarge, WornNodesHadTheirTurn,
                MostWrittenIsWorn, NoTurnsWithoutRebalance
  <1>13. QED BY <1>7, <1>8, <1>9, <1>10, <1>11, <1>12 DEF Inv

-----------------------------------------------------------------------------
(* The theorems.                                                           *)

\* The strengthened invariant holds in every state the simulator reaches.
THEOREM InvariantHolds == Spec => []Inv
  <1>1. Init => Inv
    BY InitInv
  <1>2. Inv /\ [Next]_vars => Inv'
    BY NextInv
  <1>3. QED BY <1>1, <1>2, PTL DEF Spec

\* Every variable keeps its type; in particular no turn leaves job_map without
\* a node, and no promotion names a queue past the last one.
THEOREM TypeCorrect == Spec => []TypeOK
  <1>1. Inv => TypeOK
    BY DEF Inv
  <1>2. QED BY <1>1, InvariantHolds, PTL

\* Every node is in exactly the queue its backpointer names, once, until it
\* wears out; several may in the last epoch.
THEOREM QueuesPartition == Spec => []QueuesPartitionNodes
  <1>1. Inv => QueuesPartitionNodes
    BY DEF Inv
  <1>2. QED BY <1>1, InvariantHolds, PTL

\* The memoised queue stays the lowest non-empty one, also while the last
\* epoch empties queues.
THEOREM LowestActive == Spec => []LowestActiveIsLowest
  <1>1. Inv => LowestActiveIsLowest
    BY DEF Inv
  <1>2. QED BY <1>1, InvariantHolds, PTL

\* Swaps lose no job and never leave two jobs on a node.
THEOREM Mapping == Spec => []MappingConsistent
  <1>1. Inv => MappingConsistent
    BY DEF Inv
  <1>2. QED BY <1>1, InvariantHolds, PTL

\* A node's life is what its queue and its interval counter say, up to one
\* quantum for each promotion.
THEOREM Wear == Spec => []WearAccounting
  <1>1. Inv => WearAccounting
    BY DEF Inv
  <1>2. QED BY <1>1, InvariantHolds, PTL

\* The wear reported is more than all buckets stand for, and they stand for
\* bucket_cap but for the remainder of its division.
LEMMA ReportIsJustified ==
    ASSUME Inv
    PROVE  WornOutIsJustified
  <1> DEFINE life == lifetime_bfs[most_written_node]
             e == NBuckets * bucket_interval
             p == BitsPerNode * args.cell_write_endurance
  <1>1. SUFFICES ASSUME ~cont
                 PROVE  life > e /\ (p < 2^Width => life + NBuckets > p)
    BY DEF WornOutIsJustified
  <1>2. most_written_node \in Nodes /\ life > e
    BY <1>1 DEF Inv, MostWrittenIsWorn
  <1>3. life \in Nat
    BY <1>2 DEF Inv, TypeOK
  <1>4. /\ e \in Nat /\ bucket_cap \in Nat
        /\ bucket_cap < e + NBuckets
        /\ p < 2^Width => bucket_cap = p
    BY BucketFacts, ProductIsNatural DEF Inv, TypeOK, ArgsType
  <1> HIDE DEF life, e, p
  <1>5. ASSUME p < 2^Width PROVE life + NBuckets > p
    <2>1. bucket_cap = p
      BY <1>4, <1>5
    <2>2. bucket_cap < e + NBuckets /\ NBuckets \in Nat
      BY <1>4
    <2> HIDE DEF bucket_cap
    <2>3. QED BY <1>2, <1>3, <1>4, <2>1, <2>2
  <1>6. QED BY <1>2, <1>5

\* When the loop ends because a node wore out, the life reported is justified,
\* although most_written_node was only compared with nodes at their turn.
THEOREM WornOut == Spec => []WornOutIsJustified
  <1>1. Inv => WornOutIsJustified
    BY ReportIsJustified
  <1>2. QED BY <1>1, InvariantHolds, PTL

\* Without rebalancing, the time computed is the largest number of quanta no
\* job exceeds the write budget in.
THEOREM Budget == Spec => []NoRebalanceBudget
  <1>1. Inv => NoRebalanceBudget
    BY DEF Inv
  <1>2. QED BY <1>1, InvariantHolds, PTL

\* The bytes of a swap are at least the longer of the two transfers, and at
\* most twice that.
LEMMA SwapTotals ==
    ASSUME ArgsType, NEW j \in Jobs, NEW k \in Jobs
    PROVE  LET moved == args.jobs[j].rss_bytes + args.jobs[k].rss_bytes
           IN /\ LongerTransfer(j, k) \in Nat /\ moved \in Nat
              /\ LongerTransfer(j, k) <= moved
              /\ moved <= 2 * LongerTransfer(j, k)
  <1>1. args.jobs[j].rss_bytes \in Nat /\ args.jobs[k].rss_bytes \in Nat
    BY ArgsFacts
  <1>2. QED BY <1>1 DEF LongerTransfer

\* There are finitely many nodes, and the queues are numbered from 0.
LEMMA QueuesAreNatural ==
    ASSUME queue \in [Nodes -> Queues]
    PROVE  IsFiniteSet(Nodes) /\ queue \in [Nodes -> Nat]
  <1>1. IsFiniteSet(0..NNodes - 1)
    BY FS_Interval
  <1>2. \A q \in Queues : q \in Nat
    BY DEF Queues
  <1>3. QED BY <1>1, <1>2 DEF Nodes

\* A promotion adds one to the sum of the queue numbers.
LEMMA OneLevelUp ==
    ASSUME Inv, NEW n \in Nodes, queue' = [queue EXCEPT ![n] = @ + 1]
    PROVE  SumFunction(queue') = SumFunction(queue) + 1
  <1>1. IsFiniteSet(Nodes) /\ queue \in [Nodes -> Nat]
    BY QueuesAreNatural DEF Inv, TypeOK
  <1>2. /\ queue' \in [Nodes -> Nat] /\ queue'[n] = queue[n] + 1
        /\ \A g \in Nodes : g # n => queue'[g] = queue[g]
    BY <1>1
  <1>3. SumFunction(queue) \in Nat
    BY <1>1, SumIsNatural
  <1>4. SumFunction(queue') = SumFunction(queue) - queue[n] + queue'[n]
    <2> DEFINE f == queue
               g == queue'
    <2>1. f \in [Nodes -> Nat] /\ g \in [Nodes -> Nat]
      BY <1>1, <1>2
    <2>2. \A y \in Nodes : y # n => g[y] = f[y]
      BY <1>2
    <2> HIDE DEF f, g
    <2>3. SumFunction(g) = SumFunction(f) - f[n] + g[n]
      BY <1>1, <2>1, <2>2, SumChanges
    <2>4. QED BY <2>3 DEF f, g
  <1>5. QED BY <1>1, <1>2, <1>3, <1>4

\* Every step keeps the totals within bounds.
LEMMA TotalsKept ==
    ASSUME Inv, TransfersTally, [Next]_vars
    PROVE  TransfersTally'
  <1>1. /\ totals \in [promotions : Nat, bytes : Nat, delay : Nat]
        /\ queue \in [Nodes -> Nat] /\ IsFiniteSet(Nodes)
    BY QueuesAreNatural DEF Inv, TypeOK
  <1>2. SumFunction(queue) \in Nat
    BY <1>1, SumIsNatural
  <1>3. CASE totals' = totals /\ queue' = queue
    BY <1>3 DEF TransfersTally
  <1>4. ASSUME NEW j \in Jobs, PromoteAlone(j) PROVE TransfersTally'
    <2>1. /\ totals' = totals
          /\ queue' = [queue EXCEPT ![job_map[j]] = @ + 1]
          /\ IsTurnOf(j)
      BY <1>4 DEF PromoteAlone
    <2>2. SumFunction(queue') = SumFunction(queue) + 1
      BY <2>1, TurnFacts, OneLevelUp
    <2>3. QED BY <1>1, <1>2, <2>1, <2>2 DEF TransfersTally
  <1>5. ASSUME NEW j \in Jobs, PromoteAndSwap(j) PROVE TransfersTally'
    <2> DEFINE nm == job_map[j]
               k == job_idx[SwapPartner(nm)]
    <2>1. /\ totals' =
               [promotions |-> totals.promotions + 1,
                bytes |-> totals.bytes + args.jobs[j].rss_bytes + args.jobs[k].rss_bytes,
                delay |-> totals.delay + LongerTransfer(j, k)]
          /\ queue' = [queue EXCEPT ![nm] = @ + 1]
          /\ IsTurnOf(j) /\ ~MaxedOut(nm)
          /\ LowestAfterErase(nm) < queue[nm] + 1
      BY <1>5 DEF PromoteAndSwap
    <2>2. nm \in Nodes /\ Queued(nm) /\ args.rebalance /\ ArgsType
      BY <2>1, TurnFacts
    <2>3. k \in Jobs
      <3>1. SwapPartner(nm) \in Nodes
        BY <2>1, <2>2, SwapPartnerFacts DEF Inv
      <3>2. QED BY <3>1 DEF Inv, TypeOK
    <2>4. SumFunction(queue') = SumFunction(queue) + 1
      BY <2>1, <2>2, OneLevelUp
    <2> DEFINE rj == args.jobs[j].rss_bytes
               rk == args.jobs[k].rss_bytes
               longer == LongerTransfer(j, k)
    <2>5. /\ rj \in Nat /\ rk \in Nat /\ longer \in Nat
          /\ longer <= rj + rk /\ rj + rk <= 2 * longer
      BY <2>2, <2>3, SwapTotals, ArgsFacts
    <2>6. /\ totals'.promotions = totals.promotions + 1
          /\ totals'.bytes = totals.bytes + rj + rk
          /\ totals'.delay = totals.delay + longer
      BY <2>1
    <2> HIDE DEF rj, rk, longer, k, nm
    <2>7. QED BY <1>1, <1>2, <2>4, <2>5, <2>6 DEF TransfersTally
  <1>6. CASE \E j \in Jobs : Accumulate(j) \/ MaxOut(j) \/ RunNoRebalance(j)
    BY <1>3, <1>6 DEF Accumulate, MaxOut, RunNoRebalance, node_vars
  <1>7. CASE EndEpoch \/ Finish \/ NoJobWrites \/ UNCHANGED vars
    BY <1>3, <1>7 DEF EndEpoch, Finish, NoJobWrites, vars, node_vars, stat_vars
  <1>8. QED BY <1>4, <1>5, <1>6, <1>7 DEF Next, Turn

\* Swaps are counted once, and the delay of their transfers is between half of
\* the bytes moved and all of them.
THEOREM Transfers == Spec => []TransfersTally
  <1>1. Init => TransfersTally
    <2>1. SUFFICES ASSUME Init PROVE TransfersTally
      OBVIOUS
    <2>2. totals = [promotions |-> 0, bytes |-> 0, delay |-> 0]
      BY <2>1 DEF Init
    <2>3. queue \in [Nodes -> Nat] /\ IsFiniteSet(Nodes)
      BY <2>1, InitInv, QueuesAreNatural DEF Inv, TypeOK
    <2>4. SumFunction(queue) \in Nat
      BY <2>3, SumIsNatural
    <2>5. QED BY <2>2, <2>4 DEF TransfersTally
  <1>2. Inv /\ TransfersTally /\ [Next]_vars => TransfersTally'
    BY TotalsKept
  <1>3. QED BY <1>1, <1>2, InvariantHolds, PTL DEF Spec

-----------------------------------------------------------------------------
(* The simulator implements the abstract levelling.                        *)

\* A step that moves no node and no job is a stuttering step of the levelling.
LEMMA LevelsUnchanged ==
    ASSUME args' = args, queues_vec' = queues_vec, queue' = queue, job_map' = job_map
    PROVE  UNCHANGED AbstractLevelling!vars
  BY DEF AbstractLevelling!vars, ListLevel

\* With rebalancing, the level of a node is its queue or, worn out, NBuckets.
LEMMA LevelOf ==
    ASSUME Inv, args.rebalance, NEW n \in Nodes
    PROVE  /\ Queued(n) => ListLevel(n) = queue[n]
           /\ ~Queued(n) => ListLevel(n) = NBuckets
           /\ queue[n] \in 0..NBuckets - 1
           /\ ListLevel(n) \in 0..NBuckets
  BY DEF Inv, TypeOK, Queues, Queued, ListLevel

\* One level up for the node that leaves its list, whether into the next list
\* or out of the last one, is what a promotion is at the abstract level.
LEMMA LevelClimbs ==
    ASSUME Inv, args.rebalance, NEW n \in Nodes, Queued(n), args' = args,
           \A g \in Nodes : g # n => (Queued(g)' <=> Queued(g)) /\ queue'[g] = queue[g],
           \/ queue[n] = NBuckets - 1 /\ ~Queued(n)'
           \/ queue'[n] = queue[n] + 1 /\ Queued(n)'
    PROVE  [g \in Nodes |-> ListLevel(g)]' =
                [[g \in Nodes |-> ListLevel(g)] EXCEPT ![n] = @ + 1]
  <1>1. ASSUME NEW g \in Nodes, g # n PROVE ListLevel(g)' = ListLevel(g)
    BY <1>1 DEF ListLevel, Queued
  <1>2. ListLevel(n)' = ListLevel(n) + 1
    <2>1. ListLevel(n) = queue[n] /\ queue[n] \in 0..NBuckets - 1
      BY LevelOf
    <2>2. ListLevel(n)' = IF Queued(n)' THEN queue'[n] ELSE NBuckets
      BY DEF ListLevel, Queued
    <2>3. QED BY <2>1, <2>2
  <1>3. QED BY <1>1, <1>2

\* Once a node has climbed, no other is below the memoised queue.
LEMMA NobodyBelow ==
    ASSUME Inv, args.rebalance, NEW n \in Nodes, Queued(n), ~MaxedOut(n),
           NEW v \in Nodes, v # n
    PROVE  LowestAfterErase(n) <= ListLevel(v)
  <1>1. /\ LowestAfterErase(n) \in Queues
        /\ \A q \in Queues : q < LowestAfterErase(n) => Emplaced(n)[q] = <<>>
    BY LowestAfterPromotion DEF Inv
  <1>2. /\ Emplaced(n) \in [Queues -> Seq(Nodes)]
        /\ \A q \in Queues, g \in Nodes :
            Contains(Emplaced(n)[q], g) <=>
                IF g = n THEN q = queue[n] + 1 ELSE Contains(queues_vec[q], g)
    BY EmplacedQueues DEF Inv
  <1>3. CASE Queued(v)
    <2>1. queue[v] \in Queues /\ ListLevel(v) = queue[v]
      BY <1>3, LevelOf DEF Queues
    <2>2. Contains(Emplaced(n)[queue[v]], v)
      BY <1>2, <1>3, <2>1 DEF Queued
    <2>3. Emplaced(n)[queue[v]] # <<>>
      BY <1>2, <2>1, <2>2, EmptyHoldsNothing
    <2>4. QED BY <1>1, <2>1, <2>3 DEF Queues
  <1>4. CASE ~Queued(v)
    BY <1>1, <1>4, LevelOf DEF Queues
  <1>5. QED BY <1>3, <1>4

\* Leaving the last queue is retiring.
LEMMA MaxOutRetires ==
    ASSUME Inv, NEW j \in Jobs, MaxOut(j)
    PROVE  AbstractLevelling!Next
  <1> DEFINE nm == job_map[j]
  <1>1. /\ IsTurnOf(j) /\ MaxedOut(nm) /\ queues_vec' = Erased(nm)
        /\ UNCHANGED <<queue, job_map, args>>
    BY DEF MaxOut, EndTurn
  <1>2. args.rebalance /\ nm \in Nodes /\ Queued(nm)
    BY <1>1, TurnFacts
  <1>3. \A q \in Queues, g \in Nodes :
            Contains(Erased(nm)[q], g) <=> (Contains(queues_vec[q], g) /\ g # nm)
    BY <1>2, ErasedQueues DEF Inv
  <1>4. queue \in [Nodes -> Queues]
    BY DEF Inv, TypeOK
  <1> HIDE DEF nm
  <1>5. \A g \in Nodes : Queued(g)' <=> Queued(g) /\ g # nm
    BY <1>1, <1>3, <1>4 DEF Queued
  <1>6. queue[nm] = NBuckets - 1
    BY <1>1, <1>2, <1>4 DEF MaxedOut, Queues
  <1>7. [g \in Nodes |-> ListLevel(g)]' =
            [[g \in Nodes |-> ListLevel(g)] EXCEPT ![nm] = @ + 1]
    BY <1>1, <1>2, <1>5, <1>6, LevelClimbs
  <1>8. ListLevel(nm) = NBuckets - 1
    BY <1>2, <1>6, LevelOf
  <1>9. AbstractLevelling!Retires(nm)
    BY <1>1, <1>2, <1>8 DEF AbstractLevelling!Retires
  <1>10. AbstractLevelling!Climb(nm)
    BY <1>2, <1>7, <1>8, <1>9 DEF AbstractLevelling!Climb
  <1>11. QED BY <1>2, <1>10 DEF AbstractLevelling!Next

\* Promotion with nobody below is climbing alone.
LEMMA PromoteAloneClimbs ==
    ASSUME Inv, NEW j \in Jobs, PromoteAlone(j)
    PROVE  AbstractLevelling!Next
  <1> DEFINE nm == job_map[j]
  <1>1. /\ IsTurnOf(j) /\ ~MaxedOut(nm) /\ queues_vec' = Emplaced(nm)
        /\ LowestAfterErase(nm) >= queue[nm] + 1
        /\ queue' = [queue EXCEPT ![nm] = @ + 1]
        /\ UNCHANGED <<job_map, args>>
    BY DEF PromoteAlone, EndTurn
  <1>2. args.rebalance /\ nm \in Nodes /\ Queued(nm)
    BY <1>1, TurnFacts
  <1>3. /\ queue[nm] + 1 \in Queues
        /\ \A q \in Queues, g \in Nodes :
            Contains(Emplaced(nm)[q], g) <=>
                IF g = nm THEN q = queue[nm] + 1 ELSE Contains(queues_vec[q], g)
    BY <1>1, <1>2, EmplacedQueues DEF Inv
  <1>4. queue \in [Nodes -> Queues]
    BY DEF Inv, TypeOK
  <1>5. LowestAfterErase(nm) = queue[nm] + 1
    <2>1. LowestAfterErase(nm) \in Queues /\ LowestAfterErase(nm) <= queue[nm] + 1
      BY <1>1, <1>2, LowestAfterPromotion DEF Inv
    <2>2. QED BY <1>1, <1>2, <1>3, <2>1 DEF Queues
  <1> HIDE DEF nm
  <1>6. \A g \in Nodes : Queued(g)' <=> Queued(g) \/ g = nm
    BY <1>1, <1>2, <1>3, <1>4 DEF Queued
  <1>7. [g \in Nodes |-> ListLevel(g)]' =
            [[g \in Nodes |-> ListLevel(g)] EXCEPT ![nm] = @ + 1]
    <2>1. queue'[nm] = queue[nm] + 1 /\ \A g \in Nodes : g # nm => queue'[g] = queue[g]
      BY <1>1, <1>2, <1>4
    <2>2. QED BY <1>1, <1>2, <1>6, <2>1, LevelClimbs
  <1>8. ListLevel(nm) = queue[nm] /\ queue[nm] < NBuckets - 1 /\ queue[nm] \in Int
    BY <1>2, <1>3, <1>4, LevelOf DEF Queues
  <1>9. \A v \in Nodes : v # nm => queue[nm] + 1 <= ListLevel(v)
    BY <1>1, <1>2, <1>5, NobodyBelow
  <1>10. AbstractLevelling!IsLowest(ListLevel(nm) + 1, nm, ListLevel(nm) + 1)
    BY <1>8, <1>9 DEF AbstractLevelling!IsLowest
  <1>11. AbstractLevelling!ClimbsAlone(nm)
    BY <1>1, <1>2, <1>8, <1>10 DEF AbstractLevelling!ClimbsAlone
  <1>12. AbstractLevelling!Climb(nm)
    BY <1>2, <1>7, <1>8, <1>11 DEF AbstractLevelling!Climb
  <1>13. QED BY <1>2, <1>12 DEF AbstractLevelling!Next

\* Promotion with a swap exchanges the data with one of the lowest level.
LEMMA PromoteAndSwapExchanges ==
    ASSUME Inv, NEW j \in Jobs, PromoteAndSwap(j)
    PROVE  AbstractLevelling!Next
  <1> DEFINE nm == job_map[j]
             low == LowestAfterErase(nm)
             lnm == SwapPartner(nm)
             k == job_idx[lnm]
             Q == [Emplaced(nm) EXCEPT ![low] = Rotate(@)]
  <1>1. /\ IsTurnOf(j) /\ ~MaxedOut(nm)
        /\ low < queue[nm] + 1
        /\ queues_vec' = Q
        /\ queue' = [queue EXCEPT ![nm] = @ + 1]
        /\ job_map' = [job_map EXCEPT ![k] = nm, ![j] = lnm]
        /\ args' = args
    BY DEF PromoteAndSwap, EndTurn, Reseated
  <1>2. args.rebalance /\ nm \in Nodes /\ Queued(nm) /\ job_idx[nm] = j
    BY <1>1, TurnFacts
  <1>3. /\ queue[nm] + 1 \in Queues
        /\ \A q \in Queues, g \in Nodes :
            Contains(Emplaced(nm)[q], g) <=>
                IF g = nm THEN q = queue[nm] + 1 ELSE Contains(queues_vec[q], g)
    BY <1>1, <1>2, EmplacedQueues DEF Inv
  <1>4. /\ lnm \in Nodes /\ lnm # nm /\ Queued(lnm) /\ queue[lnm] = low
        /\ \A q \in Queues, g \in Nodes :
                Contains(Q[q], g) <=> Contains(Emplaced(nm)[q], g)
    BY <1>1, <1>2, SwapPartnerFacts DEF Inv
  <1>5. \A v \in Nodes : v # nm => low <= ListLevel(v)
    BY <1>1, <1>2, NobodyBelow
  <1>6. /\ queue \in [Nodes -> Queues] /\ job_idx \in [Nodes -> Jobs]
        /\ job_map \in [Jobs -> Nodes]
    BY <1>2 DEF Inv, TypeOK
  <1>7. \A d \in Jobs : (job_map[d] = nm <=> d = j) /\ (job_map[d] = lnm <=> d = k)
    BY <1>2, <1>4 DEF Inv, MappingConsistent
  <1> HIDE DEF nm, low, lnm, Q
  <1>8. \A g \in Nodes : Queued(g)' <=> Queued(g) \/ g = nm
    BY <1>1, <1>2, <1>3, <1>4, <1>6 DEF Queued
  <1>9. [g \in Nodes |-> ListLevel(g)]' =
            [[g \in Nodes |-> ListLevel(g)] EXCEPT ![nm] = @ + 1]
    <2>1. queue'[nm] = queue[nm] + 1 /\ \A g \in Nodes : g # nm => queue'[g] = queue[g]
      BY <1>1, <1>2, <1>6
    <2>2. QED BY <1>1, <1>2, <1>8, <2>1, LevelClimbs
  <1>10. /\ ListLevel(nm) = queue[nm] /\ queue[nm] < NBuckets - 1 /\ queue[nm] \in Int
         /\ ListLevel(lnm) = low
    BY <1>2, <1>3, <1>4, <1>6, LevelOf DEF Queues
  <1>11. AbstractLevelling!IsLowest(ListLevel(lnm), nm, ListLevel(nm) + 1)
    <2>1. \A v \in Nodes \ {nm} : low <= ListLevel(v)
      BY <1>5
    <2>2. low <= ListLevel(nm) + 1
      BY <1>1, <1>4, <1>6, <1>10 DEF Queues
    <2>3. QED BY <1>4, <1>10, <2>1, <2>2 DEF AbstractLevelling!IsLowest
  <1>12. k \in Jobs
    BY <1>4, <1>6
  <1> HIDE DEF k
  <1>13. [d \in Jobs |-> IF args.rebalance THEN job_map[d] ELSE d]' =
            AbstractLevelling!Exchange(nm, lnm)
    <2>1. ASSUME NEW d \in Jobs
          PROVE  job_map'[d] = IF job_map[d] = nm THEN lnm
                               ELSE IF job_map[d] = lnm THEN nm ELSE job_map[d]
      BY <1>1, <1>6, <1>7, <1>12
    <2>2. QED BY <1>1, <1>2, <2>1 DEF AbstractLevelling!Exchange
  <1>14. AbstractLevelling!ClimbsAndExchanges(nm, lnm)
    <2>1. low < ListLevel(nm) + 1 /\ nm # lnm
      BY <1>1, <1>4, <1>10
    <2>2. QED BY <1>2, <1>4, <1>10, <1>11, <1>13, <2>1
              DEF AbstractLevelling!ClimbsAndExchanges
  <1>15. AbstractLevelling!Climb(nm)
    <2>1. \E v \in Nodes : AbstractLevelling!ClimbsAndExchanges(nm, v)
      BY <1>4, <1>14 DEF AbstractLevelling!ClimbsAndExchanges
    <2>2. ListLevel(nm) < NBuckets
      BY <1>10
    <2>3. QED BY <1>2, <1>9, <2>1, <2>2 DEF AbstractLevelling!Climb
  <1>16. QED BY <1>2, <1>15 DEF AbstractLevelling!Next

\* All nodes start at level 0, each with a job of its own.
LEMMA InitLevels ==
    ASSUME Init
    PROVE  AbstractLevelling!Init
  <1>1. Inv
    BY InitInv
  <1>2. /\ queue = [n \in Nodes |-> 0] /\ cont = TRUE
        /\ job_map = [j \in Jobs |-> IF args.rebalance THEN j ELSE NoNode]
    BY DEF Init
  <1>3. Jobs = Nodes
    BY DEF Jobs, Nodes
  <1>4. ASSUME NEW n \in Nodes PROVE ListLevel(n) = 0
    <2>1. args.rebalance => Queued(n)
      <3>1. ASSUME args.rebalance, ~Queued(n) PROVE FALSE
        BY <1>1, <1>2, <3>1, NotWornOutIsQueued DEF Inv, QueuesPartitionNodes
      <3>2. QED BY <3>1
    <2>2. QED BY <1>2, <2>1 DEF ListLevel, Queued
  <1>5. \A j \in Jobs : (IF args.rebalance THEN job_map[j] ELSE j) = j
    BY <1>2
  <1>6. QED BY <1>3, <1>4, <1>5 DEF AbstractLevelling!Init

\* Every step is a step of the levelling, or moves nothing.
LEMMA StepLevels ==
    ASSUME Inv, [Next]_vars
    PROVE  [AbstractLevelling!Next]_AbstractLevelling!vars
  <1>1. CASE \E j \in Jobs : MaxOut(j) \/ PromoteAlone(j) \/ PromoteAndSwap(j)
    BY <1>1, MaxOutRetires, PromoteAloneClimbs, PromoteAndSwapExchanges
  <1>2. CASE \E j \in Jobs : Accumulate(j)
    <2>1. UNCHANGED <<args, queues_vec, queue, job_map>>
      BY <1>2 DEF Accumulate, EndTurn
    <2>2. QED BY <2>1, LevelsUnchanged
  <1>3. CASE \/ EndEpoch \/ Finish \/ NoJobWrites \/ UNCHANGED vars
             \/ \E j \in Jobs : RunNoRebalance(j)
    <2>1. UNCHANGED <<args, queues_vec, queue, job_map>>
      BY <1>3 DEF EndEpoch, Finish, NoJobWrites, RunNoRebalance, vars, node_vars
    <2>2. QED BY <2>1, LevelsUnchanged
  <1>4. QED BY <1>1, <1>2, <1>3 DEF Next, Turn

\* For every assignment of jobs, lists, iterators, backpointers and the
\* memoised queue amount to the abstract levelling, in the turns left after a
\* node wore out too.
THEOREM Refinement == Spec => ImplementsWearLevelling
  <1>1. Init => AbstractLevelling!Init
    BY InitLevels
  <1>2. Inv /\ [Next]_vars => [AbstractLevelling!Next]_AbstractLevelling!vars
    BY StepLevels
  <1>3. QED BY <1>1, <1>2, InvariantHolds, PTL
            DEF Spec, ImplementsWearLevelling, AbstractLevelling!Spec
=============================================================================
