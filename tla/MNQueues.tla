------------------------------- MODULE MNQueues -------------------------------
(***************************************************************************)
(* The multi-node wear-levelling simulator (mnqueues/MNQueues.cpp).        *)
(*                                                                         *)
(* Every node runs one job and sits in one of NBuckets queues.  An epoch   *)
(* gives each job one scheduler quantum: its node takes the bit writes of  *)
(* the job, unless the node has passed BucketInterval, when it is promoted *)
(* and swaps its job with the head of the lowest queue.  A node that       *)
(* leaves the last queue ends the simulation, but only at the end of the   *)
(* epoch: the jobs after it still have their turn.  With -r off, nothing   *)
(* moves and the lifetime is computed in one step.                         *)
(***************************************************************************)
EXTENDS Integers, Sequences, SequencesExt

CONSTANTS
    NNodes,             \* as many as jobs
    NBuckets,           \* -n
    BitsPerNode,        \* -g, in bits
    CellWriteEndurances,\* the values of -c a behaviour may start with
    Width,              \* of the integers bucket_cap is computed in: 64
    WfUnit,             \* write factors are multiples of 1 / WfUnit
    JobChoices,         \* the jobs -j may list
    NIterationsChoices, \* the values of -i; the largest stands for the default
    NPromotionsToEventTrace  \* -e

Nodes == 0..NNodes - 1
Jobs == 0..NNodes - 1
Queues == 0..NBuckets - 1
NoNode == -1            \* a null pointer; an entry job_map does not have yet
NoRebalanceMwn == NNodes   \* &no_rebalance_mwn, which is not one of the nodes

\* A job: bits it writes in a quantum, its resident set, and its write factor
\* in units of 1 / WfUnit.
ASSUME ConstantsAssumption ==
    /\ NNodes \in Nat \ {0}
    /\ NBuckets \in Nat \ {0}
    /\ BitsPerNode \in 1..2^Width - 1
    /\ CellWriteEndurances \subseteq Nat \ {0}
    /\ Width \in Nat
    /\ WfUnit \in Nat \ {0}
    /\ JobChoices \subseteq [write_bits : Nat, rss_bytes : Nat, write_factor : 0..WfUnit]
    /\ NIterationsChoices \subseteq Nat
    /\ NPromotionsToEventTrace \in Nat

VARIABLES
    args,               \* the command line
    queues_vec,         \* queue -> the nodes in it, front first
    interval_bfs,       \* node -> bit flips counted towards promotion
    lifetime_bfs,       \* node -> bit flips in its whole life
    queue,              \* node -> backpointer to its queue
    job_idx,            \* node -> backpointer to its job
    job_map,            \* job -> node (through a list iterator)
    lowest_active_queue,
    most_written_node,
    no_rebalance_mwn,   \* lifetime of the node that stands for all with -r off
    totals,             \* promotions that swapped, bytes and delay of the swaps
    n_events,           \* timestamps written to the event trace
    epoch,              \* system_time_s is epoch times the quantum
    next_job,           \* the job whose turn it is; NNodes at the end of the epoch
    cont,
    status              \* what has become of the process

node_vars == <<interval_bfs, lifetime_bfs, queue, job_idx>>
stat_vars == <<most_written_node, no_rebalance_mwn, totals>>
loop_vars == <<n_events, epoch, next_job, cont, status>>
vars == <<args, queues_vec, node_vars, job_map, lowest_active_queue,
          stat_vars, loop_vars>>

-----------------------------------------------------------------------------
(* Derived from the arguments by the constructor.                          *)

\* The product is taken modulo 2^Width.
bucket_cap == (BitsPerNode * args.cell_write_endurance) % 2^Width
bucket_interval == bucket_cap \div NBuckets

bit_writes_per_quanta(j) ==
    (args.jobs[j].write_bits * args.jobs[j].write_factor) \div WfUnit

\* The command lines the constructor accepts, and, with -r on, all nodes in
\* queue 0, job i on node i.
Init ==
    /\ args \in [rebalance : BOOLEAN,
                 n_iterations : NIterationsChoices,
                 cell_write_endurance : CellWriteEndurances,
                 jobs : [Jobs -> JobChoices]]
    /\ bucket_interval >= BitsPerNode
    /\ queues_vec = [q \in Queues |-> IF q = 0 /\ args.rebalance
                                      THEN [i \in 1..NNodes |-> i - 1]
                                      ELSE <<>>]
    /\ interval_bfs = [n \in Nodes |-> 0]
    /\ lifetime_bfs = [n \in Nodes |-> 0]
    /\ queue = [n \in Nodes |-> 0]
    /\ job_idx = [n \in Nodes |-> n]
    /\ job_map = [j \in Jobs |-> IF args.rebalance THEN j ELSE NoNode]
    /\ lowest_active_queue = 0
    /\ most_written_node = NoNode
    /\ no_rebalance_mwn = 0
    /\ totals = [promotions |-> 0, bytes |-> 0, delay |-> 0]
    /\ n_events = 0
    /\ epoch = 0
    /\ next_job = 0
    /\ cont = TRUE
    /\ status = "running"

-----------------------------------------------------------------------------
(* One turn of a job: the body of the inner loop of run_rebalance.         *)

LoopGoesOn == epoch < args.n_iterations /\ cont

\* The condition of the outer loop is tested before the first job only.
IsTurnOf(j) ==
    /\ status = "running"
    /\ args.rebalance
    /\ next_job = j
    /\ j = 0 => LoopGoesOn

\* Faulty variant: what the turn itself would write counts.
EarlyHitInterval(n) ==
    interval_bfs[n] + bit_writes_per_quanta(job_idx[n]) > bucket_interval

\* Faulty variant: the interval has to be met exactly.
MetInterval(n) == interval_bfs[n] = bucket_interval

HitInterval(n) == interval_bfs[n] > bucket_interval

\* Faulty variant: the node is left in the queue it is promoted from.
NotErased(n) == queues_vec

Position(s, n) == CHOOSE i \in 1..Len(s) : s[i] = n

Erased(n) == [queues_vec EXCEPT ![queue[n]] = RemoveAt(@, Position(@, n))]

\* Faulty variant: the queue counts as empty when one node is left in it.
EarlyLowest(n) ==
    IF Len(Erased(n)[lowest_active_queue]) <= 1
    THEN lowest_active_queue + 1
    ELSE lowest_active_queue

LowestAfterErase(n) ==
    IF Erased(n)[lowest_active_queue] = <<>>
    THEN lowest_active_queue + 1
    ELSE lowest_active_queue

MaxedOut(n) == queue[n] + 1 = NBuckets

Emplaced(n) == [Erased(n) EXCEPT ![queue[n] + 1] = Append(@, n)]

\* Faulty variant: a promotion starts the interval anew.
IntervalReset(n) == [interval_bfs EXCEPT ![n] = 0]

IntervalCarried(n) == [interval_bfs EXCEPT ![n] = @ - bucket_interval]

Rotate(s) == Append(Tail(s), Head(s))

\* Faulty variant: the comparison that memoises the most-written node is lost.
FirstWritten(n, lifetime) == most_written_node = NoNode

IsMostWritten(n, lifetime) ==
    most_written_node = NoNode \/ lifetime[n] > lifetime[most_written_node]

\* The tail of every turn.  n is charged what job_idx' says runs on it now:
\* after a swap, the job it has received and not the one whose turn it is.
EndTurn(n, lifetime) ==
    /\ lifetime_bfs' = [lifetime EXCEPT ![n] = @ + bit_writes_per_quanta(job_idx'[n])]
    /\ most_written_node' =
        IF IsMostWritten(n, lifetime_bfs') THEN n ELSE most_written_node
    /\ next_job' = next_job + 1
    /\ UNCHANGED <<args, no_rebalance_mwn, n_events, epoch, status>>

Accumulate(j) ==
    LET nm == job_map[j]
    IN /\ IsTurnOf(j)
       /\ ~HitInterval(nm)
       /\ UNCHANGED <<queues_vec, queue, job_idx, job_map, lowest_active_queue,
                      totals, cont>>
       /\ interval_bfs' =
            [interval_bfs EXCEPT ![nm] = @ + bit_writes_per_quanta(job_idx[nm])]
       /\ EndTurn(nm, lifetime_bfs)

\* The node leaves the last queue; the other jobs of the epoch go on.
MaxOut(j) ==
    LET nm == job_map[j]
    IN /\ IsTurnOf(j)
       /\ HitInterval(nm)
       /\ MaxedOut(nm)
       /\ queues_vec' = Erased(nm)
       /\ lowest_active_queue' = LowestAfterErase(nm)
       /\ cont' = FALSE
       /\ UNCHANGED <<interval_bfs, queue, job_idx, job_map, totals>>
       /\ EndTurn(nm, lifetime_bfs)

\* The node enters what is now the lowest queue.  job_map keeps the iterator
\* of the erased list node, whose storage the node allocated next reuses.
PromoteAlone(j) ==
    LET nm == job_map[j]
    IN /\ IsTurnOf(j)
       /\ HitInterval(nm)
       /\ ~MaxedOut(nm)
       /\ LowestAfterErase(nm) >= queue[nm] + 1
       /\ queues_vec' = Emplaced(nm)
       /\ queue' = [queue EXCEPT ![nm] = @ + 1]
       /\ interval_bfs' = IntervalCarried(nm)
       /\ lowest_active_queue' = LowestAfterErase(nm)
       /\ UNCHANGED <<job_idx, job_map, totals, cont>>
       /\ EndTurn(nm, lifetime_bfs)

\* Bit flips of moving a job: its bytes, not its bits, times its write factor.
swap_bfs(j) ==
    (args.jobs[j].rss_bytes * args.jobs[j].write_factor) \div WfUnit

\* Faulty variant: the delay of a swap is that of the smaller transfer.
ShorterTransfer(j, k) ==
    IF args.jobs[j].rss_bytes > args.jobs[k].rss_bytes
    THEN args.jobs[k].rss_bytes ELSE args.jobs[j].rss_bytes

LongerTransfer(j, k) ==
    IF args.jobs[j].rss_bytes > args.jobs[k].rss_bytes
    THEN args.jobs[j].rss_bytes ELSE args.jobs[k].rss_bytes

\* Faulty variant: only the promoted job's iterator is re-seated.
OneJobReseated(j, k, nm, lnm) == [job_map EXCEPT ![j] = lnm]

Reseated(j, k, nm, lnm) == [job_map EXCEPT ![k] = nm, ![j] = lnm]

\* Each node is charged the move of the job it gives away.
ChargeSwap(counter, j, k, nm, lnm) ==
    [counter EXCEPT ![nm] = @ + swap_bfs(j), ![lnm] = @ + swap_bfs(k)]

\* Faulty variant: the job of the node at the tail of the queue promoted from.
NearestSwapPartner(n) == Last(queues_vec[queue[n]])

SwapPartner(n) == Head(Emplaced(n)[LowestAfterErase(n)])

PromoteAndSwap(j) ==
    LET nm == job_map[j]
        lowest == LowestAfterErase(nm)
        lnm == SwapPartner(nm)
        k == job_idx[lnm]
    IN /\ IsTurnOf(j)
       /\ HitInterval(nm)
       /\ ~MaxedOut(nm)
       /\ lowest < queue[nm] + 1
       /\ queues_vec' = [Emplaced(nm) EXCEPT ![lowest] = Rotate(@)]
       /\ queue' = [queue EXCEPT ![nm] = @ + 1]
       /\ lowest_active_queue' = lowest
       /\ job_idx' = [job_idx EXCEPT ![nm] = k, ![lnm] = j]
       /\ job_map' = Reseated(j, k, nm, lnm)
       /\ interval_bfs' = ChargeSwap(IntervalCarried(nm), j, k, nm, lnm)
       /\ totals' =
            [promotions |-> totals.promotions + 1,
             bytes |-> totals.bytes + args.jobs[j].rss_bytes + args.jobs[k].rss_bytes,
             delay |-> totals.delay + LongerTransfer(j, k)]
       /\ UNCHANGED cont
       /\ EndTurn(nm, ChargeSwap(lifetime_bfs, j, k, nm, lnm))

Turn(j) == Accumulate(j) \/ MaxOut(j) \/ PromoteAlone(j) \/ PromoteAndSwap(j)

-----------------------------------------------------------------------------
(* The outer loop, and what main does after it.                            *)

\* The timestamp of the epoch is traced, whether or not a node was promoted
\* in it, until as many promotions were made as -e says.
EndEpoch ==
    /\ status = "running"
    /\ next_job = NNodes
    /\ next_job' = 0
    /\ epoch' = epoch + 1
    /\ n_events' = IF totals.promotions < NPromotionsToEventTrace
                   THEN n_events + 1 ELSE n_events
    /\ UNCHANGED <<args, queues_vec, node_vars, job_map, lowest_active_queue,
                   stat_vars, cont, status>>

\* dump_stats dereferences most_written_node, null after no iteration.
Finish ==
    /\ status = "running"
    /\ args.rebalance
    /\ next_job = 0
    /\ ~LoopGoesOn
    /\ status' = IF most_written_node = NoNode THEN "crashed" ELSE "done"
    /\ UNCHANGED <<args, queues_vec, node_vars, job_map, lowest_active_queue,
                   stat_vars, n_events, epoch, next_job, cont>>

\* Faulty variant: the first job that writes at all is taken.
FirstJobThatWrites(j) ==
    /\ bit_writes_per_quanta(j) > 0
    /\ \A k \in Jobs : k < j => bit_writes_per_quanta(k) = 0

\* The first of the most write-intensive jobs.
IsHottest(j) ==
    /\ bit_writes_per_quanta(j) > 0
    /\ \A k \in Jobs : bit_writes_per_quanta(k) <= bit_writes_per_quanta(j)
    /\ \A k \in Jobs : k < j => bit_writes_per_quanta(k) < bit_writes_per_quanta(j)

\* run_no_rebalance, and the dump of what it found.
RunNoRebalance(j) ==
    LET n_quantas == bucket_cap \div bit_writes_per_quanta(j)
    IN /\ status = "running"
       /\ ~args.rebalance
       /\ IsHottest(j)
       /\ epoch' = n_quantas
       /\ no_rebalance_mwn' = n_quantas * bit_writes_per_quanta(j)
       /\ most_written_node' = NoRebalanceMwn
       /\ status' = "done"
       /\ UNCHANGED <<args, queues_vec, node_vars, job_map, lowest_active_queue,
                      totals, n_events, next_job, cont>>

\* No job writes: the pointer to the hottest one was never assigned, and what
\* the division through it does is undefined.
NoJobWrites ==
    /\ status = "running"
    /\ ~args.rebalance
    /\ \A j \in Jobs : bit_writes_per_quanta(j) = 0
    /\ status' = "undefined"
    /\ UNCHANGED <<args, queues_vec, node_vars, job_map, lowest_active_queue,
                   stat_vars, n_events, epoch, next_job, cont>>

Next ==
    \/ \E j \in Jobs : Turn(j)
    \/ EndEpoch
    \/ Finish
    \/ \E j \in Jobs : RunNoRebalance(j)
    \/ NoJobWrites

Spec == Init /\ [][Next]_vars

\* The loop is a single thread that always takes its next step.
FairSpec == Spec /\ WF_vars(Next)

-----------------------------------------------------------------------------
(* Properties                                                              *)

\* Every variable holds a value of its C++ type, and job_map designates a
\* node for every job from the start of run_rebalance on.
TypeOK ==
    /\ args \in [rebalance : BOOLEAN,
                 n_iterations : NIterationsChoices,
                 cell_write_endurance : CellWriteEndurances,
                 jobs : [Jobs -> JobChoices]]
    /\ queues_vec \in [Queues -> Seq(Nodes)]
    /\ interval_bfs \in [Nodes -> Nat]
    /\ lifetime_bfs \in [Nodes -> Nat]
    /\ queue \in [Nodes -> Queues]
    /\ job_idx \in [Nodes -> Jobs]
    /\ job_map \in [Jobs -> IF args.rebalance THEN Nodes ELSE {NoNode}]
    /\ lowest_active_queue \in 0..NBuckets
    /\ most_written_node \in Nodes \union {NoNode, NoRebalanceMwn}
    /\ no_rebalance_mwn \in Nat
    /\ totals \in [promotions : Nat, bytes : Nat, delay : Nat]
    /\ epoch \in Nat
    /\ n_events \in 0..epoch
    /\ next_job \in 0..NNodes
    /\ cont \in BOOLEAN
    /\ status \in {"running", "done", "crashed", "undefined"}

IsWornOut(n) == args.rebalance /\ \A q \in Queues : ~Contains(queues_vec[q], n)

\* A node is in the queue its backpointer names, in no other, and there once;
\* only nodes that left the last queue, several perhaps in the last epoch,
\* are in none.
QueuesPartitionNodes ==
    /\ \A q \in Queues : IsInjective(queues_vec[q])
    /\ \A q \in Queues, n \in Nodes : Contains(queues_vec[q], n) => queue[n] = q
    /\ \A n \in Nodes : IsWornOut(n) => ~cont /\ queue[n] = NBuckets - 1

\* The memoised lowest_active_queue is the lowest non-empty queue as long as
\* a job may still look at it: also in the turns left of the last epoch, where
\* queues empty because nodes have worn out.
LowestActiveIsLowest ==
    args.rebalance =>
        /\ \A q \in Queues : q < lowest_active_queue => queues_vec[q] = <<>>
        /\ IF lowest_active_queue \in Queues
           THEN queues_vec[lowest_active_queue] # <<>>
           ELSE \A n \in Nodes : IsWornOut(n)

\* Swaps permute the jobs among the nodes: no job is lost, none runs twice.
MappingConsistent ==
    args.rebalance => \A j \in Jobs, n \in Nodes : job_map[j] = n <=> job_idx[n] = j

\* A node's life is the intervals its queue stands for, plus the current one,
\* plus at most one quantum of the hottest job for each promotion, whose turn
\* counts for the life only.  No swap or promotion loses or invents flips.
WearAccounting ==
    \A n \in Nodes :
        LET counted == queue[n] * bucket_interval + interval_bfs[n]
            turns == IF IsWornOut(n) THEN queue[n] + 1 ELSE queue[n]
        IN /\ lifetime_bfs[n] >= counted
           /\ \E j \in Jobs :
                lifetime_bfs[n] <= counted + turns * bit_writes_per_quanta(j)

\* The wear reported at the end is that of a node that has taken more flips
\* than all the buckets stand for, although most_written_node is compared only
\* with nodes whose turn it is; and unless bucket_cap wrapped, that is the
\* endurance of all its cells but for the remainder the buckets leave.
WornOutIsJustified ==
    ~cont =>
        LET life == lifetime_bfs[most_written_node]
            endurance == BitsPerNode * args.cell_write_endurance
        IN /\ life > NBuckets * bucket_interval
           /\ endurance < 2^Width => life + NBuckets > endurance

\* Only promotions that swap are counted, no more than nodes have climbed
\* levels, and the delay on a full-duplex link is between half of the bytes
\* transferred and all of them.
TransfersTally ==
    /\ totals.promotions <= SumFunction(queue)
    /\ totals.delay <= totals.bytes
    /\ totals.bytes <= 2 * totals.delay

\* Without rebalancing, the time computed is how long the hottest job takes to
\* use up a node's write budget: no job exceeds it in that many quanta, and
\* one more quantum would.
NoRebalanceBudget ==
    (status = "done" /\ ~args.rebalance) =>
        /\ \A j \in Jobs : epoch * bit_writes_per_quanta(j) <= bucket_cap
        /\ \E j \in Jobs : (epoch + 1) * bit_writes_per_quanta(j) > bucket_cap
        /\ no_rebalance_mwn <= bucket_cap

\* A node is at the level of the list that holds it; with -r off at level 0.
ListLevel(n) ==
    IF ~args.rebalance \/ Contains(queues_vec[queue[n]], n)
    THEN queue[n] ELSE NBuckets

AbstractLevelling == INSTANCE WearLevelling
    WITH Units <- Nodes,
         Data <- Jobs,
         NLevels <- NBuckets,
         level <- [n \in Nodes |-> ListLevel(n)],
         place <- [j \in Jobs |-> IF args.rebalance THEN job_map[j] ELSE j]

\* The multi-node simulator implements the same abstract levelling as the
\* single-node one: a promotion climbs one level and exchanges jobs with a
\* node of the lowest level occupied, also after others have worn out.
ImplementsWearLevelling == AbstractLevelling!Spec

Unlimited == CHOOSE n \in NIterationsChoices : \A m \in NIterationsChoices : m <= n

RunsUntilWornOut ==
    /\ args.rebalance
    /\ args.n_iterations = Unlimited
    /\ \E j \in Jobs : bit_writes_per_quanta(j) > 0

IsReportedWornOut == ~cont /\ status = "done"

\* With rebalancing and no limit, a job that writes at least one bit in a
\* quantum wears a node out, and the report is made.
WearsOut == RunsUntilWornOut ~> IsReportedWornOut
=============================================================================
