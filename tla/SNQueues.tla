------------------------------- MODULE SNQueues -------------------------------
(***************************************************************************)
(* The single-node wear-levelling simulator (snqueues/SNQueues.cpp).       *)
(*                                                                         *)
(* Every frame of a memory sits in one of NBuckets queues.  Each write of  *)
(* the trace flips some bits of the frame its page is mapped to; once a    *)
(* frame has accumulated BucketInterval bit flips, its next write promotes *)
(* it to the next queue and swaps its page with the page of the frame at   *)
(* the head of the lowest non-empty queue.  The simulation ends when a     *)
(* frame would leave the last queue, or after n_iterations passes.         *)
(*                                                                         *)
(* The trace is abstracted to the set of pages it writes: a pass is any    *)
(* order of writes that writes each of them at least once.  Reads change   *)
(* nothing (SNQueues.cpp:342) and are not modelled.                        *)
(***************************************************************************)
EXTENDS Integers, FiniteSets, Sequences, SequencesExt

CONSTANTS
    Pages,              \* pages the trace touches (the resident set)
    Zero,               \* page address 0x0, the filler of the free frames
    NPagesRequested,    \* -g, in pages: a power of two
    NBuckets,           \* -n
    CellWriteEndurance, \* -c
    BitsPerPage,
    BitsPerLine,
    WfUnit,             \* write factors are multiples of 1 / WfUnit
    AverageWf,          \* P_BITFLIP_PER_WRITE, in units of 1 / WfUnit
    PageWfs,            \* bittrack.bin: page -> write factor; empty in AVERAGE mode
    NIterationsChoices, \* the values of -i a behaviour may start with; 0 never stops
    NPromotionsToEventTrace  \* -e

-----------------------------------------------------------------------------
(* Derived constants: the constructor, read_bittrack_files and the sizing. *)

\* The number of pages of memory simulated: what was requested, unless the
\* trace touches more; then the smallest power of two that holds the trace.
PowersOfTwo == {2^k : k \in 0..NPagesRequested + Cardinality(Pages)}

n_pages_rss == Cardinality(Pages)

n_pages_mem ==
    IF n_pages_rss > NPagesRequested
    THEN CHOOSE n \in PowersOfTwo :
            /\ n >= n_pages_rss
            /\ \A m \in PowersOfTwo : m >= n_pages_rss => n <= m
    ELSE NPagesRequested

bucket_interval == (BitsPerPage * CellWriteEndurance) \div NBuckets

Frames == 1..n_pages_mem
NoFrame == 0                  \* a null pointer, or a page page_map lacks
Queues == 0..NBuckets - 1
AllPages == Pages \union {Zero}

\* Faulty variant: the conversion to an integer truncates.
TruncatedBfpw(wf) == (wf * BitsPerLine) \div WfUnit

\* Bits flipped per line written: ceil(wf * bits_per_line).
Bfpw(wf) == (wf * BitsPerLine + WfUnit - 1) \div WfUnit

\* A page bittrack.bin does not list gets the average.
page_wf(p) == IF p \in DOMAIN PageWfs THEN PageWfs[p] ELSE AverageWf

page_bfpw(p) == Bfpw(page_wf(p))

\* What the command line, BitTrack and the constructor's check guarantee.
ASSUME ConstantsAssumption ==
    /\ IsFiniteSet(Pages) /\ Pages # {}
    /\ NPagesRequested \in Nat \ {0}
    /\ NBuckets \in Nat \ {0}
    /\ CellWriteEndurance \in Nat \ {0}
    /\ BitsPerPage \in Nat \ {0}
    /\ BitsPerLine \in 1..BitsPerPage
    /\ WfUnit \in Nat \ {0}
    /\ AverageWf \in 0..WfUnit
    /\ DOMAIN PageWfs \subseteq AllPages
    /\ \A p \in DOMAIN PageWfs : PageWfs[p] \in 0..WfUnit
    /\ bucket_interval >= BitsPerPage
    /\ NIterationsChoices \subseteq Nat
    /\ NPromotionsToEventTrace \in Nat

\* The simulated memory holds the trace: there is a power of two that large.
ASSUME MemoryAssumption ==
    n_pages_mem \in Nat /\ n_pages_mem >= n_pages_rss

-----------------------------------------------------------------------------
VARIABLES
    n_iterations,         \* -i: the pass after which the simulation stops
    pages_in_trace,       \* the pages some write of the trace touches
    written_this_pass,    \* those already written in the current pass
    queues_vec,           \* queue -> the frames in it, front first
    interval_bfs,         \* frame -> bit flips counted towards promotion
    lifetime_bfs,         \* frame -> bit flips in its whole life
    queue,                \* frame -> backpointer to its queue
    page_addr,            \* frame -> backpointer to its page
    page_map,             \* page -> frame (through a list iterator)
    dangling,             \* pages whose iterator's list node was erased
    lowest_active_queue,
    most_written_frame,
    total_n_promotions,
    n_events,             \* timestamps written to the event trace
    system_time,          \* system_time_s in units of trace_time_s
    status                \* why the loop ended, "running" until it has

trace_vars == <<n_iterations, pages_in_trace>>
frame_vars == <<interval_bfs, lifetime_bfs, queue, page_addr>>
vars == <<trace_vars, written_this_pass, queues_vec, frame_vars, page_map,
          dangling, lowest_active_queue, most_written_frame,
          total_n_promotions, n_events, system_time, status>>

\* After the scan of the first pass: one frame per page in first-touch
\* order, each mapped, and the free frames prepended to queue 0.
Init ==
    /\ n_iterations \in NIterationsChoices
    /\ pages_in_trace \in SUBSET Pages
    /\ written_this_pass = {}
    /\ queues_vec = [q \in Queues |->
            IF q = 0
            THEN [i \in Frames |->
                    IF i <= n_pages_mem - n_pages_rss
                    THEN n_pages_mem + 1 - i
                    ELSE i - (n_pages_mem - n_pages_rss)]
            ELSE <<>>]
    /\ interval_bfs = [f \in Frames |-> 0]
    /\ lifetime_bfs = [f \in Frames |-> 0]
    /\ queue = [f \in Frames |-> 0]
    /\ \E first_touch \in Bijection(1..n_pages_rss, Pages) :
        /\ page_addr = [f \in Frames |->
                IF f <= n_pages_rss THEN first_touch[f] ELSE Zero]
        /\ page_map = [p \in AllPages |->
                IF p \in Pages
                THEN CHOOSE f \in 1..n_pages_rss : first_touch[f] = p
                ELSE NoFrame]
    /\ dangling = {}
    /\ lowest_active_queue = 0
    /\ most_written_frame = NoFrame
    /\ total_n_promotions = 0
    /\ n_events = 0
    /\ system_time = 0
    /\ status = "running"

-----------------------------------------------------------------------------
(* One write of the trace: the body of the main loop.                      *)

\* Faulty variant: the write is charged before the comparison.
EarlyHitInterval(f) ==
    interval_bfs[f] + page_bfpw(page_addr[f]) >= bucket_interval

HitInterval(f) == interval_bfs[f] >= bucket_interval

Position(s, f) == CHOOSE i \in 1..Len(s) : s[i] = f

\* Faulty variant: the frame is left in the queue it is promoted from.
NotErased(f) == queues_vec

Erased(f) == [queues_vec EXCEPT ![queue[f]] = RemoveAt(@, Position(@, f))]

\* Faulty variant: the queue counts as empty when one frame is left in it.
EarlyLowest(f) ==
    IF Len(Erased(f)[lowest_active_queue]) <= 1
    THEN lowest_active_queue + 1
    ELSE lowest_active_queue

LowestAfterErase(f) ==
    IF Erased(f)[lowest_active_queue] = <<>>
    THEN lowest_active_queue + 1
    ELSE lowest_active_queue

\* Faulty variant: the last queue is treated as one past the end.
LastQueueIsFull(f) == queue[f] + 1 >= NBuckets - 1

MaxedOut(f) == queue[f] + 1 = NBuckets

Emplaced(f) == [Erased(f) EXCEPT ![queue[f] + 1] = Append(@, f)]

\* Faulty variant: a promotion starts the interval anew.
IntervalReset(f) == [interval_bfs EXCEPT ![f] = 0]

\* What a promotion leaves of the interval counter is carried over.
IntervalCarried(f) == [interval_bfs EXCEPT ![f] = @ - bucket_interval]

Rotate(s) == Append(Tail(s), Head(s))

\* The tail of every write that does not break off: the lifetime counter,
\* the memoised most-written frame, and the note that p was written.
CountWrite(p, lifetime) ==
    LET fm == page_map[p]
    IN /\ lifetime_bfs' = [lifetime EXCEPT ![fm] = @ + page_bfpw(p)]
       /\ most_written_frame' =
            IF \/ most_written_frame = NoFrame
               \/ lifetime_bfs'[fm] > lifetime_bfs'[most_written_frame]
            THEN fm
            ELSE most_written_frame
       /\ written_this_pass' = written_this_pass \union {p}
       /\ UNCHANGED <<trace_vars, system_time>>

\* The frame has not hit its interval: it only accumulates bit flips.
Accumulate(p) ==
    LET fm == page_map[p]
    IN /\ status = "running"
       /\ ~HitInterval(fm)
       /\ interval_bfs' = [interval_bfs EXCEPT ![fm] = @ + page_bfpw(p)]
       /\ CountWrite(p, lifetime_bfs)
       /\ UNCHANGED <<queues_vec, queue, page_addr, page_map, dangling,
                      lowest_active_queue, total_n_promotions, n_events, status>>

\* The frame leaves the last queue: the loop ends after this write.
MaxOut(p) ==
    LET fm == page_map[p]
    IN /\ status = "running"
       /\ HitInterval(fm)
       /\ MaxedOut(fm)
       /\ queues_vec' = Erased(fm)
       /\ lowest_active_queue' = LowestAfterErase(fm)
       /\ status' = "worn_out"
       /\ dangling' = dangling \union {p}
       /\ CountWrite(p, lifetime_bfs)
       /\ UNCHANGED <<interval_bfs, queue, page_addr, page_map,
                      total_n_promotions, n_events>>

\* The frame is promoted into what is now the lowest active queue: there is
\* no lower frame to swap with.  page_map keeps the iterator of the erased
\* node; the node allocated next reuses its storage, so that reading through
\* the stale iterator still finds the frame.
PromoteAlone(p) ==
    LET fm == page_map[p]
    IN /\ status = "running"
       /\ HitInterval(fm)
       /\ ~MaxedOut(fm)
       /\ LowestAfterErase(fm) >= queue[fm] + 1
       /\ queues_vec' = Emplaced(fm)
       /\ queue' = [queue EXCEPT ![fm] = @ + 1]
       /\ interval_bfs' = IntervalCarried(fm)
       /\ lowest_active_queue' = LowestAfterErase(fm)
       /\ dangling' = dangling \union {p}
       /\ CountWrite(p, lifetime_bfs)
       /\ UNCHANGED <<page_addr, page_map, total_n_promotions, n_events, status>>

\* Faulty variant: the swap partner is the frame at the tail of the queue
\* just below the new one.
NearestSwapPartner(f) == Last(queues_vec[queue[f]])

\* The frame whose page the promoted frame takes: the head of the lowest
\* active queue.
SwapPartner(f) == Head(Emplaced(f)[LowestAfterErase(f)])

\* Faulty variant: only the promoted page's iterator is re-seated.
OnePageReseated(p, fm, lfm) == [page_map EXCEPT ![p] = lfm]

\* The order of the two assignments matters when both pages are 0x0.
Reseated(p, fm, lfm) == [page_map EXCEPT ![page_addr[lfm]] = fm, ![p] = lfm]

\* The swap writes both frames.
ChargeSwap(counter, fm, lfm, fm_bfs, lfm_bfs) ==
    [counter EXCEPT ![fm] = @ + fm_bfs, ![lfm] = @ + lfm_bfs]

\* Promotion with a swap.  lfm's page is looked up after the swap, so both
\* frames are charged what the promoted page costs.
PromoteAndSwap(p) ==
    LET fm == page_map[p]
        lfm == SwapPartner(fm)
        lowest == LowestAfterErase(fm)
        lfm_bfpw == page_bfpw(page_addr'[lfm])
    IN /\ status = "running"
       /\ HitInterval(fm)
       /\ ~MaxedOut(fm)
       /\ lowest < queue[fm] + 1
       /\ queues_vec' = [Emplaced(fm) EXCEPT ![lowest] = Rotate(@)]
       /\ queue' = [queue EXCEPT ![fm] = @ + 1]
       /\ lowest_active_queue' = lowest
       /\ page_addr' = [page_addr EXCEPT ![fm] = page_addr[lfm], ![lfm] = p]
       /\ page_map' = Reseated(p, fm, lfm)
       /\ dangling' = dangling \ {p, page_addr[lfm]}
       /\ interval_bfs' =
            ChargeSwap(IntervalCarried(fm), fm, lfm, lfm_bfpw, page_bfpw(p))
       /\ total_n_promotions' = total_n_promotions + 1
       /\ n_events' = IF total_n_promotions' <= NPromotionsToEventTrace
                      THEN n_events + 1 ELSE n_events
       /\ CountWrite(p, ChargeSwap(lifetime_bfs, fm, lfm, lfm_bfpw, page_bfpw(p)))
       /\ UNCHANGED status

Write(p) ==
    Accumulate(p) \/ MaxOut(p) \/ PromoteAlone(p) \/ PromoteAndSwap(p)

-----------------------------------------------------------------------------
(* The end of a pass over the trace: every page it writes has been written *)
(* since the last one.  The periodic dump_stats dereferences               *)
(* most_written_frame, null if nothing was written yet.                    *)

PassComplete ==
    /\ status = "running"
    /\ written_this_pass = pages_in_trace
    /\ system_time' = system_time + 1
    /\ written_this_pass' = {}
    /\ UNCHANGED <<trace_vars, queues_vec, frame_vars, page_map, dangling,
                   lowest_active_queue, most_written_frame,
                   total_n_promotions, n_events>>

CrashInDump ==
    /\ PassComplete
    /\ most_written_frame = NoFrame
    /\ status' = "crashed"

NextPass ==
    /\ PassComplete
    /\ most_written_frame # NoFrame
    /\ system_time' # n_iterations
    /\ UNCHANGED status

LastPass ==
    /\ PassComplete
    /\ most_written_frame # NoFrame
    /\ system_time' = n_iterations
    /\ status' = "iterations_done"

Next ==
    \/ \E p \in pages_in_trace : Write(p)
    \/ CrashInDump
    \/ NextPass
    \/ LastPass

Spec == Init /\ [][Next]_vars

\* The loop is a single thread that always takes its next step.
FairSpec == Spec /\ WF_vars(Next)

-----------------------------------------------------------------------------
(* Properties                                                              *)

\* Every variable holds a value of its C++ type, and every page of the trace
\* has a frame.
TypeOK ==
    /\ n_iterations \in NIterationsChoices
    /\ pages_in_trace \in SUBSET Pages
    /\ written_this_pass \in SUBSET Pages
    /\ queues_vec \in [Queues -> Seq(Frames)]
    /\ interval_bfs \in [Frames -> Nat]
    /\ lifetime_bfs \in [Frames -> Nat]
    /\ queue \in [Frames -> Queues]
    /\ page_addr \in [Frames -> AllPages]
    /\ page_map \in [AllPages -> Frames \union {NoFrame}]
    /\ \A p \in Pages : page_map[p] \in Frames
    /\ dangling \in SUBSET AllPages
    /\ lowest_active_queue \in 0..NBuckets
    /\ most_written_frame \in Frames \union {NoFrame}
    /\ total_n_promotions \in Nat
    /\ n_events \in 0..NPromotionsToEventTrace
    /\ system_time \in Nat
    /\ status \in {"running", "worn_out", "iterations_done", "crashed"}

\* A frame is in the queue its backpointer names, in no other, and there
\* once; only the frame that wore out is in none.
QueuesPartitionFrames ==
    /\ \A q \in Queues : IsInjective(queues_vec[q])
    /\ \A q \in Queues, f \in Frames : Contains(queues_vec[q], f) => queue[f] = q
    /\ \A f \in Frames :
        \/ Contains(queues_vec[queue[f]], f)
        \/ status = "worn_out" /\ queue[f] = NBuckets - 1

\* While the simulation runs, the memoised lowest_active_queue is the lowest
\* non-empty queue, although it is only ever advanced by one, and only when a
\* promotion empties a queue.
LowestActiveIsLowest ==
    status = "running" =>
        /\ lowest_active_queue \in Queues
        /\ queues_vec[lowest_active_queue] # <<>>
        /\ \A q \in Queues : q < lowest_active_queue => queues_vec[q] = <<>>

\* Swaps permute the pages among the frames: page_map and the frames'
\* backpointers stay inverse to each other, so that no page of the trace is
\* lost and no frame holds two.
MappingConsistent ==
    Zero \notin Pages =>
        \A p \in Pages, f \in Frames : page_map[p] = f <=> page_addr[f] = p

MaxBfpw == BitsPerLine

\* The three wear counters of a frame agree: its life is the intervals its
\* queue stands for, plus the current one, plus at most one write per
\* promotion (the write that promotes counts for the life only).
WearAccounting ==
    \A f \in Frames :
        LET counted == queue[f] * bucket_interval + interval_bfs[f]
            writes == IF status = "worn_out" THEN queue[f] + 1 ELSE queue[f]
        IN lifetime_bfs[f] \in counted..counted + writes * MaxBfpw

\* When the simulation ends because a frame wore out, the wear it reports is
\* that of a frame that has taken all the bit flips the buckets divide its
\* endurance into, although most_written_frame is compared only with frames
\* just written and a swap partner's life may have passed it unnoticed.
WornOutIsJustified ==
    status = "worn_out" =>
        lifetime_bfs[most_written_frame] >= NBuckets * bucket_interval

\* Levelling: when a step moves pages, it takes a page off a frame that has
\* used up its interval, promotes that frame, and gives it the page of a frame
\* of the lowest non-empty queue, which is strictly less worn by its queue and
\* goes to that queue's tail with the page just written.
SwapsGoToTheLowestQueue ==
    [][page_map' # page_map =>
        \E p \in Pages :
            LET from == page_map[p]
                to == page_map'[p]
            IN /\ interval_bfs[from] >= bucket_interval
               /\ queue'[from] = queue[from] + 1
               /\ page_addr'[from] = page_addr[to]
               /\ queue[to] < queue'[from]
               /\ Last(queues_vec'[queue[to]]) = to
               /\ \A f \in Frames : queue[to] <= queue[f]]_vars

Unlimited == CHOOSE n \in NIterationsChoices : \A m \in NIterationsChoices : m <= n

\* A trace that writes a page with a positive write factor wears the memory
\* out, however the promotions and swaps spread the writes.
WearsOut ==
    (n_iterations = Unlimited /\ \E p \in pages_in_trace : page_wf(p) > 0)
        ~> (status = "worn_out")

\* A frame is at the level of the list that holds it.
ListLevel(f) == IF Contains(queues_vec[queue[f]], f) THEN queue[f] ELSE NBuckets

AbstractLevelling == INSTANCE WearLevelling
    WITH Units <- Frames,
         Data <- Pages,
         NLevels <- NBuckets,
         level <- [f \in Frames |-> ListLevel(f)],
         place <- [p \in Pages |-> page_map[p]]

\* Lists, backpointers, iterators and the memoised lowest queue amount to the
\* abstract levelling: the frame promoted climbs one level and exchanges pages
\* with a frame of the lowest level occupied once it has climbed.  No write
\* does anything else to the levels or to where the pages are.
ImplementsWearLevelling == AbstractLevelling!Spec

\* SNQueues.cpp:432-437 says that a remap is charged "the newly-mapped page's
\* bitflip value": what the swap adds to the life of each of its two frames,
\* apart from the write that promotes one of them, is what a write of the page
\* it receives costs.
SwapChargesNewlyMappedPage ==
    [][\A f \in Frames : page_addr'[f] # page_addr[f] =>
        LET write == IF queue'[f] = queue[f] THEN 0 ELSE page_bfpw(page_addr[f])
        IN lifetime_bfs'[f] - lifetime_bfs[f] - write
              = page_bfpw(page_addr'[f])]_vars

\* Every write goes through the list iterator page_map keeps for its page
\* (SNQueues.cpp:359), which must designate a node that is still allocated.
PageMapIteratorsValid == status = "running" => dangling = {}
=============================================================================
