# A TLA+ model of traceproc

traceproc is a set of offline tools that process memory traces written by
zsim. Two of them simulate wear levelling of a non-volatile memory by queues
(`snqueues` for the pages of one node, `mnqueues` for the jobs of several),
one simulates a last-level cache with a small cache of recently read pages
beside it (`rrllc`), two count accesses (`snstats`, `mnstats`), and one
measures how events queue up (`eventtrace`). Every tool but `mnqueues` and
`eventtrace` reads its trace through `MemTraceReader`.

All tools are sequential: there are no threads, messages or persistent state
to recover. What is hard in them is the long run: redundant copies of the same
fact (a frame is in a list, knows its list, is known to an iterator in a map,
and is counted by two counters) that every operation must change together;
memoised values that are only patched, never recomputed; and boundaries (the
last queue, the end of the buffer, the end of the file, the end of a pass, the
last way of a set) whose off-by-one errors distort a result without failing.

## Inventory

| component | state | operations | depends on | what makes it correct |
|---|---|---|---|---|
| MemTraceReader (`common/MemTraceReader.*`) | the buffer, its cursor, the file offset and the failbit of the stream, the pass counter | `load`, `next`, `refill`, `reset`, `is_end_of_pass`, `get_first_entry`, `get_last_entry` | the file | the first pass is the trace, streaming is cyclic, a pass covers the trace, nothing unread is handed out |
| SNQueues (`snqueues/`) | the queues (lists of frames), interval and lifetime counters, backpointers of the frames, `page_map`, the memoised lowest queue and most written frame, promotion and event counts | the scan of the first pass, the sizing and prefill, one write of the main loop, the end of a pass, `dump_stats` | MemTraceReader | queues partition the frames, the mapping is a bijection, the memoised queue is right, the counters agree, wear-out is reported only when it happened and always happens |
| MNQueues (`mnqueues/`) | the same for nodes and jobs, plus epochs and bytes transferred | one job of an epoch, the end of an epoch, `run_no_rebalance` | none | the same, with its own promotion test, charges and termination, and a last epoch that goes on without the nodes that wore out |
| Cache, Bank, Set (`rrllc/Cache*`) | per set: a list and a map of iterators (LRU) or a vector and a set (RANDOM), `n_ways_active`, statistics | `access`, `clear_stats`, `aggregate_stats` | none | the two copies agree, a set never overflows, the victim is the right one, statistics tally |
| RRLLC (`rrllc/RRLLC.*`) | an LLC and an RRC | `run_pass` twice, `clear_stats` between, `aggregate_stats` | MemTraceReader, Cache | one LLC access per entry, one RRC store per load, one lookup of the evicted page per eviction |
| EventTrace (`eventtrace/`) | the sorted file, the start times under way, the greatest depth | the reading of the file, `run` | the event traces of SNQueues and MNQueues | the list holds the events under way, the depth is their peak |
| MNStats (`mnstats/`) | pages and their placement, node counters | first-touch or interleaved placement, one access, `aggregate_stats` | MemTraceReader | pages are placed by the policy and stay, the counters of pages and nodes tally with the trace |
| SNStats (`snstats/`) | counters per line and per page | one access, `aggregate_stats` | MemTraceReader | maxima are those of the trace |
| utilities, option parsing | none | text to numbers | none | the ranges they check are the assumptions of the modules |

Components interact by calls only. The one protocol between them is that of
the reader: a tool alternates `next` with `is_end_of_pass` and may `reset`.
`PROJECT.json` lists the hazards of the code, each at its line, with the
properties that would catch it going wrong.

## Modules

| module | models | lines |
|---|---|---|
| `SNQueues` | the single-node simulator | `snqueues/SNQueues.cpp` |
| `MCSNQueues` | a small instance of it | |
| `WearLevelling` | what both simulators promise of levels and placements | none: an abstract specification |
| `MNQueues`, `MCMNQueues` | the multi-node simulator, and a small instance of it | `mnqueues/MNQueues.cpp` |
| `QueueLemmas` | lemmas about sequences used as queues | |
| `SNQueuesProofs`, `MNQueuesProofs` | the proofs about `SNQueues` and `MNQueues` | |
| `MemTraceReader` | the cyclic reader | `common/MemTraceReader.{h,cpp}` |
| `MemTraceReaderProofs` | the proofs about it | |
| `CacheSet` | a set and a cache of sets, as operators | `rrllc/Cache/*`, `rrllc/Cache.cpp` |
| `CacheHash` | the hash that picks bank and set | `rrllc/Cache.h`, `rrllc/Cache/Bank.cpp` |
| `AbstractCache` | what a cache promises, without lists and maps | none: an abstract specification |
| `RRLLC`, `MCRRLLC` | the tool, and a small instance of it | `rrllc/RRLLC.cpp` |
| `SumLemmas` | lemmas about the sum of a function's values | |
| `RRLLCProofs` | the proofs about `RRLLC` and its caches | |
| `EventTrace` | the event queue depth tool | `eventtrace/EventTrace.cpp` |
| `EventTraceProofs` | the proofs about it | |
| `MNStats` | the multi-node statistics tool on a reader | `mnstats/MNStats.cpp`, `Page.h`, `Node.h` |
| `SNStats` | the single-node statistics tool on a reader | `snstats/SNStats.cpp` |
| `MCStats` | both statistics tools over the same trace | |
| `StatsProofs` | the proofs about them | |

### SNQueues

A frame is a number, a queue is a sequence of frames, front first. `page_map`
maps a page to its frame. In the code it maps a page to a list iterator, and a
promotion erases the list node: `dangling` records the pages whose iterator
designates an erased node. Reading through such an iterator is undefined; in
the builds of the repository the node that `emplace_back` allocates next takes
over the storage just freed, so that the frame is still found, and this is the
outcome modelled.

`Init` is the state after the scan of the first pass, the sizing of the memory
and the prefill with free frames (lines 263 to 331), with the pages in any
first-touch order. One write is one of four actions, the four paths through
the body of the main loop (lines 359 to 470): `Accumulate`, `MaxOut`,
`PromoteAlone` and `PromoteAndSwap`. Each includes the tail that every write
runs (`CountWrite`). A read of the trace changes nothing and is no action. The
end of a pass is `NextPass`, `LastPass` or, when nothing was written yet and
`dump_stats` dereferences a null pointer, `CrashInDump`.

The trace is abstracted to the set of pages it writes: a pass is any sequence
of writes that contains each of them at least once. This covers every trace
and also the reader's passes of one entry more than the trace; it does not
cover a reader that hands out memory it never read, see the findings. Write
factors are multiples of `1 / WfUnit`, and the number of bits flipped per line
is the ceiling that the code computes. Integers are unbounded: the counters of
the code have 64 bits, and the run of a simulation that would overflow them is
out of reach.

`WearLevelling` states what is left of the simulator when lists, iterators,
backpointers and memoised indices are taken away: each frame has a level and
each page a place, and the only step is that a frame climbs one level and
exchanges pages with a frame of the lowest level then occupied, or keeps its
page because nobody is below it or because it is worn out. The refinement maps
`level` to the queue whose list holds the frame and `place` to `page_map`
(`ImplementsWearLevelling`). A write that promotes nothing is a stutter.

### MNQueues

A node is in a queue and runs a job, and an epoch gives each job a turn. A
turn is one of the four paths through the body of the inner loop
(`Accumulate`, `MaxOut`, `PromoteAlone`, `PromoteAndSwap`), each with the tail
every turn runs (`EndTurn`). It differs from a write of `SNQueues` in what a
reader of both would take for the same: the comparison with the interval is
strict; the tail charges the node what `job_idx` says after the swap, so that
a promoted node is charged a quantum of the job it has received; a node is
charged the move of the job it gives away, in bytes; and `MaxOut` only clears
`cont`, so that the jobs left in the epoch have their turn. `EndEpoch` ends
the epoch and traces its timestamp, `Finish` leaves the loop and runs
`dump_stats`, which crashes when no epoch was run. `RunNoRebalance` is
`run_no_rebalance` and the report, `NoJobWrites` the same when the pointer to
the hottest job was never assigned. The command line (`args`) is chosen in
`Init`, among those the constructor accepts; `bucket_cap` wraps at `Width`
bits, and the products with fractions are truncated as the casts do. The same
`WearLevelling` is refined, with nodes for units and jobs for data.

The list node a job's iterator designates may be erased here as well
(`MNQueues.cpp:282`, `:304`); the argument that the node allocated next takes
over its storage is the same. After `MaxOut` nobody reads through the erased
iterator: its job has had its turn, and a swap overwrites only iterators of
nodes in lists.

### MemTraceReader

An entry is its index in the file, and offsets are counted in entries. The
variable `stream` holds the buffer together with the state of the `ifstream`.
A read that comes up short sets the failbit; nothing clears it, later seeks
and reads do nothing, and `tellg` answers -1, which makes the code believe
that the whole file is left. `served` and `handed` are history variables.

### Caches

`SetAccess` yields the set of possible outcomes of an access, one under LRU
and one per way under RANDOM, where the code draws a way at random. It is put
together from the steps of the code (`Found`, `Missed`, `Evicting`, `AddLine`,
`ReplaceLine`). A cache is
a function from the global index of a set to the set. `RRLLC` is the loop of
`run_pass`, with `last_use` and `clock` as history variables for the
refinement: `LlcImplementsCache` says that the LLC, through the mapping of its
indexes to `contents`, implements `AbstractCache`, whose victim under LRU is
defined by the times of the last accesses. That a pass reads the trace exactly
once, from its beginning, is `FirstPassExact` of the reader.

### EventTrace

One action, `ReadEvent`, is an iteration of the loop of `run`. `Init` chooses
the type, a duration that `parse_and_validate_args` lets through and a file,
which the constructor sorts. Sorting is by rank: position `i` holds the
timestamp with fewer than `i` smaller ones and at least `i` that are no larger
(`Ranked`), and `erase(remove_if)` is a recursive function over the list
(`Remaining`): in this form both can be reasoned about. Integers have `Width` bits, so that the end of an
event may wrap, and so does the depth of an empty list; floats are multiples
of `1 / Unit`, truncated where the code assigns them to a `uint64_t`. A
duration of zero passes validation when `-t` is given again after `-d`, which
leaves the duration of the other type set: the list is then empty and the
depth wraps. The properties are stated of durations that fit (`DurationFits`).

### MNStats and SNStats

Both tools own a reader: they INSTANCE `MemTraceReader` and take an entry by
its `NextEntry`, and `trace` says what the file holds at that index. In
`MNStats` a page is placed and counted within one action, `Access`;
`AccessFromUnknownNode` is the access whose node number exceeds `-n`, which
indexes vectors out of range. `AggregateStats` is `aggregate_stats` without
its ratios. `SNStats` keeps its
two maps as functions on their keys, to which `CountWrite` adds a key it does
not find, as `operator[]` does; `AggregateNothing` is the
dereference of the end of an empty map. `MCStats` composes the two over one
file: each is a process with a reader of its own, whose buffer may have
another size, and `MNStats` runs first (they share nothing, so that no other
order shows more). Its properties relate what the two report.

## Runs

| run | shows |
|---|---|
| `MCSNQueues` | type correctness, the four structural invariants, justified wear-out, levelling, the refinement of `WearLevelling` and termination of the simulator |
| `SNQueuesIterators` | finding: an iterator to an erased node is left in `page_map` |
| `SNQueuesSwapCharge` | finding: a swap charges the cost of the wrong page |
| `MCMNQueues` | the same of the multi-node simulator, the tally of the transfers, and the time computed without rebalancing |
| `MCStats` | placement by policy, counters that tally with the trace, and two tools that agree |
| `MCMemTraceReader` | exact first passes, cyclic streaming, coverage of a pass, no unread memory |
| `MemTraceReaderFittingTrace` | finding: a buffer of more than two traces is not filled |
| `MemTraceReaderPassLength` | finding: later passes have one entry more |
| `MCRRLLC` | coherence of the sets, statistics, the RRC lookup, refinement of the abstract cache |
| `RRLLCLookups` | finding: a load miss under allocate-on-write-only counts as an eviction |
| `MCEventTrace` | the list is exactly the events under way, and the depth their peak |
| `EventTraceSingleServer` | finding: events do not wait for one another |

Bounds, and why they are enough:

* `MCSNQueues`: three pages (a hot one, an average one and one whose writes
  flip nothing) in a memory of two pages requested, which the sizing rounds up
  to four frames, so that there is one free frame to swap with. Three queues
  give promotions with and without a swap, a lowest queue that moves, and
  wear-out; an interval of 2 and writes of 0, 1 and 2 bits give frames that hit
  their interval exactly and beyond it. Each trace, from the empty one to the
  one that writes all pages, and each first-touch order is an initial state.
  `NIterationsChoices` is {2, 40}: 2 stops the loop, 40 stands for the default
  2^64 - 1, as every instance wears out in fewer passes. Two events are asked
  for, so that the limit is reached.
* `MCMNQueues`: four nodes, four queues and every assignment of four kinds of
  job: one whose bits per quantum truncate to none, a slow one with a large
  resident set, one in between, and one that passes an interval in a single
  turn. So a swap alone can carry a node past its interval, several nodes wear
  out in one epoch, and promotions with and without swap occur after one has.
  The endurances 4, 7 and 12 give an interval that divides the capacity, one
  that does not, and a product that wraps at 6 bits. `NIterationsChoices` is
  {0, 3, 300}: none, too few to wear a node out in most cases, and the default.
* `MCStats`: traces of one and of four entries, out of six that read and write
  two lines of one page and one line of two others, from two nodes and a third
  that `-n 2` does not have: pages touched first by one node and then by
  another, interleaving that comes round to node 0 again, lines that differ
  from their pages in which is written most, and traces without a write. The
  buffers hold 3 and 5 entries, fewer and more than the longer trace.
* `MCMemTraceReader`: traces of 1 to 4 entries and buffers of 1 to 7 give
  every relation between the two: buffers shorter, equal, up to twice as long
  and longer, ratios that divide and that do not. `MaxRequests` bounds the
  calls of `next` to 14, three passes of the longest trace.
* `MCRRLLC`: traces of four accesses to four lines, three of which fall into
  the same two-way set (65537 by the second 16 bits of its address); two lines
  make a page. With two passes a set evicts, is hit after it evicted, and the
  RRC, of two ways, evicts too. All eight combinations of policies are initial
  states.
* `MCEventTrace`: files of up to five entries below 8, in any order, with
  `Width` 3 and `Unit` 2. Equal and distinct times, events that end exactly
  when another starts, durations of zero, of half a unit, and one that wraps
  all occur.

The runs that allow the system to stop (`CHECK_DEADLOCK FALSE`) are those of
`SNQueues` and `MNQueues`, whose simulation ends, of `RRLLC`, which ends after
its second pass, and of `EventTrace`, `MNStats` and `SNStats`, which end with
their file. The reader stops only because its bound does: in its run `Reset`
stays enabled.

Fairness: `FairSpec` of `SNQueues` and of `MNQueues` requires weak fairness of
`Next` and no more. The loop is a single thread that never waits, so that it takes some step
whenever one is possible. Which page is written next is the trace's choice and
no fairness is assumed of it. `WearsOut` holds because a pass ends only after
every page of the trace was written. In `MNQueues` every job has its turn in
every epoch; there it is assumed that some job writes at least one bit in a
quantum, since the code truncates less to none and then never ends.

Each property has a mutant, a plausible slip in one definition of the model
(listed in `PROJECT.json`, the faulty variants stand beside the definitions),
that violates it under the same configuration.

## Proofs

The theorems hold for every value of the constants that satisfies the named
assumptions, which are what the option parsers, BitTrack and the constructors
guarantee. TLC evaluates them in the runs.

| module | assumptions | theorems |
|---|---|---|
| `SNQueuesProofs` | `ConstantsAssumption`; `MemoryAssumption`: there is a power of two that holds the trace | `TypeOK`, `QueuesPartitionFrames`, `LowestActiveIsLowest`, `MappingConsistent`, `WearAccounting`, `WornOutIsJustified`, `SwapsGoToTheLowestQueue`, `ImplementsWearLevelling` |
| `MNQueuesProofs` | `ConstantsAssumption`: among others, the bits of a node are at least one and fit in `Width` bits | `TypeOK`, `QueuesPartitionNodes`, `LowestActiveIsLowest`, `MappingConsistent`, `WearAccounting`, `WornOutIsJustified`, `NoRebalanceBudget`, `TransfersTally`, `ImplementsWearLevelling` |
| `MemTraceReaderProofs` | `LengthsAssumption`: neither the trace nor the buffer is empty | every property of the passing run |
| `RRLLCProofs` | `GeometryAssumption`: caches have sets and ways, and the hash stays within the sets | `TypeOK`, `SetsCoherent`, `StatsTally`, `EvictedPageIsLookedUp`, `LlcImplementsCache` |
| `EventTraceProofs` | `EventTraceAssumption`: the values fit in `Width` bits | `TypeOK`, `ListIsUnderWay`, `DepthIsPeak` |
| `StatsProofs` | `ReaderAssumption`: neither the trace nor the buffer is empty; `EntriesAssumption` | `TypeOK`, `PlacementByPolicy`, `AccessesTally`, and of both tools `WritesTally` and `ToolsAgree` |

Each of these modules proves an inductive invariant `Inv` action by action
(`InvariantHolds`), of which the properties are consequences.

**SNQueues.** None of the invariants is inductive alone. That a promotion stays
within the queues and that a swap partner exists needs the lists to be
non-empty where the memoised queue says so; that the memoised queue moves by at
most one needs the frame to be in the queue its backpointer names; `Inv` is
their conjunction with `WornFrameIsLast`, which remembers why the simulation
ended (`most_written_frame` is memoised and compared with the frame just
written only), and `EventsCounted`, which ties the event count to the
promotions. `ErasedQueues`, `EmplacedQueues`, `LowestAfterPromotion` and
`SwapPartnerFacts` say what the parts of a promotion do to the queues, from the
lemmas on sequences in `QueueLemmas`; the arithmetic of the counters is
gathered in `AgreementKept`.

**MNQueues.** The lists behave as in `SNQueues`; the rest of the argument is
its own. A node may wear out while the epoch goes on, so that `cont` does not
say that the queues are whole: `WornNodesHadTheirTurn` says that such a node
is not met again before the loop ends, and `MostWrittenIsWorn` that the node
reported has worn out by then. `IntervalIsLarge`, which the constructor
checks, keeps `WearAccounting` from needing a bound on a turn. The tally of
the transfers changes one summand per turn.

**Refinement of `WearLevelling`**, by both simulators: a promotion takes the
unit to the next level and exchanges its datum with the front of the lowest
occupied queue, which by `LowestActiveIsLowest` and the partition is a unit of
the lowest level; every other step leaves levels and places alone. For
`SNQueues` the theorem assumes `Zero \notin Pages`: address 0x0 stands for the
absence of a page in the free frames, so that a trace that writes the page at
0x0 has a page the code cannot tell from none. The run of TLC has no such
trace either.

**Sums.** `SumFunction` of the community modules is a fold in the order in
which `CHOOSE` takes the elements. `SumLemmas` shows that the recursive
function behind it exists on every finite set, that a sum of naturals is a
natural number, that changing one value changes the sum by as much, and that a
value at a new argument is added to it. It
argues by least counterexample over a set of naturals, which is first-order,
since the induction theorems of the library take an operator.

**RRLLC.** An access is reduced to four cases of one set (hit, bypass, a free
way filled, a line replaced), each told by its effect on lines, index, way
count and statistics (`AccessCases`); under LRU and RANDOM alike they keep
list and index equal and free of repetitions. The totals follow the one set
that changes. Around `SetsCoherent` and `StatsTally`, `Inv` needs that the
configurations do not change, that an eviction is an access (else the RRC
would be asked for more pages than the LLC evicted), and, for the refinement,
that the list of an LRU set is in the order of the last uses
(`LinesInLruOrder`) and that these lie in the past: so the front of the list
is the victim that `AbstractCache` demands. A step implements an abstract
access because the number of ways in use is the number of different lines.

**EventTrace.** The file is in order after the sort (`SortedIsOrdered`: of the
positions out of order a least one is refuted by counting). With a fixed
duration the events under way are therefore the latest ones, an interval that
ends with the event just read (`LatestUnderWay`); what `remove_if` drops is
the far end of the list (`RemainingIsFront`), and the list is the start times
of that interval. `Inv` adds `DepthReached`, which says that the greatest
depth so far was the length at some event, since `DepthIsPeak` alone does not
say what to compare the next length with.

**MemTraceReader.** `Inv` separates the two regimes: a trace that fits lies at
the front of the buffer for ever (`FittingInv`); a longer one is a stretch of
the cycle that the file offset continues (`StreamingInv`); `FilledInv` adds
that the stream does not fail while the buffer is at most twice the trace,
`CursorInv` ties the last entry to the cursor, and `HandedInv` says which
entries the current pass has handed out. `StreamedBuffer` and `AlignedBuffer`
compute what a refill in one or two parts leaves in the buffer.

**MNStats and SNStats.** What the reader hands out is not proved again:
`StatsProofs` instantiates `MemTraceReaderProofs` once for each tool, and
`FirstPassGoesOn` draws from its invariant that in a first pass request `i`
yields entry `i`, whatever the buffer. Every counter is then the size of a set
of entries that an access extends by its own (`PageTallyGrows`, `TallyKept`,
`CountWritten`). The policy needs that the first touch of a page does not move
when a later entry is read (`LeastStays`), and that the interleaved resident
sets differ by a page at most needs `RoundRobin`: the nodes before the next one
have one page more than the others. `SumsTally` carries the sums of the report
along, by a page that is new or a counter that changes. An access with a node
number out of range counts nothing, so that the entries counted are then one
fewer than those read (`Counted`); the theorems hold up to it and after it.
For both tools over one trace `Inv` and `SNInv` are inductive side by side,
and `ToolsAgree` follows from them: the writes to a line are among those to
its page (`WornInOrder`), which by the placement are among those its node has
served, which are among all writes; and a crash of `SNStats` means that the
trace has none.

Only model-checked: `WearsOut` of the two simulators, since liveness is out of
the prover's reach, and what the hash of `CacheHash` computes, which
`GeometryAssumption` bounds in the proofs and TLC evaluates.

## Findings

* `page_map` is left with an iterator to an erased list node by a promotion
  that does not swap (`SNQueues.cpp:376`, `:397`).
* A swap charges both frames with the cost of the promoted page, where the
  comment at `SNQueues.cpp:432-437` charges each with that of the page it
  receives.
* A buffer of more than twice the trace, which the default of 8 GiB is for
  most traces, is only partly filled, and the rest is handed out
  (`MemTraceReader.h:131`). The first pass of every tool is right; the later
  passes of SNQueues then are not.
* Every pass but the first takes one entry too many (`MemTraceReader.h:78`).
* A load miss under allocate-on-write-only reaches the return marked "should
  never get here" (`Set.cpp:144`), whose value reads as an eviction.
* EventTrace removes each event a fixed time after its own start
  (`EventTrace.cpp:155`), where the documentation says that only one event can
  be serviced at a time (`src/README.md:62`): a backlog drains at once, and the
  depth reported is too small.

Disagreements seen while modelling that have no run of their own; the models
follow the code:

* The comment "whether we hit interval or not, increment both bfs"
  (`SNQueues.cpp:461`, `MNQueues.cpp:364`) stands above code that increments
  the lifetime only: the write or quantum that promotes is not counted towards
  the next interval. `WearAccounting` bounds what is missing.
* `MNQueues` charges a move of a job in bytes where everything else counts
  bits (`MNQueues.cpp:337`), and each node with the job it gives away, where
  the comment above (`:332-333`) names the one it receives.
* `-e` is documented as the number of promotions to trace (`src/README.md:45`);
  `MNQueues.cpp:380` traces one timestamp per epoch until that many promotions
  were made.
* `dump_stats` averages over the nodes or frames still in a list
  (`MNQueues.cpp:453`, `SNQueues.cpp:504`): the one that wore out is left out,
  against the comment at `MNQueues.cpp:433`.
* Without a job that writes a bit per quantum, `run_rebalance` never ends and
  `run_no_rebalance` reads a pointer that was never assigned.

## Plan

Done: the models of all tools, and the proofs of every safety property of each
of them, with the three refinements. Next: `SNQueues` driven by
`MemTraceReader` instead of by a set of pages, to show which traces and buffers
its assumption on passes holds for, and with the values of the event
timestamps.

Not modelled: option parsing, `shorthand_to_integer` and `parse_kv_file`
(text), the text of the reports, the construction of directories and files,
and floating-point arithmetic beyond the ceiling of the write factors.
