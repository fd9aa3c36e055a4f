------------------------------ MODULE EventTrace ------------------------------
(***************************************************************************)
(* The event queue depth tool (eventtrace/EventTrace.cpp).                 *)
(*                                                                         *)
(* A file of event timestamps, written by SNQueues (integers) or MNQueues  *)
(* (floats), is sorted and replayed: each event is put at the front of the *)
(* list of start times, events that have lasted event_duration leave it,   *)
(* and the longest the list ever gets is reported.                         *)
(*                                                                         *)
(* Floats, of the file and of the duration, are multiples of 1 / Unit.     *)
(* Integers have Width bits.                                               *)
(***************************************************************************)
EXTENDS Integers, Sequences, Functions, FiniteSets, FiniteSetsExt

CONSTANTS
    Width,          \* of uint64_t
    Unit,
    Entries,        \* what an entry of the file may be: in 1 / Unit if a float
    MaxNEntries,    \* bound on the length of the file
    DurationsU64,   \* what -d may set event_duration_u64 to; 0 if it never did
    DurationsF64    \* and event_duration_f64, in 1 / Unit

U64Mod == 2^Width

ASSUME EventTraceAssumption ==
    /\ Width \in Nat \ {0}
    /\ Unit \in Nat \ {0}
    /\ Entries \subseteq 0..U64Mod - 1
    /\ MaxNEntries \in 0..U64Mod - 1
    /\ DurationsU64 \subseteq 0..U64Mod - 1
    /\ DurationsF64 \subseteq Nat

VARIABLES
    type,             \* -t: the instance of the template that main() runs
    event_duration,   \* in 1 / Unit if a float
    buf,              \* the file, sorted
    n_read,           \* entries the loop of run() has read
    start_times,      \* newest first
    max_queue_depth

args == <<type, event_duration, buf>>
vars == <<args, n_read, start_times, max_queue_depth>>

Files == UNION {[1..n -> Entries] : n \in 0..MaxNEntries}

\* Faulty variant: the file is taken to be in order.
Unsorted(file) == file

\* Entry i of the sorted file: fewer than i entries are less, and at least i
\* are not greater.
Ranked(file, i) ==
    CHOOSE v \in Range(file) :
        /\ Cardinality({j \in DOMAIN file : file[j] < v}) < i
        /\ Cardinality({j \in DOMAIN file : file[j] <= v}) >= i

Sorted(file) == [i \in DOMAIN file |-> Ranked(file, i)]

\* Options are read in turn, -d according to the latest -t, so that the type
\* that stands in the end may not be the one whose duration was given: what is
\* rejected is only that neither was.
Init ==
    /\ type \in {"UINT64", "FLOAT64"}
    /\ \E u64 \in DurationsU64, f64 \in DurationsF64 :
        /\ ~(u64 = 0 /\ f64 = 0)
        /\ event_duration = IF type = "UINT64" THEN u64 ELSE f64
    /\ \E file \in Files : buf = Sorted(file)
    /\ n_read = 0
    /\ start_times = <<>>
    /\ max_queue_depth = 0

\* Entry i as the loop reads it, into a uint64_t whatever the type.
Timestamp(i) == IF type = "UINT64" THEN buf[i] ELSE buf[i] \div Unit

\* The sum is of type T: an integer wraps, a float does not.
Expired(start_time, timestamp) ==
    IF type = "UINT64"
    THEN (start_time + event_duration) % U64Mod <= timestamp
    ELSE start_time * Unit + event_duration <= timestamp * Unit

\* Faulty variant: the event that starts counts.
QueueLength(list) == Len(list) % U64Mod

\* The event that starts does not count.  The depth is unsigned.
QueueDepth(list) == (Len(list) - 1) % U64Mod

\* Faulty variant: the depth is that of the last event.
LastDepth(depth) == depth

Deepest(depth) == IF max_queue_depth < depth THEN depth ELSE max_queue_depth

\* What remove_if() leaves of a list, in its order.
Remaining(list, timestamp) ==
    LET kept[n \in 0..Len(list)] ==
            IF n = 0 THEN <<>>
            ELSE IF Expired(list[n], timestamp) THEN kept[n - 1]
            ELSE Append(kept[n - 1], list[n])
    IN kept[Len(list)]

\* One iteration of the loop.
ReadEvent ==
    /\ n_read < Len(buf)
    /\ n_read' = n_read + 1
    /\ LET timestamp == Timestamp(n_read')
       IN start_times' = Remaining(<<timestamp>> \o start_times, timestamp)
    /\ max_queue_depth' = Deepest(QueueDepth(start_times'))
    /\ UNCHANGED args

Next == ReadEvent

Spec == Init /\ [][Next]_vars

-----------------------------------------------------------------------------
(* Properties                                                              *)

\* Every variable holds a value of its C++ type; the depth is less than the
\* number of events read, unless it is the wrapped -1 of an empty list.
TypeOK ==
    /\ type \in {"UINT64", "FLOAT64"}
    /\ event_duration \in IF type = "UINT64" THEN DurationsU64 ELSE DurationsF64
    /\ buf \in Seq(Entries) /\ Len(buf) <= MaxNEntries
    /\ n_read \in 0..Len(buf)
    /\ start_times \in Seq(0..U64Mod - 1) /\ Len(start_times) <= n_read
    /\ max_queue_depth \in {0, U64Mod - 1} \union 0..n_read - 1

\* The durations the tool is meant for: positive, and not so long that the end
\* of an event wraps around.
DurationFits ==
    /\ event_duration > 0
    /\ type = "UINT64" =>
            \A i \in 1..Len(buf) : buf[i] + event_duration < U64Mod

\* When an event starts, in the units of event_duration.
StartOf(i) == IF type = "UINT64" THEN Timestamp(i) ELSE Timestamp(i) * Unit

\* Of the first n events, those under way when the n-th starts.
UnderWay(n) == {i \in 1..n : StartOf(i) + event_duration > StartOf(n)}

\* The list holds exactly the events under way, the newest first, although an
\* event that was removed is never looked at again: an event that has ended by
\* one timestamp has ended by all that follow.
ListIsUnderWay ==
    DurationFits =>
        start_times =
            [k \in 1..Cardinality(UnderWay(n_read)) |->
                Timestamp(n_read + 1 - k)]

\* The depth reported is the largest number of events under way besides the
\* one that starts, over all events read so far; it is never the wrapped -1 of
\* an empty list.
DepthIsPeak ==
    DurationFits =>
        max_queue_depth =
            Max({0} \union {Cardinality(UnderWay(n)) - 1 : n \in 1..n_read})

\* When events complete if a server takes one at a time, in order.
Completions ==
    LET completion[i \in 0..Len(buf)] ==
            IF i = 0
            THEN 0
            ELSE Max({StartOf(i), completion[i - 1]}) + event_duration
    IN completion

\* README.md:62 says that "only one event can be serviced at a time": the depth
\* reported is then the largest number of events that wait, when an event
\* starts, behind the one in service.
DepthIsSingleServer ==
    (DurationFits /\ n_read = Len(buf)) =>
        LET InSystem(n) ==
                {i \in 1..n : Completions[i] > StartOf(n)}
        IN max_queue_depth =
            Max({0} \union {Cardinality(InSystem(n)) - 1 : n \in 1..n_read})
=============================================================================
