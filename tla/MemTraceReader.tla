---------------------------- MODULE MemTraceReader ----------------------------
(***************************************************************************)
(* The cyclic reader of a memory trace file (common/MemTraceReader.{h,cpp})*)
(* on which every tool runs.                                               *)
(*                                                                         *)
(* The file holds n_unique_entries entries; an entry is identified by its  *)
(* index in the file.  next() hands out the entries of a buffer of         *)
(* buffer_size_entries entries, which refill() loads from the file; when   *)
(* the end of the file comes before the end of the buffer, it continues    *)
(* from the beginning of the file.  Offsets are counted in entries.        *)
(***************************************************************************)
EXTENDS Integers

CONSTANTS
    TraceLengths,   \* the n_unique_entries a behaviour may start with
    BufferLengths,  \* the buffer_size_entries, from TRACEPROC_TRACE_BUFFER_SIZE
    MaxRequests     \* bound on the calls of next() in a behaviour

ASSUME LengthsAssumption ==
    /\ TraceLengths \subseteq Nat \ {0}
    /\ BufferLengths \subseteq Nat \ {0}
    /\ MaxRequests \in Nat

VARIABLES
    n_unique_entries,
    buffer_size_entries,
    stream,                \* buf, and the ifstream: its offset and failbit
    buffer_curr_entry,
    full_trace_entry_ctr,
    n_full_passes,
    n_requests,
    entry,                 \* what the last call of next() returned
    queried,               \* what the last get_{first,last}_entry() returned
    served,                \* history: calls of next() since load() or reset()
    handed                 \* history: entries handed out in the current pass

counters == <<n_full_passes, n_requests>>
vars == <<n_unique_entries, buffer_size_entries, stream, buffer_curr_entry,
          full_trace_entry_ctr, counters, entry, queried, served, handed>>

Garbage == -1  \* memory or a struct that nothing was read into
Entries == 0..n_unique_entries - 1
Slots == 0..buffer_size_entries - 1

-----------------------------------------------------------------------------
(* The ifstream.  Once a read came up short the failbit is set, nothing in *)
(* the reader clears it, and every later seek and read does nothing.       *)

Seek(s, offset) == IF s.failed THEN s ELSE [s EXCEPT !.offset = offset]

\* ifs.read of count entries into the buffer, from slot first on.
Read(s, first, count) ==
    LET left == n_unique_entries - s.offset
        got == IF count <= left THEN count ELSE left
    IN IF s.failed
       THEN s
       ELSE [buf |-> [i \in Slots |-> IF i \in first..first + got - 1
                                      THEN s.offset + i - first
                                      ELSE s.buf[i]],
             offset |-> s.offset + got,
             failed |-> got < count]

\* tellg() gives -1 on a failed stream: one byte more than the whole file.
EntriesTillEndOfFile(s) ==
    IF s.failed THEN n_unique_entries ELSE n_unique_entries - s.offset

\* Faulty variant: the second part overwrites the first.
OverlappingRead(s) ==
    LET till_end == EntriesTillEndOfFile(s)
    IN IF till_end >= buffer_size_entries
       THEN Read(s, 0, buffer_size_entries)
       ELSE Read(Seek(Read(s, 0, till_end), 0), 0, buffer_size_entries - till_end)

\* In one part, or to the end of the file and again from its beginning.
ReadBuffer(s) ==
    LET till_end == EntriesTillEndOfFile(s)
    IN IF till_end >= buffer_size_entries
       THEN Read(s, 0, buffer_size_entries)
       ELSE Read(Seek(Read(s, 0, till_end), 0),
                 till_end, buffer_size_entries - till_end)

\* Faulty variant: the very first read is skipped like the others.
UnforcedRefill(s, force) ==
    IF n_unique_entries <= buffer_size_entries THEN s ELSE ReadBuffer(s)

\* A trace that fits in the buffer is only read when forced to.
Refill(s, force) ==
    IF ~force /\ n_unique_entries <= buffer_size_entries
    THEN s
    ELSE ReadBuffer(s)

\* Faulty variant: the file offset is left where it was.
ResetWithoutSeek(s) == Refill(s, TRUE)

ResetStream(s) == Refill(Seek(s, 0), TRUE)

is_end_of_buffer == buffer_curr_entry = buffer_size_entries

\* Faulty variants: a pass that is one entry short, or one too long.
EndOfShortPass == full_trace_entry_ctr = n_unique_entries - 1
EndOfLongPass == full_trace_entry_ctr = n_unique_entries + 1

is_end_of_pass == full_trace_entry_ctr = n_unique_entries

-----------------------------------------------------------------------------
\* load(): the buffer is allocated, not initialised, and read.
Init ==
    /\ n_unique_entries \in TraceLengths
    /\ buffer_size_entries \in BufferLengths
    /\ stream = Refill([buf |-> [i \in Slots |-> Garbage],
                        offset |-> 0, failed |-> FALSE], TRUE)
    /\ buffer_curr_entry = 0
    /\ full_trace_entry_ctr = 0
    /\ n_full_passes = 0
    /\ n_requests = 0
    /\ entry = Garbage
    /\ queried = Garbage
    /\ served = 0
    /\ handed = {}

\* next(), which counts a pass when the call after its last entry comes.
NextEntry ==
    LET slot == IF is_end_of_buffer THEN 0 ELSE buffer_curr_entry
    IN /\ n_requests < MaxRequests
       /\ stream' = IF is_end_of_buffer THEN Refill(stream, FALSE) ELSE stream
       /\ entry' = stream'.buf[slot]
       /\ buffer_curr_entry' = slot + 1
       /\ IF is_end_of_pass
          THEN /\ n_full_passes' = n_full_passes + 1
               /\ full_trace_entry_ctr' = 0
               /\ handed' = {entry'}
          ELSE /\ full_trace_entry_ctr' = full_trace_entry_ctr + 1
               /\ handed' = handed \union {entry'}
               /\ UNCHANGED n_full_passes
       /\ n_requests' = n_requests + 1
       /\ served' = served + 1
       /\ UNCHANGED <<n_unique_entries, buffer_size_entries, queried>>

\* reset(): the request and pass counts stay.
Reset ==
    /\ stream' = ResetStream(stream)
    /\ buffer_curr_entry' = 0
    /\ full_trace_entry_ctr' = 0
    /\ served' = 0
    /\ handed' = {}
    /\ UNCHANGED <<n_unique_entries, buffer_size_entries, counters, entry, queried>>

\* get_first_entry() and get_last_entry(): seek, read one entry, seek back.
\* On a failed stream they leave their argument as it was.
GetEntry(i) ==
    /\ queried' = IF stream.failed THEN Garbage ELSE i
    /\ UNCHANGED <<n_unique_entries, buffer_size_entries, stream,
                   buffer_curr_entry, full_trace_entry_ctr, counters, entry,
                   served, handed>>

GetFirstEntry == GetEntry(0)
GetLastEntry == GetEntry(n_unique_entries - 1)

Next == NextEntry \/ Reset \/ GetFirstEntry \/ GetLastEntry

Spec == Init /\ [][Next]_vars

-----------------------------------------------------------------------------
(* Properties                                                              *)

\* Offsets, cursors and counters stay within the file, the buffer and the
\* trace, and a slot holds an entry of the file or nothing.
TypeOK ==
    /\ n_unique_entries \in TraceLengths
    /\ buffer_size_entries \in BufferLengths
    /\ stream \in [buf : [Slots -> Entries \union {Garbage}],
                   offset : 0..n_unique_entries,
                   failed : BOOLEAN]
    /\ buffer_curr_entry \in 0..buffer_size_entries
    /\ full_trace_entry_ctr \in 0..n_unique_entries
    /\ n_full_passes \in Nat
    /\ n_requests \in Nat
    /\ entry \in Entries \union {Garbage}
    /\ queried \in Entries \union {Garbage}
    /\ served \in Nat
    /\ handed \in SUBSET (Entries \union {Garbage})

\* The first pass after a load or a reset hands out the entries of the file
\* in their order, whatever the sizes, wherever the reader stood before and
\* whether or not the stream has failed: what every tool but the queue
\* simulators relies on.
FirstPassExact == served \in 1..n_unique_entries => entry = served - 1

Successor(i) == IF i = n_unique_entries - 1 THEN 0 ELSE i + 1

\* A trace at least as long as the buffer is read cyclically for ever: each
\* refill, in one or two parts, goes on where the last one stopped.
StreamingIsCyclic ==
    [][(/\ buffer_size_entries <= n_unique_entries
        /\ served' = served + 1
        /\ served > 0)
            => entry' = Successor(entry)]_vars

\* For such a trace a pass ends only after every entry was handed out in it.
PassCoversTrace ==
    (buffer_size_entries <= n_unique_entries /\ is_end_of_pass)
        => Entries \subseteq handed

\* As long as the buffer is at most twice as long as the trace, no call
\* returns memory the reader has not read.
NothingUninitialised ==
    buffer_size_entries <= 2 * n_unique_entries =>
        /\ served > 0 => entry # Garbage
        /\ Garbage \notin handed

\* MemTraceReader.h:131 says there is "no need to re-read if entire trace fits
\* in buffer": a buffer with room for the trace serves it on every pass.
FittingTraceIsServed ==
    (n_unique_entries <= buffer_size_entries /\ served > 0) => entry # Garbage

\* MemTraceReader.h:2 says the trace is read cyclically and reset() speaks of
\* "doing a full pass" (:160): a pass ends with the last entry of the file.
PassEndsWithLastEntry ==
    (buffer_size_entries <= n_unique_entries /\ is_end_of_pass)
        => entry = n_unique_entries - 1
=============================================================================
