-------------------------------- MODULE SNStats --------------------------------
(***************************************************************************)
(* Single-node write statistics (snstats/SNStats.cpp): one pass over a     *)
(* trace through a MemTraceReader, which counts the writes of every line   *)
(* and of every page, and reports the most written of each.                *)
(***************************************************************************)
EXTENDS Integers, FiniteSets, FiniteSetsExt

CONSTANTS
    TraceLengths, BufferLengths, MaxRequests,   \* those of MemTraceReader
    EntryChoices,
    LinesPerPage

VARIABLES
    n_unique_entries, buffer_size_entries, stream, buffer_curr_entry,
    full_trace_entry_ctr, n_full_passes, n_requests, entry, queried, served,
    handed,                 \* those of MemTraceReader
    trace,                  \* what the file holds
    line_write_counts,      \* a map from the lines written to their writes:
                            \* a function, defined on its keys
    page_write_counts,      \* the same of pages
    most_written,           \* the largest of each, once it was looked for
    status

mtr == INSTANCE MemTraceReader

reader == <<n_unique_entries, buffer_size_entries, stream, buffer_curr_entry,
            full_trace_entry_ctr, n_full_passes, n_requests, entry, queried,
            served, handed>>

counters == <<line_write_counts, page_write_counts>>
vars == <<reader, trace, counters, most_written, status>>

page_addr(line) == line \div LinesPerPage

Init ==
    /\ mtr!Init
    /\ trace \in [0..n_unique_entries - 1 -> EntryChoices]
    /\ line_write_counts = <<>>
    /\ page_write_counts = <<>>
    /\ most_written = [line |-> 0, page |-> 0]
    /\ status = "running"

CountOf(counts, k) == IF k \in DOMAIN counts THEN counts[k] ELSE 0

\* operator[] inserts a key it does not find with a count of zero.
CountWrite(counts, k) ==
    [x \in DOMAIN counts \union {k} |->
        IF x = k THEN CountOf(counts, k) + 1 ELSE counts[x]]

ReadEntry ==
    /\ status = "running"
    /\ ~mtr!is_end_of_pass
    /\ mtr!NextEntry
    /\ LET e == trace[entry']
       IN IF e.is_write
          THEN /\ line_write_counts' = CountWrite(line_write_counts, e.line_addr)
               /\ page_write_counts' = CountWrite(page_write_counts, page_addr(e.line_addr))
          ELSE UNCHANGED counters
    /\ UNCHANGED <<trace, most_written, status>>

\* Faulty variant: the largest key is looked for, not the largest count.
CountOfLargestKey(counts) == counts[Max(DOMAIN counts)]

LargestCount(counts) == Max({counts[k] : k \in DOMAIN counts})

AggregateStats ==
    /\ status = "running"
    /\ mtr!is_end_of_pass
    /\ DOMAIN line_write_counts # {}
    /\ most_written' = [line |-> LargestCount(line_write_counts),
                        page |-> LargestCount(page_write_counts)]
    /\ status' = "reported"
    /\ UNCHANGED <<reader, trace, counters>>

\* Of an empty map max_element returns end(), which is dereferenced.
AggregateNothing ==
    /\ status = "running"
    /\ mtr!is_end_of_pass
    /\ DOMAIN line_write_counts = {}
    /\ status' = "crashed"
    /\ UNCHANGED <<reader, trace, counters, most_written>>

Next == ReadEntry \/ AggregateStats \/ AggregateNothing

Spec == Init /\ [][Next]_vars

-----------------------------------------------------------------------------
(* Properties                                                              *)

WritesOf(S) == {i \in 0..n_requests - 1 : trace[i].is_write /\ trace[i].line_addr \in S}
Lines == {trace[i].line_addr : i \in DOMAIN trace}
PageLines(p) == {l \in Lines : page_addr(l) = p}

\* The counts are those of the writes read so far, with no entry for what was
\* not written, and the report names counts no other line or page exceeds.
WritesTally ==
    /\ DOMAIN line_write_counts = {l \in Lines : WritesOf({l}) # {}}
    /\ DOMAIN page_write_counts = {page_addr(l) : l \in DOMAIN line_write_counts}
    /\ \A l \in Lines :
        CountOf(line_write_counts, l) = Cardinality(WritesOf({l}))
    /\ \A l \in Lines :
        CountOf(page_write_counts, page_addr(l)) =
            Cardinality(WritesOf(PageLines(page_addr(l))))
    /\ status = "reported" =>
        /\ \E l \in Lines : Cardinality(WritesOf({l})) = most_written.line
        /\ \A l \in Lines :
            /\ Cardinality(WritesOf({l})) <= most_written.line
            /\ Cardinality(WritesOf(PageLines(page_addr(l)))) <= most_written.page
        /\ \E l \in Lines :
            Cardinality(WritesOf(PageLines(page_addr(l)))) = most_written.page
=============================================================================
