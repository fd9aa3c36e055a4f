------------------------------- MODULE MCStats -------------------------------
(***************************************************************************)
(* The two statistics tools run over the same trace, MNStats first.  They  *)
(* are processes of their own: each has its own reader, and may have been  *)
(* given a buffer of another size.                                         *)
(***************************************************************************)
EXTENDS MNStats

VARIABLES
    sn_buffer_size_entries, sn_stream, sn_buffer_curr_entry,
    sn_full_trace_entry_ctr, sn_n_full_passes, sn_n_requests, sn_entry,
    sn_queried, sn_served, sn_handed,
    line_write_counts, page_write_counts, most_written, sn_status

SN == INSTANCE SNStats
    WITH buffer_size_entries <- sn_buffer_size_entries,
         stream <- sn_stream,
         buffer_curr_entry <- sn_buffer_curr_entry,
         full_trace_entry_ctr <- sn_full_trace_entry_ctr,
         n_full_passes <- sn_n_full_passes,
         n_requests <- sn_n_requests,
         entry <- sn_entry,
         queried <- sn_queried,
         served <- sn_served,
         handed <- sn_handed,
         status <- sn_status

InitBoth == Init /\ SN!Init

sn_vars == <<sn_buffer_size_entries, sn_stream, sn_buffer_curr_entry,
             sn_full_trace_entry_ctr, sn_n_full_passes, sn_n_requests, sn_entry,
             sn_queried, sn_served, sn_handed,
             line_write_counts, page_write_counts, most_written, sn_status>>

mn_vars == <<buffer_size_entries, stream, buffer_curr_entry,
             full_trace_entry_ctr, n_full_passes, n_requests, entry, queried,
             served, handed, allocation_mode, n_nodes, counters, stats, status>>

NextBoth ==
    \/ Next /\ UNCHANGED sn_vars
    \/ status # "running" /\ SN!Next /\ UNCHANGED mn_vars

SpecBoth == InitBoth /\ [][NextBoth]_<<vars, sn_vars>>

\* The single-node tool counts what the trace writes: see SNStats.
WritesTally == SN!WritesTally

\* What the two tools report of one trace fits together: they see the same
\* number of writes; the single-node tool finds nothing to report exactly when
\* the multi-node one saw no write; and as a line is on one page and a page on
\* one node, the most written line, page and node are worn in this order.
ToolsAgree ==
    status = "reported" =>
        /\ sn_status = "reported" =>
            /\ all_writes = SumFunction(page_write_counts)
            /\ most_written.line <= most_written.page
            /\ most_written.page <= stats.max_node_writes
            /\ stats.max_node_writes <= all_writes
        /\ sn_status = "crashed" => all_writes = 0
        /\ all_reads + all_writes = n_unique_entries

\* Two nodes; two lines of a page and one each of two more.  Node 2 is out of
\* range for -n 2.
MCEntries == {
    [node_num |-> 0, is_write |-> TRUE, line_addr |-> 0],
    [node_num |-> 1, is_write |-> TRUE, line_addr |-> 1],
    [node_num |-> 1, is_write |-> FALSE, line_addr |-> 0],
    [node_num |-> 1, is_write |-> TRUE, line_addr |-> 2],
    [node_num |-> 0, is_write |-> FALSE, line_addr |-> 4],
    [node_num |-> 2, is_write |-> TRUE, line_addr |-> 4]}
=============================================================================
