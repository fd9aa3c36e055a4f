------------------------------ MODULE MCMNQueues ------------------------------
(***************************************************************************)
(* A small instance of MNQueues for TLC.                                   *)
(***************************************************************************)
EXTENDS MNQueues

\* A job whose writes round down to none in a quantum, a slow one with much
\* memory, one in between, and one that passes an interval in a single turn.
MCJobs == {
    [write_bits |-> 3, rss_bytes |-> 2, write_factor |-> 1],
    [write_bits |-> 4, rss_bytes |-> 12, write_factor |-> 2],
    [write_bits |-> 5, rss_bytes |-> 3, write_factor |-> 4],
    [write_bits |-> 13, rss_bytes |-> 1, write_factor |-> 4]}

\* -i 0, a few epochs, and the default of 2^64 - 1 epochs: more than this
\* instance needs to wear a node out.
MCIterations == {0, 3, 300}
=============================================================================
