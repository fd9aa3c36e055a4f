------------------------------ MODULE MCSNQueues ------------------------------
(***************************************************************************)
(* Small instances of SNQueues for TLC.                                    *)
(***************************************************************************)
EXTENDS SNQueues, TLC

CONSTANTS p1, p2, p3

\* A hot page, an average page, and one whose writes flip no bit.
PerPageWfs == p1 :> 4 @@ p3 :> 0

\* -i 2, and the default, which stands for 2^64 - 1: it is more than the
\* passes any of the instances needs to wear its memory out.
IterationChoices == {2, 40}
=============================================================================
