-------------------------------- MODULE MCRRLLC --------------------------------
(***************************************************************************)
(* A small instance of RRLLC: an LLC of two banks, each a set of two ways, *)
(* and an RRC of one set.  Two lines make a page.                          *)
(***************************************************************************)
EXTENDS RRLLC, CacheHash

CONSTANT TraceLength

\* 65537 hashes to bank 0, with 0 and 2; its page is no other line's.
MCLines == {0, 1, 2, 65537}
LinesPerPage == 2
MCPageOf == [line \in MCLines |-> line \div LinesPerPage]
MCTraces == [1..TraceLength -> [line : MCLines, type : MemRefTypes]]

LlcNLines == 4
LlcNBanks == 2
MCLlcSetOf == [line \in MCLines |-> SetGid(line, LlcNLines, LlcNBanks, NLlcWays)]

RrcNLines == 2
RrcNBanks == 1
MCRrcSetOf ==
    [page \in {MCPageOf[line] : line \in MCLines} |->
        SetGid(page, RrcNLines, RrcNBanks, NRrcWays)]
=============================================================================
