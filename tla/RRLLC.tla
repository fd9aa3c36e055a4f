-------------------------------- MODULE RRLLC --------------------------------
(***************************************************************************)
(* The last-level cache with its recently-read cache of pages              *)
(* (rrllc/RRLLC.cpp).                                                      *)
(*                                                                         *)
(* Two passes over the trace: the first warms both caches up, the second   *)
(* is counted.  Each entry accesses the LLC; a load also records the       *)
(* line's page in the RRC, and an eviction from the LLC looks the evicted  *)
(* line's page up in the RRC.                                              *)
(*                                                                         *)
(* A pass reads the trace exactly once from its beginning, which is what   *)
(* FirstPassExact of MemTraceReader establishes for a pass after reset().  *)
(***************************************************************************)
EXTENDS CacheSet, FiniteSets

CONSTANTS
    Lines,          \* line addresses, of the trace and 0x0
    ZeroLine,       \* line address 0x0
    Traces,         \* sequences of [line |-> ..., type |-> "LD" or "ST"]
    PageOf,         \* line -> page: line_addr_to_page_addr
    NLlcSets, NLlcWays, LlcSetOf,
    NRrcSets, NRrcWays, RrcSetOf

Pages == {PageOf[line] : line \in Lines}

ASSUME GeometryAssumption ==
    /\ ZeroLine \in Lines
    /\ DOMAIN PageOf = Lines
    /\ {NLlcSets, NLlcWays, NRrcSets, NRrcWays} \subseteq Nat \ {0}
    /\ LlcSetOf \in [Lines -> 0..NLlcSets - 1]
    /\ RrcSetOf \in [Pages -> 0..NRrcSets - 1]
    /\ \A t \in Traces : t \in Seq([line : Lines, type : MemRefTypes])

VARIABLES
    trace, llc_conf, rrc_conf,  \* fixed by the command line
    pass,                       \* "warm_up", "counted", then "done"
    pos,                        \* entries read in this pass
    llc, rrc,
    llc_result,                 \* what the last access to the LLC returned
    llc_evicted,                \* and its evicted_line_addr
    last_use, clock,            \* history: when each line last accessed the LLC
    totals                      \* aggregate_stats()

confs == <<trace, llc_conf, rrc_conf>>
caches == <<llc, rrc, llc_result, llc_evicted, last_use, clock>>
vars == <<confs, pass, pos, caches, totals>>

ZeroTotals == [llc_n_hits |-> 0, llc_n_accesses |-> 0, llc_n_evictions |-> 0,
               rrc_n_hits |-> 0, rrc_n_accesses |-> 0, rrc_n_evictions |-> 0]

Init ==
    /\ trace \in Traces
    /\ llc_conf \in [n_ways : {NLlcWays}, set_of : {LlcSetOf},
                     allocation_policy : AllocationPolicies,
                     eviction_policy : EvictionPolicies]
    /\ rrc_conf \in [n_ways : {NRrcWays}, set_of : {RrcSetOf},
                     allocation_policy : {"AORW"},
                     eviction_policy : EvictionPolicies]
    /\ pass = "warm_up"
    /\ pos = 0
    /\ llc = NewCache(NLlcSets)
    /\ rrc = NewCache(NRrcSets)
    /\ llc_result = ACCESS_RESULT_MISS
    /\ llc_evicted = ZeroLine
    /\ last_use = [line \in Lines |-> 0]
    /\ clock = 0
    /\ totals = ZeroTotals

RrcAccess(cache, page, type) ==
    {o.cache : o \in CacheAccess(cache, rrc_conf, page, type, PageOf[ZeroLine])}

\* A load adds its page to the RRC, as a store to it.
AfterLoad(cache, ref) ==
    IF ref.type = "LD" THEN RrcAccess(cache, PageOf[ref.line], "ST") ELSE {cache}

\* Faulty variant: the page of the line accessed is looked up.
LooksUpAccessed(cache, ref, o) ==
    IF o.result.eviction THEN RrcAccess(cache, PageOf[ref.line], "LD") ELSE {cache}

\* The eviction bit of the result decides whether the RRC is looked up.
AfterEviction(cache, ref, o) ==
    IF o.result.eviction THEN RrcAccess(cache, PageOf[o.evicted], "LD") ELSE {cache}

\* One iteration of the loop of run_pass().
Access ==
    /\ pass \in {"warm_up", "counted"}
    /\ pos < Len(trace)
    /\ LET ref == trace[pos + 1]
       IN /\ \E o \in CacheAccess(llc, llc_conf, ref.line, ref.type, ZeroLine) :
                /\ llc' = o.cache
                /\ llc_result' = o.result
                /\ llc_evicted' = o.evicted
                /\ \E loaded \in AfterLoad(rrc, ref) :
                        rrc' \in AfterEviction(loaded, ref, o)
          /\ last_use' = [last_use EXCEPT ![ref.line] = clock + 1]
    /\ clock' = clock + 1
    /\ pos' = pos + 1
    /\ UNCHANGED <<confs, pass, totals>>

\* The end of the first pass: clear_stats() on both caches, and mtr.reset().
EndWarmUp ==
    /\ pass = "warm_up"
    /\ pos = Len(trace)
    /\ pass' = "counted"
    /\ pos' = 0
    /\ llc' = ClearStats(llc)
    /\ rrc' = ClearStats(rrc)
    /\ UNCHANGED <<confs, llc_result, llc_evicted, last_use, clock, totals>>

\* aggregate_stats(), after the second pass.
Aggregate ==
    /\ pass = "counted"
    /\ pos = Len(trace)
    /\ pass' = "done"
    /\ LET llc_stats == SumStats(llc)
           rrc_stats == SumStats(rrc)
       IN totals' = [llc_n_hits |-> Hits(llc_stats),
                     llc_n_accesses |-> Accesses(llc_stats),
                     llc_n_evictions |-> Evicted(llc_stats),
                     rrc_n_hits |-> Hits(rrc_stats),
                     rrc_n_accesses |-> Accesses(rrc_stats),
                     rrc_n_evictions |-> Evicted(rrc_stats)]
    /\ UNCHANGED <<confs, pos, caches>>

Next == Access \/ EndWarmUp \/ Aggregate

Spec == Init /\ [][Next]_vars

-----------------------------------------------------------------------------
(* Properties                                                              *)

StatsType == [n_rd_hits : Nat, n_wr_hits : Nat, n_rd_misses : Nat,
              n_wr_misses : Nat, n_evictions : Nat]

CacheType(addresses, n_sets, n_ways) ==
    [0..n_sets - 1 -> [lines : Seq(addresses), index : SUBSET addresses,
                       n_ways_active : 0..n_ways, stats : StatsType]]

\* A set never has more than n_ways active lines, and evicted_line_addr is
\* always a line address.
TypeOK ==
    /\ trace \in Traces
    /\ pass \in {"warm_up", "counted", "done"}
    /\ pos \in 0..Len(trace)
    /\ llc \in CacheType(Lines, NLlcSets, NLlcWays)
    /\ rrc \in CacheType(Pages, NRrcSets, NRrcWays)
    /\ llc_result \in [hit : BOOLEAN, eviction : BOOLEAN]
    /\ llc_evicted \in Lines
    /\ last_use \in [Lines -> Nat]
    /\ clock \in Nat
    /\ totals \in [DOMAIN ZeroTotals -> Nat]

\* The two copies of a set's contents agree: the index finds exactly the lines
\* in the sequence, each is there once, n_ways_active counts them, and all are
\* lines that belong to the set; a set that has evicted is full.
Coherent(cache, conf) ==
    \A i \in DOMAIN cache :
        LET s == cache[i]
        IN /\ IsInjective(s.lines)
           /\ s.index = ToSet(s.lines)
           /\ s.n_ways_active = Len(s.lines)
           /\ \A line \in s.index : conf.set_of[line] = i
           /\ s.stats.n_evictions > 0 => s.n_ways_active = conf.n_ways

SetsCoherent == Coherent(llc, llc_conf) /\ Coherent(rrc, rrc_conf)

Loads(n) == Cardinality({i \in 1..n : trace[i].type = "LD"})

\* The counters the tool reports tally with the part of the pass read so far:
\* one LLC access per entry, one RRC store per load, and, when the LLC
\* allocates on reads, one RRC lookup per line the LLC evicted.  At the end
\* they cover the second pass and nothing of the first.
StatsTally ==
    /\ Accesses(SumStats(llc)) = pos
    /\ RdAccesses(SumStats(llc)) = Loads(pos)
    /\ Accesses(SumStats(rrc)) - RdAccesses(SumStats(rrc)) = Loads(pos)
    /\ llc_conf.allocation_policy = "AORW" =>
            RdAccesses(SumStats(rrc)) = Evicted(SumStats(llc))
    /\ pass = "done" =>
            /\ totals.llc_n_accesses = Len(trace)
            /\ totals.llc_n_hits <= totals.llc_n_accesses
            /\ totals.llc_n_evictions <= totals.llc_n_accesses

\* The LLC, with its lists, maps and vectors, behaves as a cache should: in
\* particular the victim under LRU is the line whose last access is oldest.
LLC == INSTANCE AbstractCache WITH
            conf <- llc_conf,
            contents <- [i \in DOMAIN llc |-> llc[i].index]

LlcImplementsCache == LLC!Spec

\* An eviction leaves the evicted line's page, and not another one, looked up
\* in the RRC: the RRC, which allocates on reads, holds it afterwards.
EvictedPageIsLookedUp ==
    (llc_result = ACCESS_RESULT_MISS_EVICTION) =>
        \E i \in DOMAIN rrc : PageOf[llc_evicted] \in rrc[i].index

\* RRLLC.cpp:249 says of the lookup in the RRC "did the LLC evict? if so, check
\* if the page corresponding to the just-evicted line was in the RRC": there is
\* one lookup per line evicted, whatever the allocation policy of the LLC.
LookupsAreEvictions == RdAccesses(SumStats(rrc)) = Evicted(SumStats(llc))
=============================================================================
