------------------------------- MODULE CacheSet -------------------------------
(***************************************************************************)
(* One set of a set-associative cache, and the cache made of such sets     *)
(* (rrllc/Cache/Set.cpp, rrllc/Cache.cpp), as operators from a cache and   *)
(* an access to the possible caches after it.                              *)
(*                                                                         *)
(* A set keeps its lines twice: in a sequence (lru_list, least recently    *)
(* used first, or rand_vec) and in an index by address (the keys of        *)
(* lru_map, or rand_set).                                                  *)
(***************************************************************************)
EXTENDS Integers, Sequences, SequencesExt

AllocationPolicies == {"AORW", "AOWO"}  \* allocate on read and write, on write only
EvictionPolicies == {"LRU", "RANDOM"}
MemRefTypes == {"LD", "ST"}

\* The bitmask an access returns, as its two bits.
ACCESS_RESULT_HIT == [hit |-> TRUE, eviction |-> FALSE]
ACCESS_RESULT_MISS == [hit |-> FALSE, eviction |-> FALSE]
ACCESS_RESULT_MISS_EVICTION == [hit |-> FALSE, eviction |-> TRUE]
ACCESS_RESULT_INVALID == [hit |-> TRUE, eviction |-> TRUE]

ZeroStats == [n_rd_hits |-> 0, n_wr_hits |-> 0, n_rd_misses |-> 0,
              n_wr_misses |-> 0, n_evictions |-> 0]

NewSet == [lines |-> <<>>, index |-> {}, n_ways_active |-> 0, stats |-> ZeroStats]

DoAllocate(type, allocation_policy) ==
    type = "ST" \/ (type = "LD" /\ allocation_policy = "AORW")

CountHit(stats, type) ==
    IF type = "LD" THEN [stats EXCEPT !.n_rd_hits = @ + 1]
                   ELSE [stats EXCEPT !.n_wr_hits = @ + 1]

CountMiss(stats, type) ==
    IF type = "LD" THEN [stats EXCEPT !.n_rd_misses = @ + 1]
                   ELSE [stats EXCEPT !.n_wr_misses = @ + 1]

CountEviction(stats) == [stats EXCEPT !.n_evictions = @ + 1]

LineIndex(s, line) == CHOOSE i \in 1..Len(s) : s[i] = line

\* Faulty variant: a hit does not renew the line's age.
NotTouched(lines, line) == lines

\* A hit under LRU moves the line to the recently used end of lru_list.
Touch(lines, line) == Append(RemoveAt(lines, LineIndex(lines, line)), line)

\* Faulty variant: the victim's entry stays in the index.
ReplaceLineOnly(s, lines, victim, line) ==
    [s EXCEPT !.lines = lines, !.index = @ \union {line}]

\* The victim is replaced in the sequence and in the index.
ReplaceLine(s, lines, victim, line) ==
    [s EXCEPT !.lines = lines, !.index = (@ \ {victim}) \union {line}]

\* The set after a hit, a miss, the choice to evict, and a line's addition.
Found(s, line, type, eviction_policy) ==
    [s EXCEPT !.stats = CountHit(@, type),
              !.lines = IF eviction_policy = "LRU" THEN Touch(@, line) ELSE @]

Missed(s, type) == [s EXCEPT !.stats = CountMiss(@, type)]

Evicting(s) == [s EXCEPT !.stats = CountEviction(@)]

AddLine(s, line) ==
    [s EXCEPT !.lines = Append(@, line), !.index = @ \union {line},
              !.n_ways_active = @ + 1]

Outcome(s, result, evicted) == [set |-> s, result |-> result, evicted |-> evicted]

\* The outcomes of evicting for a line: LRU takes the front of lru_list, RANDOM
\* overwrites any slot of rand_vec.  The policy is fixed when a set is built.
Evictions(s, line, eviction_policy) ==
    IF eviction_policy = "LRU"
    THEN {Outcome(ReplaceLine(s, Append(Tail(s.lines), line), Head(s.lines), line),
                  ACCESS_RESULT_MISS_EVICTION, Head(s.lines))}
    ELSE {Outcome(ReplaceLine(s, [s.lines EXCEPT ![i] = line], s.lines[i], line),
                  ACCESS_RESULT_MISS_EVICTION, s.lines[i]) : i \in 1..Len(s.lines)}

\* Faulty variant: a full set is noticed one line too late.
IsOverfull(s, n_ways) == s.n_ways_active = n_ways + 1

IsFull(s, n_ways) == s.n_ways_active = n_ways

\* Set::access, with what it returns and evicted_line_addr, which is the address
\* zero unless a line is evicted.  A miss that allocates nothing falls through
\* both branches to the return of ACCESS_RESULT_INVALID.
SetAccess(s, line, type, n_ways, allocation_policy, eviction_policy, zero) ==
    CASE line \in s.index ->
            {Outcome(Found(s, line, type, eviction_policy), ACCESS_RESULT_HIT, zero)}
      [] line \notin s.index /\ ~DoAllocate(type, allocation_policy) ->
            {Outcome(Missed(s, type), ACCESS_RESULT_INVALID, zero)}
      [] line \notin s.index /\ DoAllocate(type, allocation_policy)
                             /\ IsFull(s, n_ways) ->
            Evictions(Evicting(Missed(s, type)), line, eviction_policy)
      [] OTHER ->
            {Outcome(AddLine(Missed(s, type), line), ACCESS_RESULT_MISS, zero)}

-----------------------------------------------------------------------------
(* A cache: its sets by global index, its geometry and policies.           *)

NewCache(n_sets) == [i \in 0..n_sets - 1 |-> NewSet]

\* Cache::access and Bank::access.  conf.set_of is the set a line is hashed to.
CacheAccess(cache, conf, line, type, zero) ==
    {[cache |-> [cache EXCEPT ![conf.set_of[line]] = o.set],
      result |-> o.result, evicted |-> o.evicted] :
        o \in SetAccess(cache[conf.set_of[line]], line, type, conf.n_ways,
                        conf.allocation_policy, conf.eviction_policy, zero)}

\* Faulty variant: nothing is cleared.
StatsKept(cache) == cache

\* clear_stats(): the lines stay.
ClearStats(cache) == [i \in DOMAIN cache |-> [cache[i] EXCEPT !.stats = ZeroStats]]

\* The counters of all sets added up, field by field.
SumStats(cache) ==
    [field \in DOMAIN ZeroStats |->
        SumFunction([i \in DOMAIN cache |-> cache[i].stats[field]])]

Hits(stats) == stats.n_rd_hits + stats.n_wr_hits
Misses(stats) == stats.n_rd_misses + stats.n_wr_misses
Accesses(stats) == Hits(stats) + Misses(stats)
Evicted(stats) == stats.n_evictions
RdAccesses(stats) == stats.n_rd_hits + stats.n_rd_misses
=============================================================================
