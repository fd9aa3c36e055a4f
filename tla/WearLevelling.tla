---------------------------- MODULE WearLevelling ----------------------------
(***************************************************************************)
(* What both queue simulators promise, whatever lists, iterators and       *)
(* memoised indices they keep: units of memory climb a ladder of NLevels   *)
(* levels one at a time, and a unit that climbs hands its data to a unit   *)
(* of the lowest level still occupied, in exchange for what that one       *)
(* holds, unless it has nobody below it.  Nothing else moves data.         *)
(***************************************************************************)
EXTENDS Integers

CONSTANTS
    Units,      \* frames, or nodes
    Data,       \* pages, or jobs
    NLevels

VARIABLES
    level,      \* unit -> its level; NLevels when it is worn out
    place       \* data -> the unit it is in

vars == <<level, place>>

Init ==
    /\ level = [u \in Units |-> 0]
    /\ place \in [Data -> Units]
    /\ \A d, e \in Data : place[d] = place[e] => d = e

\* The lowest occupied level once u is at level l; u has retired if l = NLevels.
IsLowest(low, u, l) ==
    LET occupied == {level[v] : v \in Units \ {u}} \union {l}
    IN low \in occupied /\ \A m \in occupied : low <= m

Exchange(u, v) ==
    [d \in Data |-> IF place[d] = u THEN v
                    ELSE IF place[d] = v THEN u
                    ELSE place[d]]

\* u is worn out and keeps what it holds.
Retires(u) == level[u] = NLevels - 1 /\ UNCHANGED place

\* Nobody is left below u.
ClimbsAlone(u) ==
    /\ level[u] < NLevels - 1
    /\ IsLowest(level[u] + 1, u, level[u] + 1)
    /\ UNCHANGED place

ClimbsAndExchanges(u, v) ==
    /\ level[u] < NLevels - 1
    /\ u # v
    /\ level[v] < level[u] + 1
    /\ IsLowest(level[v], u, level[u] + 1)
    /\ place' = Exchange(u, v)

Climb(u) ==
    /\ level[u] < NLevels
    /\ level' = [level EXCEPT ![u] = @ + 1]
    /\ \/ Retires(u)
       \/ ClimbsAlone(u)
       \/ \E v \in Units : ClimbsAndExchanges(u, v)

Next == \E u \in Units : Climb(u)

Spec == Init /\ [][Next]_vars
=============================================================================
