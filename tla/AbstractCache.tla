----------------------------- MODULE AbstractCache -----------------------------
(***************************************************************************)
(* What a set-associative cache promises: each set holds at most n_ways of *)
(* the lines hashed to it, a miss that allocates brings the line in, and a *)
(* full set makes room by dropping its least recently used line (or, under *)
(* the RANDOM policy, any line).  How a set orders its lines is not said.  *)
(***************************************************************************)
EXTENDS Integers, FiniteSets

CONSTANTS Lines

VARIABLES
    conf,      \* geometry and policies, fixed
    contents,  \* set -> the lines it holds
    last_use,  \* line -> the time of its last access, 0 if none
    clock      \* the number of accesses so far

vars == <<conf, contents, last_use, clock>>

Init ==
    /\ \A i \in DOMAIN contents : contents[i] = {}
    /\ last_use = [line \in Lines |-> 0]
    /\ clock = 0

SetOf(line) == conf.set_of[line]
Resident(line) == line \in contents[SetOf(line)]
HasRoom(i) == Cardinality(contents[i]) < conf.n_ways

Tick(line) ==
    /\ clock' = clock + 1
    /\ last_use' = [last_use EXCEPT ![line] = clock + 1]
    /\ UNCHANGED conf

Hit(line) == Resident(line) /\ Tick(line) /\ UNCHANGED contents

Bypass(line) ==
    /\ ~Resident(line)
    /\ conf.allocation_policy = "AOWO"
    /\ Tick(line)
    /\ UNCHANGED contents

Fill(line) ==
    /\ ~Resident(line)
    /\ HasRoom(SetOf(line))
    /\ Tick(line)
    /\ contents' = [contents EXCEPT ![SetOf(line)] = @ \union {line}]

LeastRecent(victim, i) == \A other \in contents[i] : last_use[victim] <= last_use[other]

Replace(line, victim) ==
    /\ ~Resident(line)
    /\ ~HasRoom(SetOf(line))
    /\ victim \in contents[SetOf(line)]
    /\ conf.eviction_policy = "LRU" => LeastRecent(victim, SetOf(line))
    /\ Tick(line)
    /\ contents' = [contents EXCEPT ![SetOf(line)] = (@ \ {victim}) \union {line}]

Next == \E line \in Lines :
    \/ Hit(line)
    \/ Bypass(line)
    \/ Fill(line)
    \/ \E victim \in Lines : Replace(line, victim)

Spec == Init /\ [][Next]_vars
=============================================================================
