------------------------------ MODULE StatsProofs ------------------------------
(***************************************************************************)
(* Proofs about the statistics tools, for every trace, buffer, page size,  *)
(* number of nodes and allocation mode: first of MNStats, then of SNStats, *)
(* and then of both over one trace.                                        *)
(*                                                                         *)
(* What the reader hands out is known from the proofs about it: in the     *)
(* first pass, request i yields entry i.  Every count is then the size of  *)
(* a set of entries, which an access extends by one.                       *)
(***************************************************************************)
EXTENDS MCStats, SumLemmas

Reader == INSTANCE MemTraceReaderProofs

-----------------------------------------------------------------------------
(* Least, greatest, and one more.                                          *)

LEMMA LeastOfSet ==
    ASSUME NEW S \in SUBSET Nat, S # {}
    PROVE  Min(S) \in S /\ \A x \in S : Min(S) <= x
  BY LeastNatural DEF Min

LEMMA GreatestOfSet ==
    ASSUME NEW S \in SUBSET Nat, IsFiniteSet(S), S # {}
    PROVE  Max(S) \in S /\ \A x \in S : x <= Max(S)
  <1>1. \E n \in S : \A m \in S : n >= m
    BY GreatestNatural
  <1>2. QED BY <1>1 DEF Max

\* A larger element does not change the least one.
LEMMA LeastStays ==
    ASSUME NEW S \in SUBSET Nat, S # {}, NEW i \in Nat, \A x \in S : x < i
    PROVE  Min(S \union {i}) = Min(S)
  <1> DEFINE T == S \union {i}
             m == Min(S)
             n == Min(T)
  <1>1. m \in S /\ \A x \in S : m <= x
    BY LeastOfSet
  <1>2. n \in T /\ \A x \in T : n <= x
    BY LeastOfSet
  <1> HIDE DEF m, n
  <1>3. n = m
    BY <1>1, <1>2
  <1>4. QED BY <1>3 DEF m, n

LEMMA LeastOfOne ==
    ASSUME NEW i \in Nat
    PROVE  Min({} \union {i}) = i
  BY LeastOfSet

\* A new element counts for one, if it counts.
One(B) == IF B THEN 1 ELSE 0

LEMMA OneMore ==
    ASSUME NEW S, IsFiniteSet(S), NEW i, i \notin S, NEW T,
           NEW B \in BOOLEAN, T = IF B THEN S \union {i} ELSE S
    PROVE  Cardinality(T) = Cardinality(S) + One(B)
  BY FS_AddElement, FS_CardinalityType DEF One

\* A remainder is what is left of a multiple.
LEMMA Remainder ==
    ASSUME NEW n \in Nat \ {0}, NEW q \in Nat, NEW r \in 0..n - 1
    PROVE  (n * q + r) % n = r
  <1> DEFINE x == n * q + r
             a == x \div n
             b == x % n
  <1>1. x \in Nat
    OBVIOUS
  <1> HIDE DEF x
  <1>2. x = n * a + b /\ a \in Int /\ b \in 0..n - 1
    BY <1>1
  <1> HIDE DEF a, b
  <1>3. n * (q - a) = b - r
    BY <1>2 DEF x
  <1>4. q = a
    <2>1. CASE q - a >= 1
      <3>1. n * (q - a) >= n
        BY <1>2, <2>1
      <3>2. QED BY <1>2, <1>3, <3>1
    <2>2. CASE q - a <= -1
      <3>1. n * (q - a) <= -n
        BY <1>2, <2>2
      <3>2. QED BY <1>2, <1>3, <3>1
    <2>3. QED BY <1>2, <2>1, <2>2
  <1>5. QED BY <1>2, <1>3, <1>4 DEF b, x

\* The remainder counts round.
LEMMA RemainderOfNext ==
    ASSUME NEW t \in Nat, NEW n \in Nat \ {0}
    PROVE  (t + 1) % n = IF t % n = n - 1 THEN 0 ELSE (t % n) + 1
  <1> DEFINE q == t \div n
             r == t % n
  <1>1. t = n * q + r /\ q \in Nat /\ r \in 0..n - 1
    OBVIOUS
  <1> HIDE DEF q, r
  <1>2. CASE r = n - 1
    <2>1. t + 1 = n * (q + 1) + 0
      BY <1>1, <1>2
    <2>2. (n * (q + 1) + 0) % n = 0
      BY <1>1, Remainder
    <2>3. QED BY <1>2, <2>1, <2>2 DEF r
  <1>3. CASE r # n - 1
    <2>1. t + 1 = n * q + (r + 1) /\ r + 1 \in 0..n - 1
      BY <1>1, <1>3
    <2>2. (n * q + (r + 1)) % n = r + 1
      BY <1>1, <2>1, Remainder
    <2>3. QED BY <1>3, <2>1, <2>2 DEF r
  <1>4. QED BY <1>2, <1>3

-----------------------------------------------------------------------------
(* The reader.                                                             *)

LEMMA ReaderConstants == Reader!LengthsAssumption
  BY ReaderAssumption DEF Reader!LengthsAssumption

LEMMA SameReader ==
    /\ mtr!Init => Reader!Init
    /\ mtr!NextEntry => Reader!NextEntry
  BY DEF mtr!Init, Reader!Init, mtr!NextEntry, Reader!NextEntry,
         mtr!Refill, Reader!Refill, mtr!ReadBuffer, Reader!ReadBuffer,
         mtr!EntriesTillEndOfFile, Reader!EntriesTillEndOfFile,
         mtr!Read, Reader!Read, mtr!Seek, Reader!Seek, mtr!Slots, Reader!Slots,
         mtr!Garbage, Reader!Garbage, mtr!is_end_of_buffer,
         Reader!is_end_of_buffer, mtr!is_end_of_pass, Reader!is_end_of_pass

\* In a first pass the requests, the entries of the pass and those handed out
\* since the load are the same.
FirstPass ==
    /\ Reader!Inv
    /\ n_unique_entries \in Nat \ {0}
    /\ n_requests \in 0..n_unique_entries
    /\ served = n_requests
    /\ full_trace_entry_ctr = n_requests

LEMMA FirstPassBegins ==
    ASSUME mtr!Init
    PROVE  FirstPass /\ n_requests = 0
  <1>1. Reader!Inv
    BY SameReader, ReaderConstants, Reader!InitInv
  <1>2. QED BY <1>1, ReaderAssumption DEF mtr!Init, FirstPass

LEMMA FirstPassGoesOn ==
    ASSUME FirstPass, ~mtr!is_end_of_pass, mtr!NextEntry
    PROVE  /\ FirstPass'
           /\ n_requests' = n_requests + 1
           /\ entry' = n_requests
           /\ n_requests < n_unique_entries
           /\ n_unique_entries' = n_unique_entries
  <1>1. Reader!Inv /\ Reader!NextEntry
    BY SameReader DEF FirstPass
  <1>2. Reader!Inv'
    BY <1>1, ReaderConstants, Reader!NextEntryInv
  <1>3. /\ n_requests \in 0..n_unique_entries /\ n_unique_entries \in Nat \ {0}
        /\ n_requests # n_unique_entries
        /\ served = n_requests /\ full_trace_entry_ctr = n_requests
    BY DEF FirstPass, mtr!is_end_of_pass
  <1>4. /\ n_requests' = n_requests + 1 /\ served' = served + 1
        /\ full_trace_entry_ctr' = full_trace_entry_ctr + 1
        /\ n_unique_entries' = n_unique_entries
    BY DEF mtr!NextEntry
  <1>5. entry' = n_requests
    <2>1. Reader!FirstPassExact'
      BY <1>2 DEF Reader!Inv
    <2>2. served' \in 1..n_unique_entries'
      BY <1>3, <1>4
    <2>3. QED BY <1>3, <1>4, <2>1, <2>2 DEF Reader!FirstPassExact
  <1>6. QED BY <1>2, <1>3, <1>4, <1>5 DEF FirstPass

LEMMA FirstPassStays ==
    ASSUME FirstPass, UNCHANGED reader
    PROVE  FirstPass'
  <1>1. Reader!Inv /\ UNCHANGED Reader!vars
    BY DEF FirstPass, reader, Reader!vars, Reader!counters
  <1>2. Reader!Inv'
    BY <1>1, ReaderConstants, Reader!StutterInv
  <1>3. QED BY <1>2 DEF FirstPass, reader

-----------------------------------------------------------------------------
(* MNStats: the inductive invariant.                                       *)

Page(i) == page_addr(trace[i].line_addr)

\* Interleaved, the next node follows the last one that got a page, and the
\* nodes before it have one page more than the others.
RoundRobin ==
    allocation_mode = "interleave" =>
        /\ curr_interleave_node = Cardinality(Touched) % n_nodes
        /\ \E k \in Nat : \A n \in Nodes :
                node_rss_pages(n) = IF n < curr_interleave_node THEN k + 1 ELSE k

PlacedByPolicy ==
    \A p \in Touched :
        pages[p].placement =
            IF allocation_mode = "first_touch"
            THEN trace[FirstTouch(p)].node_num
            ELSE Cardinality({q \in Touched : FirstTouch(q) < FirstTouch(p)}) % n_nodes

AccessesOf(write) == {i \in Counted : trace[i].is_write = write}

\* The pages' counters add up to the accesses.
SumsTally ==
    /\ OverPages("on_node_reads") + OverPages("off_node_reads")
            = Cardinality(AccessesOf(FALSE))
    /\ OverPages("on_node_writes") + OverPages("off_node_writes")
            = Cardinality(AccessesOf(TRUE))

\* What is reported is what was counted in the pass.
Reported ==
    status = "reported" =>
        /\ n_requests = n_unique_entries
        /\ all_reads = Cardinality(AccessesOf(FALSE))
        /\ all_writes = Cardinality(AccessesOf(TRUE))
        /\ \E n \in Nodes : nodes[n].writes = stats.max_node_writes
        /\ \A n \in Nodes : nodes[n].writes <= stats.max_node_writes

Inv ==
    /\ FirstPass
    /\ trace \in [0..n_unique_entries - 1 -> EntryChoices]
    /\ status = "undefined" => n_requests > 0
    /\ TypeOK
    /\ DOMAIN pages = Touched
    /\ PlacedByPolicy
    /\ RoundRobin
    /\ AccessesTally
    /\ SumsTally
    /\ Reported

-----------------------------------------------------------------------------
(* What is known of the entries counted.                                   *)

Entry == [node_num : Nat, is_write : BOOLEAN, line_addr : Nat]

LEMMA PageIsNatural ==
    ASSUME NEW line \in Nat
    PROVE  page_addr(line) \in Nat
  BY EntriesAssumption DEF page_addr

LEMMA EntryTypes ==
    ASSUME trace \in [0..n_unique_entries - 1 -> EntryChoices]
    PROVE  /\ trace \in [0..n_unique_entries - 1 -> Entry]
           /\ \A i \in 0..n_unique_entries - 1 :
                /\ trace[i].node_num \in Nat
                /\ trace[i].is_write \in BOOLEAN
                /\ trace[i].line_addr \in Nat
                /\ Page(i) \in Nat
  <1>1. trace \in [0..n_unique_entries - 1 -> Entry]
    BY EntriesAssumption DEF Entry
  <1>2. QED BY <1>1, PageIsNatural DEF Entry, Page

LEMMA CountedFacts ==
    ASSUME FirstPass, status = "undefined" => n_requests > 0
    PROVE  /\ Counted \subseteq 0..n_unique_entries - 1
           /\ Counted \subseteq Nat
           /\ IsFiniteSet(Counted)
           /\ \A i \in Counted : i < n_requests
           /\ status # "undefined" => Counted = 0..n_requests - 1
  <1>1. n_requests \in 0..n_unique_entries /\ n_unique_entries \in Nat
    BY DEF FirstPass
  <1>2. Counted \subseteq 0..n_unique_entries - 1
    BY <1>1 DEF Counted
  <1>3. IsFiniteSet(0..n_unique_entries - 1)
    BY <1>1, FS_Interval
  <1>4. QED BY <1>1, <1>2, <1>3, FS_Subset DEF Counted

LEMMA TouchingFacts ==
    ASSUME Inv
    PROVE  /\ \A p : /\ Touching(p) \subseteq Counted
                     /\ IsFiniteSet(Touching(p))
                     /\ p \in Touched <=> Touching(p) # {}
           /\ \A p \in Touched : FirstTouch(p) \in Touching(p)
                              /\ FirstTouch(p) \in Counted
           /\ IsFiniteSet(Touched)
           /\ Touched \subseteq Nat
           /\ IsFiniteSet(DOMAIN pages)
  <1>1. /\ Counted \subseteq Nat /\ Counted \subseteq 0..n_unique_entries - 1
        /\ IsFiniteSet(Counted)
    BY CountedFacts DEF Inv
  <1>2. \A p : /\ Touching(p) \subseteq Counted
               /\ p \in Touched <=> Touching(p) # {}
    BY DEF Touching, Touched
  <1>3. \A p : IsFiniteSet(Touching(p))
    BY <1>1, <1>2, FS_Subset
  <1>4. ASSUME NEW p \in Touched PROVE FirstTouch(p) \in Touching(p)
    BY <1>1, <1>2, LeastOfSet DEF FirstTouch
  <1>5. IsFiniteSet(Touched)
    <2> DEFINE f == [i \in Counted |-> Page(i)]
    <2>1. Touched = {f[i] : i \in Counted}
      BY DEF Touched, Page
    <2>2. f \in [Counted -> Touched]
      BY DEF Touched, Page
    <2>3. f \in Surjection(Counted, Touched)
      BY <2>1, <2>2 DEF Surjection
    <2>4. QED BY <1>1, <2>3, FS_Surjection
  <1>6. Touched \subseteq Nat
    BY <1>1, EntryTypes DEF Inv, Touched, Page
  <1>7. QED BY <1>2, <1>3, <1>4, <1>5, <1>6 DEF Inv

-----------------------------------------------------------------------------
(* What an access changes.                                                 *)

\* The entry read and the page it touches.
LEMMA AccessReads ==
    ASSUME Inv, Access
    PROVE  LET i == n_requests
               e == trace[i]
               p == Page(i)
               page == PageOf(p, e.node_num)
               n == page.placement
           IN /\ FirstPass'
              /\ i \in Nat /\ i < n_unique_entries /\ i \notin Counted
              /\ n_requests' = i + 1 /\ n_unique_entries' = n_unique_entries
              /\ Counted' = Counted \union {i}
              /\ e \in Entry /\ e.node_num \in Nodes /\ p \in Nat
              /\ pages' = [q \in DOMAIN pages \union {p} |->
                            IF q = p THEN CountAccess(page, e) ELSE pages[q]]
              /\ nodes' = [nodes EXCEPT ![n] = CountOnNode(@, e)]
              /\ curr_interleave_node' =
                    IF p \in DOMAIN pages \/ allocation_mode = "first_touch"
                    THEN curr_interleave_node ELSE NextNode
              /\ status = "running"
              /\ UNCHANGED <<trace, allocation_mode, n_nodes, stats, status>>
  <1>1. /\ FirstPass' /\ n_requests' = n_requests + 1 /\ entry' = n_requests
        /\ n_requests < n_unique_entries /\ n_unique_entries' = n_unique_entries
    BY FirstPassGoesOn DEF Inv, Access
  <1>2. /\ n_requests \in Nat /\ n_unique_entries \in Nat
        /\ status = "running" /\ status' = status
    BY DEF Inv, FirstPass, Access
  <1>3. Counted = 0..n_requests - 1 /\ Counted' = 0..n_requests
    BY <1>1, <1>2 DEF Counted
  <1>4. Counted' = Counted \union {n_requests} /\ n_requests \notin Counted
    BY <1>2, <1>3
  <1>5. trace[n_requests] \in Entry /\ Page(n_requests) \in Nat
    BY <1>1, <1>2, EntryTypes DEF Inv
  <1>6. QED BY <1>1, <1>2, <1>4, <1>5 DEF Access, args, ServingNode, Page

\* The records that count.
PageType == [placement : Nodes, on_node_reads : Nat, off_node_reads : Nat,
             on_node_writes : Nat, off_node_writes : Nat]
NodeType == [reads : Nat, writes : Nat]

LEMMA CountedOnPage ==
    ASSUME NEW page \in PageType, NEW e \in Entry
    PROVE  LET c == CountAccess(page, e)
               on == page.placement = e.node_num
           IN /\ c \in PageType
              /\ c.placement = page.placement
              /\ c.on_node_reads = page.on_node_reads + One(~e.is_write /\ on)
              /\ c.off_node_reads = page.off_node_reads + One(~e.is_write /\ ~on)
              /\ c.on_node_writes = page.on_node_writes + One(e.is_write /\ on)
              /\ c.off_node_writes = page.off_node_writes + One(e.is_write /\ ~on)
  <1>1. e.is_write \in BOOLEAN
    BY DEF Entry
  <1>2. CASE ~e.is_write /\ page.placement = e.node_num
    BY <1>2 DEF CountAccess, PageType, One
  <1>3. CASE ~e.is_write /\ page.placement # e.node_num
    BY <1>3 DEF CountAccess, PageType, One
  <1>4. CASE e.is_write /\ page.placement = e.node_num
    BY <1>4 DEF CountAccess, PageType, One
  <1>5. CASE e.is_write /\ page.placement # e.node_num
    BY <1>5 DEF CountAccess, PageType, One
  <1>6. QED BY <1>1, <1>2, <1>3, <1>4, <1>5

LEMMA CountedOnNode ==
    ASSUME NEW node \in NodeType, NEW e \in Entry
    PROVE  LET c == CountOnNode(node, e)
           IN /\ c \in NodeType
              /\ c.reads = IF e.is_write THEN node.reads ELSE node.reads + 1
              /\ c.writes = IF e.is_write THEN node.writes + 1 ELSE node.writes
  BY DEF CountOnNode, NodeType

LEMMA PlacedPage ==
    ASSUME Inv, NEW p, NEW n \in Nodes
    PROVE  /\ PageOf(p, n) \in PageType
           /\ p \in DOMAIN pages => PageOf(p, n) = pages[p]
           /\ p \notin DOMAIN pages =>
                /\ PageOf(p, n) = NewPage(Placement(n))
                /\ PageOf(p, n).placement = Placement(n)
                /\ PageOf(p, n).on_node_reads = 0 /\ PageOf(p, n).off_node_reads = 0
                /\ PageOf(p, n).on_node_writes = 0 /\ PageOf(p, n).off_node_writes = 0
  <1>1. /\ \A q \in DOMAIN pages : pages[q] \in PageType
        /\ curr_interleave_node \in Nodes
    BY DEF Inv, TypeOK, PageType
  <1>2. Placement(n) \in Nodes
    BY <1>1 DEF Placement
  <1>3. QED BY <1>1, <1>2 DEF PageOf, NewPage, PageType

\* Only the page touched has been touched once more.
LEMMA TouchingFollows ==
    ASSUME Inv, Access
    PROVE  LET i == n_requests
               p == Page(i)
           IN /\ \A q : Touching(q)' = IF q = p THEN Touching(q) \union {i}
                                                ELSE Touching(q)
              /\ Touched' = Touched \union {p}
              /\ \A q \in Touched : FirstTouch(q)' = FirstTouch(q) /\ FirstTouch(q) < i
              /\ \A q : q = p /\ q \notin Touched => FirstTouch(q)' = i
  <1> DEFINE i == n_requests
             p == Page(i)
  <1>1. /\ i \in Nat /\ i \notin Counted /\ Counted' = Counted \union {i}
        /\ trace' = trace
    BY AccessReads
  <1>2. Counted \subseteq Nat /\ \A j \in Counted : j < i
    BY CountedFacts DEF Inv
  <1>3. ASSUME NEW q
        PROVE  Touching(q)' = IF q = p THEN Touching(q) \union {i} ELSE Touching(q)
    <2>1. Touching(q)' = {j \in Counted \union {i} : page_addr(trace[j].line_addr) = q}
      BY <1>1 DEF Touching
    <2>2. Touching(q) = {j \in Counted : page_addr(trace[j].line_addr) = q}
      BY DEF Touching
    <2>3. QED BY <2>1, <2>2 DEF Page
  <1>4. Touched' = Touched \union {p}
    <2>1. Touched' = {page_addr(trace[j].line_addr) : j \in Counted \union {i}}
      BY <1>1 DEF Touched
    <2>2. QED BY <2>1 DEF Touched, Page
  <1>5. ASSUME NEW q \in Touched
        PROVE  FirstTouch(q)' = FirstTouch(q) /\ FirstTouch(q) < i
    <2>1. Touching(q) # {} /\ Touching(q) \subseteq Counted /\ FirstTouch(q) \in Counted
      BY TouchingFacts
    <2>2. Touching(q) \in SUBSET Nat /\ \A x \in Touching(q) : x < i
      BY <1>2, <2>1
    <2>3. Min(Touching(q) \union {i}) = Min(Touching(q))
      BY <1>1, <2>1, <2>2, LeastStays
    <2>4. FirstTouch(q)' = Min(Touching(q)')
      BY DEF FirstTouch
    <2>5. QED BY <1>2, <1>3, <2>1, <2>3, <2>4 DEF FirstTouch
  <1>6. ASSUME NEW q, q = p, q \notin Touched PROVE FirstTouch(q)' = i
    <2>1. Touching(q) = {}
      BY <1>6, TouchingFacts
    <2>2. Touching(q)' = {} \union {i}
      BY <1>3, <1>6, <2>1
    <2>3. FirstTouch(q)' = Min(Touching(q)')
      BY DEF FirstTouch
    <2>4. Min({} \union {i}) = i
      BY <1>1, LeastOfOne
    <2>5. QED BY <2>2, <2>3, <2>4
  <1>7. QED BY <1>3, <1>4, <1>5, <1>6

\* A page is placed when it is first touched, and stays.
LEMMA PlacementFollows ==
    ASSUME Inv, Access
    PROVE  LET i == n_requests
               p == Page(i)
           IN /\ DOMAIN pages' = Touched'
              /\ \A q \in Touched : pages'[q].placement = pages[q].placement
              /\ p \notin Touched =>
                    pages'[p].placement = Placement(trace[i].node_num)
              /\ pages'[p].placement = PageOf(p, trace[i].node_num).placement
  <1> DEFINE i == n_requests
             e == trace[i]
             p == Page(i)
             page == PageOf(p, e.node_num)
  <1>1. /\ e \in Entry /\ e.node_num \in Nodes
        /\ pages' = [q \in DOMAIN pages \union {p} |->
                        IF q = p THEN CountAccess(page, e) ELSE pages[q]]
    BY AccessReads
  <1>2. DOMAIN pages = Touched /\ Touched' = Touched \union {p}
    BY TouchingFollows DEF Inv
  <1>3. page \in PageType /\ (p \in Touched => page = pages[p])
        /\ (p \notin Touched => page.placement = Placement(e.node_num))
    BY <1>1, <1>2, PlacedPage
  <1> HIDE DEF page, e, p
  <1>4. CountAccess(page, e).placement = page.placement
    BY <1>1, <1>3, CountedOnPage
  <1>5. QED BY <1>1, <1>2, <1>3, <1>4 DEF page, e, p

\* The pages touched before an older page are the same; before a new one, all.
LEMMA PolicyKept ==
    ASSUME Inv, Access
    PROVE  PlacedByPolicy'
  <1> DEFINE i == n_requests
             e == trace[i]
             Before(q) == {r \in Touched : FirstTouch(r) < FirstTouch(q)}
             Policy(q) == IF allocation_mode = "first_touch"
                          THEN trace[FirstTouch(q)].node_num
                          ELSE Cardinality(Before(q)) % n_nodes
  <1>1. /\ trace' = trace /\ n_nodes' = n_nodes /\ allocation_mode' = allocation_mode
        /\ i \in Nat
    BY AccessReads
  <1> DEFINE BeforeNext(q) == {r \in Touched' : FirstTouch(r)' < FirstTouch(q)'}
             PolicyNext(q) == IF allocation_mode = "first_touch"
                              THEN trace[FirstTouch(q)'].node_num
                              ELSE Cardinality(BeforeNext(q)) % n_nodes
  <1>2. PICK p : /\ p = Page(i) /\ Touched' = Touched \union {p}
                 /\ p \notin Touched => FirstTouch(p)' = i
    BY TouchingFollows
  <1>3. \A q \in Touched : /\ FirstTouch(q)' = FirstTouch(q) /\ FirstTouch(q) < i
                           /\ FirstTouch(q) \in Nat
    BY TouchingFollows, TouchingFacts, CountedFacts DEF Inv
  <1>4. \A q \in Touched : pages'[q].placement = pages[q].placement
    BY PlacementFollows
  <1>5. ASSUME NEW q \in Touched PROVE pages'[q].placement = PolicyNext(q)
    <2>1. BeforeNext(q) = Before(q)
      BY <1>1, <1>2, <1>3
    <2>2. pages[q].placement = Policy(q)
      BY DEF Inv, PlacedByPolicy
    <2> HIDE DEF Before, BeforeNext
    <2>3. QED BY <1>3, <1>4, <2>1, <2>2
  <1>6. ASSUME p \notin Touched PROVE pages'[p].placement = PolicyNext(p)
    <2>1. BeforeNext(p) = Touched
      BY <1>1, <1>2, <1>3, <1>6
    <2>2. pages'[p].placement = Placement(e.node_num)
      BY <1>2, <1>6, PlacementFollows
    <2>3. allocation_mode = "interleave" =>
            curr_interleave_node = Cardinality(Touched) % n_nodes
      BY DEF Inv, RoundRobin
    <2>4. allocation_mode \in {"first_touch", "interleave"}
      BY DEF Inv, TypeOK
    <2> HIDE DEF BeforeNext
    <2>5. QED BY <1>2, <1>6, <2>1, <2>2, <2>3, <2>4 DEF Placement
  <1> HIDE DEF PolicyNext
  <1>7. \A q \in Touched' : pages'[q].placement = PolicyNext(q)
    BY <1>2, <1>5, <1>6
  <1>8. QED BY <1>1, <1>7 DEF PlacedByPolicy, PolicyNext

\* The next page goes to the node whose turn it is.
LEMMA TurnsKept ==
    ASSUME Inv, Access
    PROVE  RoundRobin'
  <1> DEFINE i == n_requests
             p == Page(i)
             c == curr_interleave_node
             Rss(n) == {q \in DOMAIN pages : pages[q].placement = n}
             RssNext(n) == {q \in DOMAIN pages' : pages'[q].placement = n}
  <1>1. SUFFICES ASSUME allocation_mode = "interleave"
        PROVE  /\ curr_interleave_node' = Cardinality(Touched') % n_nodes
               /\ \E k \in Nat : \A n \in Nodes : Cardinality(RssNext(n)) =
                        IF n < curr_interleave_node' THEN k + 1 ELSE k
    BY AccessReads DEF RoundRobin, node_rss_pages, Nodes
  <1>2. /\ c = Cardinality(Touched) % n_nodes
        /\ n_nodes \in Nat \ {0} /\ c \in 0..n_nodes - 1
    BY <1>1, EntriesAssumption DEF Inv, RoundRobin, TypeOK, Nodes
  <1>3. PICK k \in Nat : \A n \in Nodes : Cardinality(Rss(n)) = IF n < c THEN k + 1 ELSE k
    BY <1>1 DEF Inv, RoundRobin, node_rss_pages
  <1>4. /\ DOMAIN pages = Touched /\ DOMAIN pages' = Touched'
        /\ Touched' = Touched \union {p} /\ IsFiniteSet(Touched)
        /\ \A q \in Touched : pages'[q].placement = pages[q].placement
        /\ p \notin Touched => pages'[p].placement = c
    BY <1>1, PlacementFollows, TouchingFollows, TouchingFacts DEF Inv, Placement
  <1>5. curr_interleave_node' = IF p \in Touched THEN c ELSE NextNode
    BY <1>1, <1>4, AccessReads
  <1>6. \A n \in Nodes : IsFiniteSet(Rss(n))
    BY <1>4, FS_Subset
  <1>7. CASE p \in Touched
    <2>1. Touched' = Touched /\ curr_interleave_node' = c
      BY <1>4, <1>5, <1>7
    <2>2. \A n \in Nodes : RssNext(n) = Rss(n)
      BY <1>4, <2>1
    <2> HIDE DEF Rss, RssNext
    <2>3. QED BY <1>2, <1>3, <2>1, <2>2
  <1>8. CASE p \notin Touched
    <2>1. Cardinality(Touched') = Cardinality(Touched) + 1
          /\ Cardinality(Touched) \in Nat
      BY <1>4, <1>8, FS_AddElement, FS_CardinalityType
    <2>2. curr_interleave_node' = Cardinality(Touched') % n_nodes
          /\ curr_interleave_node' = IF c = n_nodes - 1 THEN 0 ELSE c + 1
      <3>1. curr_interleave_node' = (c + 1) % n_nodes
        BY <1>5, <1>8 DEF NextNode
      <3> DEFINE t == Cardinality(Touched)
      <3> HIDE DEF t, c
      <3>2. t \in Nat /\ c = t % n_nodes
        BY <1>2, <2>1 DEF t
      <3>3. (t + 1) % n_nodes = IF c = n_nodes - 1 THEN 0 ELSE c + 1
        BY <1>2, <3>2, RemainderOfNext
      <3>4. (c + 1) % n_nodes = IF c = n_nodes - 1 THEN 0 ELSE c + 1
        BY <1>2
      <3>5. QED BY <2>1, <3>1, <3>3, <3>4 DEF t
    <2>3. /\ RssNext(c) = Rss(c) \union {p} /\ p \notin Rss(c)
          /\ \A n \in Nodes : n # c => RssNext(n) = Rss(n)
      BY <1>4, <1>8
    <2>4. c \in Nodes
      BY <1>2 DEF Nodes
    <2>5. Cardinality(RssNext(c)) = k + 1
      <3>1. Cardinality(Rss(c)) = k
        BY <1>2, <1>3, <2>4
      <3> HIDE DEF Rss, RssNext
      <3>2. QED BY <1>6, <2>3, <2>4, <3>1, FS_AddElement
    <2> HIDE DEF Rss, RssNext
    <2>6. \A n \in Nodes : Cardinality(RssNext(n)) = IF n <= c THEN k + 1 ELSE k
      BY <1>2, <1>3, <2>3, <2>4, <2>5 DEF Nodes
    <2>7. CASE c = n_nodes - 1
      <3>1. \A n \in Nodes : Cardinality(RssNext(n)) =
                IF n < curr_interleave_node' THEN (k + 1) + 1 ELSE k + 1
        BY <1>2, <2>2, <2>6, <2>7 DEF Nodes
      <3>2. QED BY <2>2, <3>1
    <2>8. CASE c # n_nodes - 1
      <3>1. \A n \in Nodes : Cardinality(RssNext(n)) =
                IF n < curr_interleave_node' THEN k + 1 ELSE k
        BY <1>2, <2>2, <2>6, <2>8 DEF Nodes
      <3>2. QED BY <2>2, <3>1
    <2>9. QED BY <2>7, <2>8
  <1>9. QED BY <1>7, <1>8

\* A page's counters and the entries that touch it.
From(S, home, write) ==
    {j \in S : trace[j].node_num = home /\ trace[j].is_write = write}
NotFrom(S, home, write) ==
    {j \in S : trace[j].node_num # home /\ trace[j].is_write = write}

PageTally(page, S) ==
    /\ page.on_node_reads = Cardinality(From(S, page.placement, FALSE))
    /\ page.on_node_writes = Cardinality(From(S, page.placement, TRUE))
    /\ page.off_node_reads = Cardinality(NotFrom(S, page.placement, FALSE))
    /\ page.off_node_writes = Cardinality(NotFrom(S, page.placement, TRUE))

PagesTally == \A p \in DOMAIN pages : PageTally(pages[p], Touching(p))

\* A node's counters and the entries it has served.
Served(n, write) ==
    {i \in Counted : pages[Page(i)].placement = n /\ trace[i].is_write = write}

NodesTally ==
    \A n \in Nodes : /\ nodes[n].reads = Cardinality(Served(n, FALSE))
                     /\ nodes[n].writes = Cardinality(Served(n, TRUE))

LEMMA TallyParts == AccessesTally <=> PagesTally /\ NodesTally
  <1>1. (\A p \in DOMAIN pages :
            LET page == pages[p]
                home == page.placement
                off(write) == Cardinality({i \in Touching(p) :
                    trace[i].node_num # home /\ trace[i].is_write = write})
            IN /\ page.on_node_reads = Count(Touching(p), home, FALSE)
               /\ page.on_node_writes = Count(Touching(p), home, TRUE)
               /\ page.off_node_reads = off(FALSE)
               /\ page.off_node_writes = off(TRUE)) <=> PagesTally
    BY DEF PagesTally, PageTally, Count, From, NotFrom
  <1>2. (\A n \in Nodes :
            LET served_here(write) == {i \in Counted :
                    /\ pages[page_addr(trace[i].line_addr)].placement = n
                    /\ trace[i].is_write = write}
            IN /\ nodes[n].reads = Cardinality(served_here(FALSE))
               /\ nodes[n].writes = Cardinality(served_here(TRUE))) <=> NodesTally
    BY DEF NodesTally, Served, Page
  <1>3. QED BY <1>1, <1>2 DEF AccessesTally

LEMMA PageTallyGrows ==
    ASSUME NEW page \in PageType, NEW S, IsFiniteSet(S), NEW i, i \notin S,
           trace[i] \in Entry, PageTally(page, S)
    PROVE  PageTally(CountAccess(page, trace[i]), S \union {i})
  <1> DEFINE e == trace[i]
             h == page.placement
             on == h = e.node_num
             c == CountAccess(page, e)
  <1>1. /\ c.placement = h
        /\ c.on_node_reads = page.on_node_reads + One(~e.is_write /\ on)
        /\ c.off_node_reads = page.off_node_reads + One(~e.is_write /\ ~on)
        /\ c.on_node_writes = page.on_node_writes + One(e.is_write /\ on)
        /\ c.off_node_writes = page.off_node_writes + One(e.is_write /\ ~on)
    BY CountedOnPage
  <1>2. e.is_write \in BOOLEAN
    BY DEF Entry
  <1>3. ASSUME NEW w \in BOOLEAN
        PROVE  /\ IsFiniteSet(From(S, h, w)) /\ i \notin From(S, h, w)
               /\ IsFiniteSet(NotFrom(S, h, w)) /\ i \notin NotFrom(S, h, w)
    BY FS_Subset DEF From, NotFrom
  <1>4. ASSUME NEW w \in BOOLEAN
        PROVE  /\ Cardinality(From(S \union {i}, h, w)) =
                    Cardinality(From(S, h, w)) + One((e.is_write = w) /\ on)
               /\ Cardinality(NotFrom(S \union {i}, h, w)) =
                    Cardinality(NotFrom(S, h, w)) + One((e.is_write = w) /\ ~on)
    <2> DEFINE A == From(S, h, w)
               B == NotFrom(S, h, w)
               here == (e.is_write = w) /\ on
               there == (e.is_write = w) /\ ~on
    <2>1. From(S \union {i}, h, w) = IF here THEN A \union {i} ELSE A
      BY DEF From
    <2>2. NotFrom(S \union {i}, h, w) = IF there THEN B \union {i} ELSE B
      BY DEF NotFrom
    <2>3. IsFiniteSet(A) /\ i \notin A /\ IsFiniteSet(B) /\ i \notin B
      BY <1>3
    <2> HIDE DEF A, B
    <2>4. here \in BOOLEAN /\ there \in BOOLEAN
      OBVIOUS
    <2> HIDE DEF here, there
    <2>5. Cardinality(From(S \union {i}, h, w)) = Cardinality(A) + One(here)
          /\ Cardinality(NotFrom(S \union {i}, h, w)) = Cardinality(B) + One(there)
      BY <2>1, <2>2, <2>3, <2>4, OneMore
    <2>6. QED BY <2>5 DEF A, B, here, there
  <1> HIDE DEF c, e, h
  <1>5. PageTally(c, S \union {i})
    <2>1. /\ Cardinality(From(S \union {i}, h, FALSE)) =
                Cardinality(From(S, h, FALSE)) + One(~e.is_write /\ on)
          /\ Cardinality(From(S \union {i}, h, TRUE)) =
                Cardinality(From(S, h, TRUE)) + One(e.is_write /\ on)
          /\ Cardinality(NotFrom(S \union {i}, h, FALSE)) =
                Cardinality(NotFrom(S, h, FALSE)) + One(~e.is_write /\ ~on)
          /\ Cardinality(NotFrom(S \union {i}, h, TRUE)) =
                Cardinality(NotFrom(S, h, TRUE)) + One(e.is_write /\ ~on)
      BY <1>2, <1>4 DEF One
    <2>2. PageTally(page, S)
      OBVIOUS
    <2>3. QED BY <1>1, <2>1, <2>2 DEF PageTally, h
  <1>6. QED BY <1>5 DEF c, e

\* The counters of the page touched, before the access: of a page that is
\* placed now, none.
LEMMA TouchedPageTallies ==
    ASSUME Inv, Access
    PROVE  LET p == Page(n_requests)
               page == PageOf(p, trace[n_requests].node_num)
           IN page \in PageType /\ PageTally(page, Touching(p))
  <1> DEFINE p == Page(n_requests)
             page == PageOf(p, trace[n_requests].node_num)
  <1>1. trace[n_requests].node_num \in Nodes
    BY AccessReads
  <1>2. page \in PageType
    BY <1>1, PlacedPage
  <1>3. CASE p \in DOMAIN pages
    <2>1. page = pages[p]
      BY <1>1, <1>3, PlacedPage
    <2>2. PageTally(pages[p], Touching(p))
      BY <1>3, TallyParts DEF Inv, PagesTally
    <2>3. QED BY <1>2, <2>1, <2>2
  <1>4. CASE p \notin DOMAIN pages
    <2>1. Touching(p) = {}
      BY <1>4, TouchingFacts DEF Inv
    <2>2. \A h, w : From({}, h, w) = {} /\ NotFrom({}, h, w) = {}
      BY DEF From, NotFrom
    <2>3. /\ page.on_node_reads = 0 /\ page.off_node_reads = 0
          /\ page.on_node_writes = 0 /\ page.off_node_writes = 0
      BY <1>1, <1>4, PlacedPage
    <2>4. Cardinality({}) = 0
      BY FS_EmptySet
    <2> HIDE DEF page
    <2>5. PageTally(page, {})
      BY <2>2, <2>3, <2>4 DEF PageTally
    <2>6. QED BY <1>2, <2>1, <2>5 DEF page
  <1>5. QED BY <1>3, <1>4

LEMMA TallyKept ==
    ASSUME Inv, Access
    PROVE  AccessesTally'
  <1> DEFINE i == n_requests
             e == trace[i]
             p == Page(i)
             page == PageOf(p, e.node_num)
             h == page.placement
             ServedNext(n, w) == {j \in Counted \union {i} :
                        pages'[Page(j)].placement = n /\ trace[j].is_write = w}
  <1>1. /\ trace' = trace /\ n_nodes' = n_nodes /\ i \notin Counted
        /\ Counted' = Counted \union {i} /\ e \in Entry
        /\ pages' = [q \in DOMAIN pages \union {p} |->
                        IF q = p THEN CountAccess(page, e) ELSE pages[q]]
        /\ nodes' = [nodes EXCEPT ![h] = CountOnNode(@, e)]
    BY AccessReads
  <1>2. page \in PageType /\ PageTally(page, Touching(p))
    BY TouchedPageTallies
  <1>3. ASSUME NEW q \in DOMAIN pages' PROVE PageTally(pages[q], Touching(q))'
    <2>1. CASE q = p
      <3>1. Touching(q)' = Touching(q) \union {i} /\ i \notin Touching(q)
            /\ IsFiniteSet(Touching(q))
        BY <1>1, <2>1, TouchingFollows, TouchingFacts
      <3>2. pages'[q] = CountAccess(page, e)
        BY <1>1, <2>1
      <3> HIDE DEF page
      <3>3. PageTally(CountAccess(page, e), Touching(q) \union {i})
        BY <1>1, <1>2, <2>1, <3>1, PageTallyGrows
      <3>4. QED BY <1>1, <3>1, <3>2, <3>3 DEF PageTally, From, NotFrom
    <2>2. CASE q # p
      <3>1. Touching(q)' = Touching(q) /\ pages'[q] = pages[q] /\ q \in DOMAIN pages
        BY <1>1, <2>2, TouchingFollows
      <3>2. PageTally(pages[q], Touching(q))
        BY <3>1, TallyParts DEF Inv, PagesTally
      <3>3. QED BY <1>1, <3>1, <3>2 DEF PageTally, From, NotFrom
    <2>3. QED BY <2>1, <2>2
  <1>4. ASSUME NEW n \in Nodes
        PROVE  /\ nodes'[n].reads = Cardinality(ServedNext(n, FALSE))
               /\ nodes'[n].writes = Cardinality(ServedNext(n, TRUE))
    <2>1. /\ nodes[n] \in NodeType
          /\ nodes[n].reads = Cardinality(Served(n, FALSE))
          /\ nodes[n].writes = Cardinality(Served(n, TRUE))
          /\ n \in DOMAIN nodes
      BY TallyParts DEF Inv, TypeOK, NodeType, NodesTally
    <2>2. ASSUME NEW w \in BOOLEAN
          PROVE  Cardinality(ServedNext(n, w)) =
                    IF h = n /\ e.is_write = w
                    THEN Cardinality(Served(n, w)) + 1 ELSE Cardinality(Served(n, w))
      <3>1. ASSUME NEW j \in Counted PROVE pages'[Page(j)].placement = pages[Page(j)].placement
        <4>1. Page(j) \in Touched
          BY DEF Touched, Page
        <4>2. QED BY <4>1, PlacementFollows
      <3>2. pages'[p].placement = h
        BY PlacementFollows
      <3> DEFINE A == Served(n, w)
                 B == h = n /\ e.is_write = w
      <3>3. ServedNext(n, w) = IF B THEN A \union {i} ELSE A
        <4> HIDE DEF h
        <4>1. QED BY <3>1, <3>2 DEF Served
      <3>4. IsFiniteSet(A) /\ i \notin A
        BY <1>1, CountedFacts, FS_Subset DEF Inv, Served
      <3> HIDE DEF A, B, ServedNext
      <3>5. Cardinality(ServedNext(n, w)) =
                IF B THEN Cardinality(A) + 1 ELSE Cardinality(A)
        BY <3>3, <3>4, FS_AddElement
      <3>6. QED BY <3>5 DEF A, B
    <2>3. e.is_write \in BOOLEAN
      BY <1>1 DEF Entry
    <2>4. \A w \in BOOLEAN : Cardinality(Served(n, w)) \in Nat
      BY CountedFacts, FS_Subset, FS_CardinalityType DEF Inv, Served
    <2>5. LET c == CountOnNode(nodes[n], e)
          IN /\ c.reads = IF e.is_write THEN nodes[n].reads ELSE nodes[n].reads + 1
             /\ c.writes = IF e.is_write THEN nodes[n].writes + 1 ELSE nodes[n].writes
      BY <1>1, <2>1, CountedOnNode
    <2>6. nodes'[n] = IF n = h THEN CountOnNode(nodes[n], e) ELSE nodes[n]
      BY <1>1, <2>1
    <2> HIDE DEF h, e, ServedNext
    <2>7. n # h => \A w \in BOOLEAN :
                Cardinality(ServedNext(n, w)) = Cardinality(Served(n, w))
      BY <2>2
    <2>8. CASE n = h
      <3>1. \A w \in BOOLEAN : Cardinality(ServedNext(n, w)) =
                IF e.is_write = w THEN Cardinality(Served(n, w)) + 1
                                  ELSE Cardinality(Served(n, w))
        BY <2>2, <2>8
      <3>2. CASE e.is_write = TRUE
        <4>1. /\ Cardinality(ServedNext(n, TRUE)) = Cardinality(Served(n, TRUE)) + 1
              /\ Cardinality(ServedNext(n, FALSE)) = Cardinality(Served(n, FALSE))
          BY <3>1, <3>2
        <4>2. QED BY <2>1, <2>5, <2>6, <2>8, <3>2, <4>1
      <3>3. CASE e.is_write = FALSE
        <4>1. /\ Cardinality(ServedNext(n, TRUE)) = Cardinality(Served(n, TRUE))
              /\ Cardinality(ServedNext(n, FALSE)) = Cardinality(Served(n, FALSE)) + 1
          BY <3>1, <3>3
        <4>2. QED BY <2>1, <2>5, <2>6, <2>8, <3>3, <4>1
      <3>4. QED BY <2>3, <3>2, <3>3
    <2>9. CASE n # h
      BY <2>1, <2>6, <2>7, <2>9
    <2>10. QED BY <2>8, <2>9
  <1>5. Nodes' = Nodes
    BY <1>1 DEF Nodes
  <1>6. PagesTally'
    BY <1>3 DEF PagesTally
  <1>7. NodesTally'
    <2>1. \A n \in Nodes, w \in BOOLEAN : Served(n, w)' = ServedNext(n, w)
      BY <1>1 DEF Served, Page
    <2> HIDE DEF ServedNext
    <2>2. \A n \in Nodes : /\ nodes'[n].reads = Cardinality(Served(n, FALSE)')
                           /\ nodes'[n].writes = Cardinality(Served(n, TRUE)')
      BY <1>4, <2>1
    <2>3. QED BY <1>5, <2>2 DEF NodesTally
  <1>8. AccessesTally' <=> PagesTally' /\ NodesTally'
    BY TallyParts, PTL
  <1>9. QED BY <1>6, <1>7, <1>8

\* The sum of one of the pages' counters grows by what the page counts.
Fields == {"on_node_reads", "off_node_reads", "on_node_writes", "off_node_writes"}

LEMMA FieldsAreNatural ==
    ASSUME NEW page \in PageType, NEW f \in Fields
    PROVE  page[f] \in Nat
  BY DEF PageType, Fields

LEMMA SumFollows ==
    ASSUME Inv, Access, NEW f \in Fields
    PROVE  LET e == trace[n_requests]
               page == PageOf(Page(n_requests), e.node_num)
           IN /\ OverPages(f)' = OverPages(f) + CountAccess(page, e)[f] - page[f]
              /\ OverPages(f) \in Nat
              /\ OverPages(f)' \in Nat
  <1> DEFINE e == trace[n_requests]
             p == Page(n_requests)
             page == PageOf(p, e.node_num)
             new == CountAccess(page, e)
             D == DOMAIN pages
             F == [q \in D |-> pages[q][f]]
             G == [q \in D \union {p} |-> IF q = p THEN new[f] ELSE pages[q][f]]
  <1>1. /\ e \in Entry /\ e.node_num \in Nodes
        /\ pages' = [q \in D \union {p} |-> IF q = p THEN new ELSE pages[q]]
    BY AccessReads
  <1>2. /\ page \in PageType
        /\ p \in D => page = pages[p]
        /\ p \notin D => /\ page.on_node_reads = 0 /\ page.off_node_reads = 0
                         /\ page.on_node_writes = 0 /\ page.off_node_writes = 0
    BY <1>1, PlacedPage
  <1>3. new \in PageType
    BY <1>1, <1>2, CountedOnPage
  <1>4. \A q \in D : pages[q] \in PageType
    BY DEF Inv, TypeOK, PageType
  <1>5. p \notin D => page[f] = 0
    BY <1>2 DEF Fields
  <1>6. new[f] \in Nat /\ page[f] \in Nat /\ \A q \in D : pages[q][f] \in Nat
    BY <1>2, <1>3, <1>4, FieldsAreNatural
  <1>7. IsFiniteSet(D)
    BY TouchingFacts
  <1>8. OverPages(f) = SumFunction(F)
    BY DEF OverPages
  <1>9. OverPages(f)' = SumFunction(G)
    <2> HIDE DEF new, p
    <2>1. DOMAIN pages' = D \union {p}
      BY <1>1
    <2>2. [q \in DOMAIN pages' |-> pages'[q][f]] = G
      BY <1>1, <2>1
    <2>3. OverPages(f)' = SumFunction([q \in DOMAIN pages' |-> pages'[q][f]])
      BY DEF OverPages
    <2>4. QED BY <2>2, <2>3
  <1> HIDE DEF new, page, p, e, D
  <1>10. F \in [D -> Nat] /\ G \in [D \union {p} -> Nat]
         /\ (\A q \in D : q # p => G[q] = F[q]) /\ G[p] = new[f]
         /\ (p \in D => F[p] = page[f])
    BY <1>2, <1>6
  <1> HIDE DEF F, G
  <1>11. SumFunction(F) \in Nat
    BY <1>7, <1>10, SumIsNatural
  <1>12. SumFunction(G) \in Nat
    <2>1. IsFiniteSet(D \union {p})
      BY <1>7, FS_AddElement
    <2>2. QED BY <1>10, <2>1, SumIsNatural
  <1>13. SumFunction(G) = SumFunction(F) + new[f] - page[f]
    <2>1. CASE p \in D
      <3>1. D \union {p} = D
        BY <2>1
      <3>2. SumFunction(G) = SumFunction(F) - F[p] + G[p]
        BY <1>7, <1>10, <2>1, <3>1, SumChanges
      <3>3. QED BY <1>6, <1>10, <1>11, <2>1, <3>2
    <2>2. CASE p \notin D
      <3>1. SumFunction(G) = SumFunction(F) + G[p]
        BY <1>7, <1>10, <2>2, SumGrows
      <3>2. QED BY <1>5, <1>6, <1>10, <1>11, <2>2, <3>1
    <2>3. QED BY <2>1, <2>2
  <1>14. QED BY <1>8, <1>9, <1>11, <1>12, <1>13 DEF new, page, e, p

LEMMA SumsKept ==
    ASSUME Inv, Access
    PROVE  SumsTally'
  <1> DEFINE i == n_requests
             e == trace[i]
             page == PageOf(Page(i), e.node_num)
             new == CountAccess(page, e)
             on == page.placement = e.node_num
  <1>1. /\ e \in Entry /\ i \notin Counted
        /\ Counted' = Counted \union {i} /\ trace' = trace
    BY AccessReads
  <1>2. page \in PageType
    BY TouchedPageTallies
  <1>3. /\ new.on_node_reads = page.on_node_reads + One(~e.is_write /\ on)
        /\ new.off_node_reads = page.off_node_reads + One(~e.is_write /\ ~on)
        /\ new.on_node_writes = page.on_node_writes + One(e.is_write /\ on)
        /\ new.off_node_writes = page.off_node_writes + One(e.is_write /\ ~on)
    BY <1>1, <1>2, CountedOnPage
  <1>4. \A f \in Fields : /\ OverPages(f)' = OverPages(f) + new[f] - page[f]
                          /\ OverPages(f) \in Nat
    BY SumFollows
  <1>5. \A w \in BOOLEAN : AccessesOf(w)' =
            IF e.is_write = w THEN AccessesOf(w) \union {i} ELSE AccessesOf(w)
    BY <1>1 DEF AccessesOf
  <1>6. \A w \in BOOLEAN : IsFiniteSet(AccessesOf(w)) /\ i \notin AccessesOf(w)
    BY <1>1, CountedFacts, FS_Subset DEF Inv, AccessesOf
  <1>7. \A w \in BOOLEAN : /\ Cardinality(AccessesOf(w)) \in Nat
                           /\ Cardinality(AccessesOf(w)') =
                                IF e.is_write = w THEN Cardinality(AccessesOf(w)) + 1
                                ELSE Cardinality(AccessesOf(w))
    BY <1>5, <1>6, FS_AddElement, FS_CardinalityType
  <1>8. e.is_write \in BOOLEAN
    BY <1>1 DEF Entry
  <1>9. /\ page.on_node_reads \in Nat /\ page.off_node_reads \in Nat
        /\ page.on_node_writes \in Nat /\ page.off_node_writes \in Nat
    BY <1>2 DEF PageType
  <1>10. /\ OverPages("on_node_reads")' = OverPages("on_node_reads") + new.on_node_reads - page.on_node_reads
         /\ OverPages("off_node_reads")' = OverPages("off_node_reads") + new.off_node_reads - page.off_node_reads
         /\ OverPages("on_node_writes")' = OverPages("on_node_writes") + new.on_node_writes - page.on_node_writes
         /\ OverPages("off_node_writes")' = OverPages("off_node_writes") + new.off_node_writes - page.off_node_writes
         /\ OverPages("on_node_reads") \in Nat /\ OverPages("off_node_reads") \in Nat
         /\ OverPages("on_node_writes") \in Nat /\ OverPages("off_node_writes") \in Nat
    BY <1>4 DEF Fields
  <1> HIDE DEF new, page, e, on
  <1>11. SumsTally
    BY DEF Inv
  <1>12. CASE e.is_write = TRUE
    <2>1. /\ OverPages("on_node_reads")' + OverPages("off_node_reads")'
                = OverPages("on_node_reads") + OverPages("off_node_reads")
          /\ OverPages("on_node_writes")' + OverPages("off_node_writes")'
                = OverPages("on_node_writes") + OverPages("off_node_writes") + 1
      BY <1>3, <1>9, <1>10, <1>12 DEF One
    <2>2. /\ Cardinality(AccessesOf(FALSE)') = Cardinality(AccessesOf(FALSE))
          /\ Cardinality(AccessesOf(TRUE)') = Cardinality(AccessesOf(TRUE)) + 1
      BY <1>7, <1>12
    <2>3. QED BY <1>11, <2>1, <2>2 DEF SumsTally
  <1>13. CASE e.is_write = FALSE
    <2>1. /\ OverPages("on_node_reads")' + OverPages("off_node_reads")'
                = OverPages("on_node_reads") + OverPages("off_node_reads") + 1
          /\ OverPages("on_node_writes")' + OverPages("off_node_writes")'
                = OverPages("on_node_writes") + OverPages("off_node_writes")
      BY <1>3, <1>9, <1>10, <1>13 DEF One
    <2>2. /\ Cardinality(AccessesOf(FALSE)') = Cardinality(AccessesOf(FALSE)) + 1
          /\ Cardinality(AccessesOf(TRUE)') = Cardinality(AccessesOf(TRUE))
      BY <1>7, <1>13
    <2>3. QED BY <1>11, <2>1, <2>2 DEF SumsTally
  <1>14. QED BY <1>8, <1>12, <1>13

LEMMA TypesKept ==
    ASSUME Inv, Access
    PROVE  TypeOK'
  <1> DEFINE e == trace[n_requests]
             p == Page(n_requests)
             page == PageOf(p, e.node_num)
             h == page.placement
  <1>1. /\ e \in Entry
        /\ pages' = [q \in DOMAIN pages \union {p} |->
                        IF q = p THEN CountAccess(page, e) ELSE pages[q]]
        /\ nodes' = [nodes EXCEPT ![h] = CountOnNode(@, e)]
        /\ curr_interleave_node' =
                IF p \in DOMAIN pages \/ allocation_mode = "first_touch"
                THEN curr_interleave_node ELSE NextNode
        /\ UNCHANGED <<allocation_mode, n_nodes, stats, status>>
    BY AccessReads
  <1>2. page \in PageType
    BY TouchedPageTallies
  <1>3. CountAccess(page, e) \in PageType
    BY <1>1, <1>2, CountedOnPage
  <1>4. TypeOK /\ n_nodes \in Nat \ {0}
    BY EntriesAssumption DEF Inv, TypeOK
  <1> HIDE DEF e, page, p
  <1>5. \A q \in DOMAIN pages' : pages'[q] \in PageType
    BY <1>1, <1>3, <1>4 DEF TypeOK, PageType
  <1>6. nodes' \in [Nodes -> NodeType]
    <2>1. nodes \in [Nodes -> NodeType] /\ h \in Nodes
      BY <1>2, <1>4 DEF TypeOK, NodeType, PageType
    <2>2. CountOnNode(nodes[h], e) \in NodeType
      BY <1>1, <2>1, CountedOnNode
    <2> HIDE DEF h
    <2>3. QED BY <1>1, <2>1, <2>2
  <1>7. curr_interleave_node' \in Nodes
    <2>1. NextNode \in Nodes
      BY <1>4 DEF NextNode, Nodes, TypeOK
    <2>2. QED BY <1>1, <1>4, <2>1 DEF TypeOK
  <1>8. Nodes' = Nodes
    BY <1>1 DEF Nodes
  <1>9. QED BY <1>1, <1>4, <1>5, <1>6, <1>7, <1>8 DEF TypeOK, PageType, NodeType

LEMMA AccessKeeps ==
    ASSUME Inv, Access
    PROVE  Inv'
  <1>1. /\ FirstPass' /\ UNCHANGED <<trace, n_unique_entries>>
        /\ status' = status /\ status = "running"
    BY AccessReads
  <1>2. DOMAIN pages' = Touched'
    BY PlacementFollows
  <1>3. Reported'
    BY <1>1 DEF Reported
  <1>4. trace' \in [0..n_unique_entries' - 1 -> EntryChoices]
    BY <1>1 DEF Inv
  <1>5. QED BY <1>1, <1>2, <1>3, <1>4, TypesKept, PolicyKept, TurnsKept, TallyKept,
               SumsKept DEF Inv

-----------------------------------------------------------------------------
(* The other steps.                                                        *)

\* What depends on the entries counted and on the counters only.
Tallies == /\ DOMAIN pages = Touched
           /\ PlacedByPolicy
           /\ RoundRobin
           /\ AccessesTally
           /\ SumsTally

LEMMA TalliesStay ==
    ASSUME Tallies, Counted' = Counted, UNCHANGED <<args, counters>>
    PROVE  Tallies'
  <1>1. UNCHANGED <<trace, allocation_mode, n_nodes, pages, nodes, curr_interleave_node>>
    BY DEF args, counters
  <1>2. /\ Touched' = Touched /\ Nodes' = Nodes
        /\ \A q : Touching(q)' = Touching(q)
    BY <1>1 DEF Touched, Touching, Nodes
  <1>3. \A q : FirstTouch(q)' = FirstTouch(q)
    BY <1>2 DEF FirstTouch
  <1>4. PlacedByPolicy'
    BY <1>1, <1>2, <1>3 DEF Tallies, PlacedByPolicy
  <1>5. RoundRobin'
    BY <1>1, <1>2 DEF Tallies, RoundRobin, node_rss_pages
  <1>6. AccessesTally'
    <2>1. PagesTally /\ NodesTally
      BY TallyParts DEF Tallies
    <2>2. PagesTally'
      <3>1. ASSUME NEW p \in DOMAIN pages
            PROVE  PageTally(pages[p], Touching(p))'
        <4>1. PageTally(pages[p], Touching(p))
          BY <2>1 DEF PagesTally
        <4>2. pages'[p] = pages[p] /\ Touching(p)' = Touching(p)
          BY <1>1, <1>2
        <4>3. QED BY <1>1, <4>1, <4>2 DEF PageTally, From, NotFrom
      <3>2. QED BY <1>1, <3>1 DEF PagesTally
    <2>3. \A n, w : Served(n, w)' = Served(n, w)
      BY <1>1 DEF Served, Page
    <2>4. NodesTally'
      BY <1>1, <1>2, <2>1, <2>3 DEF NodesTally
    <2>5. AccessesTally' <=> PagesTally' /\ NodesTally'
      BY TallyParts, PTL
    <2>6. QED BY <2>2, <2>4, <2>5
  <1>7. SumsTally'
    BY <1>1 DEF Tallies, SumsTally, OverPages, AccessesOf
  <1>8. QED BY <1>1, <1>2, <1>4, <1>5, <1>6, <1>7 DEF Tallies

LEMMA InvParts ==
    Inv <=> /\ FirstPass
            /\ trace \in [0..n_unique_entries - 1 -> EntryChoices]
            /\ status = "undefined" => n_requests > 0
            /\ TypeOK /\ Tallies /\ Reported
  BY DEF Inv, Tallies

LEMMA TypesStay ==
    ASSUME TypeOK, UNCHANGED <<args, counters, stats>>,
           status' \in {"running", "reported", "undefined"}
    PROVE  TypeOK'
  BY DEF TypeOK, args, counters, Nodes

LEMMA UnknownNodeKeeps ==
    ASSUME Inv, AccessFromUnknownNode
    PROVE  Inv'
  <1>1. /\ FirstPass' /\ n_requests' = n_requests + 1 /\ n_requests \in Nat
        /\ n_unique_entries' = n_unique_entries
    BY FirstPassGoesOn DEF Inv, AccessFromUnknownNode, FirstPass
  <1>2. /\ status = "running" /\ status' = "undefined"
        /\ UNCHANGED <<args, counters, stats>> /\ trace' = trace
    BY DEF AccessFromUnknownNode, args
  <1>3. Counted' = Counted
    BY <1>1, <1>2 DEF Counted
  <1>4. TypeOK' /\ Tallies'
    BY <1>2, <1>3, TypesStay, TalliesStay, InvParts
  <1>5. Reported' /\ n_requests' > 0
    BY <1>1, <1>2 DEF Reported
  <1>6. trace' \in [0..n_unique_entries' - 1 -> EntryChoices]
    BY <1>1, <1>2 DEF Inv
  <1>7. QED BY <1>1, <1>4, <1>5, <1>6 DEF Inv, Tallies

LEMMA StutterKeeps ==
    ASSUME Inv, UNCHANGED vars
    PROVE  Inv'
  <1>1. UNCHANGED <<reader, args, counters, stats, status>>
    BY DEF vars
  <1>2. /\ FirstPass' /\ n_requests' = n_requests
        /\ n_unique_entries' = n_unique_entries
    BY <1>1, FirstPassStays DEF Inv, reader
  <1>3. Counted' = Counted
    BY <1>1, <1>2 DEF Counted
  <1>4. TypeOK' /\ Tallies'
    BY <1>1, <1>3, TypesStay, TalliesStay, InvParts DEF TypeOK
  <1>5. Reported'
    <2>1. UNCHANGED <<trace, n_nodes, nodes, stats, status>>
      BY <1>1 DEF args, counters
    <2>2. QED BY <1>2, <1>3, <2>1
              DEF Inv, Reported, all_reads, all_writes, AccessesOf, Nodes
  <1>6. trace' \in [0..n_unique_entries' - 1 -> EntryChoices]
    BY <1>1, <1>2 DEF Inv, args
  <1>7. QED BY <1>1, <1>2, <1>4, <1>5, <1>6 DEF Inv, Tallies

LEMMA AggregateKeeps ==
    ASSUME Inv, AggregateStats
    PROVE  Inv'
  <1> DEFINE reads == {nodes[n].reads : n \in Nodes}
             writes == {nodes[n].writes : n \in Nodes}
  <1>1. UNCHANGED <<reader, args, counters>> /\ mtr!is_end_of_pass
        /\ status' = "reported" /\ status = "running"
    BY DEF AggregateStats
  <1>2. /\ FirstPass' /\ n_requests' = n_requests
        /\ n_unique_entries' = n_unique_entries /\ n_requests = n_unique_entries
    BY <1>1, FirstPassStays DEF Inv, reader, FirstPass, mtr!is_end_of_pass
  <1>3. Counted' = Counted
    BY <1>1, <1>2 DEF Counted
  <1>4. Tallies'
    BY <1>1, <1>3, TalliesStay, InvParts
  <1>5. \A f \in Fields : OverPages(f) \in Nat
    <2>1. ASSUME NEW f \in Fields PROVE OverPages(f) \in Nat
      <3> DEFINE D == DOMAIN pages
                 F == [q \in D |-> pages[q][f]]
      <3>1. \A q \in D : pages[q] \in PageType
        BY DEF Inv, TypeOK, PageType
      <3>2. \A q \in D : pages[q][f] \in Nat
        BY <3>1, FieldsAreNatural
      <3>3. F \in [D -> Nat]
        BY <3>2
      <3>4. IsFiniteSet(D)
        BY TouchingFacts
      <3>5. OverPages(f) = SumFunction(F)
        BY DEF OverPages
      <3> HIDE DEF F, D
      <3>6. QED BY <3>3, <3>4, <3>5, SumIsNatural
    <2>2. QED BY <2>1
  <1>6. /\ Max(reads) \in reads /\ Max(writes) \in writes
        /\ \A x \in writes : x <= Max(writes)
        /\ reads \in SUBSET Nat /\ writes \in SUBSET Nat
    <2>1. 0 \in Nodes /\ IsFiniteSet(Nodes)
      <3>1. n_nodes \in Nat \ {0}
        BY EntriesAssumption DEF Inv, TypeOK
      <3>2. QED BY <3>1, FS_Interval DEF Nodes
    <2>2. \A n \in Nodes : nodes[n].reads \in Nat /\ nodes[n].writes \in Nat
      BY DEF Inv, TypeOK
    <2>3. IsFiniteSet(reads) /\ IsFiniteSet(writes)
      <3> DEFINE R == [n \in Nodes |-> nodes[n].reads]
                 W == [n \in Nodes |-> nodes[n].writes]
      <3>1. R \in Surjection(Nodes, reads) /\ W \in Surjection(Nodes, writes)
        BY DEF Surjection
      <3>2. QED BY <2>1, <3>1, FS_Surjection
    <2>4. reads # {} /\ writes # {}
      BY <2>1
    <2>5. reads \in SUBSET Nat /\ writes \in SUBSET Nat
      BY <2>2
    <2> HIDE DEF reads, writes
    <2>6. QED BY <2>3, <2>4, <2>5, GreatestOfSet
  <1>7. stats' = [on_node_reads |-> OverPages("on_node_reads"),
                  off_node_reads |-> OverPages("off_node_reads"),
                  on_node_writes |-> OverPages("on_node_writes"),
                  off_node_writes |-> OverPages("off_node_writes"),
                  max_node_reads |-> Max(reads),
                  max_node_writes |-> Max(writes)]
    BY DEF AggregateStats
  <1>8. TypeOK'
    <2>1. /\ OverPages("on_node_reads") \in Nat /\ OverPages("off_node_reads") \in Nat
          /\ OverPages("on_node_writes") \in Nat /\ OverPages("off_node_writes") \in Nat
          /\ Max(reads) \in Nat /\ Max(writes) \in Nat
      BY <1>5, <1>6 DEF Fields
    <2> HIDE DEF reads, writes
    <2>2. stats' \in [on_node_reads : Nat, off_node_reads : Nat,
                      on_node_writes : Nat, off_node_writes : Nat,
                      max_node_reads : Nat, max_node_writes : Nat]
      BY <1>7, <2>1
    <2>3. QED BY <1>1, <2>2 DEF Inv, TypeOK, args, counters, Nodes
  <1>9. Reported'
    <2>1. /\ all_reads' = Cardinality(AccessesOf(FALSE))
          /\ all_writes' = Cardinality(AccessesOf(TRUE))
      BY <1>7 DEF Inv, SumsTally, all_reads, all_writes
    <2>2. /\ \E n \in Nodes : nodes[n].writes = stats'.max_node_writes
          /\ \A n \in Nodes : nodes[n].writes <= stats'.max_node_writes
      <3>1. stats'.max_node_writes = Max(writes)
        BY <1>7
      <3>2. (\E n \in Nodes : nodes[n].writes = Max(writes))
            /\ (\A n \in Nodes : nodes[n].writes <= Max(writes))
        BY <1>6
      <3>3. QED BY <3>1, <3>2
    <2>3. /\ UNCHANGED <<trace, nodes, n_nodes>>
          /\ \A w \in BOOLEAN : AccessesOf(w)' = AccessesOf(w)
      BY <1>1, <1>3 DEF args, counters, AccessesOf
    <2>4. Nodes' = Nodes
      BY <2>3 DEF Nodes
    <2>5. QED BY <1>2, <2>1, <2>2, <2>3, <2>4 DEF Reported
  <1>10. trace' \in [0..n_unique_entries' - 1 -> EntryChoices]
    BY <1>1, <1>2 DEF Inv, args
  <1>11. QED BY <1>1, <1>2, <1>4, <1>8, <1>9, <1>10 DEF Inv, Tallies

LEMMA InitHolds ==
    ASSUME Init
    PROVE  Inv
  <1>1. FirstPass /\ n_requests = 0
    BY FirstPassBegins DEF Init
  <1>2. /\ status = "running" /\ pages = <<>> /\ curr_interleave_node = 0
        /\ nodes = [n \in Nodes |-> [reads |-> 0, writes |-> 0]]
        /\ n_nodes \in Nat \ {0} /\ n_nodes \in NodeCounts
        /\ allocation_mode \in {"first_touch", "interleave"}
    BY EntriesAssumption DEF Init
  <1>3. DOMAIN pages = {}
    BY <1>2
  <1>4. Counted = {}
    BY <1>1, <1>2 DEF Counted
  <1>5. Touched = {} /\ \A w \in BOOLEAN : AccessesOf(w) = {}
    BY <1>4 DEF Touched, AccessesOf
  <1>6. IsFiniteSet({}) /\ Cardinality({}) = 0
    BY FS_EmptySet
  <1>7. TypeOK
    BY <1>2, <1>3 DEF Init, TypeOK, Nodes, ZeroStats
  <1>8. PlacedByPolicy
    BY <1>5 DEF PlacedByPolicy
  <1>9. RoundRobin
    <2>1. \A n \in Nodes : node_rss_pages(n) = 0
      BY <1>3, <1>6 DEF node_rss_pages
    <2>2. 0 = Cardinality(Touched) % n_nodes
      BY <1>2, <1>5, <1>6
    <2>3. \A n \in Nodes : ~(n < curr_interleave_node)
      BY <1>2 DEF Nodes
    <2>4. \A n \in Nodes :
            node_rss_pages(n) = IF n < curr_interleave_node THEN 0 + 1 ELSE 0
      BY <2>1, <2>3
    <2>5. QED BY <1>2, <2>2, <2>4 DEF RoundRobin
  <1>10. AccessesTally
    <2>1. PagesTally
      BY <1>3 DEF PagesTally
    <2>2. \A n, w : Served(n, w) = {}
      BY <1>4 DEF Served
    <2>3. NodesTally
      BY <1>2, <1>6, <2>2 DEF NodesTally
    <2>4. QED BY <2>1, <2>3, TallyParts
  <1>11. SumsTally
    <2>1. ASSUME NEW f \in Fields PROVE OverPages(f) = 0
      <3> DEFINE F == [q \in {} |-> pages[q][f]]
      <3>1. OverPages(f) = SumFunction(F)
        BY <1>3 DEF OverPages
      <3>2. F \in [{} -> Nat] /\ \A x \in {} : F[x] = 0
        OBVIOUS
      <3> HIDE DEF F
      <3>3. QED BY <1>6, <3>1, <3>2, SumOfZeros
    <2>2. /\ OverPages("on_node_reads") = 0 /\ OverPages("off_node_reads") = 0
          /\ OverPages("on_node_writes") = 0 /\ OverPages("off_node_writes") = 0
      BY <2>1 DEF Fields
    <2>3. Cardinality(AccessesOf(FALSE)) = 0 /\ Cardinality(AccessesOf(TRUE)) = 0
      BY <1>5, <1>6
    <2>4. /\ OverPages("on_node_reads") + OverPages("off_node_reads") = 0
          /\ OverPages("on_node_writes") + OverPages("off_node_writes") = 0
      BY <2>2
    <2>5. QED BY <2>3, <2>4, Zenon DEF SumsTally
  <1>12. Reported
    BY <1>2 DEF Reported
  <1>13. trace \in [0..n_unique_entries - 1 -> EntryChoices]
    BY DEF Init
  <1>14. QED BY <1>1, <1>2, <1>3, <1>5, <1>7, <1>8, <1>9, <1>10, <1>11, <1>12, <1>13
             DEF Inv

-----------------------------------------------------------------------------
(* MNStats: the theorems.                                                  *)

LEMMA NextKeeps ==
    ASSUME Inv, [Next]_vars
    PROVE  Inv'
  BY AccessKeeps, UnknownNodeKeeps, AggregateKeeps, StutterKeeps DEF Next

\* The counters are those of the entries read, in every state of the tool.
THEOREM InvariantHolds == Spec => []Inv
  <1>1. Init => Inv
    BY InitHolds
  <1>2. Inv /\ [Next]_vars => Inv'
    BY NextKeeps
  <1>3. QED BY <1>1, <1>2, PTL DEF Spec

\* Placements and counters have their types, and no step indexes a node the
\* tool does not have.
THEOREM TypeCorrect == Spec => []TypeOK
  <1>1. Inv => TypeOK
    BY DEF Inv
  <1>2. QED BY <1>1, InvariantHolds, PTL

\* Every page is where the policy put it when it was first touched, and
\* interleaving spreads the pages evenly.
THEOREM PlacementPolicy == Spec => []PlacementByPolicy
  <1>1. Inv => PlacementByPolicy
    <2>1. SUFFICES ASSUME Inv PROVE PlacementByPolicy
      OBVIOUS
    <2>2. allocation_mode = "interleave" =>
            \A n, m \in Nodes : node_rss_pages(n) <= node_rss_pages(m) + 1
      BY <2>1 DEF Inv, RoundRobin
    <2>3. QED BY <2>1, <2>2 DEF Inv, PlacedByPolicy, PlacementByPolicy
  <1>2. QED BY <1>1, InvariantHolds, PTL

\* The pages' and the nodes' counters tally with the trace and so with each
\* other.
THEOREM Tally == Spec => []AccessesTally
  <1>1. Inv => AccessesTally
    BY DEF Inv
  <1>2. QED BY <1>1, InvariantHolds, PTL

-----------------------------------------------------------------------------
(* SNStats: its reader.                                                    *)

SNReader == INSTANCE MemTraceReaderProofs
    WITH buffer_size_entries <- sn_buffer_size_entries,
         stream <- sn_stream,
         buffer_curr_entry <- sn_buffer_curr_entry,
         full_trace_entry_ctr <- sn_full_trace_entry_ctr,
         n_full_passes <- sn_n_full_passes,
         n_requests <- sn_n_requests,
         entry <- sn_entry,
         queried <- sn_queried,
         served <- sn_served,
         handed <- sn_handed

LEMMA SNReaderConstants == SNReader!LengthsAssumption
  BY ReaderAssumption DEF SNReader!LengthsAssumption

LEMMA SameSNReader ==
    /\ SN!mtr!Init => SNReader!Init
    /\ SN!mtr!NextEntry => SNReader!NextEntry
  BY DEF SN!mtr!Init, SNReader!Init, SN!mtr!NextEntry, SNReader!NextEntry,
         SN!mtr!Refill, SNReader!Refill, SN!mtr!ReadBuffer, SNReader!ReadBuffer,
         SN!mtr!EntriesTillEndOfFile, SNReader!EntriesTillEndOfFile,
         SN!mtr!Read, SNReader!Read, SN!mtr!Seek, SNReader!Seek,
         SN!mtr!Slots, SNReader!Slots, SN!mtr!Garbage, SNReader!Garbage,
         SN!mtr!is_end_of_buffer, SNReader!is_end_of_buffer,
         SN!mtr!is_end_of_pass, SNReader!is_end_of_pass

\* As FirstPass, of the other reader.
SNFirstPass ==
    /\ SNReader!Inv
    /\ n_unique_entries \in Nat \ {0}
    /\ sn_n_requests \in 0..n_unique_entries
    /\ sn_served = sn_n_requests
    /\ sn_full_trace_entry_ctr = sn_n_requests

LEMMA SNFirstPassBegins ==
    ASSUME SN!mtr!Init
    PROVE  SNFirstPass /\ sn_n_requests = 0
  <1>1. SNReader!Inv
    BY SameSNReader, SNReaderConstants, SNReader!InitInv
  <1>2. QED BY <1>1, ReaderAssumption DEF SN!mtr!Init, SNFirstPass

LEMMA SNFirstPassGoesOn ==
    ASSUME SNFirstPass, ~SN!mtr!is_end_of_pass, SN!mtr!NextEntry
    PROVE  /\ SNFirstPass'
           /\ sn_n_requests' = sn_n_requests + 1
           /\ sn_entry' = sn_n_requests
           /\ sn_n_requests < n_unique_entries
           /\ n_unique_entries' = n_unique_entries
  <1>1. SNReader!Inv /\ SNReader!NextEntry
    BY SameSNReader DEF SNFirstPass
  <1>2. SNReader!Inv'
    BY <1>1, SNReaderConstants, SNReader!NextEntryInv
  <1>3. /\ sn_n_requests \in 0..n_unique_entries /\ n_unique_entries \in Nat \ {0}
        /\ sn_n_requests # n_unique_entries
        /\ sn_served = sn_n_requests /\ sn_full_trace_entry_ctr = sn_n_requests
    BY DEF SNFirstPass, SN!mtr!is_end_of_pass
  <1>4. /\ sn_n_requests' = sn_n_requests + 1 /\ sn_served' = sn_served + 1
        /\ sn_full_trace_entry_ctr' = sn_full_trace_entry_ctr + 1
        /\ n_unique_entries' = n_unique_entries
    BY DEF SN!mtr!NextEntry
  <1>5. sn_entry' = sn_n_requests
    <2>1. SNReader!FirstPassExact'
      BY <1>2 DEF SNReader!Inv
    <2>2. sn_served' \in 1..n_unique_entries'
      BY <1>3, <1>4
    <2>3. QED BY <1>3, <1>4, <2>1, <2>2 DEF SNReader!FirstPassExact
  <1>6. QED BY <1>2, <1>3, <1>4, <1>5 DEF SNFirstPass

SNReaderStays ==
    UNCHANGED <<n_unique_entries, sn_buffer_size_entries, sn_stream,
                sn_buffer_curr_entry, sn_full_trace_entry_ctr, sn_n_full_passes,
                sn_n_requests, sn_entry, sn_queried, sn_served, sn_handed>>

LEMMA SNFirstPassStays ==
    ASSUME SNFirstPass, SNReaderStays
    PROVE  SNFirstPass'
  <1>1. SNReader!Inv /\ UNCHANGED SNReader!vars
    BY DEF SNFirstPass, SNReaderStays, SNReader!vars, SNReader!counters
  <1>2. SNReader!Inv'
    BY <1>1, SNReaderConstants, SNReader!StutterInv
  <1>3. QED BY <1>2 DEF SNFirstPass, SNReaderStays

-----------------------------------------------------------------------------
(* Maps that count.                                                        *)

\* How often each key occurs at the indexes in W.
CountsOf(W, key) ==
    [k \in {key[i] : i \in W} |-> Cardinality({i \in W : key[i] = k})]

LEMMA CountsAt ==
    ASSUME NEW W, IsFiniteSet(W), NEW key, NEW k
    PROVE  /\ IsFiniteSet({i \in W : key[i] = k})
           /\ Cardinality({i \in W : key[i] = k}) \in Nat
           /\ SN!CountOf(CountsOf(W, key), k) = Cardinality({i \in W : key[i] = k})
  <1>1. IsFiniteSet({i \in W : key[i] = k})
    BY FS_Subset
  <1>2. Cardinality({i \in W : key[i] = k}) \in Nat
    BY <1>1, FS_CardinalityType
  <1>3. CASE k \in {key[i] : i \in W}
    <2>1. SN!CountOf(CountsOf(W, key), k) = Cardinality({i \in W : key[i] = k})
      BY <1>3 DEF SN!CountOf, CountsOf
    <2>2. QED BY <1>1, <1>2, <2>1
  <1>4. CASE k \notin {key[i] : i \in W}
    <2>1. {i \in W : key[i] = k} = {}
      BY <1>4
    <2>2. SN!CountOf(CountsOf(W, key), k) = 0
      BY <1>4 DEF SN!CountOf, CountsOf
    <2>3. QED BY <1>1, <1>2, <2>1, <2>2, FS_EmptySet
  <1>5. QED BY <1>3, <1>4

LEMMA CountsType ==
    ASSUME NEW W, IsFiniteSet(W), NEW key
    PROVE  /\ CountsOf(W, key) \in [{key[i] : i \in W} -> Nat]
           /\ IsFiniteSet({key[i] : i \in W})
  <1>1. ASSUME NEW k
        PROVE  Cardinality({i \in W : key[i] = k}) \in Nat
    BY FS_Subset, FS_CardinalityType
  <1>2. CountsOf(W, key) \in [{key[i] : i \in W} -> Nat]
    BY <1>1 DEF CountsOf
  <1>3. IsFiniteSet({key[i] : i \in W})
    <2> DEFINE f == [i \in W |-> key[i]]
    <2>1. f \in Surjection(W, {key[i] : i \in W})
      BY DEF Surjection
    <2>2. QED BY <2>1, FS_Surjection
  <1>4. QED BY <1>2, <1>3

\* ++counts[key] is the count of one more index, and adds one to the total.
LEMMA CountWritten ==
    ASSUME NEW W, IsFiniteSet(W), NEW key, NEW i, i \notin W
    PROVE  /\ SN!CountWrite(CountsOf(W, key), key[i]) = CountsOf(W \union {i}, key)
           /\ SumFunction(CountsOf(W \union {i}, key)) =
                    SumFunction(CountsOf(W, key)) + 1
           /\ SumFunction(CountsOf(W, key)) \in Nat
  <1> DEFINE V == W \union {i}
             K == {key[j] : j \in W}
             L == {key[j] : j \in V}
             c == CountsOf(W, key)
             d == CountsOf(V, key)
             x == key[i]
             At(S, k) == {j \in S : key[j] = k}
  <1>1. IsFiniteSet(V)
    BY FS_AddElement
  <1>2. /\ c \in [K -> Nat] /\ d \in [L -> Nat] /\ IsFiniteSet(K) /\ IsFiniteSet(L)
        /\ SN!CountOf(c, x) = Cardinality(At(W, x))
        /\ \A k : IsFiniteSet(At(W, k)) /\ Cardinality(At(W, k)) \in Nat
    <2>1. c \in [K -> Nat] /\ IsFiniteSet(K)
      BY CountsType
    <2>2. d \in [L -> Nat] /\ IsFiniteSet(L)
      <3> HIDE DEF V
      <3>1. QED BY <1>1, CountsType
    <2>3. ASSUME NEW k
          PROVE  /\ IsFiniteSet(At(W, k)) /\ Cardinality(At(W, k)) \in Nat
                 /\ SN!CountOf(c, k) = Cardinality(At(W, k))
      BY CountsAt
    <2> HIDE DEF c, d, At, K, L, x
    <2>4. QED BY <2>1, <2>2, <2>3
  <1>3. L = K \union {x}
    OBVIOUS
  <1>4. /\ \A k \in K : c[k] = Cardinality(At(W, k))
        /\ \A k \in L : d[k] = Cardinality(At(V, k))
    BY DEF CountsOf
  <1>5. \A k : k # x => At(V, k) = At(W, k)
    OBVIOUS
  <1>6. Cardinality(At(V, x)) = Cardinality(At(W, x)) + 1
    <2>1. At(V, x) = At(W, x) \union {i} /\ i \notin At(W, x)
      OBVIOUS
    <2> HIDE DEF At
    <2>2. QED BY <1>2, <2>1, FS_AddElement
  <1>7. x \notin K => Cardinality(At(W, x)) = 0
    <2>1. x \notin K => At(W, x) = {}
      OBVIOUS
    <2> HIDE DEF At
    <2>2. QED BY <2>1, FS_EmptySet
  <1> HIDE DEF K, L, c, d, x, At, V
  <1>8. \A k \in K : k # x => d[k] = c[k]
    BY <1>3, <1>4, <1>5
  <1>9. d[x] = Cardinality(At(W, x)) + 1 /\ x \in L
    BY <1>3, <1>4, <1>6
  <1>10. SN!CountWrite(c, x) = d
    <2>1. DOMAIN c = K /\ d = [k \in L |-> d[k]]
      BY <1>2
    <2>2. SN!CountWrite(c, x) = [k \in L |-> IF k = x THEN SN!CountOf(c, x) + 1 ELSE c[k]]
      BY <1>3, <2>1 DEF SN!CountWrite
    <2>3. \A k \in L : d[k] = IF k = x THEN SN!CountOf(c, x) + 1 ELSE c[k]
      BY <1>2, <1>3, <1>8, <1>9
    <2>4. QED BY <2>1, <2>2, <2>3
  <1>11. SumFunction(c) \in Nat
    BY <1>2, SumIsNatural
  <1>12. SumFunction(d) = SumFunction(c) + 1
    <2>1. CASE x \in K
      <3>1. L = K
        BY <1>3, <2>1
      <3>2. SumFunction(d) = SumFunction(c) - c[x] + d[x]
        BY <1>2, <1>8, <2>1, <3>1, SumChanges
      <3>3. c[x] = Cardinality(At(W, x)) /\ c[x] \in Nat
        BY <1>2, <1>4, <2>1
      <3>4. QED BY <1>9, <1>11, <3>2, <3>3
    <2>2. CASE x \notin K
      <3>1. \A k \in K : d[k] = c[k]
        BY <1>8, <2>2
      <3>2. SumFunction(d) = SumFunction(c) + d[x]
        BY <1>2, <1>3, <2>2, <3>1, SumGrows
      <3>3. QED BY <1>7, <1>9, <2>2, <3>2
    <2>3. QED BY <2>1, <2>2
  <1>13. QED BY <1>10, <1>11, <1>12 DEF c, d, x, V

-----------------------------------------------------------------------------
(* SNStats: the inductive invariant.                                       *)

LineKey == [i \in 0..n_unique_entries - 1 |-> trace[i].line_addr]
PageKey == [i \in 0..n_unique_entries - 1 |-> Page(i)]

\* The writes among the entries read so far.
Writes == {i \in 0..sn_n_requests - 1 : trace[i].is_write}

\* What is reported is the greatest count of the trace.
SNReported ==
    /\ sn_status = "reported" =>
        /\ sn_n_requests = n_unique_entries
        /\ \E l \in DOMAIN line_write_counts : line_write_counts[l] = most_written.line
        /\ \A l \in DOMAIN line_write_counts : line_write_counts[l] <= most_written.line
        /\ \E p \in DOMAIN page_write_counts : page_write_counts[p] = most_written.page
        /\ \A p \in DOMAIN page_write_counts : page_write_counts[p] <= most_written.page
    /\ sn_status = "crashed" =>
        /\ sn_n_requests = n_unique_entries
        /\ Writes = {}

SNInv ==
    /\ SNFirstPass
    /\ line_write_counts = CountsOf(Writes, LineKey)
    /\ page_write_counts = CountsOf(Writes, PageKey)
    /\ SumFunction(page_write_counts) = Cardinality(Writes)
    /\ sn_status \in {"running", "reported", "crashed"}
    /\ SNReported

\* The two readers share the file.
TraceGood == trace \in [0..n_unique_entries - 1 -> EntryChoices]

LEMMA WritesFacts ==
    ASSUME SNFirstPass
    PROVE  Writes \subseteq 0..n_unique_entries - 1 /\ IsFiniteSet(Writes)
  <1>1. sn_n_requests \in 0..n_unique_entries /\ n_unique_entries \in Nat
    BY DEF SNFirstPass
  <1>2. Writes \subseteq 0..n_unique_entries - 1
    BY <1>1 DEF Writes
  <1>3. IsFiniteSet(0..n_unique_entries - 1)
    BY <1>1, FS_Interval
  <1>4. QED BY <1>2, <1>3, FS_Subset

LEMMA NoCounts ==
    ASSUME NEW key
    PROVE  CountsOf({}, key) = <<>> /\ SumFunction(CountsOf({}, key)) = 0
  <1>1. {key[i] : i \in {}} = {}
    OBVIOUS
  <1>2. CountsOf({}, key) = [k \in {} |-> Cardinality({i \in {} : key[i] = k})]
    BY <1>1 DEF CountsOf
  <1>3. CountsOf({}, key) \in [{} -> Nat] /\ IsFiniteSet({})
    BY <1>2, FS_EmptySet
  <1>4. SumFunction(CountsOf({}, key)) = 0
    BY <1>3, SumOfZeros
  <1>5. CountsOf({}, key) = <<>>
    BY <1>2
  <1>6. QED BY <1>4, <1>5

LEMMA SNInitHolds ==
    ASSUME SN!Init
    PROVE  SNInv
  <1>1. SNFirstPass /\ sn_n_requests = 0
    BY SNFirstPassBegins DEF SN!Init
  <1>2. Writes = {}
    BY <1>1 DEF Writes
  <1>3. line_write_counts = <<>> /\ page_write_counts = <<>> /\ sn_status = "running"
    BY DEF SN!Init
  <1>4. SNReported
    BY <1>3 DEF SNReported
  <1>5. Cardinality(Writes) = 0
    BY <1>2, FS_EmptySet
  <1>6. QED BY <1>1, <1>2, <1>3, <1>4, <1>5, NoCounts DEF SNInv

LEMMA SNReadKeeps ==
    ASSUME SNInv, TraceGood, SN!ReadEntry
    PROVE  SNInv'
  <1> DEFINE i == sn_n_requests
  <1>1. /\ SNFirstPass' /\ sn_n_requests' = i + 1 /\ sn_entry' = i
        /\ i \in Nat /\ i < n_unique_entries /\ n_unique_entries \in Nat
        /\ n_unique_entries' = n_unique_entries
    BY SNFirstPassGoesOn DEF SNInv, SN!ReadEntry, SNFirstPass
  <1>2. /\ trace' = trace /\ sn_status = "running" /\ sn_status' = "running"
        /\ IF trace[i].is_write
           THEN /\ line_write_counts' =
                        SN!CountWrite(line_write_counts, trace[i].line_addr)
                /\ page_write_counts' =
                        SN!CountWrite(page_write_counts, SN!page_addr(trace[i].line_addr))
           ELSE UNCHANGED <<line_write_counts, page_write_counts>>
    BY <1>1 DEF SN!ReadEntry, SN!counters
  <1>3. Writes' = IF trace[i].is_write THEN Writes \union {i} ELSE Writes
    BY <1>1, <1>2 DEF Writes
  <1>4. /\ LineKey' = LineKey /\ LineKey[i] = trace[i].line_addr
        /\ PageKey' = PageKey /\ PageKey[i] = SN!page_addr(trace[i].line_addr)
    BY <1>1, <1>2 DEF LineKey, PageKey, Page, page_addr, SN!page_addr
  <1>5. IsFiniteSet(Writes) /\ i \notin Writes
    BY <1>1, WritesFacts DEF SNInv, Writes
  <1>6. /\ line_write_counts = CountsOf(Writes, LineKey)
        /\ page_write_counts = CountsOf(Writes, PageKey)
        /\ SumFunction(page_write_counts) = Cardinality(Writes)
    BY DEF SNInv
  <1>7. /\ line_write_counts' = CountsOf(Writes', LineKey)
        /\ page_write_counts' = CountsOf(Writes', PageKey)
        /\ SumFunction(page_write_counts') = Cardinality(Writes')
    <2>1. CASE ~trace[i].is_write
      BY <1>2, <1>3, <1>6, <2>1
    <2>2. CASE trace[i].is_write
      <3>1. /\ SN!CountWrite(CountsOf(Writes, LineKey), LineKey[i])
                    = CountsOf(Writes \union {i}, LineKey)
            /\ SN!CountWrite(CountsOf(Writes, PageKey), PageKey[i])
                    = CountsOf(Writes \union {i}, PageKey)
            /\ SumFunction(CountsOf(Writes \union {i}, PageKey))
                    = SumFunction(CountsOf(Writes, PageKey)) + 1
        BY <1>5, CountWritten
      <3>2. Cardinality(Writes \union {i}) = Cardinality(Writes) + 1
        BY <1>5, FS_AddElement
      <3>3. line_write_counts' = CountsOf(Writes', LineKey)
        BY <1>2, <1>3, <1>4, <1>6, <2>2, <3>1
      <3>4. page_write_counts' = CountsOf(Writes', PageKey)
        BY <1>2, <1>3, <1>4, <1>6, <2>2, <3>1
      <3>5. QED BY <1>3, <1>6, <2>2, <3>1, <3>2, <3>3, <3>4
    <2>3. QED BY <2>1, <2>2
  <1>8. SNReported'
    BY <1>2 DEF SNReported
  <1>9. CountsOf(Writes, LineKey)' = CountsOf(Writes', LineKey)
        /\ CountsOf(Writes, PageKey)' = CountsOf(Writes', PageKey)
    BY <1>4 DEF CountsOf
  <1>10. QED BY <1>1, <1>2, <1>7, <1>8, <1>9 DEF SNInv

\* The greatest count is that of a key, and no key has a greater one.
LEMMA LargestCountFacts ==
    ASSUME NEW S, IsFiniteSet(S), S # {}, NEW c \in [S -> Nat]
    PROVE  /\ \E k \in S : c[k] = SN!LargestCount(c)
           /\ \A k \in S : c[k] <= SN!LargestCount(c)
  <1> DEFINE C == {c[k] : k \in S}
  <1>1. c \in Surjection(S, C)
    BY DEF Surjection
  <1>2. IsFiniteSet(C) /\ C \in SUBSET Nat /\ C # {}
    BY <1>1, FS_Surjection
  <1>3. SN!LargestCount(c) = Max(C)
    BY DEF SN!LargestCount, SN!Max, Max
  <1> HIDE DEF C
  <1>4. Max(C) \in C /\ \A n \in C : n <= Max(C)
    BY <1>2, GreatestOfSet
  <1>5. QED BY <1>3, <1>4 DEF C

LEMMA CountsStay ==
    ASSUME SNInv, TraceGood, SNReaderStays,
           UNCHANGED <<trace, line_write_counts, page_write_counts>>
    PROVE  /\ SNFirstPass' /\ Writes' = Writes
           /\ line_write_counts' = CountsOf(Writes, LineKey)'
           /\ page_write_counts' = CountsOf(Writes, PageKey)'
           /\ SumFunction(page_write_counts') = Cardinality(Writes')
  <1>1. SNFirstPass'
    BY SNFirstPassStays DEF SNInv
  <1>2. UNCHANGED <<n_unique_entries, sn_n_requests, trace>>
    BY DEF SNReaderStays
  <1>3. Writes' = Writes /\ LineKey' = LineKey /\ PageKey' = PageKey
    BY <1>2 DEF Writes, LineKey, PageKey, Page, page_addr
  <1>4. /\ CountsOf(Writes, LineKey)' = CountsOf(Writes, LineKey)
        /\ CountsOf(Writes, PageKey)' = CountsOf(Writes, PageKey)
    BY <1>3 DEF CountsOf
  <1>5. QED BY <1>1, <1>3, <1>4 DEF SNInv

LEMMA SNEndOfPass ==
    ASSUME SNInv, SN!mtr!is_end_of_pass
    PROVE  sn_n_requests = n_unique_entries
  BY DEF SNInv, SNFirstPass, SN!mtr!is_end_of_pass

LEMMA SNCountsFacts ==
    ASSUME SNInv
    PROVE  /\ DOMAIN line_write_counts = {LineKey[i] : i \in Writes}
           /\ DOMAIN page_write_counts = {PageKey[i] : i \in Writes}
           /\ line_write_counts \in [DOMAIN line_write_counts -> Nat]
           /\ page_write_counts \in [DOMAIN page_write_counts -> Nat]
           /\ IsFiniteSet(DOMAIN line_write_counts)
           /\ IsFiniteSet(DOMAIN page_write_counts)
  <1>1. IsFiniteSet(Writes)
    BY WritesFacts DEF SNInv
  <1>2. /\ CountsOf(Writes, LineKey) \in [{LineKey[i] : i \in Writes} -> Nat]
        /\ IsFiniteSet({LineKey[i] : i \in Writes})
    BY <1>1, CountsType
  <1>3. /\ CountsOf(Writes, PageKey) \in [{PageKey[i] : i \in Writes} -> Nat]
        /\ IsFiniteSet({PageKey[i] : i \in Writes})
    BY <1>1, CountsType
  <1>4. /\ line_write_counts = CountsOf(Writes, LineKey)
        /\ page_write_counts = CountsOf(Writes, PageKey)
    BY DEF SNInv
  <1>5. QED BY <1>2, <1>3, <1>4

LEMMA SNAggregateKeeps ==
    ASSUME SNInv, TraceGood, SN!AggregateStats
    PROVE  SNInv'
  <1>1. /\ SNReaderStays /\ UNCHANGED <<trace, line_write_counts, page_write_counts>>
        /\ sn_status' = "reported" /\ DOMAIN line_write_counts # {}
        /\ most_written' = [line |-> SN!LargestCount(line_write_counts),
                            page |-> SN!LargestCount(page_write_counts)]
        /\ sn_n_requests = n_unique_entries
    BY SNEndOfPass DEF SN!AggregateStats, SN!counters, SN!reader, SNReaderStays
  <1>2. DOMAIN page_write_counts # {}
    BY <1>1, SNCountsFacts
  <1>3. /\ \E l \in DOMAIN line_write_counts :
                line_write_counts[l] = SN!LargestCount(line_write_counts)
        /\ \A l \in DOMAIN line_write_counts :
                line_write_counts[l] <= SN!LargestCount(line_write_counts)
    BY <1>1, SNCountsFacts, LargestCountFacts
  <1>4. /\ \E p \in DOMAIN page_write_counts :
                page_write_counts[p] = SN!LargestCount(page_write_counts)
        /\ \A p \in DOMAIN page_write_counts :
                page_write_counts[p] <= SN!LargestCount(page_write_counts)
    BY <1>2, SNCountsFacts, LargestCountFacts
  <1>5. SNReported'
    <2>1. /\ sn_n_requests' = n_unique_entries'
          /\ line_write_counts' = line_write_counts
          /\ page_write_counts' = page_write_counts
          /\ most_written'.line = SN!LargestCount(line_write_counts)
          /\ most_written'.page = SN!LargestCount(page_write_counts)
      BY <1>1 DEF SNReaderStays
    <2>2. QED BY <1>1, <1>3, <1>4, <2>1 DEF SNReported
  <1>6. QED BY <1>1, <1>5, CountsStay DEF SNInv

LEMMA SNAggregateNothingKeeps ==
    ASSUME SNInv, TraceGood, SN!AggregateNothing
    PROVE  SNInv'
  <1>1. /\ SNReaderStays /\ UNCHANGED <<trace, line_write_counts, page_write_counts>>
        /\ sn_status' = "crashed" /\ DOMAIN line_write_counts = {}
        /\ sn_n_requests = n_unique_entries
    BY SNEndOfPass DEF SN!AggregateNothing, SN!counters, SN!reader, SNReaderStays
  <1>2. Writes = {}
    BY <1>1, SNCountsFacts
  <1>3. SNReported'
    BY <1>1, <1>2, CountsStay DEF SNReported, SNReaderStays
  <1>4. QED BY <1>1, <1>3, CountsStay DEF SNInv

LEMMA SNStutterKeeps ==
    ASSUME SNInv, TraceGood, UNCHANGED <<n_unique_entries, trace, sn_vars>>
    PROVE  SNInv'
  <1>1. /\ SNReaderStays
        /\ UNCHANGED <<trace, line_write_counts, page_write_counts, most_written,
                       sn_status>>
    BY DEF sn_vars, SNReaderStays
  <1>2. SNReported'
    BY <1>1, CountsStay DEF SNInv, SNReported, SNReaderStays
  <1>3. QED BY <1>1, <1>2, CountsStay DEF SNInv

-----------------------------------------------------------------------------
(* Both tools.                                                             *)

InvBoth == Inv /\ SNInv

LEMMA InitBothHolds ==
    ASSUME InitBoth
    PROVE  InvBoth
  BY InitHolds, SNInitHolds DEF InitBoth, InvBoth

LEMMA MNStepStays ==
    ASSUME Inv, Next
    PROVE  UNCHANGED <<n_unique_entries, trace>>
  BY FirstPassGoesOn
     DEF Inv, Next, Access, AccessFromUnknownNode, AggregateStats, reader, args

LEMMA SNStepStays ==
    ASSUME SNInv, SN!Next
    PROVE  UNCHANGED <<n_unique_entries, trace>>
  BY SNFirstPassGoesOn
     DEF SNInv, SN!Next, SN!ReadEntry, SN!AggregateStats, SN!AggregateNothing,
         SN!reader

LEMMA NextBothKeeps ==
    ASSUME InvBoth, [NextBoth]_<<vars, sn_vars>>
    PROVE  InvBoth'
  <1>1. Inv /\ SNInv /\ TraceGood
    BY DEF InvBoth, Inv, TraceGood
  <1>2. CASE Next /\ UNCHANGED sn_vars
    <2>1. Inv'
      BY <1>1, <1>2, NextKeeps
    <2>2. SNInv'
      BY <1>1, <1>2, MNStepStays, SNStutterKeeps
    <2>3. QED BY <2>1, <2>2 DEF InvBoth
  <1>3. CASE SN!Next /\ UNCHANGED mn_vars
    <2>1. UNCHANGED vars
      BY <1>1, <1>3, SNStepStays DEF mn_vars, vars, reader, args, counters
    <2>2. Inv'
      BY <1>1, <2>1, NextKeeps
    <2>3. SNInv'
      BY <1>1, <1>3, SNReadKeeps, SNAggregateKeeps, SNAggregateNothingKeeps
         DEF SN!Next
    <2>4. QED BY <2>2, <2>3 DEF InvBoth
  <1>4. CASE UNCHANGED <<vars, sn_vars>>
    <2>1. Inv'
      BY <1>1, <1>4, NextKeeps
    <2>2. UNCHANGED <<n_unique_entries, trace, sn_vars>>
      BY <1>4 DEF vars, reader, args
    <2>3. SNInv'
      BY <1>1, <2>2, SNStutterKeeps
    <2>4. QED BY <2>1, <2>3 DEF InvBoth
  <1>5. QED BY <1>2, <1>3, <1>4 DEF NextBoth

\* Both tools' counts are those of what each has read of the one trace.
THEOREM BothInvariantHolds == SpecBoth => []InvBoth
  <1>1. InitBoth => InvBoth
    BY InitBothHolds
  <1>2. InvBoth /\ [NextBoth]_<<vars, sn_vars>> => InvBoth'
    BY NextBothKeeps
  <1>3. QED BY <1>1, <1>2, PTL DEF SpecBoth

\* The writes to a line, and those to a page.
ToLine(l) == {i \in Writes : LineKey[i] = l}
ToPage(p) == {i \in Writes : PageKey[i] = p}

LEMMA WritesCounted ==
    ASSUME SNInv
    PROVE  /\ \A l : SN!CountOf(line_write_counts, l) = Cardinality(ToLine(l))
           /\ \A p : SN!CountOf(page_write_counts, p) = Cardinality(ToPage(p))
           /\ \A l \in DOMAIN line_write_counts :
                    line_write_counts[l] = Cardinality(ToLine(l))
           /\ \A p \in DOMAIN page_write_counts :
                    page_write_counts[p] = Cardinality(ToPage(p))
           /\ \A l : IsFiniteSet(ToLine(l)) /\ Cardinality(ToLine(l)) \in Nat
           /\ \A p : IsFiniteSet(ToPage(p)) /\ Cardinality(ToPage(p)) \in Nat
  <1>1. IsFiniteSet(Writes)
    BY WritesFacts DEF SNInv
  <1>2. /\ line_write_counts = CountsOf(Writes, LineKey)
        /\ page_write_counts = CountsOf(Writes, PageKey)
    BY DEF SNInv
  <1>3. ASSUME NEW l
        PROVE  /\ SN!CountOf(line_write_counts, l) = Cardinality(ToLine(l))
               /\ IsFiniteSet(ToLine(l)) /\ Cardinality(ToLine(l)) \in Nat
    <2>1. /\ SN!CountOf(CountsOf(Writes, LineKey), l) =
                    Cardinality({i \in Writes : LineKey[i] = l})
          /\ IsFiniteSet({i \in Writes : LineKey[i] = l})
          /\ Cardinality({i \in Writes : LineKey[i] = l}) \in Nat
      BY <1>1, CountsAt
    <2>2. ToLine(l) = {i \in Writes : LineKey[i] = l}
      BY DEF ToLine
    <2>3. QED BY <1>2, <2>1, <2>2
  <1>4. ASSUME NEW p
        PROVE  /\ SN!CountOf(page_write_counts, p) = Cardinality(ToPage(p))
               /\ IsFiniteSet(ToPage(p)) /\ Cardinality(ToPage(p)) \in Nat
    <2>1. /\ SN!CountOf(CountsOf(Writes, PageKey), p) =
                    Cardinality({i \in Writes : PageKey[i] = p})
          /\ IsFiniteSet({i \in Writes : PageKey[i] = p})
          /\ Cardinality({i \in Writes : PageKey[i] = p}) \in Nat
      BY <1>1, CountsAt
    <2>2. ToPage(p) = {i \in Writes : PageKey[i] = p}
      BY DEF ToPage
    <2>3. QED BY <1>2, <2>1, <2>2
  <1>5. \A counts : \A k \in DOMAIN counts : SN!CountOf(counts, k) = counts[k]
    BY DEF SN!CountOf
  <1>6. QED BY <1>3, <1>4, <1>5

LEMMA WritesOfTrace ==
    ASSUME SNInv, TraceGood
    PROVE  /\ \A l : SN!WritesOf({l}) = ToLine(l)
           /\ \A p : SN!WritesOf(SN!PageLines(p)) = ToPage(p)
           /\ DOMAIN line_write_counts = {l \in SN!Lines : ToLine(l) # {}}
           /\ DOMAIN page_write_counts =
                    {SN!page_addr(l) : l \in DOMAIN line_write_counts}
  <1>1. /\ Writes \subseteq 0..n_unique_entries - 1
        /\ DOMAIN trace = 0..n_unique_entries - 1
    BY WritesFacts DEF SNInv, TraceGood
  <1>2. \A i \in Writes : /\ LineKey[i] = trace[i].line_addr
                         /\ PageKey[i] = SN!page_addr(trace[i].line_addr)
                         /\ trace[i].line_addr \in SN!Lines
    BY <1>1 DEF LineKey, PageKey, Page, page_addr, SN!page_addr, SN!Lines
  <1>3. ASSUME NEW S
        PROVE  SN!WritesOf(S) = {i \in Writes : trace[i].line_addr \in S}
    BY DEF SN!WritesOf, Writes
  <1>4. ASSUME NEW l PROVE SN!WritesOf({l}) = ToLine(l)
    BY <1>2, <1>3 DEF ToLine
  <1>5. ASSUME NEW p PROVE SN!WritesOf(SN!PageLines(p)) = ToPage(p)
    <2>1. \A i \in Writes : trace[i].line_addr \in SN!PageLines(p) <=> PageKey[i] = p
      BY <1>2 DEF SN!PageLines
    <2>2. QED BY <1>3, <2>1 DEF ToPage
  <1>6. DOMAIN line_write_counts = {LineKey[i] : i \in Writes}
        /\ DOMAIN page_write_counts = {PageKey[i] : i \in Writes}
    BY SNCountsFacts
  <1>7. DOMAIN line_write_counts = {l \in SN!Lines : ToLine(l) # {}}
    BY <1>2, <1>6 DEF ToLine
  <1>8. DOMAIN page_write_counts = {SN!page_addr(l) : l \in DOMAIN line_write_counts}
    BY <1>2, <1>6
  <1>9. QED BY <1>4, <1>5, <1>7, <1>8

LEMMA NothingToKey ==
    /\ \A l : ToLine(l) = {} => Cardinality(ToLine(l)) = 0
    /\ \A p : ToPage(p) = {} => Cardinality(ToPage(p)) = 0
  BY FS_EmptySet

\* The most written are so of all lines and pages, those not written included.
LEMMA MostWritten ==
    ASSUME SNInv, TraceGood, sn_status = "reported"
    PROVE  /\ most_written.line \in Nat /\ most_written.page \in Nat
           /\ \E l \in SN!Lines : Cardinality(ToLine(l)) = most_written.line
           /\ \A l \in SN!Lines : Cardinality(ToLine(l)) <= most_written.line
           /\ \E l \in SN!Lines :
                    Cardinality(ToPage(SN!page_addr(l))) = most_written.page
           /\ \A p : Cardinality(ToPage(p)) <= most_written.page
  <1>1. /\ \E l \in DOMAIN line_write_counts : line_write_counts[l] = most_written.line
        /\ \A l \in DOMAIN line_write_counts : line_write_counts[l] <= most_written.line
        /\ \E p \in DOMAIN page_write_counts : page_write_counts[p] = most_written.page
        /\ \A p \in DOMAIN page_write_counts : page_write_counts[p] <= most_written.page
    BY DEF SNInv, SNReported
  <1>2. most_written.line \in Nat /\ most_written.page \in Nat
    BY <1>1, SNCountsFacts
  <1>3. \E l \in SN!Lines : Cardinality(ToLine(l)) = most_written.line
    BY <1>1, WritesCounted, WritesOfTrace
  <1>4. ASSUME NEW l \in SN!Lines PROVE Cardinality(ToLine(l)) <= most_written.line
    <2>1. CASE l \in DOMAIN line_write_counts
      BY <1>1, <2>1, WritesCounted
    <2>2. CASE l \notin DOMAIN line_write_counts
      <3>1. Cardinality(ToLine(l)) = 0
        BY <2>2, WritesOfTrace, NothingToKey
      <3>2. QED BY <1>2, <3>1
    <2>3. QED BY <2>1, <2>2
  <1>5. \E l \in SN!Lines : Cardinality(ToPage(SN!page_addr(l))) = most_written.page
    <2>1. PICK p \in DOMAIN page_write_counts : page_write_counts[p] = most_written.page
      BY <1>1
    <2>2. PICK l \in SN!Lines : p = SN!page_addr(l)
      BY <2>1, WritesOfTrace
    <2>3. QED BY <2>1, <2>2, WritesCounted
  <1>6. ASSUME NEW p PROVE Cardinality(ToPage(p)) <= most_written.page
    <2>1. CASE p \in DOMAIN page_write_counts
      BY <1>1, <2>1, WritesCounted
    <2>2. CASE p \notin DOMAIN page_write_counts
      <3>1. ToPage(p) = {}
        BY <2>2, SNCountsFacts DEF ToPage
      <3>2. Cardinality(ToPage(p)) = 0
        BY <3>1, NothingToKey
      <3>3. QED BY <1>2, <3>2
    <2>3. QED BY <2>1, <2>2
  <1>7. QED BY <1>2, <1>3, <1>4, <1>5, <1>6

LEMMA SameCardinality == \A S : SN!Cardinality(S) = Cardinality(S)
  BY DEF SN!Cardinality, Cardinality

\* The single-node tool counts every write read, and nothing else, and reports
\* the greatest of its counts.
THEOREM SingleNodeTally == SpecBoth => []WritesTally
  <1>1. InvBoth => WritesTally
    <2>1. SUFFICES ASSUME SNInv, TraceGood PROVE SN!WritesTally
      BY DEF InvBoth, Inv, TraceGood, WritesTally
    <2>2. DOMAIN line_write_counts = {l \in SN!Lines : SN!WritesOf({l}) # {}}
      BY <2>1, WritesOfTrace
    <2>3. DOMAIN page_write_counts = {SN!page_addr(l) : l \in DOMAIN line_write_counts}
      BY <2>1, WritesOfTrace
    <2>4. \A l \in SN!Lines :
            SN!CountOf(line_write_counts, l) = Cardinality(SN!WritesOf({l}))
      BY <2>1, WritesOfTrace, WritesCounted
    <2>5. \A l \in SN!Lines :
            SN!CountOf(page_write_counts, SN!page_addr(l)) =
                Cardinality(SN!WritesOf(SN!PageLines(SN!page_addr(l))))
      BY <2>1, WritesOfTrace, WritesCounted
    <2>6. ASSUME sn_status = "reported"
          PROVE  /\ \E l \in SN!Lines :
                        Cardinality(SN!WritesOf({l})) = most_written.line
                 /\ \A l \in SN!Lines :
                    /\ Cardinality(SN!WritesOf({l})) <= most_written.line
                    /\ Cardinality(SN!WritesOf(SN!PageLines(SN!page_addr(l))))
                            <= most_written.page
                 /\ \E l \in SN!Lines :
                        Cardinality(SN!WritesOf(SN!PageLines(SN!page_addr(l))))
                            = most_written.page
      <3>1. /\ \A l : SN!WritesOf({l}) = ToLine(l)
            /\ \A p : SN!WritesOf(SN!PageLines(p)) = ToPage(p)
        BY <2>1, WritesOfTrace
      <3>2. QED BY <2>1, <2>6, <3>1, MostWritten
    <2>7. QED BY <2>2, <2>3, <2>4, <2>5, <2>6, SameCardinality DEF SN!WritesTally
  <1>2. QED BY <1>1, BothInvariantHolds, PTL

LEMMA FullPass ==
    ASSUME Inv, status = "reported"
    PROVE  /\ Counted = 0..n_unique_entries - 1
           /\ IsFiniteSet(Counted)
           /\ Cardinality(Counted) = n_unique_entries
           /\ all_reads + all_writes = n_unique_entries
           /\ AccessesOf(TRUE) = {i \in 0..n_unique_entries - 1 : trace[i].is_write}
  <1>1. /\ n_requests = n_unique_entries /\ n_unique_entries \in Nat
        /\ all_reads = Cardinality(AccessesOf(FALSE))
        /\ all_writes = Cardinality(AccessesOf(TRUE))
    BY DEF Inv, Reported, FirstPass
  <1>2. Counted = 0..n_unique_entries - 1
    BY <1>1 DEF Counted
  <1>3. IsFiniteSet(Counted) /\ Cardinality(Counted) = n_unique_entries
    BY <1>1, <1>2, FS_Interval
  <1>4. \A i \in Counted : trace[i].is_write \in BOOLEAN
    BY <1>2, EntryTypes DEF Inv
  <1>5. AccessesOf(TRUE) = {i \in 0..n_unique_entries - 1 : trace[i].is_write}
    BY <1>2, <1>4 DEF AccessesOf
  <1>6. /\ AccessesOf(FALSE) \union AccessesOf(TRUE) = Counted
        /\ AccessesOf(FALSE) \intersect AccessesOf(TRUE) = {}
    BY <1>4 DEF AccessesOf
  <1>7. IsFiniteSet(AccessesOf(FALSE)) /\ IsFiniteSet(AccessesOf(TRUE))
    BY <1>3, FS_Subset DEF AccessesOf
  <1>8. Cardinality(Counted) =
            Cardinality(AccessesOf(FALSE)) + Cardinality(AccessesOf(TRUE))
    <2> DEFINE R == AccessesOf(FALSE)
               W == AccessesOf(TRUE)
    <2>1. Cardinality(R) \in Nat /\ Cardinality(W) \in Nat
      BY <1>7, FS_CardinalityType
    <2> HIDE DEF R, W
    <2>2. Cardinality(R \union W) =
            Cardinality(R) + Cardinality(W) - Cardinality(R \intersect W)
      BY <1>7, FS_Union DEF R, W
    <2>3. Cardinality(R \intersect W) = 0
      BY <1>6, FS_EmptySet DEF R, W
    <2>4. Cardinality(R \union W) = Cardinality(R) + Cardinality(W)
      BY <2>1, <2>2, <2>3
    <2>5. QED BY <1>6, <2>4 DEF R, W
  <1>9. QED BY <1>1, <1>2, <1>3, <1>5, <1>8

\* A line is on one page, a page on one node, and the writes to a node are
\* among all writes.
LEMMA WornInOrder ==
    ASSUME Inv, SNInv, status = "reported", sn_status = "reported"
    PROVE  /\ most_written.line <= most_written.page
           /\ most_written.page <= stats.max_node_writes
           /\ stats.max_node_writes <= all_writes
  <1>1. TraceGood
    BY DEF Inv, TraceGood
  <1>2. /\ sn_n_requests = n_unique_entries
        /\ Counted = 0..n_unique_entries - 1 /\ IsFiniteSet(Counted)
        /\ AccessesOf(TRUE) = {i \in 0..n_unique_entries - 1 : trace[i].is_write}
    BY FullPass DEF SNInv, SNReported
  <1>3. Writes = AccessesOf(TRUE)
    BY <1>2 DEF Writes
  <1>4. most_written.line \in Nat /\ most_written.page \in Nat
    BY <1>1, MostWritten
  <1>5. /\ all_writes = Cardinality(AccessesOf(TRUE))
        /\ \E n \in Nodes : nodes[n].writes = stats.max_node_writes
        /\ \A n \in Nodes : nodes[n].writes <= stats.max_node_writes
        /\ \A n \in Nodes : nodes[n].writes \in Nat
        /\ stats.max_node_writes \in Nat
    BY DEF Inv, Reported, TypeOK
  <1>6. \A n \in Nodes : nodes[n].writes = Cardinality(Served(n, TRUE))
    BY TallyParts DEF Inv, NodesTally
  <1>7. most_written.line <= most_written.page
    <2>1. PICK l \in SN!Lines : Cardinality(ToLine(l)) = most_written.line
      BY <1>1, MostWritten
    <2>2. ToLine(l) \subseteq ToPage(SN!page_addr(l))
      BY <1>2, WritesFacts
         DEF SNInv, ToLine, ToPage, LineKey, PageKey, Page, page_addr, SN!page_addr
    <2>3. Cardinality(ToLine(l)) <= Cardinality(ToPage(SN!page_addr(l)))
      BY <2>2, WritesCounted, FS_Subset
    <2>4. Cardinality(ToPage(SN!page_addr(l))) <= most_written.page
      BY <1>1, MostWritten
    <2>5. Cardinality(ToPage(SN!page_addr(l))) \in Nat
      BY WritesCounted
    <2>6. QED BY <1>4, <2>1, <2>3, <2>4, <2>5
  <1>8. most_written.page <= stats.max_node_writes
    <2>1. PICK p \in DOMAIN page_write_counts : page_write_counts[p] = most_written.page
      BY DEF SNInv, SNReported
    <2>2. Cardinality(ToPage(p)) = most_written.page
      BY <2>1, WritesCounted
    <2>3. PICK j \in Writes : p = PageKey[j]
      BY <2>1, SNCountsFacts
    <2>4. \A i \in Writes : PageKey[i] = Page(i) /\ i \in Counted /\ trace[i].is_write = TRUE
      BY <1>2, <1>3 DEF PageKey, AccessesOf
    <2>5. p \in Touched
      BY <2>3, <2>4 DEF Touched, Page
    <2>6. pages[p].placement \in Nodes
      BY <2>5 DEF Inv, TypeOK
    <2> DEFINE n == pages[p].placement
    <2>7. ToPage(p) \subseteq Served(n, TRUE)
      BY <2>4 DEF ToPage, Served
    <2>8. IsFiniteSet(Served(n, TRUE))
      BY <1>2, FS_Subset DEF Served
    <2>9. Cardinality(ToPage(p)) <= Cardinality(Served(n, TRUE))
      BY <2>7, <2>8, FS_Subset
    <2>10. nodes[n].writes = Cardinality(Served(n, TRUE))
           /\ nodes[n].writes <= stats.max_node_writes /\ nodes[n].writes \in Nat
      BY <1>5, <1>6, <2>6
    <2>11. most_written.page <= nodes[n].writes
      BY <2>2, <2>9, <2>10
    <2> DEFINE w == nodes[n].writes
               m == stats.max_node_writes
    <2>12. most_written.page <= w /\ w <= m /\ w \in Nat /\ m \in Nat
      BY <1>5, <2>10, <2>11
    <2> HIDE DEF w, m
    <2>13. most_written.page <= m
      BY <1>4, <2>12
    <2>14. QED BY <2>13 DEF m
  <1>9. stats.max_node_writes <= all_writes
    <2>1. PICK n \in Nodes : nodes[n].writes = stats.max_node_writes
      BY <1>5
    <2>2. Served(n, TRUE) \subseteq AccessesOf(TRUE)
      BY DEF Served, AccessesOf
    <2>3. IsFiniteSet(AccessesOf(TRUE))
      BY <1>2, FS_Subset DEF AccessesOf
    <2>4. Cardinality(Served(n, TRUE)) <= Cardinality(AccessesOf(TRUE))
      BY <2>2, <2>3, FS_Subset
    <2>5. QED BY <1>5, <1>6, <2>1, <2>4
  <1>10. QED BY <1>7, <1>8, <1>9

\* The reports of the two tools on one trace fit together.
THEOREM Agreement == SpecBoth => []ToolsAgree
  <1>1. InvBoth => ToolsAgree
    <2>1. SUFFICES ASSUME Inv, SNInv, status = "reported"
                   PROVE  /\ sn_status = "reported" =>
                            /\ all_writes = SumFunction(page_write_counts)
                            /\ most_written.line <= most_written.page
                            /\ most_written.page <= stats.max_node_writes
                            /\ stats.max_node_writes <= all_writes
                          /\ sn_status = "crashed" => all_writes = 0
                          /\ all_reads + all_writes = n_unique_entries
      BY DEF InvBoth, ToolsAgree
    <2>2. all_writes = Cardinality(AccessesOf(TRUE))
      BY <2>1 DEF Inv, Reported
    <2>3. sn_status \in {"reported", "crashed"} => Writes = AccessesOf(TRUE)
      BY <2>1, FullPass DEF SNInv, SNReported, Writes
    <2>4. sn_status = "reported" => all_writes = SumFunction(page_write_counts)
      BY <2>1, <2>2, <2>3 DEF SNInv
    <2>5. sn_status = "crashed" => all_writes = 0
      <3>1. sn_status = "crashed" => AccessesOf(TRUE) = {}
        BY <2>1, <2>3 DEF SNInv, SNReported
      <3>2. QED BY <2>2, <3>1, FS_EmptySet
    <2>6. all_reads + all_writes = n_unique_entries
      BY <2>1, FullPass
    <2>7. QED BY <2>1, <2>4, <2>5, <2>6, WornInOrder
  <1>2. QED BY <1>1, BothInvariantHolds, PTL

=============================================================================
