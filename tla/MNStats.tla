-------------------------------- MODULE MNStats --------------------------------
(***************************************************************************)
(* Multi-node access statistics (mnstats/MNStats.cpp, Page.h and Node.h):  *)
(* one pass over a trace through a MemTraceReader, which places each page  *)
(* on a node when it is first touched and counts the accesses to it, once  *)
(* with the page and once with the node.                                   *)
(***************************************************************************)
EXTENDS Integers, FiniteSets, FiniteSetsExt, Functions

CONSTANTS
    TraceLengths, BufferLengths, MaxRequests,   \* those of MemTraceReader
    EntryChoices,       \* the entries a trace may have
    LinesPerPage,       \* page size over line size
    NodeCounts          \* the values of -n a behaviour may start with

ASSUME ReaderAssumption ==
    /\ TraceLengths \subseteq Nat \ {0}
    /\ BufferLengths \subseteq Nat \ {0}
    /\ MaxRequests \in Nat

ASSUME EntriesAssumption ==
    /\ EntryChoices \subseteq [node_num : Nat, is_write : BOOLEAN, line_addr : Nat]
    /\ LinesPerPage \in Nat \ {0}
    /\ NodeCounts \subseteq Nat \ {0}

VARIABLES
    n_unique_entries, buffer_size_entries, stream, buffer_curr_entry,
    full_trace_entry_ctr, n_full_passes, n_requests, entry, queried, served,
    handed,                 \* those of MemTraceReader
    trace,                  \* what the file holds
    allocation_mode,        \* -a
    n_nodes,                \* -n
    pages,                  \* page -> its placement and counters
    nodes,                  \* node -> its counters
    curr_interleave_node,
    stats,                  \* what aggregate_stats adds up
    status

mtr == INSTANCE MemTraceReader

reader == <<n_unique_entries, buffer_size_entries, stream, buffer_curr_entry,
            full_trace_entry_ctr, n_full_passes, n_requests, entry, queried,
            served, handed>>

args == <<trace, allocation_mode, n_nodes>>
counters == <<pages, nodes, curr_interleave_node>>
vars == <<reader, args, counters, stats, status>>

Nodes == 0..n_nodes - 1

page_addr(line) == line \div LinesPerPage

ZeroStats == [on_node_reads |-> 0, off_node_reads |-> 0,
              on_node_writes |-> 0, off_node_writes |-> 0,
              max_node_reads |-> 0, max_node_writes |-> 0]

Init ==
    /\ mtr!Init
    /\ trace \in [0..n_unique_entries - 1 -> EntryChoices]
    /\ allocation_mode \in {"first_touch", "interleave"}
    /\ n_nodes \in NodeCounts
    /\ pages = <<>>
    /\ nodes = [n \in Nodes |-> [reads |-> 0, writes |-> 0]]
    /\ curr_interleave_node = 0
    /\ stats = ZeroStats
    /\ status = "running"

-----------------------------------------------------------------------------
(* One entry of the trace.                                                 *)

\* Faulty variant: the next node is not taken modulo their number.
UnboundedNextNode == curr_interleave_node + 1

NextNode == (curr_interleave_node + 1) % n_nodes

NewPage(placement) ==
    [placement |-> placement, on_node_reads |-> 0, off_node_reads |-> 0,
     on_node_writes |-> 0, off_node_writes |-> 0]

\* Faulty variant: under first touch, too, the interleaved node is taken.
InterleavedPlacement(requesting_node) == curr_interleave_node

Placement(requesting_node) ==
    IF allocation_mode = "first_touch"
    THEN requesting_node
    ELSE curr_interleave_node

\* map_addr_to_page: the page, placed now if it has no placement yet.
PageOf(p, requesting_node) ==
    IF p \in DOMAIN pages THEN pages[p] ELSE NewPage(Placement(requesting_node))

CountAccess(page, e) ==
    CASE ~e.is_write /\ page.placement = e.node_num -> [page EXCEPT !.on_node_reads = @ + 1]
      [] ~e.is_write /\ page.placement # e.node_num -> [page EXCEPT !.off_node_reads = @ + 1]
      [] e.is_write /\ page.placement = e.node_num  -> [page EXCEPT !.on_node_writes = @ + 1]
      [] e.is_write /\ page.placement # e.node_num  -> [page EXCEPT !.off_node_writes = @ + 1]

CountOnNode(node, e) ==
    IF e.is_write THEN [node EXCEPT !.writes = @ + 1] ELSE [node EXCEPT !.reads = @ + 1]

\* Faulty variant: the node that asks is charged.
RequestingNode(page, e) == e.node_num

\* The node that serves the access is the one its counters go to.
ServingNode(page, e) == page.placement

Access ==
    /\ status = "running"
    /\ ~mtr!is_end_of_pass
    /\ mtr!NextEntry
    /\ LET e == trace[entry']
           p == page_addr(e.line_addr)
           page == PageOf(p, e.node_num)
           n == ServingNode(page, e)
       IN /\ e.node_num \in Nodes
          /\ pages' = [q \in DOMAIN pages \union {p} |->
                        IF q = p THEN CountAccess(page, e) ELSE pages[q]]
          /\ nodes' = [nodes EXCEPT ![n] = CountOnNode(@, e)]
          /\ curr_interleave_node' =
                IF p \in DOMAIN pages \/ allocation_mode = "first_touch"
                THEN curr_interleave_node
                ELSE NextNode
    /\ UNCHANGED <<args, stats, status>>

\* The node number of the trace indexes vectors of n_nodes elements, unchecked.
AccessFromUnknownNode ==
    /\ status = "running"
    /\ ~mtr!is_end_of_pass
    /\ mtr!NextEntry
    /\ trace[entry'].node_num \notin Nodes
    /\ status' = "undefined"
    /\ UNCHANGED <<args, counters, stats>>

-----------------------------------------------------------------------------
(* After the pass.                                                         *)

OverPages(field) == SumFunction([p \in DOMAIN pages |-> pages[p][field]])

\* Faulty variant: only the accesses that stay on their node are writes.
OnNodeWrites == stats.on_node_writes

all_writes == stats.on_node_writes + stats.off_node_writes
all_reads == stats.on_node_reads + stats.off_node_reads

\* The pages placed on each node.
node_rss_pages(n) == Cardinality({p \in DOMAIN pages : pages[p].placement = n})

AggregateStats ==
    /\ status = "running"
    /\ mtr!is_end_of_pass
    /\ stats' = [on_node_reads |-> OverPages("on_node_reads"),
                 off_node_reads |-> OverPages("off_node_reads"),
                 on_node_writes |-> OverPages("on_node_writes"),
                 off_node_writes |-> OverPages("off_node_writes"),
                 max_node_reads |-> Max({nodes[n].reads : n \in Nodes}),
                 max_node_writes |-> Max({nodes[n].writes : n \in Nodes})]
    /\ status' = "reported"
    /\ UNCHANGED <<reader, args, counters>>

Next == Access \/ AccessFromUnknownNode \/ AggregateStats

Spec == Init /\ [][Next]_vars

-----------------------------------------------------------------------------
(* Properties                                                              *)

\* Every variable holds a value of its C++ type, and nodes are only ever
\* indexed within bounds.
TypeOK ==
    /\ allocation_mode \in {"first_touch", "interleave"}
    /\ n_nodes \in NodeCounts
    /\ \A p \in DOMAIN pages :
        pages[p] \in [placement : Nodes, on_node_reads : Nat, off_node_reads : Nat,
                      on_node_writes : Nat, off_node_writes : Nat]
    /\ nodes \in [Nodes -> [reads : Nat, writes : Nat]]
    /\ curr_interleave_node \in Nodes
    /\ stats \in [on_node_reads : Nat, off_node_reads : Nat,
                  on_node_writes : Nat, off_node_writes : Nat,
                  max_node_reads : Nat, max_node_writes : Nat]
    /\ status \in {"running", "reported", "undefined"}

\* The entries counted so far, which the trace itself says touch page p.
Counted ==
    IF status = "undefined" THEN 0..n_requests - 2 ELSE 0..n_requests - 1
Touching(p) == {i \in Counted : page_addr(trace[i].line_addr) = p}
FirstTouch(p) == Min(Touching(p))
Touched == {page_addr(trace[i].line_addr) : i \in Counted}

\* A page stays where it was put when the trace first touched it: on the node
\* that touched it, or, interleaved, the k-th page to be touched on node k - 1
\* modulo the number of nodes, so that the resident sets reported for two nodes
\* differ by a page at most.
PlacementByPolicy ==
    /\ DOMAIN pages = Touched
    /\ \A p \in Touched :
        LET before == {q \in Touched : FirstTouch(q) < FirstTouch(p)}
        IN pages[p].placement =
            IF allocation_mode = "first_touch"
            THEN trace[FirstTouch(p)].node_num
            ELSE Cardinality(before) % n_nodes
    /\ allocation_mode = "interleave" =>
        \A n, m \in Nodes : node_rss_pages(n) <= node_rss_pages(m) + 1

Count(S, n, write) ==
    Cardinality({i \in S : trace[i].node_num = n /\ trace[i].is_write = write})

\* The two ways accesses are counted tally with the trace and with each other:
\* a page's counters with the entries that touch it from its own node and from
\* the others, and a node's with the accesses to the pages placed on it, from
\* wherever they come.
AccessesTally ==
    /\ \A p \in DOMAIN pages :
        LET page == pages[p]
            home == page.placement
            off(write) == Cardinality({i \in Touching(p) :
                trace[i].node_num # home /\ trace[i].is_write = write})
        IN /\ page.on_node_reads = Count(Touching(p), home, FALSE)
           /\ page.on_node_writes = Count(Touching(p), home, TRUE)
           /\ page.off_node_reads = off(FALSE)
           /\ page.off_node_writes = off(TRUE)
    /\ \A n \in Nodes :
        LET served_here(write) == {i \in Counted :
                /\ pages[page_addr(trace[i].line_addr)].placement = n
                /\ trace[i].is_write = write}
        IN /\ nodes[n].reads = Cardinality(served_here(FALSE))
           /\ nodes[n].writes = Cardinality(served_here(TRUE))
=============================================================================
