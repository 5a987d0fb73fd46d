------------------------------- MODULE Trace -------------------------------
(***************************************************************************)
(* Tracing a cable: trace_cable of services/connectivity.py, while cables  *)
(* are being created (Connectivity).                                       *)
(*                                                                         *)
(* A trace starts at the two ports of a cable and expands the graph in     *)
(* batches; the cables and mappings of a batch are selected from what is   *)
(* committed then, so a trace of several batches sees no single state of   *)
(* the graph.  From what it collected it answers with a longest walk that  *)
(* contains the cable.  The frontier is filled in the order of rows that   *)
(* are selected without an order: the model lets a batch be any part of    *)
(* it, which includes the code's choice, the ports that came first.        *)
(***************************************************************************)
EXTENDS Connectivity

CONSTANTS
    Mappings,        \* port mappings of the devices, as pairs of ports
    BatchSize,       \* ports expanded at once, 100 in the code
    MaxTraceNodes    \* MAX_TRACE_NODES, 500 in the code

(* What create_device_from_template stores: lanes of two ports each.       *)
ASSUME MappingsAreLanes ==
    /\ Mappings \subseteq Ports \X Ports
    /\ \A m \in Mappings : m[1] # m[2]
    /\ \A m, n \in Mappings : m # n => {m[1], m[2]} \cap {n[1], n[2]} = {}

ASSUME GraphIsFinite == IsFiniteSet(Ports) /\ IsFiniteSet(Cables)

ASSUME TraceBounds == BatchSize \in Nat \ {0} /\ MaxTraceNodes \in Nat

VARIABLE trace   \* the trace under way, or the last one and its answer

allVars == <<cables, audit, req, trace>>

----------------------------------------------------------------------------
(* The graph                                                               *)

CableEdge(c) == [ends |-> {cables[c].a, cables[c].b}, kind |-> "cable", id |-> c]
MappingEdge(m) == [ends |-> {m[1], m[2]}, kind |-> "mapping", id |-> m]

CableEdges == { CableEdge(c) : c \in { d \in Cables : Stored(d) } }
MappingEdges == { MappingEdge(m) : m \in Mappings }

NoTrace == [at |-> "idle", cable |-> None, frontier |-> {}, visited |-> {}, edges |-> {},
            owed |-> {}, nodes |-> <<>>, hops |-> <<>>]

(* All ports that cables and mappings connect to those of from.            *)
Component(from) ==
    LET Closed(S) == \A e \in CableEdges \cup MappingEdges :
                        e.ends \cap S # {} => e.ends \subseteq S
    IN { p \in Ports : \A S \in SUBSET Ports : from \subseteq S /\ Closed(S) => p \in S }

----------------------------------------------------------------------------
(* _expand_graph                                                           *)

(* owed is no part of the code: the ports connected when the trace began.  *)
BeginTrace(c) ==
    /\ trace.at # "expand"
    /\ Stored(c)
    /\ trace' = [NoTrace EXCEPT !.at = "expand", !.cable = c,
                                !.frontier = CableEdge(c).ends,
                                !.owed = Component(CableEdge(c).ends)]
    /\ UNCHANGED vars

TouchingOneEnd(batch) ==
    { e \in CableEdges : e.ends \subseteq batch }
        \cup { e \in MappingEdges : e.ends \cap batch # {} }
Touching(batch) == { e \in CableEdges \cup MappingEdges : e.ends \cap batch # {} }

UnseenRevisiting(found, visited) == UNION { e.ends : e \in found }
Unseen(found, visited) == (UNION { e.ends : e \in found }) \ visited

Batch(frontier) ==
    { B \in SUBSET frontier : \/ Cardinality(B) = BatchSize
                              \/ B = frontier /\ Cardinality(B) < BatchSize }

TooMany(batch, visited) == Cardinality(batch \cup visited) > MaxTraceNodes

Expand ==
    /\ trace.at = "expand" /\ trace.frontier # {}
    /\ \E batch \in Batch(trace.frontier) :
         LET visited == trace.visited \cup batch
             found == Touching(batch)
         IN trace' = IF TooMany(batch, trace.visited)
                     THEN [trace EXCEPT !.at = "refused"]
                     ELSE [trace EXCEPT !.visited = visited,
                                        !.edges = @ \cup found,
                                        !.frontier = (@ \ batch) \cup Unseen(found, visited)]
    /\ UNCHANGED vars

----------------------------------------------------------------------------
(* _longest_path_containing_cable                                          *)

(* A walk visits no port twice: hops[n] leads from nodes[n] to nodes[n+1]. *)
Nodes(w) == { w.nodes[n] : n \in DOMAIN w.nodes }

IsWalk(w) ==
    /\ \A n \in DOMAIN w.hops : w.hops[n].ends = {w.nodes[n], w.nodes[n + 1]}
    /\ \A m, n \in DOMAIN w.nodes : w.nodes[m] = w.nodes[n] => m = n

Paths(edges) ==
    { w \in [nodes : Seq(Ports), hops : Seq(edges)] :
        Len(w.nodes) = Len(w.hops) + 1 /\ IsWalk(w) }

Start(p) == [nodes |-> <<p>>, hops |-> <<>>]

OneHopMore(w, e) ==
    [nodes |-> Append(w.nodes, CHOOSE q \in e.ends : q # w.nodes[Len(w.nodes)]),
     hops |-> Append(w.hops, e)]

(* The edges of the last port that lead to one not visited.                *)
NextHops(w, edges) ==
    { e \in edges : w.nodes[Len(w.nodes)] \in e.ends /\ ~(e.ends \subseteq Nodes(w)) }

(* What dfs comes by, when it is called with w: it takes back the ports of *)
(* a branch before it turns to the next.                                   *)
Dfs(edges) ==
    LET dfs[w \in Paths(edges)] ==
            {w} \cup UNION { dfs[OneHopMore(w, e)] : e \in NextHops(w, edges) }
    IN dfs

Contains(w, c) == \E n \in DOMAIN w.hops : w.hops[n].kind = "cable" /\ w.hops[n].id = c

(* Where the search starts: the ports on one edge, or any one of a loop.   *)
Starts(edges) ==
    LET ports == UNION { e.ends : e \in edges }
        leaves == { p \in ports : Cardinality({ e \in edges : p \in e.ends }) <= 1 }
    IN IF leaves = {} THEN { {p} : p \in ports } ELSE {leaves}

LongestWalksOfAny(starts, edges, c) ==
    LET walks == UNION { Dfs(edges)[Start(p)] : p \in starts }
    IN { w \in walks : \A v \in walks : Len(v.nodes) <= Len(w.nodes) }
LongestWalks(starts, edges, c) ==
    LET walks == { w \in UNION { Dfs(edges)[Start(p)] : p \in starts } : Contains(w, c) }
    IN { w \in walks : \A v \in walks : Len(v.nodes) <= Len(w.nodes) }

Selected(c) == [nodes |-> <<cables[c].a, cables[c].b>>, hops |-> <<CableEdge(c)>>]

Answer ==
    /\ trace.at = "expand" /\ trace.frontier = {}
    /\ \E starts \in Starts(trace.edges) :
         LET longest == LongestWalks(starts, trace.edges, trace.cable)
         IN \E w \in IF longest = {} THEN {Selected(trace.cable)} ELSE longest :
              trace' = [trace EXCEPT !.at = "done", !.nodes = w.nodes, !.hops = w.hops]
    /\ UNCHANGED vars

----------------------------------------------------------------------------
TraceInit == Init /\ trace = NoTrace

TraceNext ==
    \/ Next /\ UNCHANGED trace
    \/ \E c \in Cables : BeginTrace(c)
    \/ Expand
    \/ Answer

(* A trace is one request thread, which runs until it answers.             *)
TraceSpec == TraceInit /\ [][TraceNext]_allVars /\ WF_allVars(Expand \/ Answer)

----------------------------------------------------------------------------
(* Properties                                                              *)

(* However cables are created while a trace runs, its answer is a walk     *)
(* that is really there: every hop is a committed cable or mapping between *)
(* the ports beside it, no port comes twice, the traced cable is among the *)
(* hops (connectivity.py 207-240).                                         *)
TraceIsAWalk ==
    trace.at = "done" =>
        /\ \A n \in DOMAIN trace.hops :
             /\ trace.hops[n] \in CableEdges \cup MappingEdges
             /\ trace.hops[n].ends = {trace.nodes[n], trace.nodes[n + 1]}
        /\ \A m, n \in DOMAIN trace.nodes : trace.nodes[m] = trace.nodes[n] => m = n
        /\ Contains(trace, trace.cable)

(* A trace leaves out nothing that was connected to the cable when it      *)
(* began, loops included: one cable and one mapping per port make every    *)
(* component a line or a ring.  It is refused when more than MAX_TRACE_    *)
(* NODES ports are connected, and only then (connectivity.py 139-205).     *)
TraceIsWhole ==
    /\ trace.at = "done" => /\ trace.owed \subseteq Nodes(trace)
                            /\ Cardinality(trace.owed) <= MaxTraceNodes
    /\ trace.at = "refused" => Cardinality(Component({cables[trace.cable].a})) > MaxTraceNodes

(* Every trace answers, on loops as well, even if cables keep appearing.   *)
TraceEnds == (trace.at = "expand") ~> (trace.at # "expand")

=============================================================================
