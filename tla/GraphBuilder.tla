----------------------------- MODULE GraphBuilder -----------------------------
(***************************************************************************)
(* The Builder (graph/builder.go): nodes, edges and routes are registered  *)
(* in any order, and Compile checks them and returns a copy that runs can  *)
(* be made of.  The builder can be used on, and compiled again.            *)
(*                                                                         *)
(* Every method holds the builder's mutex.  One that panics changes        *)
(* nothing, and is therefore no step here.                                 *)
(***************************************************************************)
CONSTANTS
    Names,          \* the strings callers use as names and routes return
    START, END,
    Empty           \* the empty string

VARIABLES
    nodes, edges, routes, entry,    \* of the Builder
    compiled                        \* what Compile has returned so far

bvars == <<nodes, edges, routes, entry, compiled>>

BuilderInit ==
    /\ nodes = {}
    /\ edges = [n \in {} |-> END]
    /\ routes = {}
    /\ entry = Empty
    /\ compiled = {}

\* Neither reserved nor registered before.
AddNode(name) ==
    /\ name \notin {Empty, START, END} \cup nodes
    /\ nodes' = nodes \cup {name}
    /\ UNCHANGED <<edges, routes, entry, compiled>>

SetEntry(name) ==
    /\ entry' = name
    /\ UNCHANGED <<nodes, edges, routes, compiled>>

\* A second edge replaces the first; a route is not replaced.
AddEdge(from, to) ==
    /\ from \notin routes
    /\ edges' = [n \in DOMAIN edges \cup {from} |-> IF n = from THEN to ELSE edges[n]]
    /\ UNCHANGED <<nodes, routes, entry, compiled>>

AddConditionalEdges(from) ==
    /\ from \notin DOMAIN edges
    /\ routes' = routes \cup {from}
    /\ UNCHANGED <<nodes, edges, entry, compiled>>

\* What Compile checks of the topology.
Valid ==
    /\ entry \in nodes
    /\ \A from \in DOMAIN edges :
         from \in nodes \cup {START} /\ edges[from] \in nodes \cup {END}
    /\ routes \subseteq nodes

Compile ==
    /\ Valid
    /\ compiled' = compiled \cup
         {[nodes |-> nodes, edges |-> edges, routes |-> routes, entry |-> entry]}
    /\ UNCHANGED <<nodes, edges, routes, entry>>

BuilderNext ==
    \/ \E name \in Names : AddNode(name) \/ SetEntry(name) \/ AddConditionalEdges(name)
    \/ \E from, to \in Names : AddEdge(from, to)
    \/ Compile

BuilderSpec == BuilderInit /\ [][BuilderNext]_bvars

-----------------------------------------------------------------------------
\* A route answers neither a node nor END nor nothing: the run fails.
RouteFails(g, from, answer) ==
    from \in g.routes /\ answer \notin g.nodes \cup {END, Empty}

\* Compiled.next: where a run goes from a node, given what its route answers.
NextNode(g, from, answer) ==
    IF from \in g.routes THEN IF answer = Empty THEN END ELSE answer
    ELSE IF from \in DOMAIN g.edges THEN g.edges[from] ELSE END

\* The nodes a run may go to from n: Succ of GraphRuntime.
Successors(g, n) ==
    {NextNode(g, n, a) : a \in {a \in Names : ~RouteFails(g, n, a)}}

\* What GraphRuntime assumes of a graph: it starts at a node, END is none, and
\* every step leads to a node or to END; a node without a route always has a
\* successor.
WellFormed(g) ==
    /\ g.entry \in g.nodes
    /\ g.nodes \cap {Empty, START, END} = {}
    /\ \A n \in g.nodes : Successors(g, n) \subseteq g.nodes \cup {END}
    /\ \A n \in g.nodes \ g.routes : Successors(g, n) # {}

\* Whatever Compile has returned can be run, and remains as it is when the
\* builder is used on.
CompiledIsWellFormed == \A g \in compiled : WellFormed(g)

\* A node has a fixed edge or a route, never both, in the builder and in what
\* it has compiled: next prefers the route silently.
EdgesApartFromRoutes ==
    /\ routes \cap DOMAIN edges = {}
    /\ \A g \in compiled : g.routes \cap DOMAIN g.edges = {}
=============================================================================
