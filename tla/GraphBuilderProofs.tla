-------------------------- MODULE GraphBuilderProofs --------------------------
(***************************************************************************)
(* What Compile has checked is enough for a run: CompiledIsWellFormed, for *)
(* every set of names and every sequence of builder calls.                 *)
(***************************************************************************)
EXTENDS GraphBuilder, TLAPS

\* A graph as the checks of Compile and the guard of AddNode leave it.
Checked(g) ==
    /\ g.nodes \subseteq Names \ {Empty, START, END}
    /\ g.entry \in g.nodes
    /\ \A from \in DOMAIN g.edges : g.edges[from] \in g.nodes \cup {END}
    /\ g.routes \subseteq g.nodes

\* The inductive invariant: reserved names never become nodes, edges and
\* routes stay apart, and what was compiled was checked.
BuilderInv ==
    /\ nodes \subseteq Names \ {Empty, START, END}
    /\ EdgesApartFromRoutes
    /\ \A g \in compiled : Checked(g)

\* Of a graph that was checked, next leads to nodes and to END only.
LEMMA NextOfChecked ==
    ASSUME NEW g, Checked(g), NEW n \in g.nodes, NEW answer \in Names,
           ~RouteFails(g, n, answer)
    PROVE  NextNode(g, n, answer) \in g.nodes \cup {END}
BY DEF Checked, NextNode, RouteFails

\* What the checks of Compile accept is well formed.
LEMMA CheckedIsWellFormed == ASSUME NEW g, Checked(g) PROVE WellFormed(g)
<1>1. g.entry \in g.nodes /\ g.nodes \cap {Empty, START, END} = {}
  BY DEF Checked
<1>2. ASSUME NEW n \in g.nodes PROVE Successors(g, n) \subseteq g.nodes \cup {END}
  BY NextOfChecked DEF Successors
<1>3. ASSUME NEW n \in g.nodes \ g.routes PROVE Successors(g, n) # {}
  <2>1. n \in Names /\ ~RouteFails(g, n, n)
    BY DEF Checked, RouteFails
  <2>. QED BY <2>1 DEF Successors
<1>. QED BY <1>1, <1>2, <1>3 DEF WellFormed

\* A new Builder satisfies the invariant.
LEMMA BuilderInvInitially == BuilderInit => BuilderInv
BY DEF BuilderInit, BuilderInv, EdgesApartFromRoutes

\* Every call of the Builder keeps the invariant.
LEMMA BuilderInvKept == BuilderInv /\ [BuilderNext]_bvars => BuilderInv'
<1>. SUFFICES ASSUME BuilderInv, [BuilderNext]_bvars PROVE BuilderInv'
  OBVIOUS
<1>1. ASSUME NEW name \in Names, AddNode(name) PROVE BuilderInv'
  BY <1>1 DEF BuilderInv, AddNode, EdgesApartFromRoutes, Checked
<1>2. ASSUME NEW name \in Names, SetEntry(name) PROVE BuilderInv'
  BY <1>2 DEF BuilderInv, SetEntry, EdgesApartFromRoutes, Checked
<1>3. ASSUME NEW name \in Names, AddConditionalEdges(name) PROVE BuilderInv'
  BY <1>3 DEF BuilderInv, AddConditionalEdges, EdgesApartFromRoutes, Checked
<1>4. ASSUME NEW from \in Names, NEW to \in Names, AddEdge(from, to) PROVE BuilderInv'
  <2>1. DOMAIN edges' = DOMAIN edges \cup {from}
    BY <1>4 DEF AddEdge
  <2>. QED BY <1>4, <2>1 DEF BuilderInv, AddEdge, EdgesApartFromRoutes, Checked
<1>5. CASE Compile
  <2>. DEFINE new == [nodes |-> nodes, edges |-> edges, routes |-> routes, entry |-> entry]
  <2>1. Checked(new)
    BY <1>5 DEF Compile, Valid, BuilderInv, Checked
  <2>2. new.routes \cap DOMAIN new.edges = {}
    BY DEF BuilderInv, EdgesApartFromRoutes
  <2>3. \A g \in compiled' : g \in compiled \/ g = new
    BY <1>5 DEF Compile
  <2>. HIDE DEF new
  <2>4. \A g \in compiled' : Checked(g) /\ g.routes \cap DOMAIN g.edges = {}
    BY <2>1, <2>2, <2>3 DEF BuilderInv, EdgesApartFromRoutes
  <2>5. UNCHANGED <<nodes, edges, routes>>
    BY <1>5 DEF Compile
  <2>. QED BY <2>4, <2>5 DEF BuilderInv, EdgesApartFromRoutes, Checked
<1>6. CASE UNCHANGED bvars
  BY <1>6 DEF BuilderInv, bvars, EdgesApartFromRoutes, Checked
<1>. QED BY <1>1, <1>2, <1>3, <1>4, <1>5, <1>6 DEF BuilderNext

\* Every graph Compile returns, whatever the order of the calls before it and
\* whatever is called on the builder after it, is one that GraphRuntime can
\* execute (Compile, next).
THEOREM CompiledGraphsRun == BuilderSpec => []CompiledIsWellFormed
<1>1. BuilderInv => CompiledIsWellFormed
  BY CheckedIsWellFormed DEF BuilderInv, CompiledIsWellFormed
<1>. QED BY <1>1, BuilderInvInitially, BuilderInvKept, PTL DEF BuilderSpec

\* No node ever has both a fixed edge and a route (AddEdge,
\* AddConditionalEdges).
THEOREM OneWayOut == BuilderSpec => []EdgesApartFromRoutes
<1>1. BuilderInv => EdgesApartFromRoutes
  BY DEF BuilderInv
<1>. QED BY <1>1, BuilderInvInitially, BuilderInvKept, PTL DEF BuilderSpec
=============================================================================
