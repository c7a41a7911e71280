------------------------------- MODULE Graph --------------------------------
(***************************************************************************)
(* Graph_CSR (src/src/Graph/map_graph.hpp).  A graph keeps                 *)
(*   v        the properties of the vertices,                              *)
(*   v_l      how many edges leave each vertex,                            *)
(*   e        the properties of the edges, in the order they were added,   *)
(*   e_l      v_slot entries for each vertex, the first v_l of them in use:*)
(*            the target of an edge (vid) and its index in e (eid),        *)
(*   e_invalid  the one edge that a refused addEdge returns.               *)
(* A client owns several graphs, and may iterate over the edges of one of  *)
(* them (edge_iterator) while it goes on adding to it.                     *)
(*                                                                         *)
(* The code checks no index, so the model does not either: a write outside *)
(* a vector changes nothing of the graph, a read outside it is Unset.      *)
(* Three operations are right only in a client that knows the layout (that *)
(* a vertex has a free slot, that e_l is allocated, that two graphs have   *)
(* equally many slots), and the client here is one that does.              *)
(***************************************************************************)
EXTENDS Naturals, Sequences, FiniteSets, Functions

CONSTANTS
  Graphs,        \* the graph objects
  Props,         \* what a vertex or an edge can carry
  Unset,         \* memory nobody has written
  News,          \* the <<n_vertex, n_slot>> the client constructs graphs with
  Clients        \* what a client does: [uses : graphs, calls : kinds of call,
                 \* writes : the properties it gives edges and vertices;
                 \* vertices, edges : bounds on what all its graphs have together]

Value == Props \union {Unset}

ASSUME GraphAssumption ==
  /\ Unset \notin Props \union Nat
  /\ News \subseteq Nat \X (Nat \ {0})
  /\ \A c \in Clients : c.uses \subseteq Graphs /\ c.writes \subseteq Value

VARIABLES
  graph,         \* the graphs
  it,            \* the edge iterator, and what it has visited
  client         \* the client, one of Clients

vars == <<graph, it, client>>

-----------------------------------------------------------------------------
(* The layout *)

Resized(s, n, x) == [i \in 1 .. n |-> IF i <= Len(s) THEN s[i] ELSE x]

Entry == [vid : Nat \union {Unset}, eid : Nat \union {Unset}]
NoEntry == [vid |-> Unset, eid |-> Unset]
Graph_CSR(n_vertex, n_slot) ==
  [v_slot |-> n_slot,
   v |-> [i \in 1 .. n_vertex |-> Unset], v_l |-> [i \in 1 .. n_vertex |-> 0],
   e |-> << >>, e_l |-> << >>, e_invalid |-> <<Unset>>]

Vertices(g) == 0 .. Len(g.v) - 1
getNChilds(g, c) == g.v_l[c + 1]
\* the edges of a graph as positions: the i-th edge of vertex c
Positions(g) ==
  {p \in Vertices(g) \X (0 .. g.v_slot) : p[2] < getNChilds(g, p[1])}
FirstEntryPacked(g, c) == c + 1   \* mutant: entries without free slots between
FirstEntry(g, c) == c * g.v_slot + 1
EntryAt(g, p) ==
  LET i == FirstEntry(g, p[1]) + p[2] IN IF i \in DOMAIN g.e_l THEN g.e_l[i] ELSE NoEntry
-----------------------------------------------------------------------------
(* The operations on one graph *)

\* mutant: no entries for the new vertex
addVertexNoSlots(g, p) == [g EXCEPT !.v = Append(@, p), !.v_l = Append(@, 0)]
addVertex(g, p) ==
  [g EXCEPT !.v = Append(@, p), !.v_l = Append(@, 0),
            !.e_l = Resized(@, Len(@) + g.v_slot, NoEntry)]

\* addEdge_ without a free slot: the new graph gets 2 * v_slot vertices and
\* v.size() slots, every second vertex property, and no edge.
Grown(g) ==
  [Graph_CSR(2 * g.v_slot, Len(g.v)) EXCEPT
     !.v = [i \in DOMAIN @ |-> IF 2 * i - 1 \in DOMAIN g.v THEN g.v[2 * i - 1] ELSE Unset]]

NextEidLate(g) == Len(g.e) + 1   \* mutant: taken after the edge has been added
NextEid(g) == Len(g.e)

\* addEdge_, and the property the caller gives the new edge
addEdge(g, v1, v2, p) ==
  LET end == getNChilds(g, v1)
      h == IF end >= g.v_slot THEN Grown(g) ELSE g
      el == IF end >= Len(h.e_l) THEN Resized(h.e_l, Len(h.v) * h.v_slot, NoEntry) ELSE h.e_l
      new == [vid |-> v2, eid |-> NextEid(h)]
  IN [h EXCEPT !.e_l = [el EXCEPT ![FirstEntry(h, v1) + end] = new],
               !.e = Append(@, p),
               !.v_l[v1 + 1] = @ + 1]

\* addEdge<CheckExistence>: a target that does not exist makes no edge, and
\* the caller sets the property of the stub.
addEdgeChecked(g, v1, v2, p) ==
  IF v1 \in Vertices(g) /\ v2 \in Vertices(g) THEN addEdge(g, v1, v2, p)
  ELSE [g EXCEPT !.e_invalid = [i \in DOMAIN @ |-> p]]

clear(g) ==
  [g EXCEPT !.v = << >>, !.v_l = << >>, !.e = << >>, !.e_l = << >>, !.e_invalid = << >>]

\* What a client within the layout knows: the adjacency of every vertex has
\* its slots, or nothing has been allocated; a vertex has a free slot; there is
\* a stub.
Allocated(g) == Len(g.e_l) = Len(g.v) * g.v_slot
FreeSlot(g, c) == getNChilds(g, c) < g.v_slot
HasStub(g) == Len(g.e_invalid) = 1
-----------------------------------------------------------------------------
(* The edge iterator *)

NoIterator == [on |-> FALSE]
Iterating(x) == it.on /\ it.g = x

\* mutant: vertices without edges are not skipped
FollowingNoSkip(g, pos, pos_e) ==
  IF pos_e + 1 >= getNChilds(g, pos) THEN <<pos + 1, 0>> ELSE <<pos, pos_e + 1>>
\* ek.pos, ek.pos_e after operator++
Following(g, pos, pos_e) ==
  IF pos_e + 1 >= getNChilds(g, pos)
  THEN LET rest == {c \in pos + 1 .. Len(g.v) : c < Len(g.v) => getNChilds(g, c) # 0}
       IN <<CHOOSE c \in rest : \A d \in rest : c <= d, 0>>
  ELSE <<pos, pos_e + 1>>

BeginEdges(x) ==
  /\ ~it.on
  /\ graph[x].v # << >>
  /\ it' = [on |-> TRUE, g |-> x, pos |-> 0, pos_e |-> 0,
            atStart |-> Len(graph[x].e), seen |-> {}, astray |-> FALSE, ended |-> FALSE]
  /\ UNCHANGED <<graph, client>>

\* The body of the loop reads the edge at the position, then ++ and isNext.
NextEdge ==
  /\ it.on /\ ~it.ended
  /\ LET g == graph[it.g]
         here == <<it.pos, it.pos_e>>
         next == Following(g, it.pos, it.pos_e)
         what == IF here \in Positions(g) THEN EntryAt(g, here).eid ELSE Unset
     IN it' = [it EXCEPT !.pos = next[1], !.pos_e = next[2],
                         !.seen = @ \union {what},
                         !.astray = @ \/ what \in it.seen \/ (what = Unset /\ here # <<0, 0>>),
                         !.ended = next[1] >= Len(g.v)]
  /\ UNCHANGED <<graph, client>>

EndEdges ==
  /\ it.on /\ it.ended
  /\ it' = NoIterator
  /\ UNCHANGED <<graph, client>>
-----------------------------------------------------------------------------
(* The client *)

\* room for so many vertices and edges of x under the bounds of the model
VerticesFit(x, n) ==
  n + SumFunctionOnSet([y \in Graphs |-> Len(graph[y].v)], Graphs \ {x}) <= client.vertices
EdgesFit(x, n) ==
  n + SumFunctionOnSet([y \in Graphs |-> Len(graph[y].e)], Graphs \ {x}) <= client.edges

New(x) ==
  /\ ~Iterating(x)
  /\ \E n \in {n \in News : VerticesFit(x, n[1])} : graph' = [graph EXCEPT ![x] = Graph_CSR(n[1], n[2])]
  /\ UNCHANGED <<it, client>>

AddVertex(x) ==
  /\ VerticesFit(x, Len(graph[x].v) + 1)
  /\ Allocated(graph[x])
  /\ \E p \in client.writes : graph' = [graph EXCEPT ![x] = addVertex(@, p)]
  /\ UNCHANGED <<it, client>>

AddEdge(x) ==
  /\ EdgesFit(x, Len(graph[x].e) + 1)
  /\ \E a, b \in Vertices(graph[x]), p \in client.writes :
       /\ FreeSlot(graph[x], a)
       /\ graph' = [graph EXCEPT ![x] = addEdge(@, a, b, p)]
  /\ UNCHANGED <<it, client>>

AddEdgeRefused(x) ==
  /\ HasStub(graph[x])
  /\ \E a \in Vertices(graph[x]), p \in client.writes :
       graph' = [graph EXCEPT ![x] = addEdgeChecked(@, a, Len(graph[x].v), p)]
  /\ UNCHANGED <<it, client>>

\* clear and destroy differ in the memory they give back
Clear(x) ==
  /\ ~Iterating(x)
  /\ graph' = [graph EXCEPT ![x] = clear(@)]
  /\ UNCHANGED <<it, client>>

\* operator=(const &) and the move constructor: both swap with a duplicate
Assign(x, y) ==
  /\ ~Iterating(x)
  /\ VerticesFit(x, Len(graph[y].v)) /\ EdgesFit(x, Len(graph[y].e))
  /\ graph' = [graph EXCEPT ![x] = graph[y]]
  /\ UNCHANGED <<it, client>>

Swap(x, y) ==
  /\ ~Iterating(x) /\ ~Iterating(y)
  /\ graph' = [graph EXCEPT ![x] = graph[y], ![y] = graph[x]]
  /\ UNCHANGED <<it, client>>

\* operator=(&&) exchanges v_slot, then calls swap, which exchanges it back.
MoveAssign(x, y) ==
  /\ ~Iterating(x) /\ ~Iterating(y)
  /\ graph[x].v_slot = graph[y].v_slot
  /\ graph' = [graph EXCEPT ![x] = [graph[y] EXCEPT !.v_slot = graph[x].v_slot],
                            ![y] = [graph[x] EXCEPT !.v_slot = graph[y].v_slot]]
  /\ UNCHANGED <<it, client>>

Init ==
  /\ client \in Clients
  /\ \E n \in News : graph = [x \in Graphs |-> Graph_CSR(0, n[2])]
  /\ it = NoIterator

Does(call) == call \in client.calls

Next ==
  \/ \E x \in client.uses :
       \/ Does("new") /\ New(x)
       \/ Does("addVertex") /\ AddVertex(x)
       \/ Does("addEdge") /\ AddEdge(x)
       \/ Does("addEdgeChecked") /\ AddEdgeRefused(x)
       \/ Does("clear") /\ Clear(x)
       \/ \E y \in client.uses :
            \/ Does("assign") /\ Assign(x, y)
            \/ Does("swap") /\ Swap(x, y)
            \/ Does("move") /\ MoveAssign(x, y)
       \/ Does("iterate") /\ BeginEdges(x)
  \/ NextEdge \/ EndEdges

Spec == Init /\ [][Next]_vars
-----------------------------------------------------------------------------
(* Properties *)

\* Type invariant.  The counters, the properties and the adjacency keep their
\* types, and the adjacency has v_slot entries for every vertex or, before the
\* first edge of a graph constructed with its vertices, none.
GraphOK(g) ==
  /\ g.v_slot \in Nat \ {0}
  /\ g.v \in Seq(Value) /\ g.e \in Seq(Value)
  /\ g.v_l \in [1 .. Len(g.v) -> 0 .. g.v_slot]
  /\ g.e_l \in Seq(Entry)
  /\ g.e_invalid \in Seq(Value) /\ Len(g.e_invalid) <= 1
  /\ \/ Allocated(g)
     \/ g.e_l = << >> /\ \A c \in Vertices(g) : getNChilds(g, c) = 0
TypeOK == \A x \in Graphs : GraphOK(graph[x])

\* The entries in use name every edge of e exactly once, and only edges and
\* vertices that exist (the comment above e_l, and edge(edge_key), which goes
\* through eid): no call loses the adjacency of an edge or shares its property.
EdgesNamedOnce(g) ==
  /\ \A p \in Positions(g) : EntryAt(g, p) \in [vid : Vertices(g), eid : 0 .. Len(g.e) - 1]
  /\ \A k \in 0 .. Len(g.e) - 1 :
       \E p \in Positions(g) :
         /\ EntryAt(g, p).eid = k
         /\ \A q \in Positions(g) : EntryAt(g, q).eid = k => q = p
EdgesNamed == \A x \in Graphs : EdgesNamedOnce(graph[x])

\* An edge iterator that has ended has visited every edge the graph had when it
\* began, none twice, whatever was added behind or ahead of it meanwhile, and
\* nothing that is no edge but the first position of a vertex 0 without edges
\* (begin() does not skip it as ++ does).
VisitsEveryEdge ==
  it.on /\ it.ended => /\ 0 .. it.atStart - 1 \subseteq it.seen
                       /\ ~it.astray

\* The graphs, read through their adjacency, are multigraphs: each operation
\* does to the vertices, the end points and the properties what it says.
AsEdge(g, k) ==
  LET ps == {p \in Positions(g) : EntryAt(g, p).eid = k}
  IN IF Cardinality(ps) # 1 THEN Unset
     ELSE LET p == CHOOSE p \in ps : TRUE
          IN [src |-> p[1], dst |-> EntryAt(g, p).vid, prop |-> g.e[k + 1]]
AsMultigraph(g) == [vs |-> g.v, es |-> [k \in 1 .. Len(g.e) |-> AsEdge(g, k - 1)]]
Multi == INSTANCE Multigraph WITH mg <- [x \in Graphs |-> AsMultigraph(graph[x])]
ImplementsMultigraph == Multi!Spec
=============================================================================
