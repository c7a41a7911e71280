----------------------------- MODULE Multigraph -----------------------------
(***************************************************************************)
(* What a graph promises its users, whatever it stores: a sequence of      *)
(* vertices, each with a property, and a sequence of directed edges, in    *)
(* the order they were added, each with its end points and a property.     *)
(* Two edges may have the same end points.  Several graphs exist at once,  *)
(* because copies and swaps are operations of the type.                    *)
(*                                                                         *)
(* An operation relates the graphs before it to the graphs after it.       *)
(***************************************************************************)
EXTENDS Naturals, Sequences

CONSTANTS
  Graphs,        \* the graph objects
  Props,         \* what a vertex or an edge can carry
  Unset          \* a property nobody has written

VARIABLE mg

Value == Props \union {Unset}
Vertices(g) == 0 .. Len(g.vs) - 1

\* a new graph of some vertices without edges, or a cleared one
IsNew(g) == g.vs \in Seq({Unset}) /\ g = [vs |-> g.vs, es |-> << >>]

Init == mg = [x \in Graphs |-> mg[x]] /\ \A x \in Graphs : IsNew(mg[x])

AddVertex(g, h) == h.es = g.es /\ \E p \in Value : h.vs = Append(g.vs, p)

SetVertex(g, h) ==
  /\ h.es = g.es
  /\ \E a \in Vertices(g), p \in Value : h.vs = [g.vs EXCEPT ![a + 1] = p]

AddEdge(g, h) ==
  /\ h.vs = g.vs
  /\ \E a, b \in Vertices(g), p \in Value :
       h.es = Append(g.es, [src |-> a, dst |-> b, prop |-> p])

\* what one operation does to the graph it is called on, and to no other
Change(g, h) == IsNew(h) \/ AddVertex(g, h) \/ SetVertex(g, h) \/ AddEdge(g, h)

Step(old, new) ==
  \/ \E x \in Graphs :
       /\ \A y \in Graphs \ {x} : new[y] = old[y]
       /\ Change(old[x], new[x]) \/ \E y \in Graphs : new[x] = old[y]
  \/ \E x, y \in Graphs : new = [old EXCEPT ![x] = old[y], ![y] = old[x]]

Next == Step(mg, mg')

Spec == Init /\ [][Next]_mg
=============================================================================
