--------------------------- MODULE CartesianGraph ---------------------------
(***************************************************************************)
(* CartesianGraphFactory::construct                                        *)
(* (src/src/Graph/CartesianGraphFactory.hpp) on top of Graph_CSR.  A       *)
(* vertex is a cell of a grid of sz cells; the factory visits the cells in *)
(* the order of grid_key_dx_iterator and gives each an edge to every cell  *)
(* it shares an element of dimension dim_c or more with, through the       *)
(* borders of the dimensions that are PERIODIC.  The property of a vertex  *)
(* is its linear index, that of an edge the size of what the cells share.  *)
(*                                                                         *)
(* A behaviour is a client of module Graph, or one call of the factory,    *)
(* whose steps are the vertices it fills and the edges it adds, and then a *)
(* client that iterates over the edges of the result.                      *)
(***************************************************************************)
EXTENDS Graph, GridSm, TLC

CONSTANTS
  Jobs,          \* the calls: [sz, bc, dim_c, szd], bc the periodic dimensions
  Out            \* the graph a call returns

ASSUME CartesianAssumption == Out \in Graphs

VARIABLE job     \* the call that runs, and where it is: the linear index
                 \* of the cell, whether its vertex is filled, the elements left

cvars == <<vars, job>>

NoJob == [on |-> FALSE]
DefaultSlots == 16
-----------------------------------------------------------------------------
\* The elements the factory connects through, and the one it takes next: the
\* elements of the highest dimension first (for the order within a dimension
\* the model does not follow the code).
Combinations(dim, dim_c) == UNION {getCombinations_R(dim, d) : d \in dim_c .. dim - 1}
Zeros(c) == Cardinality({s \in DOMAIN c : c[s] = 0})
NextCombination(left) == CHOOSE c \in left : \A d \in left : Zeros(d) <= Zeros(c)

AbsValue(i) == IF i < 0 THEN -i ELSE i
ele_sz(szd, c) == SumFunction([s \in DOMAIN szd |-> szd[s] * AbsValue(c[s])])

\* The fill_prop functors give the vertex of a new cell its index.
FillVertex(j) ==
  /\ graph' = [graph EXCEPT ![Out].v[j.next + 1] = j.next]
  /\ job' = [job EXCEPT !.left = Combinations(Len(j.sz), j.dim_c), !.filled = TRUE]

\* One edge.  The -1 of a neighbour outside the grid is a vertex no graph has.
ConnectOne(j) ==
  LET c == NextCombination(j.left)
      end_v == LinIdShifted(j.sz, InvLinId(j.sz, j.next), c, j.bc)
      target == IF end_v = -1 THEN Len(graph[Out].v) ELSE end_v
      last == j.left = {c}
  IN /\ graph' = [graph EXCEPT ![Out] = addEdgeChecked(@, j.next, target, ele_sz(j.szd, c))]
     /\ job' = [job EXCEPT !.left = @ \ {c}, !.filled = ~last,
                           !.next = IF last THEN @ + 1 ELSE @]

\* how many edges the factory gives a vertex at most: what has to fit a slot
Fits(j) == Cardinality(Combinations(Len(j.sz), j.dim_c)) <= DefaultSlots

Construct ==
  /\ job.on /\ job.next < Size(job.sz)
  /\ IF job.filled THEN ConnectOne(job) ELSE FillVertex(job)
  /\ UNCHANGED <<it, client>>

Constructed == job.on /\ job.next = Size(job.sz)
-----------------------------------------------------------------------------
CInit ==
  \/ Init /\ job = NoJob
  \/ \E j \in Jobs :
       /\ Fits(j)
       /\ graph = [x \in Graphs |-> IF x = Out THEN Graph_CSR(Size(j.sz), DefaultSlots)
                                    ELSE Graph_CSR(0, DefaultSlots)]
       /\ it = NoIterator
       /\ client = [uses |-> {Out}, calls |-> {"construct", "iterate"}]
       /\ job = [on |-> TRUE, next |-> 0, filled |-> FALSE, left |-> {}] @@ j

CNext ==
  \/ Construct
  \/ Constructed /\ (BeginEdges(Out) \/ NextEdge \/ EndEdges) /\ UNCHANGED job
  \/ ~job.on /\ Next /\ UNCHANGED job

CSpec == CInit /\ [][CNext]_cvars
-----------------------------------------------------------------------------
(* Properties *)

\* The cells as closed boxes of side one, periodic dimensions repeated once on
\* each side.  Touching(..) are the images of cell b that share an element of
\* dimension dim_c or more with cell a, and are not that very box.
Images(j, b) ==
  {[s \in DOMAIN j.sz |-> b[s] + i[s] * j.sz[s]] :
     i \in {i \in [DOMAIN j.sz -> -1 .. 1] : \A s \in DOMAIN j.sz \ j.bc : i[s] = 0}}
Overlap(a, b) == [s \in DOMAIN a |-> ({a[s], a[s] + 1} \intersect {b[s], b[s] + 1})]
SharedDimension(a, b) == Cardinality({s \in DOMAIN a : Cardinality(Overlap(a, b)[s]) = 2})
Touching(j, a, b) ==
  {i \in Images(j, b) : /\ i # a
                        /\ \A s \in DOMAIN a : Overlap(a, i)[s] # {}
                        /\ SharedDimension(a, i) >= j.dim_c}

EdgesBetween(g, a, b) == {p \in Positions(g) : p[1] = a /\ EntryAt(g, p).vid = b}

\* The graph the factory has made has an edge from a cell to another for every
\* way they share an element of dimension dim_c or more, and no other (the doc
\* of construct), and its vertices carry their index.
ConnectsCellsThatTouch ==
  Constructed =>
    LET g == graph[Out]
        Key == [id \in 0 .. Size(job.sz) - 1 |-> CHOOSE k \in Keys(job.sz) : LinId(job.sz, k) = id]
    IN /\ g.v = [i \in 1 .. Size(job.sz) |-> i - 1]
       /\ \A a, b \in 0 .. Size(job.sz) - 1 :
            Cardinality(EdgesBetween(g, a, b)) = Cardinality(Touching(job, Key[a], Key[b]))
=============================================================================
