------------------------------ MODULE CellList ------------------------------
(***************************************************************************)
(* CellList (src/src/NN/CellList/CellList.hpp) over the memory CellMemory  *)
(* and the arithmetic of CellDecomposer: particles are put in the cells of *)
(* a box, and the neighbourhood iterators visit the cells around one.      *)
(*                                                                         *)
(*   geo[x]     the decomposition of the list x                            *)
(*   full[x]    NNc_full, sym[x] NNc_sym: offsets of the near cells        *)
(*   rcache[x]  the neighbourhoods cached by getNNIteratorRadius, by       *)
(*              radius                                                     *)
(*   cells, stale  the memory of the lists, as in CellMemory               *)
(*   pos        the positions of the particles, which do not move          *)
(*                                                                         *)
(* n_dec and from_cd, which nothing here reads, nnc_rad (the neighbourhood *)
(* of setRadius) and the number of slots are left out.                     *)
(***************************************************************************)
EXTENDS CellDecomposer, Sequences, FiniteSets

CONSTANTS
  Lists,           \* the objects of the program
  Particles,       \* integers: an iterator compares them
  Points,          \* the positions a particle may have
  Decompositions,  \* the boxes a list is initialised with
  SubBoxes,        \* the parts of one it is restricted to
  Radii,           \* the radii asked for
  Calls            \* the operations the client uses

Operations == {"restrict", "dom", "pad", "radius", "clear", "destroy", "copy", "swap", "move"}

ASSUME CellAssumption ==
  /\ Particles \subseteq Int
  /\ Radii \subseteq Nat \ {0}
  /\ Calls \subseteq Operations
  /\ \A g \in Decompositions :
       /\ g = Whole(g.low, g.unit, g.div, g.off) /\ g.off \in Nat \ {0}
       /\ \A s \in Dims : g.low[s] \in Int /\ g.unit[s] \in Nat \ {0} /\ g.div[s] \in Nat \ {0}
  /\ \A b \in SubBoxes, s \in Dims :
       /\ b.low[s] \in Int /\ b.high[s] \in Int /\ b.low[s] <= b.high[s]
       /\ \A g \in Decompositions : g.low[s] <= b.low[s] /\ b.high[s] <= High(g, s)
  /\ \A pt \in Points, s \in Dims : pt[s] \in Int

VARIABLES geo, full, sym, rcache, cells, stale, pos

vars == <<geo, full, sym, rcache, cells, stale, pos>>

Mem == INSTANCE CellMemory WITH Elements <- Particles, CellCounts <- {}

NoRadius == [r \in {} |-> {}]

Usable(x) == x \notin stale
Stored(x, p) ==
  \E c \in DOMAIN cells[x] : \E i \in DOMAIN cells[x][c] : cells[x][c][i] = p

\* The corners of the box whose cells the list stores.
InnerLow(g, s) == g.low[s] + g.unit[s] * g.cell_shift[s]
InnerHigh(g, s) == InnerLow(g, s) + g.unit[s] * g.div2[s]

\* The points a client may add.  The outermost border of the padding belongs
\* to it only above, and only where the grid of cells ends too: see the
\* hazard at size_t_floor.
InSpace(g, pt) ==
  \A s \in Dims :
    LET ghost == g.unit[s] * g.off
    IN  /\ InnerLow(g, s) - ghost < pt[s]
        /\ \/ pt[s] < InnerHigh(g, s) + ghost
           \/ pt[s] = InnerHigh(g, s) + ghost /\ InnerHigh(g, s) = High(g, s)

InDomain(g, pt) == \A s \in Dims : InnerLow(g, s) <= pt[s] /\ pt[s] < InnerHigh(g, s)

-----------------------------------------------------------------------------

\* Every list comes from the constructor CellList(box, div, pad).
Init ==
  /\ geo \in [Lists -> Decompositions]
  /\ full = [x \in Lists |-> NNcFull(geo[x])]
  /\ sym = [x \in Lists |-> NNcSym(geo[x])]
  /\ rcache = [x \in Lists |-> NoRadius]
  /\ cells = [x \in Lists |-> Mem!Empty(NCells(geo[x]))]
  /\ stale = {}
  /\ pos \in [Particles -> Points]

\* InitializeStructures, for a decomposition that was just set.
InitializeStructures(x, g) ==
  /\ geo' = [geo EXCEPT ![x] = g]
  /\ full' = [full EXCEPT ![x] = NNcFull(g)]
  /\ sym' = [sym EXCEPT ![x] = NNcSym(g)]
  /\ Mem!Reset(x, NCells(g))
  /\ UNCHANGED <<rcache, pos>>

\* Initialize(box, div, pad)
Initialize(x, g) == InitializeStructures(x, g)

\* Initialize(cd_sm, dom_box, pad), with the padding of cd_sm.
InitializeFrom(x, cd, dom) ==
  /\ "restrict" \in Calls
  /\ InitializeStructures(x, Nested(cd, dom, cd.off))

\* A particle is added to a list once (populate_cell_list clears first).
AddTo(x, p, c) ==
  /\ Usable(x) /\ ~Stored(x, p)
  /\ Mem!Add(x, c, p)
  /\ UNCHANGED <<geo, full, sym, rcache, pos>>

Add(x, p) ==
  /\ InSpace(geo[x], pos[p])
  /\ AddTo(x, p, GetCell(geo[x], pos[p]))

\* addDom: for particles of the domain, its upper border included.
AddDom(x, p) ==
  /\ "dom" \in Calls
  /\ \A s \in Dims : geo[x].low[s] <= pos[p][s] /\ pos[p][s] <= High(geo[x], s)
  /\ InSpace(geo[x], pos[p])
  /\ AddTo(x, p, GetCellDom(geo[x], pos[p]))

\* addPad(Point): it takes the cell of the point, not getCellPad.
AddPad(x, p) ==
  /\ "pad" \in Calls
  /\ InSpace(geo[x], pos[p]) /\ ~InDomain(geo[x], pos[p])
  /\ AddTo(x, p, GetCell(geo[x], pos[p]))

\* getNNIteratorRadius(cell, r): the neighbourhood is computed once for a
\* radius.  The padding has to be as thick as the radius.
GetNNIteratorRadius(x, r) ==
  /\ "radius" \in Calls
  /\ Usable(x)
  /\ r \notin DOMAIN rcache[x]
  /\ \A s \in Dims : Reach(geo[x], r, s) <= geo[x].off
  /\ rcache' = [rcache EXCEPT ![x] =
       [q \in DOMAIN @ \cup {r} |-> IF q = r THEN NNcalcRad(geo[x], r) ELSE @[q]]]
  /\ UNCHANGED <<geo, full, sym, cells, stale, pos>>

Clear(x) ==
  /\ "clear" \in Calls
  /\ Mem!Clear(x)
  /\ UNCHANGED <<geo, full, sym, rcache, pos>>

Destroy(x) ==
  /\ "destroy" \in Calls
  /\ Mem!Destroy(x)
  /\ UNCHANGED <<geo, full, sym, rcache, pos>>

\* operator=(const CellList &): everything but the cached radii.
Copy(x, y) ==
  /\ "copy" \in Calls
  /\ Mem!Copy(x, y)
  /\ geo' = [geo EXCEPT ![x] = geo[y]]
  /\ full' = [full EXCEPT ![x] = full[y]]
  /\ sym' = [sym EXCEPT ![x] = sym[y]]
  /\ UNCHANGED <<rcache, pos>>

\* A mutant of Exchanged: the other list keeps what it has.
ExchangedOneWay(f, x, y) == [f EXCEPT ![x] = f[y]]

Exchanged(f, x, y) == [f EXCEPT ![x] = f[y], ![y] = f[x]]

\* swap: the cached radii stay.
Swap(x, y) ==
  /\ "swap" \in Calls
  /\ Mem!Swap(x, y)
  /\ geo' = Exchanged(geo, x, y)
  /\ full' = Exchanged(full, x, y)
  /\ sym' = Exchanged(sym, x, y)
  /\ UNCHANGED <<rcache, pos>>

\* operator=(CellList &&): the neighbourhoods are copied, the decomposition
\* is swapped, the memory is taken.
Move(x, y) ==
  /\ "move" \in Calls
  /\ Mem!Move(x, y)
  /\ geo' = Exchanged(geo, x, y)
  /\ full' = [full EXCEPT ![x] = full[y]]
  /\ sym' = [sym EXCEPT ![x] = sym[y]]
  /\ UNCHANGED <<rcache, pos>>

Next ==
  \E x \in Lists :
    \/ \E g \in Decompositions : Initialize(x, g)
    \/ \E g \in Decompositions, b \in SubBoxes : InitializeFrom(x, g, b)
    \/ \E p \in Particles : Add(x, p) \/ AddDom(x, p) \/ AddPad(x, p)
    \/ \E r \in Radii : GetNNIteratorRadius(x, r)
    \/ Clear(x)
    \/ Destroy(x)
    \/ \E y \in Lists \ {x} : Copy(x, y) \/ Swap(x, y) \/ Move(x, y)

Spec == Init /\ [][Next]_vars

-----------------------------------------------------------------------------
(* The iterators: how often a visit that starts at cell c meets q.         *)

Visits(x, c, nnc, q) ==
  Cardinality(UNION {{<<e, i>> : i \in {i \in DOMAIN cells[x][e] : cells[x][e][i] = q}} :
                       e \in {c + d : d \in nnc} \cap DOMAIN cells[x]})

\* CellNNIterator from the cell of p
MetFull(x, p, q) == Visits(x, GetCell(geo[x], pos[p]), full[x], q)

\* A mutant of NotBefore: a coordinate that decides does not end the
\* comparison.
NotBeforeAnywhere(p, q) ==
  \/ pos[p][1] < pos[q][1]
  \/ pos[p][2] < pos[q][2]
  \/ pos[p] = pos[q] /\ p <= q

\* CellNNIteratorSym: in the cell of p itself, the particles that are not
\* before p, by coordinate from the last and then by index.
NotBefore(p, q) ==
  \/ pos[p][2] < pos[q][2]
  \/ pos[p][2] = pos[q][2] /\ pos[p][1] < pos[q][1]
  \/ pos[p] = pos[q] /\ p <= q

MetSym(x, p, q) ==
  LET c == GetCell(geo[x], pos[p])
  IN  Visits(x, c, sym[x] \ {0}, q)
        + IF NotBefore(p, q) THEN Visits(x, c, {0}, q) ELSE 0

\* CellNNIteratorRadius from the cell of p
MetRadius(x, p, q, r) == Visits(x, GetCell(geo[x], pos[p]), rcache[x][r], q)

-----------------------------------------------------------------------------

\* A list in use has the cells its decomposition counts (none once it is
\* destroyed), and the neighbourhoods are offsets.
TypeOK ==
  /\ stale \subseteq Lists
  /\ pos \in [Particles -> Points]
  /\ \A x \in Lists :
       /\ full[x] \subseteq Int /\ sym[x] \subseteq full[x]
       /\ DOMAIN rcache[x] \subseteq Radii
       /\ \A r \in DOMAIN rcache[x] : rcache[x][r] \subseteq Int
       /\ Usable(x) => DOMAIN cells[x] \in {0 .. -1, 0 .. NCells(geo[x]) - 1}
       /\ \A c \in DOMAIN cells[x] : cells[x][c] \in Seq(Particles)

\* A particle is stored in a cell whose box, borders included, contains it:
\* whatever mixture of initialisation, assignment, swap and move brought the
\* particles and the decomposition of the list together.
InItsCell(g, pt, c) ==
  LET id == <<c % Size2(g, 1), c \div Size2(g, 1)>>
      corner(s) == InnerLow(g, s) + g.unit[s] * (id[s] - g.off)
  IN  \A s \in Dims : corner(s) <= pt[s] /\ pt[s] <= corner(s) + g.unit[s]

CellContains ==
  \A x \in Lists : Usable(x) =>
    \A c \in DOMAIN cells[x] : \A i \in DOMAIN cells[x][c] :
      InItsCell(geo[x], pos[cells[x][c][i]], c)

\* Strictly: what VerletList::create_ keeps of a visit.
Within(p, q, r) ==
  SquaredNorm(pos[p][1] - pos[q][1], pos[p][2] - pos[q][2]) < r * r

\* getNNIteratorRadius (CellList.hpp:982), when the cached neighbourhood is
\* the one of the present decomposition and that is not nested: every stored
\* particle nearer than the radius is met once.
RadiusIfCurrent ==
  \A x \in Lists : \A r \in DOMAIN rcache[x] :
    (/\ Usable(x)
     /\ geo[x].div2 = geo[x].div
     /\ rcache[x][r] = NNcalcRad(geo[x], r)) =>
       \A p, q \in Particles :
         InDomain(geo[x], pos[p]) /\ Stored(x, q) /\ Within(p, q, r) =>
           MetRadius(x, p, q, r) = 1
=============================================================================
