----------------------------- MODULE VerletList -----------------------------
(***************************************************************************)
(* VerletList (NN/VerletList/VerletListFast.hpp) and its multi-phase form  *)
(* VerletListM: for each particle of a vector the particles nearer than a  *)
(* cut-off radius, found through a cell list.  The list is made from a     *)
(* cell list of its own (cli) or from one the client filled, and stays as  *)
(* it was when the particles move, until it is updated.                    *)
(*                                                                         *)
(*   geo, full, sym, rcache, cells, stale   the cell lists, as in CellList *)
(*   pos, gm    the present positions, and the ghost marker of each phase: *)
(*              the particles from that index on are ghosts                *)
(*   nn[v]      for each particle, how often addPart added another one     *)
(*   dp[v]      the particles of the CRS scheme, as a set                  *)
(*   client     what the client uses; calls: how many calls it made        *)
(* and, to state the properties:                                           *)
(*   built[v]   what nn[v] was built from                                  *)
(*   made[v]    the cut-off cli was divided for, 0 before Initialize       *)
(*                                                                         *)
(* pos2 is pos; n_dec, slots and the order of neighbours are left out.     *)
(***************************************************************************)
EXTENDS CellListM, SequencesExt

CONSTANTS
  Verlets,    \* the Verlet lists of the program
  Cli,        \* the cell list inside each
  External,   \* the cell lists the client fills
  Box,        \* the simulation domain, as [low, high]
  Dom,        \* the part of it the processor owns
  Ghost,      \* the width of the ghost layer
  Frames,     \* the positions and ghost markers the client moves between
  Clients     \* records: the calls used, whether multi-phase, how many calls

VerletCalls == {"drift", "box", "sym", "crs", "update", "clear", "copy", "swap",
                "move", "fill", "external", "moveM"}

Options == {"full", "sym"}

ASSUME VerletAssumption ==
  /\ Cli \in [Verlets -> Lists \ External] /\ External \subseteq Lists
  /\ \A l, m \in Verlets : Cli[l] = Cli[m] => l = m
  /\ Decompositions # {} /\ Ghost \in Nat \ {0}
  /\ \A s \in Dims :
       /\ {Box.low[s], Box.high[s], Dom.low[s], Dom.high[s]} \subseteq Int
       /\ Box.low[s] <= Dom.low[s] /\ Dom.low[s] <= Dom.high[s] /\ Dom.high[s] <= Box.high[s]
  /\ \A r \in Radii, s \in Dims :
       LET len == Box.high[s] - Box.low[s] IN r <= len /\ len % (len \div r) = 0
  /\ \A f \in Frames :
       /\ IsFiniteSet(DOMAIN f.at) /\ DOMAIN f.at \subseteq Particles
       /\ f.at \in [DOMAIN f.at -> Int \X Int]
       /\ 0 \in DOMAIN f.gm /\ DOMAIN f.gm \subseteq 0 .. Phases - 1
       /\ \A v \in DOMAIN f.gm : f.gm[v] \in Nat
       /\ ~f.multi => DOMAIN f.gm = {0}
  /\ \A c \in Clients : c.ops \subseteq VerletCalls /\ c.max \in Nat /\ c.multi \in BOOLEAN

VARIABLES gm, nn, dp, built, made, client, calls

vvars == <<vars, gm, nn, dp, built, made, client, calls>>

NoRows == <<>>
NotBuilt == [how |-> "none"]

Call(op) == op \in client.ops /\ calls < client.max /\ calls' = calls + 1 /\ UNCHANGED client

-----------------------------------------------------------------------------
(* The cell lists a Verlet list is made from.                              *)

\* cl_param_calculate: one cell more than fits, of the size of the cut-off.
ParamCalculate(r) ==
  Whole(Box.low, [s \in Dims |-> r],
        [s \in Dims |-> (Box.high[s] - Box.low[s]) \div r + 1], 1)

\* cl_param_calculateSym, then Initialize(cd_sm, dom, pad): cells of at least
\* the cut-off, and a padding for 1.013 times the ghost.
ParamCalculateSym(r) ==
  LET len(s) == Box.high[s] - Box.low[s]
      div == [s \in Dims |-> len(s) \div r]
      pad == Ceil(1013 * Ghost, 1000 * r)
  IN  Nested(Whole(Box.low, [s \in Dims |-> len(s) \div div[s]], div, pad), Dom, pad)

IsGhost(q) == GetP(q) >= gm[GetV(q)]

\* populate_cell_list: the cell of each particle; in the symmetric form
\* addDom before the ghost marker, and addPad from there on.
Place(g, opt) ==
  [q \in DOMAIN pos |-> IF opt = "sym" /\ ~IsGhost(q) THEN GetCellDom(g, pos[q])
                                                      ELSE GetCell(g, pos[q])]

Filled(g, opt) ==
  LET place == Place(g, opt)
  IN  [c \in 0 .. NCells(g) - 1 |->
         IF \A q \in DOMAIN pos : place[q] # c THEN <<>>
         ELSE SetToSeq({q \in DOMAIN pos : place[q] = c})]

Holds(x, c, p) == c \in DOMAIN cells[x] /\ p \in Range(cells[x][c])

\* The cells hold the present positions, as add or addDom puts them there.
UpToDate(x) ==
  \A q \in DOMAIN pos :
    \/ Holds(x, GetCell(geo[x], pos[q]), q)
    \/ /\ \A s \in Dims : geo[x].low[s] <= pos[q][s] /\ pos[q][s] <= High(geo[x], s)
       /\ Holds(x, GetCellDom(geo[x], pos[q]), q)

\* The list x, of decomposition g, cleared and filled.  Domain particles are
\* in the domain, ghosts outside ("must be outside the domain").
InitCl(x, g, opt) ==
  /\ \A q \in DOMAIN pos : InSpace(g, pos[q])
  /\ opt = "sym" => \A q \in DOMAIN pos :
       ~IsGhost(q) => \A s \in Dims : g.low[s] <= pos[q][s] /\ pos[q][s] <= High(g, s)
  /\ geo' = [geo EXCEPT ![x] = g]
  /\ full' = [full EXCEPT ![x] = NNcFull(g)]
  /\ sym' = [sym EXCEPT ![x] = NNcSym(g)]
  /\ cells' = [cells EXCEPT ![x] = Filled(g, opt)]
  /\ stale' = stale \ {x}
  /\ UNCHANGED <<rcache, pos, gm>>

Unchanged == UNCHANGED <<vars, gm>>

-----------------------------------------------------------------------------
(* create_: the rows of the particles before the ghost marker, from the    *)
(* full, the symmetric or the radius neighbourhood.                        *)

Met(x, how, p, q, r) ==
  CASE how = "full" -> MetFull(x, p, q)
    [] how = "radius" -> MetRadius(x, p, q, r)
    [] how = "sym" /\ client.multi -> MetSymM(x, p, q)
    [] how = "sym" /\ ~client.multi -> MetSym(x, p, q)

\* A mutant of Rows: the particles at the cut-off are taken, too.
RowsUpTo(x, how, v, r) ==
  [i \in 0 .. gm[v] - 1 |->
     [q \in DOMAIN pos |->
        IF Within(Key(v, i), q, r + 1) THEN Met(x, how, Key(v, i), q, r) ELSE 0]]

Rows(x, how, v, r) ==
  [i \in 0 .. gm[v] - 1 |->
     [q \in DOMAIN pos |->
        IF Within(Key(v, i), q, r) THEN Met(x, how, Key(v, i), q, r) ELSE 0]]

\* The scheme "CRS" visits each pair of cells from one of them: the domain
\* cells with their symmetric neighbourhood, and the cells around them with
\* the part of theirs that is in the domain.
AtMost(g, c, layers) ==
  LET k == <<c % Size2(g, 1), c \div Size2(g, 1)>>
  IN  \A s \in Dims : g.off - layers <= k[s] /\ k[s] < Size2(g, s) - g.off + layers

DomainCell(g, c) == AtMost(g, c, 0)
AnomalousCell(g, c) == AtMost(g, c, 1) /\ ~DomainCell(g, c)

\* ParticleItCRS_Cells: the particles of those cells.
CrsParticles(x) ==
  {p \in DOMAIN pos : \E c \in DOMAIN cells[x] :
     Holds(x, c, p) /\ (DomainCell(geo[x], c) \/ AnomalousCell(geo[x], c))}

\* getNNIteratorCSR starts from the cell that stores p.
MetCrs(x, p, q) ==
  Cardinality({v \in {c \in DOMAIN cells[x] : Holds(x, c, p)} \X sym[x] :
    /\ \/ DomainCell(geo[x], v[1])
       \/ AnomalousCell(geo[x], v[1]) /\ DomainCell(geo[x], v[1] + v[2])
    /\ Holds(x, v[1] + v[2], q)
    /\ v[2] = 0 => NotBefore(p, q)})

\* There is a row for every particle.
CrsRows(x, r) ==
  [p \in DOMAIN pos |->
     [q \in DOMAIN pos |-> IF Within(p, q, r) THEN MetCrs(x, p, q) ELSE 0]]

\* What was built, unless the cell list is not one the cut-off may be used
\* with: cells that are too small, or that hold other positions.
Record(x, how, v, r, enough) ==
  IF enough /\ UpToDate(x) /\ (how = "radius" => rcache[x][r] = NNcalcRad(geo[x], r))
  THEN [how |-> how, v |-> v, r |-> r, at |-> pos, gm |-> gm, geo |-> geo[x],
        inside |-> {q \in DOMAIN pos : InDomain(geo[x], pos[q])}]
  ELSE NotBuilt

Create(l, x, how, v, r, enough) ==
  /\ nn' = [nn EXCEPT ![l] = Rows(x, how, v, r)']
  /\ dp' = [dp EXCEPT ![l] = {}]
  /\ built' = [built EXCEPT ![l] = Record(x, how, v, r, enough)']

CreateCrs(l, r, enough) ==
  /\ nn' = [nn EXCEPT ![l] = CrsRows(Cli[l], r)']
  /\ dp' = [dp EXCEPT ![l] = CrsParticles(Cli[l])']
  /\ built' = [built EXCEPT ![l] = Record(Cli[l], "crs", 0, r, enough)']

-----------------------------------------------------------------------------

VInit ==
  /\ client \in Clients /\ calls = 0
  /\ \E f \in Frames : f.multi = client.multi /\ pos = f.at /\ gm = f.gm
  /\ \E g \in {CHOOSE g \in Decompositions : TRUE} :
       /\ geo = [x \in Lists |-> g]
       /\ full = [x \in Lists |-> NNcFull(g)]
       /\ sym = [x \in Lists |-> NNcSym(g)]
  /\ rcache = [x \in Lists |-> NoRadius]
  /\ cells = [x \in Lists |-> Mem!Empty(0)]
  /\ stale = {}
  /\ nn = [l \in Verlets |-> NoRows]
  /\ dp = [l \in Verlets |-> {}]
  /\ built = [l \in Verlets |-> NotBuilt]
  /\ made = [l \in Verlets |-> 0]

\* The particles move.
Drift ==
  /\ Call("drift")
  /\ \E f \in Frames : f.multi = client.multi /\ f.at # pos /\ pos' = f.at /\ gm' = f.gm
  /\ UNCHANGED <<geo, full, sym, rcache, cells, stale, nn, dp, built, made>>

\* Initialize(box, dom, r_cut, pos, g_m, opt)
InitializeBox(l, r, opt) ==
  /\ Call("box")
  /\ InitCl(Cli[l], ParamCalculate(r), opt)
  /\ made' = [made EXCEPT ![l] = r]
  /\ Create(l, Cli[l], opt, 0, r, TRUE)

InitializeSym(l, r) ==
  /\ Call("sym")
  /\ InitCl(Cli[l], ParamCalculateSym(r), "sym")
  /\ made' = [made EXCEPT ![l] = r]
  /\ Create(l, Cli[l], "sym", 0, r, TRUE)

\* InitializeCrs fills the cell list and leaves the Verlet list as it is.
InitializeCrs(l, r) ==
  /\ Call("crs")
  /\ InitCl(Cli[l], ParamCalculateSym(r), "sym")
  /\ made' = [made EXCEPT ![l] = r]
  /\ UNCHANGED <<nn, dp, built>>

CreateVerletCrs(l, r) ==
  /\ Call("crs") /\ made[l] # 0
  /\ Unchanged /\ UNCHANGED made
  /\ CreateCrs(l, r, r <= made[l])

Update(l, r, opt) ==
  /\ Call("update") /\ made[l] # 0
  /\ InitCl(Cli[l], geo[Cli[l]], opt)
  /\ UNCHANGED made
  /\ Create(l, Cli[l], opt, 0, r, r <= made[l])

UpdateCrs(l, r) ==
  /\ Call("crs") /\ made[l] # 0
  /\ InitCl(Cli[l], geo[Cli[l]], "sym")
  /\ UNCHANGED made
  /\ CreateCrs(l, r, r <= made[l])

\* A cell list of the client, filled through add.
Fill(x, g) ==
  /\ Call("fill")
  /\ InitCl(x, g, "full")
  /\ UNCHANGED <<nn, dp, built, made>>

\* Initialize(cli, r_cut, pos, pos2, g_m, opt), and the same of VerletListM
\* for the phase v: a cut-off greater than the cells takes the iterator with
\* radius, which the multi-phase list does not have.
InitializeFromCells(l, x, v, r, opt) ==
  LET wr == \A s \in Dims : r <= geo[x].unit[s]
  IN  /\ Call("external")
      /\ cells[x] # Mem!Empty(0)
      /\ UNCHANGED <<geo, full, sym, cells, stale, pos, gm, made>>
      /\ IF wr \/ opt = "sym"
         THEN /\ UNCHANGED rcache
              /\ Create(l, x, opt, v, r, wr)
         ELSE /\ ~client.multi
              /\ \A s \in Dims : Reach(geo[x], r, s) <= geo[x].off
              /\ rcache' = [rcache EXCEPT ![x] =
                   [q \in DOMAIN @ \cup {r} |-> IF q \in DOMAIN @ THEN @[q] ELSE NNcalcRad(geo[x], r)]]
              /\ Create(l, x, "radius", v, r, TRUE)

MoveCells(x, y) ==
  /\ Call("moveM")
  /\ MoveM(x, y)
  /\ UNCHANGED <<gm, nn, dp, built, made>>

\* Mem_type::clear
ClearRows(l) ==
  /\ Call("clear")
  /\ nn' = [nn EXCEPT ![l] = [i \in DOMAIN @ |-> [q \in DOMAIN @[i] |-> 0]]]
  /\ built' = [built EXCEPT ![l] = NotBuilt]
  /\ Unchanged /\ UNCHANGED <<dp, made>>

\* operator=(const VerletList &)
CopyList(l, m) ==
  /\ Call("copy")
  /\ Copy(Cli[l], Cli[m])
  /\ nn' = [nn EXCEPT ![l] = nn[m]]
  /\ dp' = [dp EXCEPT ![l] = dp[m]]
  /\ built' = [built EXCEPT ![l] = built[m]]
  /\ made' = [made EXCEPT ![l] = made[m]]
  /\ UNCHANGED gm

\* swap
SwapLists(l, m) ==
  /\ Call("swap")
  /\ Swap(Cli[l], Cli[m])
  /\ nn' = Exchanged(nn, l, m)
  /\ dp' = Exchanged(dp, l, m)
  /\ built' = Exchanged(built, l, m)
  /\ made' = Exchanged(made, l, m)
  /\ UNCHANGED gm

\* operator=(VerletList &&): the rows are copied, the CRS particles swapped,
\* and the cell list stays: an update goes on with the cells l had.
MoveList(l, m) ==
  /\ Call("move")
  /\ nn' = [nn EXCEPT ![l] = nn[m]]
  /\ dp' = Exchanged(dp, l, m)
  /\ built' = [built EXCEPT ![l] = built[m], ![m] = NotBuilt]
  /\ Unchanged /\ UNCHANGED made

VNext ==
  \/ Drift
  \/ \E l \in Verlets, r \in Radii :
       \/ \E opt \in Options : InitializeBox(l, r, opt) \/ Update(l, r, opt)
       \/ InitializeSym(l, r) \/ InitializeCrs(l, r) \/ CreateVerletCrs(l, r) \/ UpdateCrs(l, r)
       \/ \E x \in External, v \in DOMAIN gm, opt \in Options : InitializeFromCells(l, x, v, r, opt)
  \/ \E x \in External, g \in Decompositions : Fill(x, g)
  \/ \E x, y \in External : x # y /\ MoveCells(x, y)
  \/ \E l \in Verlets : ClearRows(l)
  \/ \E l, m \in Verlets : l # m /\ (CopyList(l, m) \/ SwapLists(l, m) \/ MoveList(l, m))

VSpec == VInit /\ [][VNext]_vvars

-----------------------------------------------------------------------------
(* What a list holds, by the positions it was built from.                  *)

Near(b, p, q) ==
  IF SquaredNorm(b.at[p][1] - b.at[q][1], b.at[p][2] - b.at[q][2]) < b.r * b.r THEN 1 ELSE 0

\* The particles of the phase the list is for that have a row and are in the
\* domain of its cells.
Owners(b) == {p \in b.inside : GetV(p) = b.v /\ GetP(p) < b.gm[b.v]}

\* Built from the full neighbourhood or with a radius, from its own cells or
\* from others, and copied, swapped, moved, or updated after the particles
\* moved: the list of a particle has exactly the particles that were nearer
\* than the cut-off, itself included, each once (VerletListFast.hpp:374).
FullListExact ==
  \A l \in Verlets : built[l].how \in {"full", "radius"} =>
    \A p \in Owners(built[l]) :
      nn[l][GetP(p)] = [q \in DOMAIN built[l].at |-> Near(built[l], p, q)]

\* Symmetric: two near particles are in the list of one of them, once, also
\* when they are of two phases and in the lists of those; ghosts and others
\* are listed at most once, and only when near.  Two particles of different
\* phases in the same place are in both lists.
SymListOnce ==
  \A l, m \in Verlets :
    LET b == built[l]
        c == built[m]
    IN  (/\ b.how = "sym" /\ c.how = "sym"
         /\ b.at = c.at /\ b.geo = c.geo /\ b.r = c.r /\ (l = m \/ b.v # c.v)) =>
        \A p \in Owners(b) :
          /\ l = m => \A q \in DOMAIN b.at : nn[l][GetP(p)][q] <= Near(b, p, q)
          /\ \A q \in Owners(c) :
               LET met == nn[l][GetP(p)][q] + nn[m][GetP(q)][p]
               IN  IF p = q THEN met = 2
                   ELSE IF b.at[p] = b.at[q] /\ b.v # c.v THEN met = 2
                   ELSE met = Near(b, p, q)

\* CRS: of a particle of the domain and any other near one, ghosts included,
\* one is in the list of the other, once, and getParticleSeq has every
\* particle whose list is not empty.
CrsListOnce ==
  \A l \in Verlets : built[l].how = "crs" =>
    LET b == built[l]
    IN  /\ \A p \in Owners(b), q \in DOMAIN b.at :
             IF p = q THEN nn[l][p][p] = 1
             ELSE nn[l][p][q] + nn[l][q][p] = Near(b, p, q)
        /\ Owners(b) \subseteq dp[l]
        /\ \A p \in DOMAIN b.at : p \notin dp[l] => \A q \in DOMAIN b.at : nn[l][p][q] = 0
=============================================================================
