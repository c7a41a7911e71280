---------------------------- MODULE CellListGpu ----------------------------
(***************************************************************************)
(* CellList_gpu (src/src/NN/CellList/cuda/CellList_gpu.hpp) in two         *)
(* dimensions: construct sorts the particles start .. stop-1 of a vector   *)
(* by cell, in a row of kernels whose threads run in any order, and the    *)
(* iterators of CellList_gpu_ker find the neighbours of a point in what    *)
(* the kernels left.  The dense list counts the particles of every cell    *)
(* with atomicAdd; the sparse list keeps the cells that have a particle in *)
(* a sparse vector (SparseVector), taken here by what flush_vd leaves.     *)
(*                                                                         *)
(* Buffers are functions from 0; a device buffer keeps what it held over a *)
(* resize.  A kernel is over when all its threads are; those its first     *)
(* line turns away are left out.                                           *)
(***************************************************************************)
EXTENDS CellDecomposer, SequencesExt

CONSTANTS
  Geometries,  \* decompositions with padding, as Whole gives them
  Radii,       \* arguments of setRadius
  Clients      \* what a client calls: [sparse, calls, inits]; see Construct

Call == [pl : Seq(Int \X Int), start : Nat, stop : Nat, g_m : Nat, full : BOOLEAN]
Client == [sparse : BOOLEAN, calls : Seq(Call), inits : Nat]

\* openfpm::scan, an exclusive scan.
Scan(f) ==
  LET s[i \in DOMAIN f] == IF i = 0 THEN 0 ELSE s[i - 1] + f[i - 1]
  IN  s

-----------------------------------------------------------------------------
(* From a point to its cell (cid_): without a clamp, and with the padding. *)

GetCidKey(g, pt) == [s \in Dims |-> SizeTFloor(pt[s] - g.low[s], g.unit[s]) + g.off]
GetCid(g, pt) == LinId(Size(g, 1), GetCidKey(g, pt))
TotNCell(g) == Size(g, 1) * Size(g, 2)

Padded(g) ==
  /\ g.off \in Nat \ {0}
  /\ \A s \in Dims : g.low[s] \in Int /\ g.unit[s] \in Nat \ {0} /\ g.div[s] \in Nat \ {0}

\* Every particle is in a cell of the grid: nothing checks it on the device.
InGrid(g, pt) == \A s \in Dims : GetCidKey(g, pt)[s] \in 0 .. Size(g, s) - 1

\* A sparse construct is over the whole vector: its kernels bound a thread by
\* pl.size() and store indexes that do not begin at start.
GoodCall(cl, sparse) ==
  /\ cl.start <= cl.stop /\ cl.stop <= Len(cl.pl)
  /\ cl.start = cl.stop => cl.stop = 0
  /\ sparse => cl.start = 0 /\ cl.stop = Len(cl.pl)
  /\ \A g \in Geometries : \A i \in cl.start + 1 .. cl.stop : InGrid(g, cl.pl[i])

ASSUME CellListGpuAssumption ==
  /\ Geometries # {} /\ \A g \in Geometries : Padded(g)
  /\ Radii \subseteq Nat /\ Clients \subseteq Client
  /\ \A c \in Clients : \A k \in DOMAIN c.calls : GoodCall(c.calls[k], c.sparse)

VARIABLES
  geo, is_sparse,
  cl_n, starts, cells,      \* dense: how many, from where, and who; sparse: cell of each, -, who
  part_ids,                 \* of each particle: its cell, and its place there
  cl_sparse, cells_nn, cells_nn_list, \* sparse: first particle of each cell, and its neighbour cells
  sorted_to_not_sorted, non_sorted_to_sorted,
  sorted_domain_particles_dg, sorted_domain_particles_ids,
  nnc_rad, radius,          \* offsets for the radius iterator, and the radius they are for
  pl_out,                   \* the client's second vector: positions, sorted
  call,                     \* arguments of the last construct
  phase, done,              \* the kernel that runs and its threads that have ended
  client                    \* what the client will do

dense == <<cl_n, part_ids>>
lists == <<cl_sparse, cells_nn, cells_nn_list>>
order == <<sorted_to_not_sorted, non_sorted_to_sorted, pl_out>>
domain == <<sorted_domain_particles_dg, sorted_domain_particles_ids>>
fixed == <<geo, is_sparse, nnc_rad, radius>>
vars == <<dense, starts, cells, lists, order, domain, fixed, call, phase, done, client>>

Unset == -1                     \* what nobody wrote
NoRadius == -1

Empty == [i \in {} |-> Unset]
Resize(v, n) == [i \in 0 .. n - 1 |-> IF i \in DOMAIN v THEN v[i] ELSE Unset]
Fill(n, x) == [i \in 0 .. n - 1 |-> x]
Size0(v) == Cardinality(DOMAIN v)

-----------------------------------------------------------------------------

N == call.stop - call.start
Particle(i) == call.pl[i + 1]          \* position of the particle with index i
InRange == call.start .. call.stop - 1

-----------------------------------------------------------------------------

Init ==
  /\ client \in Clients /\ is_sparse = client.sparse
  /\ geo \in Geometries
  /\ cl_n = Fill(TotNCell(geo), Unset)
  /\ starts = Empty /\ cells = Empty /\ part_ids = Empty
  /\ cl_sparse = Empty /\ cells_nn = Empty /\ cells_nn_list = Empty
  /\ sorted_to_not_sorted = Empty /\ non_sorted_to_sorted = Empty /\ pl_out = Empty
  /\ sorted_domain_particles_dg = Empty /\ sorted_domain_particles_ids = Empty
  /\ nnc_rad = {} /\ radius = NoRadius
  /\ call = [pl |-> <<>>, start |-> 0, stop |-> 0, g_m |-> 0, full |-> FALSE]
  /\ phase = "none" /\ done = {}

Idle == phase \in {"none", "built"}

\* Initialize on a list that has been used: only cl_n is resized, and the
\* offsets of the radius stay those of the old grid.
Initialize(g) ==
  /\ Idle /\ client.inits > 0
  /\ geo' = g
  /\ cl_n' = Resize(cl_n, TotNCell(g))
  /\ phase' = "none" /\ radius' = NoRadius
  /\ client' = [client EXCEPT !.inits = @ - 1]
  /\ UNCHANGED <<part_ids, starts, cells, lists, order, domain, is_sparse, nnc_rad, call, done>>

SetRadius(r) ==
  /\ Idle /\ ~is_sparse
  /\ nnc_rad' = NNcalcRad(geo, r) /\ radius' = r
  /\ UNCHANGED <<dense, starts, cells, lists, order, domain, geo, is_sparse, call, phase, done, client>>

Clear ==
  /\ phase = "built"
  /\ cl_n' = Empty /\ cells' = Empty /\ starts' = Empty /\ part_ids' = Empty
  /\ sorted_to_not_sorted' = Empty
  /\ phase' = "none"
  /\ UNCHANGED <<lists, non_sorted_to_sorted, pl_out, domain, fixed, call, done, client>>

\* construct: what the host does before the first kernel.  Without particles
\* the dense list only gets its starts.  pl_out is a vector of the client, as
\* long as pl.
Construct ==
  /\ Idle /\ client.calls # <<>>
  /\ call' = Head(client.calls) /\ client' = [client EXCEPT !.calls = Tail(@)]
  /\ done' = {}
  /\ pl_out' = Resize(Empty, Len(call'.pl))
  /\ part_ids' = Resize(part_ids, N')
  /\ IF is_sparse
       THEN /\ starts' = Resize(starts, N') /\ phase' = "subindex"
            /\ UNCHANGED cl_n
       ELSE /\ cl_n' = Fill(TotNCell(geo) + 1, 0)
            /\ IF call'.stop = 0
                 THEN starts' = Fill(TotNCell(geo) + 1, 0) /\ phase' = "built"
                 ELSE phase' = "subindex" /\ UNCHANGED starts
  /\ UNCHANGED <<cells, lists, sorted_to_not_sorted, non_sorted_to_sorted, domain, fixed>>

-----------------------------------------------------------------------------
(* The kernels: one step of each thread, which writes what is its own but  *)
(* for the counter of a cell.                                              *)

Todo == (0 .. N - 1) \ done
Thread(kernel, t) == phase = kernel /\ t \in Todo /\ done' = done \cup {t} /\ UNCHANGED phase
After(kernel, next) == phase = kernel /\ Todo = {} /\ done' = {} /\ phase' = next

\* subindex: the cell of a particle, and its place in the cell.
SubIndex(t) ==
  /\ Thread("subindex", t)
  /\ LET cid == GetCid(geo, Particle(t + call.start))
     IN  IF is_sparse
           THEN /\ part_ids' = [part_ids EXCEPT ![t] = <<cid, Unset>>]
                /\ starts' = [starts EXCEPT ![t] = cid]
                /\ UNCHANGED cl_n
           ELSE /\ part_ids' = [part_ids EXCEPT ![t] = <<cid, cl_n[cid]>>]
                /\ cl_n' = [cl_n EXCEPT ![cid] = @ + 1]
                /\ UNCHANGED starts
  /\ UNCHANGED <<cells, lists, order, domain, fixed, call, client>>

ScanCells ==
  /\ ~is_sparse /\ After("subindex", "fill")
  /\ starts' = Scan(cl_n)
  /\ cells' = Resize(cells, N)
  /\ UNCHANGED <<dense, lists, order, domain, fixed, call, client>>

\* fill_cells.
\* mutant: indexes from the beginning of the range
FillCellsRelative(t) ==
  /\ Thread("fill", t)
  /\ cells' = [cells EXCEPT ![starts[part_ids[t][1]] + part_ids[t][2]] = t]
  /\ UNCHANGED <<dense, starts, lists, order, domain, fixed, call, client>>
FillCells(t) ==
  /\ Thread("fill", t)
  /\ cells' = [cells EXCEPT ![starts[part_ids[t][1]] + part_ids[t][2]] = t + call.start]
  /\ UNCHANGED <<dense, starts, lists, order, domain, fixed, call, client>>

\* fill_cells_sparse and flush_vd: the particles in the order of their cells,
\* those of a cell in the order the threads inserted them, and for each cell
\* the first of them.
SortedBy(f) == {p \in [DOMAIN f -> DOMAIN f] :
                  \A i, j \in DOMAIN f : i < j => p[i] # p[j] /\ f[p[i]] <= f[p[j]]}
SortSparse ==
  /\ is_sparse /\ After("subindex", "sorted")
  /\ cells' \in SortedBy(starts)
  /\ cl_sparse' = [c \in {starts[t] : t \in DOMAIN starts} |->
                     CHOOSE i \in DOMAIN cells' :
                       starts[cells'[i]] = c /\ \A j \in 0 .. i - 1 : starts[cells'[j]] # c]
  /\ UNCHANGED <<dense, starts, cells_nn, cells_nn_list, order, domain, fixed, call, client>>

\* construct_cell_nn_test: the offsets of the box, first coordinate first.
NNOffset(g, r, k) ==
  LET w == 2 * r + 1
  IN  LinId(Size(g, 1), <<(k % w) - r, (k \div w) - r>>)
NNTest(g) == [k \in 1 .. 9 |-> NNOffset(g, 1, k - 1)]

\* The member of S with i members below it.
Nth(S, i) == CHOOSE x \in S : Cardinality({y \in S : y < x}) = i

\* count_nn_cells and fill_nn_cells: of each cell with particles, the
\* neighbour cells with particles, from their first to before the first of
\* the next cell; of the last cell, to the end.  The list of the i-th cell is
\* at cells_nn[i].
SparseCells == DOMAIN cl_sparse
NextStart(c) ==
  IF \E d \in SparseCells : d > c
  THEN cl_sparse[CHOOSE d \in SparseCells :
                   d > c /\ \A e \in SparseCells : e > c => d <= e]
  ELSE Size0(cells)
FoundNN(c) == {k \in 1 .. 9 : c + NNTest(geo)[k] \in SparseCells}
NeighbourCells(c) ==
  [j \in 0 .. Cardinality(FoundNN(c)) - 1 |->
     LET d == c + NNTest(geo)[Nth(FoundNN(c), j)] IN <<cl_sparse[d], NextStart(d)>>]
CountFillCells ==
  /\ phase = "sorted" /\ phase' = "neighbours"
  /\ LET n == Cardinality(SparseCells)
     IN  /\ cells_nn' = Scan([i \in 0 .. n |-> IF i < n THEN Cardinality(FoundNN(Nth(SparseCells, i))) ELSE 0])
         /\ cells_nn_list' =
              [x \in 0 .. cells_nn'[n] - 1 |->
                 LET i == CHOOSE i \in 0 .. n - 1 : cells_nn'[i] <= x /\ x < cells_nn'[i + 1]
                 IN  NeighbourCells(Nth(SparseCells, i))[x - cells_nn'[i]]]
  /\ UNCHANGED <<dense, starts, cells, cl_sparse, order, domain, fixed, call, done, client>>

StartReorder ==
  /\ \/ After("fill", "reorder")
     \/ phase = "neighbours" /\ phase' = "reorder" /\ UNCHANGED done
  /\ sorted_to_not_sorted' = Resize(sorted_to_not_sorted, N)
  /\ non_sorted_to_sorted' = Resize(non_sorted_to_sorted, Len(call.pl))
  /\ UNCHANGED <<dense, starts, cells, lists, pl_out, domain, fixed, call, client>>

\* reorder_parts
ReorderParts(t) ==
  /\ Thread("reorder", t)
  /\ pl_out' = [pl_out EXCEPT ![t] = Particle(cells[t])]
  /\ sorted_to_not_sorted' = [sorted_to_not_sorted EXCEPT ![t] = cells[t]]
  /\ non_sorted_to_sorted' = [non_sorted_to_sorted EXCEPT ![cells[t]] = t]
  /\ UNCHANGED <<dense, starts, cells, lists, domain, fixed, call, client>>

\* construct_domain_ids, if the client wants them.
StartDomainIds ==
  /\ After("reorder", IF call.full THEN "mark" ELSE "built")
  /\ sorted_domain_particles_dg' =
       IF call.full THEN Resize(sorted_domain_particles_dg, N + 1) ELSE sorted_domain_particles_dg
  /\ UNCHANGED <<dense, starts, cells, lists, order, sorted_domain_particles_ids, fixed, call, client>>

MarkDomainParticles(t) ==
  /\ Thread("mark", t)
  /\ sorted_domain_particles_dg' =
       [sorted_domain_particles_dg EXCEPT ![t] = IF sorted_to_not_sorted[t] < call.g_m THEN 1 ELSE 0]
  /\ UNCHANGED <<dense, starts, cells, lists, order, sorted_domain_particles_ids, fixed, call, client>>

ScanDomain ==
  /\ After("mark", "collect")
  /\ sorted_domain_particles_dg' = Scan(sorted_domain_particles_dg)
  /\ sorted_domain_particles_ids' = Resize(sorted_domain_particles_ids, sorted_domain_particles_dg'[N])
  /\ UNCHANGED <<dense, starts, cells, lists, order, fixed, call, client>>

\* collect_domain_ghost_ids
CollectDomainIds(t) ==
  /\ Thread("collect", t)
  /\ sorted_domain_particles_ids' =
       IF sorted_domain_particles_dg[t + 1] # sorted_domain_particles_dg[t]
       THEN [sorted_domain_particles_ids EXCEPT ![sorted_domain_particles_dg[t]] = t]
       ELSE sorted_domain_particles_ids
  /\ UNCHANGED <<dense, starts, cells, lists, order, sorted_domain_particles_dg, fixed, call, client>>

EndConstruct ==
  /\ After("collect", "built")
  /\ UNCHANGED <<dense, starts, cells, lists, order, domain, fixed, call, client>>

Next ==
  \/ \E g \in Geometries : Initialize(g)
  \/ \E r \in Radii : SetRadius(r)
  \/ Clear \/ Construct
  \/ ScanCells \/ SortSparse \/ CountFillCells \/ StartReorder
  \/ StartDomainIds \/ ScanDomain \/ EndConstruct
  \/ \E t \in 0 .. N - 1 : SubIndex(t) \/ FillCells(t) \/ ReorderParts(t)
                           \/ MarkDomainParticles(t) \/ CollectDomainIds(t)

Spec == Init /\ [][Next]_vars

-----------------------------------------------------------------------------
(* The iterators of CellList_gpu_ker, as the sequence of sorted indexes    *)
(* they return.                                                            *)

From(a, b) == [k \in 1 .. b - a |-> a + k - 1]
OfCell(c) == IF {c, c + 1} \subseteq DOMAIN starts THEN From(starts[c], starts[c + 1]) ELSE <<>>

\* NN_gpu_it: the cells of the box around a cell, first coordinate first.
\* mutant: the last row of the box is left out
NNIteratorBoxShort(key, r) ==
  FlattenSeq([k \in 1 .. (2 * r + 1) * 2 * r |-> OfCell(LinId(Size(geo, 1), key) + NNOffset(geo, r, k - 1))])
NNIteratorBox(key, r) ==
  FlattenSeq([k \in 1 .. (2 * r + 1) * (2 * r + 1) |-> OfCell(LinId(Size(geo, 1), key) + NNOffset(geo, r, k - 1))])

\* NN_gpu_it of a sparse list, from a cell that has particles.
NNIteratorSparse(c) ==
  LET id == Cardinality({d \in DOMAIN cl_sparse : d < c})
  IN  FlattenSeq([k \in 1 .. cells_nn[id + 1] - cells_nn[id] |->
                    LET cell == cells_nn_list[cells_nn[id] + k - 1] IN From(cell[1], cell[2])])

\* NN_gpu_it_radius: the cells at the offsets of setRadius.
NNIteratorRadius(key) ==
  LET c == LinId(Size(geo, 1), key)
  IN  FlattenSeq([k \in 1 .. TotNCell(geo) |-> IF k - 1 - c \in nnc_rad THEN OfCell(k - 1) ELSE <<>>])

NNIterator(pt) ==
  IF is_sparse THEN NNIteratorSparse(GetCid(geo, pt)) ELSE NNIteratorBox(GetCidKey(geo, pt), 1)

-----------------------------------------------------------------------------
(* Properties.                                                             *)

\* The particles start .. stop-1, by cell: the two maps are inverse to each
\* other, and the sorted vector follows them.
SortedIds == 0 .. N - 1
SortedByCell ==
  /\ {sorted_to_not_sorted[i] : i \in SortedIds} = InRange
  /\ \A i \in SortedIds : /\ non_sorted_to_sorted[sorted_to_not_sorted[i]] = i
                          /\ pl_out[i] = Particle(sorted_to_not_sorted[i])
  /\ \A i, j \in SortedIds : i < j => GetCid(geo, pl_out[i]) <= GetCid(geo, pl_out[j])

\* The particles of a dense cell are where starts says.
StartsCount ==
  ~is_sparse => \A c \in 0 .. TotNCell(geo) :
                  starts[c] = Cardinality({p \in InRange : GetCid(geo, Particle(p)) < c})

\* The domain ids are the sorted indexes below the ghost marker, ascending.
DomainIds == {i \in SortedIds : sorted_to_not_sorted[i] < call.g_m}
DomainIdsExact ==
  LET ids == sorted_domain_particles_ids
  IN  /\ DOMAIN ids = 0 .. Cardinality(DomainIds) - 1
      /\ {ids[k] : k \in DOMAIN ids} = DomainIds
      /\ \A k, l \in DOMAIN ids : k < l => ids[k] < ids[l]

\* In whatever order the threads of the kernels ran, and whatever the buffers
\* held, construct has sorted exactly the particles of its range by cell, and
\* with Full it has found which of them are in the domain.
ConstructedExactly ==
  phase = "built" => SortedByCell /\ StartsCount /\ (call.full /\ N > 0 => DomainIdsExact)

\* uint_floor takes a point below the domain on the border of a cell one cell
\* too low.
Lowered(q) == \E s \in Dims : q[s] < geo.low[s] /\ (geo.low[s] - q[s]) % geo.unit[s] = 0

\* The iterators of a point in the domain return no particle twice, none that
\* was not sorted, and every one as near as a side of a cell; the radius
\* iterator, with offsets of this grid, every one within the radius.  Of the
\* particles stored too low, those nearer than that.
Distance(p, q, s) == IF p[s] < q[s] THEN q[s] - p[s] ELSE p[s] - q[s]
InDomain(pt) == \A s \in Dims : geo.low[s] <= pt[s] /\ pt[s] < High(geo, s)
Within(q, d, limit) == IF Lowered(q) THEN d < limit ELSE d <= limit
NearCell(pt, q) == \A s \in Dims : Within(q, Distance(pt, q, s), geo.unit[s])
NearRadius(pt, q) == Within(q, SquaredNorm(Distance(pt, q, 1), Distance(pt, q, 2)), radius * radius)
Finds(seen, near) ==
  /\ \A a, b \in DOMAIN seen : seen[a] = seen[b] => a = b
  /\ \A a \in DOMAIN seen : seen[a] \in SortedIds
  /\ \A q \in near : \E a \in DOMAIN seen : sorted_to_not_sorted[seen[a]] = q
NeighboursOnce ==
  phase = "built" =>
    \A pt \in {Particle(p) : p \in InRange} : InDomain(pt) =>
      /\ Finds(NNIterator(pt), {q \in InRange : NearCell(pt, Particle(q))})
      /\ radius # NoRadius =>
           Finds(NNIteratorRadius(GetCidKey(geo, pt)), {q \in InRange : NearRadius(pt, Particle(q))})
=============================================================================
