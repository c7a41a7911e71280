# openfpm_data: a verification project

TLA+ modules, TLC runs and TLAPS proofs about openfpm_data, the header library
that holds the data structures of OpenFPM: sparse and dense grids, vectors,
cell lists, Verlet lists, graphs, and the packing of all of them into messages.
Paths below are relative to the repository root (`src/...` in the repository is
`src/src/...` here).

## 1. Inventory

The library is single-threaded on the CPU; each object belongs to its caller.
What is hard there are index structures that point into each other (a hash map,
a cache, a list of free entries and a vector of chunks that is compacted), long
sequences of legal calls, and arithmetic at the borders of a grid.  The GPU
parts add kernels: thousands of threads that share counters through atomicAdd
and shared memory behind barriers, and pipelines of sorts, scans and merges
that are cut into thread blocks anywhere.

| part | state | operations | what is hard | what makes it correct |
|---|---|---|---|---|
| **sparse grid** `SparseGrid/SparseGrid.hpp` (`sgrid_cpu`) | hash map id -> chunk, two-slot cache, vectors of headers, masks and data, list `empty_v` of emptied chunks, `NNlist` of neighbours, grid size | insert, get, existPoint, remove, remove_no_flush, flush_remove, remove(Box), resize, clear, reorder, conv, conv_cross, copy_to, pack/unpack, swap/assign | every removal may renumber all chunks; the cache, the list of empty chunks and NNlist hold indices across calls | the client sees a map from points to values; map, headers and cache agree; no chunk with points is reclaimed, every empty one can be |
| **sparse grid iterators** `SparseGrid_iterator.hpp` | chunk index, position among the set cells | next, reinitialize | the grid changes under the iterator | every point once |
| **cell list** `NN/CellList/CellList.hpp` with `NN/Mem_type/*` | the elements of each cell; `Mem_fast` packs them into one block with a number of slots per cell that doubles; neighbour offsets and a cache of them by radius | Initialize, add, addDom, addPad, remove, clear, swap, assign, neighbour iterators | growth while adding, swapping and moving blocks with different slot numbers, offsets cached across Initialize | each cell holds what was added to it; each pair of near particles is found, once in the symmetric schemes |
| **cell decomposer** `NN/CellList/CellDecomposer.hpp` | origin, spacing, divisions, padding, shift | getCell, getCellDom, getCellPad, getGridPoints, setDimensions, convert* | points on the border between domain and padding | every point gets the cell that contains it; Dom and Pad force the side |
| **Verlet list** `NN/VerletList/*` | a cell list and for each particle its neighbours | Initialize (full, symmetric, CRS), update, createVerlet | ghost particles, symmetric lists | exactly the particles within r_cut |
| **vector** `Vector/map_vector*.hpp` | block, size, capacity | add, resize, remove, remove(keys), sort, swap, duplicate | growth, moves that leave the source stale | a sequence |
| **sparse vector** `Vector/map_vector_sparse.hpp` | sorted index vector and data, pending inserts and removals in per-block pools | insert, remove, flush with a reduction per property, get | merge of sorted old and new entries, reductions in the order of insertion | a map with reductions applied in order |
| **GPU sparse grid** `SparseGridGpu/*` | sparse vector of blocks with masks | insertBlock, insert, remove, flush, ghost, convolutions | threads race to insert one block | one block per id, no insert lost |
| **graph** `Graph/map_graph.hpp` | vertices, fixed number of edge slots per vertex | addVertex, addEdge, removal, swap | slot growth | adjacency as added |
| **dense grid** `Grid/*` | block, `grid_sm` sizes | get, set, resize, copy_to, pack | linearization, copy of the overlap | resize keeps the overlap |
| **grid iterators** `Grid/iterators/*` | current key | next | skip of the border, periodic wrap | every key once, in order |
| **packer** `Packer_Unpacker/*` | buffer and offset | packRequest, pack, unpack | the two sides must advance alike | unpack(pack(x)) = x |
| space, shapes, expressions, memory layout, aggregates, utilities | none or a block | - | floating point, compile time | - |

How they interact: the sparse grid keeps its chunks in vectors and calls
`vector::remove(keys)` to compact them and the vendored hopscotch map to find
them; the Verlet list is filled through the cell list, whose geometry is a cell
decomposer and whose memory is one of three classes; the GPU sparse grid is a
sparse vector of blocks, and the sparse form of the GPU cell list keeps its
cells in one; the Cartesian graph factory walks a `grid_sm` and adds the edges
one by one; iterators hold references to the container they walk
and are not told when it changes.  There are no messages inside the library;
pack and unpack prepare them for the distributed layer, another repository.

`PROJECT.json` lists every part with its status, the hazards at the line where
they bite, and the lines each definition translates.

## 2. Plan

In the order of how much of the system rests on them, and where it stands:

1. **Sparse grid**: `SparseMap` (abstract), `SparseGrid`, `SparseGrid_proof`.
   *Modelled on one object; safety and refinement proved.*
2. **Cell list memory**: `CellMemory` (abstract), `MemFast`, `MemFast_proof`.
   *Modelled; refinement proved.*
3. **Cell list**: `CellDecomposer` (arithmetic), `CellList`, which composes it
   with the memory, `Neighbourhoods_proof`.  *Modelled; safety proved.*
4. **Verlet list**: `CellListM` (phases), `VerletList`, over the cell list,
   `Neighbourhoods_proof` too.  *Modelled; safety proved.*
5. **Sparse vector**: `ReducedMap` (abstract), `SparseVectorKernels` (the
   kernels of a flush as operators), `SparseVector`, and the proofs in
   `SparseVector_proof` (keys, search, order of the operands) and
   `SparseVectorMap_proof` (types and the map).  *Modelled; safety and refinement
   proved.*
6. **Insert kernels**: `InsertKernel`, thread by thread, with the barriers,
   `InsertKernel_proof`.  *Modelled; liveness checked, safety proved.*
7. **GPU sparse grid**: `BlockMap`, chunks with masks, over the same kernels and
   the same abstract map.  *The block map is modelled and checked.*
8. **GPU cell list**: `CellListGpu`, kernels thread by thread,
   `CellListGpu_proof`.  *Modelled for one list; safety proved.*
9. **Graph**: `Multigraph` (abstract), `Graph`, and with `GridSm` the Cartesian
   factory, `CartesianGraph`, and `Graph_proof`.  *Modelled; safety and refinement
   of the graph proved, the factory checked.*
10. *Left*: the sparse grid's copy_to, pack and unpack and its iterators; the
    grid iterators and `openfpm::vector`; the stencils and tagging of the GPU
    sparse grid; proofs about the factory and the block map, whose kernels
    would first have to be written without recursive operators.

Each abstract specification is what a client thinks in: a map of points
(`SparseMap`), a vector of vectors (`CellMemory`), a map in which every flushed
insertion counts once (`ReducedMap`), a multigraph (`Multigraph`).  The Verlet
list and the GPU cell list have none of their own: what they promise is a
predicate on a finished list (each near pair once), and a state property says
it directly.

## 3. Modules and the code they model

Every module says at its top what it leaves out; `PROJECT.json` gives the lines
of each definition.  Definitions marked as mutants are deliberately wrong
versions of the one after them, used to see that a property can fail.

What a client may do is in the guards of the actions.  Where the library
demands something of its caller (a free slot, a fresh pool, a position inside
the padding) and does not check it, the guard says so and sections 6 and 7 name
it.  The specifications that compose several uses of one object let the initial
state choose a `client`, a record of the calls it makes and how many: each
client is checked with every order of its calls, and the union of the clients
with all actions.

### SparseGrid, over SparseMap

| in the module | in `SparseGrid.hpp` |
|---|---|
| `chunks`, `nchunk` | `header_inf`, `header_mask` and `chunks`, three vectors of one size, and that size; a header's mask is the domain of the record's `cells` |
| `map` | the hopscotch map from linearized id to index |
| `cache` | `cache_pnt`, `cache[]`, `cached_id[]` |
| `empty_v` | the ids of emptied chunks, and the length of the list |
| `NNlist`, `findNN`, `conv` | the neighbour list, its flag, and the progress of a convolution |
| `ub` | the last call read or shrank past the end of a vector; nothing is said afterwards |
| `Insert`, `Get`, `Remove`, `RemoveNoFlush`, `FlushRemove`, `RemoveBox`, `Resize`, `Clear`, `Reorder` | the public calls, each with the reclaiming (`RemoveEmpty`) it ends with |
| `ConvBegin`, `ConvSkip`, `ConvLookup`, `ConvUse`, `ConvEnd` | one convolution: chunk by chunk, the two lookups of each |

The model is a *row* of the grid: only the first coordinate varies.  A chunk
has one coordinate, `LinId` of it is that coordinate, and of the neighbour
lookups of a convolution (six in three dimensions) only the two along the row
are modelled.  The other four differ only in the id they ask for, and every
structure of the class works with ids alone.  What the row does not show is two
coordinates that linearize alike, and the address arithmetic inside a chunk.
A convolution is split into the lookups because the cache changes between them;
the library calls nothing of the client in between.

Undefined behaviour is a choice: the header read past the end of `header_inf`
(after `clear`, an id of `empty_v` can be out of range) shows zero elements or
not, and the slots of `cached_id` start with any value of `Garbage`.

### MemFast, over CellMemory

`mem[x]` holds `slot`, `cl_n` and the block `cl_base` of a memory; the element
`e` of cell `c` is at `slot * c + e`.  `InitToZero`, `AddCell` (with the growth
of `Grown` and `Realloc`), `Remove`, `Clear`, `Destroy`, `Copy` (also
`copy_general`, which does the same), `Swap` (also the move assignment) and
`SwapMoved` (swap with a moved object, which takes the slot count one way only)
are the methods.  An object that was moved from is in `moved`: no caller uses
it before it is set again.  `View` is what get and getNelements return, and
`ImplementsCellMemory` maps it to the cells of `CellMemory`.

### CellList, over CellDecomposer and CellMemory

`CellDecomposer` has operators only: `Whole` and `Nested` build a decomposition
(`setDimensions`), `GetCell`, `GetCellDom` go from a point to a cell,
`ToCellUnits` from a box to cells, `NNcFull`, `NNcSym` and `NNcalcRad` give the
neighbourhoods.  Space is an integer lattice in two dimensions; `SizeTFloor`
keeps the way `size_t_floor` truncates (one too low for a negative whole
number), and ids that would be negative wrap to the upper clamp as the `size_t`
does.

`CellList` keeps, for each list, the decomposition `geo`, the two neighbourhood
arrays, the neighbourhoods cached by radius, and through `Mem == INSTANCE
CellMemory` the cells.  An action of the list is conjoined with the action of
the memory it calls: that is how `swap`, `operator=(&)` and `operator=(&&)`,
which treat decomposition, arrays and memory each by its own rule, are
followed.  The iterators are not actions, because nothing in `src` changes a
list while it iterates; `MetFull`, `MetSym` and `MetRadius` count how often a
visit meets a particle.

What a client may do is in the guards: a particle is added to a list once,
inside the padded box (`InSpace`), with `addDom` when it lies in the domain and
`addPad` when it does not; a radius needs padding as thick as itself; a list
that was moved from is set before it is used.

### VerletList, over CellListM and CellList

`VerletList` extends the cell list by what a Verlet list keeps: rows (`nn`),
the particles of the CRS scheme (`dp`), and a cell list inside each (`Cli`).
The actions are the methods: `InitializeBox`, `InitializeSym`, `InitializeCrs`,
`CreateVerletCrs`, `Update`, `UpdateCrs`, `InitializeFromCells` (a cell list the
client filled, `VerletListM` included), `ClearRows`, `CopyList`, `SwapLists`,
`MoveList`; `Drift` moves the particles, `Fill` and `MoveCells` are the client's
calls on its own cell lists.  A row is the number of times each particle was
added to it, since that is what can go wrong; the order in a row is left out,
and so is the order in which a cell holds its particles.  `Filled` is
`populate_cell_list`: `addDom` before the ghost marker, `addPad` after it, into
cells that hold what they were given in any fixed order.  `built` and `made` are history: from what a row was built.  Nothing
constrains the code with them; they say when a statement about a row is due,
because a caller may ask for a cut-off its cells are too small for, and the code
then builds a short list without a word.

`CellListM` keeps several phases in one list: a stored element is a key, phase
above and index below (`Key`, `GetV`, `GetP`), with few bits instead of 64.  The
domain and anomalous cells of the CRS scheme come from another repository
(openfpm_pdata): `DomainCell` and `AnomalousCell` are external, chosen as the
scheme needs them.

### SparseVector and BlockMap, over SparseVectorKernels and ReducedMap

`SparseVectorKernels` has the kernels of a flush as operators on sequences:
sort (any order of equal keys), segmented reduction, merge, `ConflictData`,
`ConflictKeys`, `Realign`, with the cut into thread blocks of `BlockDim`.  A
value is the sequence of the insertions reduced into it and a reduction is
concatenation: the free associative operation, so a lost, doubled or misplaced
term shows.  `SparseVector` has the vector on the host (`Insert`, `InsertFlush`,
`FlushOnHost`) and on the device (`SetGPUInsertBuffer`, `InsertKernel`,
`PreFlush`, `FlushOnDevice`, `RemoveKernel`, `FlushRemove`), and `Clear`, `Swap`,
`SetBackground`, `RemoveUnusedBuffers`; a kernel is one step here.

`BlockMap` is `BlockMapGpu`: its values are chunks of points with masks.  A
launch inserts a sequence of chunks, a flush reduces those of one block point by
point (`SegreduceWithMask`, in rounds and pairs as the warps do it) and merges
them into the old chunk; `RemoveKernel` clears mask bits.

Both implement `ReducedMap`: keys to bags of insertions, with what is pending,
what is to be removed, and the background.

### InsertKernel

What `SparseVector` and `BlockMap` take as a step, thread by thread: `pc` says
where each thread is between its accesses to shared memory, `Barrier` is
`__syncthreads`.  One kernel at a time runs on a grid of thread blocks; it is of
one of three kinds (`element`, `blocked`, `sphere`), after the kernels of the
repository's tests, the only callers in it.  `before` is history: what the pools
held at the launch.

### CellListGpu

One GPU cell list: `Initialize`, `SetRadius`, `Clear`, `Construct`, and then one
action per thread and kernel (`SubIndex`, `FillCells`, `ReorderParts`,
`MarkDomainParticles`, `CollectDomainIds`, for the sparse list `SortSparse`,
`NeighbourCells`), with the scans between them.  A kernel starts when the one
before it has ended, as on a stream.  The iterators are operators on the state
a finished construct leaves.

### Graph, over Multigraph; CartesianGraph, over Graph and GridSm

A graph is a record of the code's vectors (`v`, `v_l`, `e`, `e_l`, `e_invalid`,
`v_slot`); the operations are functions of that record, and the actions call
them on one of several graphs.  `it` is an edge iterator that runs while the
client goes on adding.  `CartesianGraph` runs `Graph_constructor_impl`, vertex by
vertex and combination by combination, over grids of one, two and three
dimensions, each with every set of periodic borders; `GridSm` has the
linearization and its inverse, and the neighbour with or without wrap.

## 4. The runs

Except for `kernel` the specifications are `Init /\ [][Next]_vars`: the library
does nothing on its own and a client may stop calling it at any time, so there
is no fairness to assume and every property is a safety property.  In
`InsertKernel` a launched kernel does go on by itself: `Fairness` is weak
fairness of every thread and every barrier, which is what the device scheduler
gives to the threads of a resident block; launches have none.  Under it
`KernelEnds` says that no kernel waits for ever at a barrier.

| run | question | bounds | checks |
|---|---|---|---|
| `core` | do the index structures of the grid agree under insert, get and every removal? | 5 points in chunks of 2, reclaiming at 2 empty chunks | `TypeOK`, `MapIsHeaders`, `CacheIsMap`, `CountIsMask`, `EmptyIsListed` |
| `map` | is the grid a map of points? | 3 points, chunks of 1, two values | `GetIsContents`, `ImplementsMap` |
| `resize` | the same with resize, clear and reorder | sizes 1, 2, 4, chunks of 2 | `BackgroundFirst`, `ImplementsMap` |
| `conv` | does a convolution fill the right neighbours? | 3 chunks, any garbage of two values in the cache | `FillFindsNeighbours` |
| `cells` | is the block of slots a vector of vectors? | two lists, two cells, one slot that doubles, two elements per cell, two kinds of elements | `TypeOK`, `StopInBlock`, `NoOverrun`, `ImplementsCellMemory` |
| `neigh` | are particles in their cells, whatever brought list and decomposition together? | two lists, two particles at five points (corners, inside, padding, upper border), a coarse and a fine decomposition (padding 1 and 2) of one box and its right half, radius of one coarse cell | `TypeOK`, `CellContains`, `RadiusIfCurrent` |
| `verlet` | does a Verlet list hold each near pair exactly once? | two Verlet lists, two cell lists of the client, four particles of one phase or two and two of two phases, two placements each, two cut-offs, five clients with four calls each | `FullListExact`, `SymListOnce`, `CrsListOnce` |
| `vector` | is a sparse vector a map with reductions? | three keys, thread blocks of two, two pools of two slots, four insertions, six clients | `TypeOK`, `IndexSorted`, `SearchFinds`, `FlushOrder`, `ImplementsMap` |
| `kernel` | do threads that share a pool lose or mix insertions, or wait for ever? | up to two thread blocks of up to four threads, two launches, every set of active threads | `TypeOK`, `SlotsDisjoint`, `SameSlot`, `PoolExact`, `KernelEnds` |
| `blocks` | is the block map a map from points to values? | two blocks of two points, two chunks reduced at a time, launches of up to five chunks, four clients | `TypeOK`, `GetAnswers`, `ImplementsMap` |
| `gpucells` | is the GPU list sorted right and are neighbours found once, in whatever order threads run? | two grids of 4 and 2 cells and padding, up to five particles, two or three constructs, five clients | `ConstructedExactly`, `NeighboursOnce` |
| `graph` | are graphs the multigraphs they stand for, and does the factory connect the cells that touch? | two graphs of two vertices and edges together, one of three with an iterator; all grids up to 3 x 3 and three of three dimensions, with every set of periodic borders and every `dim_c` | `TypeOK`, `EdgesNamed`, `VisitsEveryEdge`, `ConnectsCellsThatTouch`, `ImplementsMultigraph` |

Why the bounds are enough.  *Grid*: the cache has two slots, so three chunks
make it overflow and wrap; reclaiming at two lets one flush renumber one, two
or no chunks and keep a refilled one; chunks of two distinguish a partly from a
fully emptied chunk.  `MaxChunks` is one above what fits and so never blocks
the insertion of a point; `MaxEmpty` bounds the list of `remove_no_flush` above
the length that triggers a flush.  `FLUSH_REMOVE` is 1024 in the source;
its value only delays the flush.  In `resize` it is
out of reach, because a flush after a resize works on the wrong chunks (a
hazard without a property).  *Cells*: one slot that doubles to two and four
covers growth with and without elements in later cells, and the free place
that `getStopId` points to; two lists suffice since no operation takes three.
The two lists and the elements are symmetric: no operation tells them apart.
*Cell list*: a neighbourhood involves two particles at a time, and a list has
no state that depends on a third; two lists for the assignments.  Particles are
integers and not symmetric, since an iterator compares them.  *Verlet list*: the
placements put pairs in one cell, across cells, exactly at the cut-off, in one
place, with the ghost on either side of the domain, and equal places in two
phases; four calls are build, move or assign, rebuild and one more.  *Sparse
vector*: with thread blocks of two, four to six merged entries put a pair of
equal keys inside a thread block, across two, and at either end; `MaxPools`
bounds the counters, which each flush makes one longer.  *Kernels*: two chunks
of two threads have a leader and a follower each, and a second launch meets what
the first left in pools and shared memory; whether two thread blocks touch the
pools of each other shows with two.  *Block map*: five chunks of one block are
two whole rounds of two and a remainder.  *Graph*: edges of one vertex before
and behind an iterator, copies and swaps of two graphs; in the factory, one and
two cells in a periodic dimension are the cases where a cell is its own
neighbour, or another's on both sides.

Deadlock is checked except in `conv`, where the model stops after undefined
behaviour (`ub`), and in `verlet`, `kernel` and `gpucells`, where a client has
made its calls and stops.

## 5. The proofs

Proved for all values of the constants by TLAPS, with the assumptions named in
the modules.

**SparseGrid** (`SparseGrid_proof`).  `TypeCorrect` needs no other assumption.
The rest assumes `SortIsStable`: either the client never calls `reorder`, or no
grid has more chunks than std::sort treats by insertion; without it the
background may move (section 6).  The inductive invariant
`IndInv` is the type invariant together with

- the background is at index 0 and index 0 is never on the list of empty
  chunks: otherwise reclaiming could remove the background;
- no two chunks are at one position, and the map leads to every chunk
  (`OnePerPosition`, `Leads`): `reconstruct_map` lets the last of two win, so
  `MapIsHeaders` alone is not preserved by a step that renumbers without it;
- a used cache slot holds what the map holds, and the slots differ
  (`Coherent`): a lookup that hits both slots would index past `cached_id`;
- counts are the sizes of the masks (`Counted`): `remove_empty` decides by the
  count whether a chunk may go.

The heart is `RemoveKeysPositions`: after `vector::remove(keys)` the survivors
have distinct ranks, so positions stay distinct and the rebuilt map leads to
them.  From `IndInv` follow `MapCorrect`, `CacheCorrect`, `CountCorrect`,
`BackgroundCorrect` and `GetCorrect`: `get` and `existPoint` find exactly what
the chunks hold.

**SparseGrid is a map** (`SparseGrid_proof`).  The contents are written as a
function `In(ch, n)` of the first `n` chunks, so that the argument is about
arrays of chunks and not about calls:

- `InMoved`: chunks may change places, and empty ones go, without a point
  moving; this is what reorder, reclaiming and renumbering do;
- `InKept`: taking cells out of chunks takes out exactly those points; this is
  crop, `remove` and `remove_box`;
- `InPut`: `insert`, into a chunk that is there or a new one;
- `RemoveKeysOnto`: when every listed index is that of a chunk,
  `vector::remove(keys)` keeps all the chunks that are not listed;
- `ReclaimContents`: so `remove_empty`, which lists only chunks whose count is
  zero, loses no point.

`GridImplementsMap` is `Spec => ImplementsMap`, under `SortIsStable` and
`ListIsCurrent`: a client that calls `clear` or `resize` does not remove.  Those
two leave ids in `empty_v` past the last chunk, and `RemoveKeysOnto` then
fails: a later reclaim drops other chunks (section 6).  `ListInRange` is the
invariant behind it.  `EmptyListed` proves `EmptyIsListed` under `ListIsKept`:
the client calls neither `resize`, which may empty a chunk and not list it, nor
`reorder`, which drops the list.  Both say for all sizes and thresholds what
the runs `map`, `resize` and `core` say on small grids.  What the list does when
removals and `clear` or `resize` are mixed is in neither the runs nor the proofs.

**MemFast** (`MemFast_proof`), assuming `Slotted`: nobody asks for zero slots.
`IndInv` says that the block of every usable object has `slot * n` places, that
each cell has fewer elements than slots: one place stays free, so the stop
pointer is in the block and an add never writes past it.  The
lemmas `PlaceInBlock`, `PlaceSplits` and `PlaceHasCell` carry the arithmetic of
`slot * c + e`; `ReallocKeeps` shows that the copy to the new stride moves
every element to its place.  `TypeCorrect`, `StopCorrect` and `NothingOverrun`
follow, and `Refinement` shows `Spec => ImplementsCellMemory`: each step of the
memory is the step of the vector of vectors of the same name, `remove` being
the removal of the last element whatever it was asked to remove.

**InsertKernel** (`InsertKernel_proof`), assuming only
`InsertKernelAssumption`: any pools, grids, number of launches and interleaving.
That a pool has room for what a launch inserts is in the guard of `Launch`; the
kernels do not check it.  The first invariant, `IInv`, says

- the barriers keep the threads of a block between the same two of them
  (`Together`); without it a leader could still be about to take a slot while
  another thread reads shared memory;
- the flag of a sphere is down once an active thread is past it (`FlagOK`), so
  a sphere that goes on has an insertion;
- the counter plus the threads still to take a slot fit in the pool (`Room`),
  and the slots taken lie below the counter (`SlotsBelow`): the next slot is
  free and belongs to this block;
- the leader's slot is in shared memory until all of the chunk have read it
  (`SharedSlot`).

`TypeCorrect`, `SlotsAreDisjoint` and `ChunkSharesSlot` follow.  That two pools
have no slot in common is `PoolsApart`.  On top of it `PInv` says what the pool
holds at every point: what was there at the launch is untouched (`BeforeKept`),
the counter is exact (`CountExact`), the slots between the first and the counter
are the slots taken (`SlotsExact`), with the keys and elements of the threads that
have written so far (`KeysWritten`, `DataWritten`), and the free ones have no mask
set (`FreeEmpty`): a slot just taken has no element of an earlier use.  When the
block has ended nobody is left to write, and `PoolsAreExact` follows.

**CellList** (`Neighbourhoods_proof`, first part), under `CellAssumption`: boxes, cells and points
on the lattice, cells of positive size, padding of at least one cell, and every
part of a box a nested list is made for inside that box.  `IndInv` says of each
list

- its decomposition is `Sound`: the nested part lies inside the whole, in cells
  (`WholeSound`, `NestedSound`).  This is all that is kept of the decomposition; that
  its cells cover the box is derived from it each time;
- a list that is in use has the number of cells its decomposition counts, and
  every particle in it is in a cell whose box contains it, once (`Placed`).  For
  `swap`, copy and move this is the statement that the decomposition and the
  cells travel together; a list moved from is not in use until it is set again.

`CellsContain` and `TypeCorrect` follow.  The arithmetic is in lemmas of its own:
`DivBounds` and `FloorBounds` (`SizeTFloor` is at most one cell too low),
`ConvertSpans` (so the coordinate is that of a cell that contains the point,
borders included), `Decodes` (a linear id has one pair of coordinates).  For
`RadiusMeets`, `GapBelow` and `NearStep` show that two points nearer than `r`
are in cells whose boxes are nearer than `r`, and hence at an offset
`NNcalcRad` keeps; as an offset has one linear id, a visit meets a particle once.

**VerletList** (`Neighbourhoods_proof`, second part), under `CellAssumption`, `KeyAssumption` and
`VerletAssumption` (each Verlet list has a cell list of its own; the domain lies
in the box; a cut-off is at most the side of the box and divides it into whole
units of the lattice; a client of one phase uses one).  A row is explained by
the record of what it was built from (`built`), not by the present cells, which
may have changed:

- `FullListed`, `SymListed`, `CrsListed` say of the rows what the three properties
  ask, and for `SymListed` something more: a particle is in the row of another
  exactly when it does not come before it, by cell, then by coordinates, then
  by index (`Comes`).  `SymPair` derives from that order what no single row
  shows: of two particles one row has the other, once, or both rows do, for
  two phases in one place;
- `CellsOk` is what a build needs: of each list the neighbourhoods are those of its
  decomposition, and no particle is in two cells.  `RowsAreRight` shows that a
  build from cells that hold the present positions (`UpToDate`) and are wide
  enough (`Fits`) gives such rows, `InitClKeeps` that filling gives such cells;
- `Divided`: the cells of a Verlet list are as wide as the cut-off it was last
  initialized with.

`VInv` is these for every list, and `FullListsExact`, `SymListsOnce` and
`CrsListsOnce` follow.  Because they speak about lists on record only,
`MadeIsRecorded` shows that `Initialize` and `InitializeSym` always put the list
on record: the cells they make are wide enough, and filled from the positions
the rows are built from, so the three theorems are never empty for them.

**SparseVector** (`SparseVector_proof`), for any keys, pools, clients, and any
number of threads in a block.  `SvInv` says of both vectors that the keys rise
and that there is a value for each and the background behind, and that the
pools in use lie in their buffer (`PoolsFit`): a kernel launched with more
blocks than there are pools would write behind the last, which the code does not
check and `InsertKernel` has in its guard.  What a flush leaves is shown in
three parts.

- *Merge and predicates.*  In the merge of two rising sequences a key comes at
  most twice, the old place first (`Merged`), so of two neighbours at most one has
  predicate 0 (`NoTwo`).
- *Compaction.*  A block's threads write to the block's part of the output; two of
  them share a place only when they have one key (`SlotShared`).  The one place that
  two blocks both write a key for, when old and new fall on either side of the
  border, is left out by exactly one of them: `RealignIs` shows that `realign`
  reads, for each kept entry in order, a place that holds its value (`Fills`),
  and `RealignRemoveIs` the same for removals.
- *Order.*  The `i`-th entry kept is `Nth`; keys rise along it, so they rise in
  what the flush leaves (`FlushedKeysRise`, `RemovedKeysRise`).

`IndexIsSorted` follows, and with it `SearchIsExact`: the loop of the search
keeps the place of the key between its bounds (`Between`, `NarrowKeeps`).

`OperandsInOrder` is `FlushOrder`: what a flush makes of a key that was there.  It
needs two more invariants, that there is a value for every key (`ValuesInv`) and
one waiting for every key a flush may take (`WaitInv`; `removeUnusedBuffers`,
`swap` and the pools each could break it).  `StandsFor` is the value an entry of the
merge stands for, alone or with the old value before it; `ConflictDataFill` shows
that the blocks store it where `realign` reads it, although a thread with
predicate 0 writes over what its partner stored, and the partner may be in
the next block; `StandsForValues` that the old value comes first.  `HostMerges` is
the same for the merge loop of the host, where it comes last.

**SparseVector is a map** (`SparseVectorMap_proof`), under `SparseVectorAssumption`,
`BlockDimAssumption` and `SidesApart`: a client that inserts in kernels or calls
`preFlush` flushes on the device, since the host flush would read the free slots of
the pools as keys.  What the kernels of a flush do is said of arrays first, and
only then of the state:

- `SegmentsAre`, `FoldHolds`, `ReducedHolds`: whatever order the sort gives equal keys, the segmented
  reduction of what waits has one value per key, made of exactly the insertions
  that wait for it, each once (`Reduces`);
- `MergedHolds` and `FlushesTo`: what the merge, the conflicts and `realign` leave has
  for every key what it had and what waited for it.  A thread whose entry is
  written over by its partner, in its own block or the next, would lose or double
  one here;
- `RemoveInv`: the slots taken of the remove buffer hold keys, and no block beyond
  those of a launch has counted; so `flush_remove` takes out exactly the keys that
  were asked for, and the entries it moves keep their values.

The invariant is `MapInv`.  Besides `SvInv`, `ValuesInv` and `WaitInv` it has
`PairInv`, which `NumbersApart` states by itself: within each of the two vectors
no value counts an insertion twice, no two waiting slots hold the same one, and
none that waits is in a value already.  Without it a flush could merge two
equal numbers and the bag of a key would not be the sum of the old and the new.
It is not enough to say so of one vector: `swap` puts the other in its place, with
what waits there.  `MapStep` then goes through the operations and names the step
of `ReducedMap` each one is, or shows that it changes nothing the map sees
(`FlushOnDeviceNothing`, `RemoveUnusedBuffers`); `VectorImplementsMap` is
`Spec => ImplementsMap`.  `TypeCorrect` is `TypeOK`: it says that `realign` leaves no
place unwritten (no `Junk` and no `NoKey` in what is flushed) and that no counter
passes its pool.

`ReducedMap` lets a buffer be filled as a whole or dropped (`Fill`), as `preFlush`
and a new buffer do, so the refinement alone would not notice an insertion that
vanishes before a flush.  `InsertionsWait` is the action property that does: an
insertion waits from the step that makes it, a kernel that goes on counting
(`init_ins_inc`) writes over none, and none is gone unless the step is a flush,
`clear`, `swap`, `preFlush`, `setGPUInsertBuffer` or a kernel that begins the pools
anew.  It is stated next to its proof and is not the property of a run.

**Graph** (`Graph_proof`), about `Graph!Spec` for any objects, properties, slots
and clients.  `Good` says that a graph is of its type and that every edge is
named by exactly one slot in use (`EdgesNamedOnce`); growing the slots
moves every entry to its new place (`SlotInside`, `SlotsDiffer`).
`TypeCorrect` and `NamesCorrect` follow.  `IteratorCorrect` needs `IterOK`: the
edges seen are those at positions passed, and of the edges that were there at
the start the rest is still ahead; an insertion keeps both, because it takes a
free slot and moves no entry (`Keeps`).  `GraphImplementsMultigraph` is
`Spec => ImplementsMultigraph`.

**CellListGpu** (`CellListGpu_proof`), under `CellListGpuAssumption`: grids on the
lattice with padding, and every particle of a range inside each grid it may be
sorted on, which the kernels rely on and do not check.  Any number of
particles, constructs, buffers left from earlier ones, and any order of the
threads.  `IInv` says for each kernel what the threads that have ended have done:

- each counted particle has a place of its own below its cell's counter
  (`Counted`), so after the scan (`ScanIs`, `Begins`) first place plus own place
  is one slot per particle (`CellsCount`, `PlacesFit`): `fill_cells` writes a
  permutation (`Filled`, `Sorted`) although no two runs need write the same one;
- `reorder_parts` makes the two maps inverse to each other as far as it has come
  (`Reordered`), and every slot belongs to one thread;
- the sum of the marks below a sorted index is the place of its id, so the threads
  of the last kernel write the ids in ascending order, whatever order they run in
  (`Marked`, `Collected`).

`ConstructIsExact` follows.  `IterInv` is what the iterators read besides: the
offsets of the radius are those of the present grid (`RadiusKept`), the sparse
cells are those with particles and know where theirs begin (`SparseMade`), and
the neighbours of each are at the place the scan of their counts gives
(`Listed`).  `NeighboursFoundOnce` then has one half about geometry and one about
sequences.  `FloorStep`: two coordinates at distance `d` are in cells that
`d` allows, except that `uint_floor` may put the second one cell too low;
`NearInBox` and `NearInRadius` conclude that a near particle is in a cell the
iterator visits.  `CellHas`: the slots from the first of a cell to the first of
the next hold exactly its particles.  As different offsets lead to different
cells (`BoxOffsets`), no particle is in two of the visited cells, and the visit
returns each of them once (`FlattenOnce`, `VisitFinds`).

**The convolution.**  `FillCorrect` is `FillFindsNeighbours`, under `SortIsStable`.
`FillInv` follows `NNlist` through the two lookups of each chunk; that a lookup
may be answered by the cache is covered by `Coherent` above, whatever the cache
held when the convolution began.

**Only model-checked**: the block map (`TypeOK`, `GetAnswers`, `ImplementsMap`), whose
kernels are written as recursive operators, which the prover does not accept; the
factory of Cartesian graphs (`ConnectsCellsThatTouch`); and liveness (`KernelEnds`),
which is beyond the prover, as ENABLED is.  The prover cannot use the induction
theorems of its library, so what a fold or a sum gives is proved from a least
counterexample instead (`FoldExists`, `FoldHolds`), one such argument for each
definition.

## 6. Where the code and its documentation disagree

Met while modelling.  The models follow the code, the clients modelled keep
away from it where it would destroy the state, and no run is spent on showing
it.

| where | statement | what the code does |
|---|---|---|
| `SparseGrid.hpp` resize | "When smaller the data are cropped" | points at coordinate `sz`, and all points of a grid smaller than a chunk, stay |
| find_active_chunk | a chunk that does not exist gives the background | the chunk before the first has the id of a free cache slot and is "found" there |
| remove_empty | "before remove we have to check that they are really empty" | after `clear` or `resize` the list names chunks that are gone, and chunks with points are dropped |
| reorder, init | "Add the bachground chunk at the begining" | the background's sort key ties with the chunk at the origin and std::sort need not keep it first |
| `Mem_fast::remove` | "ele: element id to remove" | the last element of the cell is dropped |
| getNNIteratorRadius | "the near cells up to some selected radius" | the neighbourhood cached for a radius survives a new Initialize |
| `VerletList::operator=(&&)` | takes the other list | rows are copied, `dp` is swapped, the cell list stays: an update works with the old cells |
| `CellListM::swap` | "Cell list with witch you swap the memory" | the list is swapped with itself |
| symmetric iterator, two phases | each pair once | two particles of different phases in the same place are in the lists of both |
| `VerletList::Initialize(cli, ...)`, symmetric | - | a cut-off larger than the cells is accepted and gives a short list; `VerletListM` prints an error and goes on |
| `Graph_CSR::addEdge_` | "Unfortunately there is not space we need to reallocate memory", "Copy the graph" | the new graph has `2 * v_slot` vertices with `v.size()` slots and no edge of the old one |
| `Graph_CSR` | - | a vertex added to a graph constructed with its vertices, before its first edge, makes that edge write outside `e_l`; `operator=(&&)` exchanges `v_slot` twice; `clear` drops the stub `e_invalid` that a refused addEdge returns |
| edge iterator | - | `begin()` does not skip a vertex 0 without edges: one position that is no edge |
| Cartesian factory | "greater than dim_c" | elements of dimension `dim_c` or more; the edge weight is the spacing along the normal, not the size of the contact; with `dim_c = 0` in three dimensions a cell has more neighbours than slots |
| vector_sparse | - | swap leaves `bck` and the pool counters where they are; flush_remove leaves the pools filled |
| BlockMapGpu | - | with four or more chunks per thread block, a run of three chunks of one block loses one; `init()` twice without setGPUInsertBuffer keeps old masks |
| `cid_::get_cid_key` | "floor math function" | `uint_floor` truncates and takes one off every negative coordinate, multiples included: a particle below the domain exactly on a cell border is stored one cell too low, and one exactly a cell side away from a domain particle is not among its neighbours |
| CellList_gpu_ker::getCell | - | a point in an empty cell of a sparse list gets the index one past the last cell |

The hazards in `PROJECT.json` that no property covers say why.

## 7. Not modelled

- Of the sparse grid: copy_to, pack and unpack, assignment and swap between
  grids, expandAndTagBoundaries, the domain iterators, the six-neighbour
  geometry beyond the row.
- Of the cell lists: `setRadius` of the CPU list and its neighbourhood,
  `addPad(T[dim])` (nothing calls it), `remove` (see MemFast), Mem_bal and
  Mem_mw, which store the vector of vectors directly; floating-point rounding,
  the transform; of the Verlet list the growth of a row (Mem_fast again) and
  the CRS scheme with several phases.
- Of the GPU cell list: swap, copy and move, the iterator over a box of two
  cells, a particle exactly on the lower outer border, a sparse construct over
  part of the vector, kernel views that outlive a construct, a radius larger
  than the padding.
- Of the sparse vector: the flush of vectors of vectors, host flush of device
  pools.  Of the block map: one reduced property and the device flush only; the
  host insert and host block flush; chunk properties no reduction names.
- Of the GPU sparse grid: geometry, ghost layers, stencils, tagging, pack and
  unpack.
- `openfpm::vector`, dense grid storage, grid iterators, packer: planned above.
- Space and shapes, expression templates, memory layouts, aggregates and
  metaprogramming: stateless, or resolved at compile time.
- The hopscotch map, CUB, moderngpu: vendored; the hash map is taken as a map.
