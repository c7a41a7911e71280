----------------------------- MODULE SparseGrid -----------------------------
(***************************************************************************)
(* sgrid_cpu (src/src/SparseGrid/SparseGrid.hpp): a grid that stores only  *)
(* the chunks that have points.  The model is a row of the grid: the other *)
(* coordinates of every key are zero, so a chunk has one coordinate, its   *)
(* linearized id (grid_sm::LinId) is that coordinate, and its neighbours   *)
(* are the coordinates plus and minus one.                                 *)
(*                                                                         *)
(*   map        the hash map from linearized id to chunk index             *)
(*   chunks     header_inf, header_mask and chunks, which always have the  *)
(*              same size: position (in chunk units), number of elements,  *)
(*              and the cells that are set, the mask being their domain    *)
(*   nchunk     header_inf.size(); index 0 is the background chunk         *)
(*   cache      cache_pnt, cache[] and cached_id[]                         *)
(*   empty_v    the chunks that lost their last point; only the ids in it  *)
(*              and how many entries it has are ever used                  *)
(*   NNlist     for each chunk the indices of its neighbours, findNN the   *)
(*              flag that it is filled                                     *)
(*   conv       progress of a running convolution (the local iterator)     *)
(*   ub         the last call had undefined behaviour (it read or shrank   *)
(*              past the end of a vector): nothing is said of what follows *)
(***************************************************************************)
EXTENDS Integers, FiniteSets

CONSTANTS
  ChunkSize,         \* points of a chunk along the row (chunking::type)
  Sizes,             \* the grid sizes the client asks for
  Values,            \* what a point stores
  Calls,             \* the public operations the client uses
  FLUSH_REMOVE,      \* length of empty_v at which empty chunks are reclaimed
  InsertionSortMax,  \* std::sort keeps equal keys in order up to this length
  Garbage,           \* what uninitialized memory can hold
  MaxChunks,         \* bound: a chunk is not created beyond this many
  MaxEmpty           \* bound: remove_no_flush does not grow empty_v beyond this

SGRID_CACHE == 2
Slots == 0 .. SGRID_CACHE - 1

Operations == {"insert", "get", "remove", "remove_no_flush", "flush_remove",
               "remove_box", "resize", "clear", "reorder", "conv", "conv_cross"}

ASSUME SizesAssumption ==
  /\ ChunkSize \in Nat \ {0}
  /\ Sizes \subseteq Nat \ {0} /\ IsFiniteSet(Sizes) /\ Sizes # {}
  /\ FLUSH_REMOVE \in Nat \ {0}
  /\ InsertionSortMax \in Nat
  /\ MaxChunks \in Nat \ {0} /\ MaxEmpty \in Nat
  /\ Garbage \subseteq Nat /\ Garbage # {}
  /\ Values # {}
  /\ Calls \subseteq Operations

VARIABLES g_sm, map, chunks, nchunk, cache, empty_v, findNN, NNlist, conv, ub

vars == <<g_sm, map, chunks, nchunk, cache, empty_v, findNN, NNlist, conv, ub>>

-----------------------------------------------------------------------------
(* Keys.  key_shift::shift splits a coordinate into chunk and position in  *)
(* the chunk; the header stores the chunk's first point (cpos), here in    *)
(* chunk units.                                                            *)

Points == UNION {0 .. sz - 1 : sz \in Sizes}
ChunkOf(p) == p \div ChunkSize
Sub(p) == p % ChunkSize
Subs == 0 .. ChunkSize - 1

\* g_sm_shift.LinId on a row.
Lin(kh) == kh

\* numeric_limits<long>::min() of the background header: no neighbour of a
\* chunk and no point has it.
BckCoord == -2

NoCells == [s \in {} |-> 0]
Background == [pos |-> BckCoord, nele |-> 0, cells |-> NoCells]

-----------------------------------------------------------------------------
(* The cache of the last two chunks.  -1 marks a free slot.                *)

Hits(c, lin) == {k \in Slots : c.key[k] = lin}

\* (mutant) the id goes into the slot after the one the key goes into
AddOnCacheShifted(c, lin, i) ==
  [pnt |-> (c.pnt + 1) % SGRID_CACHE,
   key |-> [c.key EXCEPT ![c.pnt] = lin],
   id  |-> [c.id EXCEPT ![(c.pnt + 1) % SGRID_CACHE] = i]]

AddOnCache(c, lin, i) ==
  [pnt |-> (c.pnt + 1) % SGRID_CACHE,
   key |-> [c.key EXCEPT ![c.pnt] = lin],
   id  |-> [c.id EXCEPT ![c.pnt] = i]]

\* (mutant) only the pointer is reset
ClearCachePointer(c) == [c EXCEPT !.pnt = 0]

\* cached_id keeps what it held.
ClearCache(c) == [pnt |-> 0, key |-> [k \in Slots |-> -1], id |-> c.id]

\* find_active_chunk.  The index of the slot is the sum of k+1 over the slots
\* that match; with both matching it is past the end of cached_id (Overrun).
Overrun(lin) == Cardinality(Hits(cache, lin)) > 1
Exists(lin) == Hits(cache, lin) # {} \/ lin \in DOMAIN map
\* (mutant) cached_id[id] instead of cached_id[id-1]
ActiveOffByOne(lin) ==
  IF \E k \in Slots : Hits(cache, lin) = {k}
  THEN cache.id[((CHOOSE k \in Slots : Hits(cache, lin) = {k}) + 1) % SGRID_CACHE]
  ELSE IF lin \in DOMAIN map THEN map[lin] ELSE 0
Active(lin) ==
  IF \E k \in Slots : Hits(cache, lin) = {k}
  THEN cache.id[CHOOSE k \in Slots : Hits(cache, lin) = {k}]
  ELSE IF lin \in DOMAIN map THEN map[lin] ELSE 0

\* The cache after the lookup of a chunk that has index i.
Recall(lin, i) ==
  IF \E k \in Slots : Hits(cache, lin) = {k}
  THEN [cache EXCEPT !.pnt =
          ((CHOOSE k \in Slots : Hits(cache, lin) = {k}) + 1) % SGRID_CACHE]
  ELSE AddOnCache(cache, lin, i)

\* A miss leaves the cache alone.
Looked(lin) == IF Exists(lin) THEN Recall(lin, Active(lin)) ELSE cache

-----------------------------------------------------------------------------
(* Chunks.                                                                 *)

\* (mutant) every insert counts, also of a point that exists
WithCellCounted(c, s, v) ==
  [pos   |-> c.pos,
   nele  |-> c.nele + 1,
   cells |-> [t \in DOMAIN c.cells \cup {s} |-> IF t = s THEN v ELSE c.cells[t]]]

WithCell(c, s, v) ==
  [pos   |-> c.pos,
   nele  |-> IF s \in DOMAIN c.cells THEN c.nele ELSE c.nele + 1,
   cells |-> [t \in DOMAIN c.cells \cup {s} |-> IF t = s THEN v ELSE c.cells[t]]]

\* remove_from_chunk for every position in S that is set.
WithoutCells(c, S) ==
  [pos   |-> c.pos,
   nele  |-> c.nele - Cardinality(DOMAIN c.cells \cap S),
   cells |-> [t \in DOMAIN c.cells \ S |-> c.cells[t]]]

\* The i-th smallest element of a set of indices, from 0.
Nth(S, i) == CHOOSE j \in S : Cardinality({l \in S : l < j}) = i

\* vector::remove(keys) on sorted unique keys: the others move down in order
\* and the size drops by the number of keys, in range or not.
\* (The first is a mutant: the size is not recalculated.)
RemoveKeysSameSize(ch, keys, m) ==
  [i \in DOMAIN ch |-> IF i < m THEN ch[Nth(DOMAIN ch \ keys, i)] ELSE ch[i]]
RemoveKeys(ch, keys, m) == [i \in 0 .. m - 1 |-> ch[Nth(DOMAIN ch \ keys, i)]]

\* reconstruct_map: later chunks overwrite earlier ones with the same id.
\* (The first two are mutants: the loop starts at the background; the map is
\* not cleared first.)
ReconstructMapFrom0(ch) ==
  [lin \in {Lin(ch[i].pos) : i \in DOMAIN ch} |->
     CHOOSE i \in DOMAIN ch : Lin(ch[i].pos) = lin]
ReconstructMapAdding(ch) ==
  LET ids == DOMAIN ch \ {0}
      new == {Lin(ch[i].pos) : i \in ids}
  IN  [lin \in new \cup DOMAIN map |->
         IF lin \in new THEN CHOOSE i \in ids : Lin(ch[i].pos) = lin ELSE map[lin]]
ReconstructMap(ch) ==
  LET ids == DOMAIN ch \ {0}
  IN  [lin \in {Lin(ch[i].pos) : i \in ids} |->
         CHOOSE i \in ids : /\ Lin(ch[i].pos) = lin
                            /\ \A j \in ids : Lin(ch[j].pos) = lin => j <= i]

NoneEmpty == [ids |-> {}, size |-> 0]
AddEmpty(ev, S) == [ids |-> ev.ids \cup S, size |-> ev.size + Cardinality(S)]

-----------------------------------------------------------------------------

Idle == [mode |-> "idle", lo |-> 0, hi |-> 0, chunk |-> 0, second |-> FALSE]

Ready(op) == ~ub /\ conv.mode = "idle" /\ op \in Calls

InitialCache ==
  [pnt : {0}, key : {[k \in Slots |-> -1]}, id : [Slots -> Garbage]]

Init ==
  /\ g_sm \in Sizes
  /\ map = [lin \in {} |-> 0]
  /\ nchunk = 1
  /\ chunks = [i \in {0} |-> Background]
  /\ cache \in InitialCache
  /\ empty_v = NoneEmpty
  /\ findNN = FALSE
  /\ NNlist = [i \in {} |-> 0]
  /\ conv = Idle
  /\ ub = FALSE

\* insert<p>(key) = v, through pre_insert: the chunk is created when neither
\* the cache nor the map has it.
Insert(p, v) ==
  LET lin == Lin(ChunkOf(p))
  IN  /\ Ready("insert")
      /\ p < g_sm
      /\ IF Exists(lin)
         THEN /\ chunks' = [chunks EXCEPT ![Active(lin)] = WithCell(@, Sub(p), v)]
              /\ cache' = Recall(lin, Active(lin))
              /\ UNCHANGED <<map, nchunk>>
         ELSE /\ nchunk < MaxChunks
              /\ nchunk' = nchunk + 1
              /\ chunks' = [i \in 0 .. nchunk |->
                   IF i < nchunk THEN chunks[i]
                   ELSE WithCell([Background EXCEPT !.pos = ChunkOf(p)], Sub(p), v)]
              /\ map' = [l \in DOMAIN map \cup {lin} |->
                           IF l = lin THEN nchunk ELSE map[l]]
              /\ cache' = AddOnCache(cache, lin, nchunk)
      /\ UNCHANGED <<g_sm, empty_v, findNN, NNlist, conv, ub>>

\* get<p>(key) and existPoint(key): only the cache changes.
Get(p) ==
  /\ Ready("get")
  /\ p < g_sm
  /\ cache' = Looked(Lin(ChunkOf(p)))
  /\ UNCHANGED <<g_sm, map, chunks, nchunk, empty_v, findNN, NNlist, conv, ub>>

\* "Because chunks can be refilled the empty list can contain chunks that are
\* filled so before remove we have to check that they are really empty".
\* (The first is a mutant: it does not check.)
ListedAsEmpty(ch, ev) == ev.ids \cap DOMAIN ch
ReallyEmpty(ch, ev) == {i \in ev.ids \cap DOMAIN ch : ch[i].nele = 0}

\* remove_empty on chunks ch, list ev and cache c as the caller left them.
\* An id of the list that is past the end of header_inf (possible after clear
\* and resize) is read out of bounds: the stale header there may show zero
\* elements or not.  When no chunk would be left the vectors are shrunk below
\* their size or lose the background: undefined.
RemoveEmpty(ch, ev, c) ==
  IF ev.size < FLUSH_REMOVE
  THEN /\ chunks' = ch /\ empty_v' = ev /\ cache' = c
       /\ UNCHANGED <<map, nchunk, ub>>
  ELSE \E stale \in SUBSET (ev.ids \ DOMAIN ch) :
         LET dead == ReallyEmpty(ch, ev) \cup stale
             m == nchunk - Cardinality(dead)
         IN  IF m < 1
             THEN /\ ub' = TRUE
                  /\ UNCHANGED <<map, chunks, nchunk, cache, empty_v>>
             ELSE /\ nchunk' = m
                  /\ chunks' = RemoveKeys(ch, dead, m)
                  /\ map' = ReconstructMap(chunks')
                  /\ empty_v' = NoneEmpty
                  /\ cache' = ClearCache(c)
                  /\ UNCHANGED ub

\* remove_point: the chunks and the list of empty chunks afterwards.
ChunksWithout(p) ==
  IF Exists(Lin(ChunkOf(p)))
  THEN [chunks EXCEPT ![Active(Lin(ChunkOf(p)))] = WithoutCells(@, {Sub(p)})]
  ELSE chunks

\* (mutant) the count is tested before it is lowered
EmptyWithoutLate(p) ==
  LET i == Active(Lin(ChunkOf(p)))
  IN  IF /\ Exists(Lin(ChunkOf(p)))
         /\ Sub(p) \in DOMAIN chunks[i].cells
         /\ chunks[i].nele = 0
      THEN AddEmpty(empty_v, {i})
      ELSE empty_v

EmptyWithout(p) ==
  LET i == Active(Lin(ChunkOf(p)))
  IN  IF /\ Exists(Lin(ChunkOf(p)))
         /\ Sub(p) \in DOMAIN chunks[i].cells
         /\ chunks[i].nele = 1
      THEN AddEmpty(empty_v, {i})
      ELSE empty_v

Remove(p) ==
  /\ Ready("remove")
  /\ p < g_sm
  /\ RemoveEmpty(ChunksWithout(p), EmptyWithout(p), Looked(Lin(ChunkOf(p))))
  /\ UNCHANGED <<g_sm, findNN, NNlist, conv>>

RemoveNoFlush(p) ==
  /\ Ready("remove_no_flush")
  /\ p < g_sm
  /\ empty_v.size < MaxEmpty
  /\ chunks' = ChunksWithout(p)
  /\ empty_v' = EmptyWithout(p)
  /\ cache' = Looked(Lin(ChunkOf(p)))
  /\ UNCHANGED <<g_sm, map, nchunk, findNN, NNlist, conv, ub>>

FlushRemove ==
  /\ Ready("flush_remove")
  /\ RemoveEmpty(chunks, empty_v, cache)
  /\ UNCHANGED <<g_sm, findNN, NNlist, conv>>

-----------------------------------------------------------------------------
(* Operations on many points.                                              *)

\* The positions of chunk c with coordinate in lo..hi.
InSection(c, lo, hi) ==
  IF c.pos < 0 THEN {}
  ELSE {s \in Subs : lo <= c.pos * ChunkSize + s /\ c.pos * ChunkSize + s <= hi}

\* remove(Box): every chunk that intersects the box loses its points in it,
\* and those that become empty are added to the list.
RemoveBox(lo, hi) ==
  LET gone(i) == InSection(chunks[i], lo, hi)
      ch == [i \in DOMAIN chunks |-> WithoutCells(chunks[i], gone(i))]
  IN  /\ Ready("remove_box")
      /\ RemoveEmpty(ch,
                     AddEmpty(empty_v, {i \in DOMAIN chunks :
                                 chunks[i].cells # NoCells /\ ch[i].cells = NoCells}),
                     cache)
      /\ UNCHANGED <<g_sm, findNN, NNlist, conv>>

\* The crop of resize.  The box of the grid is [0,sz] and the box of a chunk
\* [first, first + ChunkSize], both ends included, and a chunk whose box
\* contains the box of the grid is left as it is.
\* (The first is a mutant: a chunk that is partly out is taken as out.)
PartlyOut(c, sz) == c.pos < 0 \/ c.pos * ChunkSize + ChunkSize > sz
FullyOut(c, sz) == c.pos < 0 \/ c.pos * ChunkSize > sz

Crop(c, sz) ==
  IF c.pos = 0 /\ sz <= ChunkSize THEN c
  ELSE WithoutCells(c, {s \in Subs : c.pos * ChunkSize + s > sz})

\* resize: the map and the cache are renewed, and when the grid shrinks the
\* chunks are cropped; the list of empty chunks is not updated.
Resize(sz) ==
  LET out == {i \in DOMAIN chunks \ {0} : FullyOut(chunks[i], sz)}
      m == nchunk - Cardinality(out)
      ch == [i \in DOMAIN chunks |->
               IF i = 0 THEN chunks[0] ELSE Crop(chunks[i], sz)]
  IN  /\ Ready("resize")
      /\ g_sm' = sz
      /\ cache' = ClearCache(cache)
      /\ IF sz >= g_sm
         THEN UNCHANGED <<chunks, nchunk>>
         ELSE chunks' = RemoveKeys(ch, out, m) /\ nchunk' = m
      /\ map' = ReconstructMap(chunks')
      /\ UNCHANGED <<empty_v, findNN, NNlist, conv, ub>>

\* clear: only the chunk at index 0 stays.
Clear ==
  /\ Ready("clear")
  /\ nchunk' = 1
  /\ chunks' = [i \in {0} |-> chunks[0]]
  /\ cache' = ClearCache(cache)
  /\ map' = ReconstructMap(chunks')
  /\ UNCHANGED <<g_sm, empty_v, findNN, NNlist, conv, ub>>

\* (mutant) a background at the largest position
SortKeyLast(c) == IF c.pos = BckCoord THEN 1000000 ELSE Lin(c.pos)

\* The sort key of reorder is the linearized id cut to an int: that of the
\* background, a multiple of a large power of two, becomes 0.
SortKey(c) == IF c.pos = BckCoord THEN 0 ELSE Lin(c.pos)

\* p[i] is the old index of the chunk that std::sort puts at index i.
IsSorted(p) ==
  \A i, j \in DOMAIN p : i < j =>
    \/ SortKey(chunks[p[i]]) < SortKey(chunks[p[j]])
    \/ /\ SortKey(chunks[p[i]]) = SortKey(chunks[p[j]])
       /\ nchunk <= InsertionSortMax => p[i] < p[j]

Reorder ==
  /\ Ready("reorder")
  /\ \E p \in [DOMAIN chunks -> DOMAIN chunks] :
       /\ \A i, j \in DOMAIN p : p[i] = p[j] => i = j
       /\ IsSorted(p)
       /\ chunks' = [i \in DOMAIN chunks |-> chunks[p[i]]]
  /\ cache' = ClearCache(cache)
  /\ map' = ReconstructMap(chunks')
  /\ empty_v' = NoneEmpty
  /\ findNN' = FALSE
  /\ NNlist' = [i \in {} |-> 0]
  /\ UNCHANGED <<g_sm, nchunk, conv, ub>>

-----------------------------------------------------------------------------
(* Convolutions.  A convolution visits the chunks that intersect the       *)
(* section lo..hi in index order and looks both neighbours of each up      *)
(* through getChunk.  conv stores what it finds in NNlist; once findNN is  *)
(* set it reads NNlist and looks nothing up.  conv_cross looks up every    *)
(* time and stores nothing, and sets findNN all the same.                  *)

Absent == -1

\* SelectValid: the box of the chunk intersects the section.
Visited(i, lo, hi) == InSection(chunks[i], lo, hi) # {}

\* NNlist.resize: new entries are 0.
ResizeNNlist ==
  NNlist' = [i \in 0 .. nchunk - 1 |->
               IF i \in DOMAIN NNlist THEN NNlist[i] ELSE [plus |-> 0, minus |-> 0]]

\* conv when findNN is false, conv_cross always: the neighbours are looked up.
ConvBegin(op, lo, hi) ==
  /\ Ready(op) /\ lo <= hi
  /\ op = "conv" => ~findNN
  /\ ResizeNNlist
  /\ conv' = [mode |-> op, lo |-> lo, hi |-> hi, chunk |-> 1, second |-> FALSE]
  /\ UNCHANGED <<g_sm, map, chunks, nchunk, cache, empty_v, findNN, ub>>

\* conv when findNN is set: header_mask is read at every entry of NNlist.
ConvUse(lo, hi) ==
  /\ Ready("conv") /\ lo <= hi
  /\ findNN
  /\ ResizeNNlist
  /\ ub' = (\E i \in 1 .. nchunk - 1 :
              /\ Visited(i, lo, hi)
              /\ {NNlist'[i].plus, NNlist'[i].minus} \ ({Absent} \cup DOMAIN chunks) # {})
  /\ UNCHANGED <<g_sm, map, chunks, nchunk, cache, empty_v, findNN, conv>>

\* The chunk is outside the section: the iterator moves on.
ConvSkip ==
  /\ ~ub /\ conv.mode # "idle"
  /\ conv.chunk < nchunk /\ ~Visited(conv.chunk, conv.lo, conv.hi)
  /\ conv' = [conv EXCEPT !.chunk = @ + 1]
  /\ UNCHANGED <<g_sm, map, chunks, nchunk, cache, empty_v, findNN, NNlist, ub>>

\* loadBorder asks for the chunk after, then the one before; conv_cross the
\* other way round.
LooksAfter == conv.second = (conv.mode = "conv_cross")
Neighbour == chunks[conv.chunk].pos + (IF LooksAfter THEN 1 ELSE -1)

ConvLookup ==
  LET lin == Lin(Neighbour)
      r == IF Exists(lin) THEN Active(lin) ELSE Absent
  IN  /\ ~ub /\ conv.mode # "idle"
      /\ conv.chunk < nchunk /\ Visited(conv.chunk, conv.lo, conv.hi)
      /\ IF Overrun(lin) \/ (Exists(lin) /\ Active(lin) \notin DOMAIN chunks)
         THEN ub' = TRUE /\ UNCHANGED <<cache, NNlist, conv>>
         ELSE /\ cache' = Looked(lin)
              /\ NNlist' =
                   IF conv.mode = "conv_cross" THEN NNlist
                   ELSE IF LooksAfter
                        THEN [NNlist EXCEPT ![conv.chunk].plus = r]
                        ELSE [NNlist EXCEPT ![conv.chunk].minus = r]
              /\ conv' = [conv EXCEPT !.second = ~@,
                                      !.chunk = IF conv.second THEN @ + 1 ELSE @]
              /\ UNCHANGED ub
      /\ UNCHANGED <<g_sm, map, chunks, nchunk, empty_v, findNN>>

ConvEnd ==
  /\ ~ub /\ conv.mode # "idle"
  /\ conv.chunk >= nchunk
  /\ findNN' = TRUE
  /\ conv' = Idle
  /\ UNCHANGED <<g_sm, map, chunks, nchunk, cache, empty_v, NNlist, ub>>

-----------------------------------------------------------------------------

Next ==
  \/ \E p \in Points, v \in Values : Insert(p, v)
  \/ \E p \in Points : Get(p)
  \/ \E p \in Points : Remove(p)
  \/ \E p \in Points : RemoveNoFlush(p)
  \/ FlushRemove
  \/ \E lo, hi \in Points : RemoveBox(lo, hi)
  \/ \E sz \in Sizes : Resize(sz)
  \/ Clear
  \/ Reorder
  \/ \E op \in {"conv", "conv_cross"}, lo, hi \in Points : ConvBegin(op, lo, hi)
  \/ \E lo, hi \in Points : ConvUse(lo, hi)
  \/ ConvSkip
  \/ ConvLookup
  \/ ConvEnd

Spec == Init /\ [][Next]_vars

-----------------------------------------------------------------------------
(* Properties.                                                             *)

Chunk == [pos : Int, nele : Int,
          cells : UNION {[D -> Values] : D \in SUBSET Subs}]

\* Every variable keeps its type; the three vectors of the grid have one size.
TypeOK ==
  /\ g_sm \in Sizes
  /\ nchunk \in Nat \ {0}
  /\ chunks \in [0 .. nchunk - 1 -> Chunk]
  /\ DOMAIN map \subseteq Int /\ \A lin \in DOMAIN map : map[lin] \in 1 .. nchunk - 1
  /\ cache \in [pnt : Slots, key : [Slots -> Int], id : [Slots -> Nat]]
  /\ empty_v \in [ids : SUBSET Nat, size : Nat]
  /\ findNN \in BOOLEAN
  /\ \A i \in DOMAIN NNlist : NNlist[i] \in [plus : Int, minus : Int]
  /\ conv \in [mode : {"idle", "conv", "conv_cross"}, lo : Int, hi : Int,
               chunk : Nat, second : BOOLEAN]
  /\ ub \in BOOLEAN

\* The map has one entry for each chunk, and it leads to that chunk: no two
\* chunks are at one position, whatever was removed, cropped or reordered.
MapIsHeaders ==
  /\ DOMAIN map = {Lin(chunks[i].pos) : i \in 1 .. nchunk - 1}
  /\ \A i \in 1 .. nchunk - 1 : map[Lin(chunks[i].pos)] = i

\* A used cache slot answers what the map would, and no chunk is cached twice:
\* no operation that renumbers the chunks leaves an old index in the cache.
CacheIsMap ==
  /\ \A k \in Slots : cache.key[k] # -1 =>
       cache.key[k] \in DOMAIN map /\ cache.id[k] = map[cache.key[k]]
  /\ \A k, l \in Slots : cache.key[k] = cache.key[l] /\ cache.key[k] # -1 => k = l

\* What consistency() checks: the number of elements a header reports is the
\* number of cells set in its mask, after every insert, removal and crop.
CountIsMask == \A i \in DOMAIN chunks :
                 chunks[i].nele = Cardinality(DOMAIN chunks[i].cells)

\* "Add the bachground chunk at the begining" (init): index 0 is the empty
\* background chunk for ever; lookups that miss, size() and reconstruct_map
\* rely on it.
BackgroundFirst == chunks[0] = Background

\* A chunk without points is on the list remove_empty works from, so it can be
\* reclaimed.
EmptyIsListed == \A i \in 1 .. nchunk - 1 : chunks[i].nele = 0 => i \in empty_v.ids

\* The points of the grid and their values, as the headers have them.
Holder(p) == {i \in 1 .. nchunk - 1 :
                chunks[i].pos = ChunkOf(p) /\ Sub(p) \in DOMAIN chunks[i].cells}
Contents ==
  [p \in {q \in Points : Holder(q) # {}} |->
     chunks[CHOOSE i \in Holder(p) : TRUE].cells[Sub(p)]]

\* get and existPoint, which go through cache and map, find every point that
\* is in some chunk with its value, and no other point.
GetIsContents == \A p \in 0 .. g_sm - 1 :
  LET i == Active(Lin(ChunkOf(p)))
      found == Exists(Lin(ChunkOf(p))) /\ Sub(p) \in DOMAIN chunks[i].cells
  IN  /\ found <=> p \in DOMAIN Contents
      /\ found => chunks[i].cells[Sub(p)] = Contents[p]

\* The index a neighbour entry should have.
TrueNeighbour(lin) ==
  IF \E i \in 1 .. nchunk - 1 : Lin(chunks[i].pos) = lin
  THEN CHOOSE i \in 1 .. nchunk - 1 : Lin(chunks[i].pos) = lin
  ELSE Absent

\* The chunks a running convolution is done with.
Done(i) == i < conv.chunk /\ Visited(i, conv.lo, conv.hi)

\* A convolution that fills NNlist stores the index of each neighbour inside
\* the grid, whatever the cache held when it started.
FillFindsNeighbours ==
  conv.mode = "conv" => \A i \in 1 .. nchunk - 1 : Done(i) =>
    /\ NNlist[i].plus = TrueNeighbour(Lin(chunks[i].pos + 1))
    /\ chunks[i].pos > 0 =>
         NNlist[i].minus = TrueNeighbour(Lin(chunks[i].pos - 1))

Abstract == INSTANCE SparseMap WITH store <- Contents

\* Each call does to the map of points what its name says and nothing else.
CallByCall ==
  /\ \A p \in Points :
       /\ \A v \in Values : Insert(p, v) => Abstract!Put(p, v)
       /\ Remove(p) \/ RemoveNoFlush(p) => Abstract!Delete({p})
  /\ \A lo, hi \in Points : RemoveBox(lo, hi) => Abstract!Delete(lo .. hi)
  /\ \A sz \in Sizes : Resize(sz) => Abstract!Resize(sz)
  /\ Clear => Abstract!Delete(Points)
  /\ FlushRemove \/ Reorder => UNCHANGED Contents

\* The grid implements the map of points, call by call: cache, chunks,
\* reclaiming and reordering are invisible to a client.
ImplementsMap == Abstract!Spec /\ [][CallByCall]_vars
=============================================================================
