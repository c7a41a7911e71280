------------------------------ MODULE BlockMap ------------------------------
(***************************************************************************)
(* BlockMapGpu (SparseGridGpu/BlockMapGpu.hpp, its kernel side and its     *)
(* kernels), on which the GPU sparse grid stands: a sparse vector whose    *)
(* values are chunks, blocks of points with a mask that says which of them *)
(* exist.  Threads insert chunks with a few points set; flush reduces the  *)
(* chunks of one block point by point and merges them into the old chunk.  *)
(*                                                                         *)
(*   keys, data   the blocks, and their chunks with the background as last *)
(*                element                                                  *)
(*   bck          the background chunk the next flush writes there         *)
(*   add          the used slots of the insert buffer, pool after pool     *)
(*                (the pools themselves are SparseVector's)                *)
(*   next         the number of the next insertion                         *)
(*   client       what the client uses besides insert kernels and flush,   *)
(*                and what its kernels insert                              *)
(*                                                                         *)
(* Chunks are reduced in the order a sort of equal keys and a tree of      *)
(* threads happens to give, so only a commutative reduction has a meaning: *)
(* a value is the bag of the insertions reduced into it.                   *)
(***************************************************************************)
EXTENDS SparseVectorKernels, BagsExt

CONSTANTS
  Chunks,         \* ids of blocks
  Offset,         \* points of a block
  ChunksPerBlock, \* chunks a thread block reduces at a time: its threads by
                  \* the points of a block
  Clients,        \* the clients: the operations one uses, and its launches, each
                  \* a sequence of a block and the points of it threads set;
                  \* bound: the insertions it makes
  Backgrounds,    \* what setBackgroundValue is called with
  MaxInsert       \* insertions are numbered up to this

ASSUME BlockMapAssumption ==
  /\ Chunks \subseteq Nat \ {0} /\ IsFiniteSet(Chunks)
  /\ Offset # {} /\ ChunksPerBlock \in Nat \ {0} /\ MaxInsert \in Nat
  /\ \A c \in Clients : /\ c.uses \subseteq {"setBackground", "remove", "insertFlush", "clear"}
                        /\ c.launches \subseteq Seq([block : Chunks, points : SUBSET Offset])
                        /\ c.most \in 0 .. MaxInsert
  /\ Backgrounds # {}

VARIABLES keys, data, bck, add, next, client
vars == <<keys, data, bck, add, next, client>>

Ins == 1 .. MaxInsert
Unwritten == SetToBag({0})
Point(value) == [val |-> value, exist |-> TRUE]
NoPoint == [val |-> Unwritten, exist |-> FALSE]
BackgroundChunk(b) == [o \in Offset |-> [val |-> b, exist |-> FALSE]]

-----------------------------------------------------------------------------
(* The kernels of a flush.                                                 *)

\* compute_predicate of the merged keys m, of which those from below nold are
\* old, and maps_create after the scans: for the i-th new key the old chunk it
\* merges with and where the result goes; for the i-th old key that stays
\* alone where it goes and where it comes from.  Places are counted from one
\* and 0 is -1.  Predicate 0 counts old chunks, a merging one at its new key.
\* mutant: a new key that merges counts itself, not the chunk it merges with
CountedLate(m, nold, p) == p # Len(m) /\ m[p].from <= nold
Counted(m, nold, p) ==
  \/ p # 1 /\ m[p - 1].key = m[p].key /\ m[p - 1].from <= nold
  \/ m[p].from <= nold /\ p # Len(m) /\ m[p].key # m[p + 1].key
Maps(m, nold) ==
  LET IsOld(p) == m[p].from <= nold
      Before(S, p) == Cardinality({q \in S : q < p})
      New == {p \in DOMAIN m : ~IsOld(p)}
      Ends == {p \in DOMAIN m : IsLast(m)[p]}
      Alone == Ends \ New
      Merging == {p \in DOMAIN m : Counted(m, nold, p)}
      Nth(S, i) == CHOOSE p \in S : Before(S, p) = i - 1
      To(p) == Before(Ends, p) + 1
  IN [seg_old |-> [i \in 1 .. Cardinality(New) |->
                     LET p == Nth(New, i) IN IF p \in Merging THEN Before(Merging, p) + 1 ELSE 0],
      out_map |-> [i \in 1 .. Cardinality(New) |-> To(Nth(New, i))],
      copy_dst |-> [i \in 1 .. Cardinality(Alone) |-> To(Nth(Alone, i))],
      copy_src |-> [i \in 1 .. Cardinality(Alone) |->
                      Before(DOMAIN m \ New, Nth(Alone, i)) + 1]]

\* copyKeyToDstIndexIfPredicate: the keys where the scan of the last ones
\* changes.  mutant: the first key has nothing before it and is forgotten
Out(m, p) == Cardinality({q \in 1 .. p - 1 : IsLast(m)[q]})
WritesKeyAfterFirst(m, p) == p # 1 /\ Out(m, p - 1) # Out(m, p)
WritesKeyOut(m, p) == p = 1 \/ Out(m, p - 1) # Out(m, p)
KeysOut(m) ==
  LET Writes == {p \in DOMAIN m : WritesKeyOut(m, p)}
  IN [i \in 1 .. Cardinality({q \in DOMAIN m : IsLast(m)[q]}) |->
        IF \E p \in Writes : Out(m, p) = i - 1
        THEN m[CHOOSE p \in Writes : Out(m, p) = i - 1].key ELSE NoKey]

\* applyOp, and the or of the masks, point by point.
Applied(a, b) ==
  [o \in Offset |->
     [val |-> IF a[o].exist /\ b[o].exist THEN a[o].val (+) b[o].val
              ELSE IF b[o].exist THEN b[o].val ELSE a[o].val,
      exist |-> a[o].exist \/ b[o].exist]]

\* segreduce_total_with_mask, for the chunks of one new key and the old chunk.
\* The threads of chunk c take the chunks c, c + ChunksPerBlock, ... in whole
\* rounds and, after them, what is left; then the chunks are reduced in pairs.
RECURSIVE Rounds(_, _, _), Paired(_, _, _)
Rounds(A, run, i) ==
  IF i < Len(run) - ChunksPerBlock
  THEN Rounds([c \in DOMAIN A |-> Applied(A[c], run[i + c])], run, i + ChunksPerBlock)
  ELSE [c \in DOMAIN A |-> IF i + c <= Len(run) THEN Applied(A[c], run[i + c]) ELSE A[c]]
Paired(A, S, j) ==
  IF j > ChunksPerBlock \/ j > S THEN A
  ELSE Paired([c \in DOMAIN A |->
                 IF (c - 1) % j = 0 /\ c + j \div 2 <= S
                 THEN Applied(A[c], A[c + j \div 2]) ELSE A[c]], S, j * 2)
SegreduceWithMask(run, old) ==
  LET loaded == [c \in 1 .. ChunksPerBlock |->
                   IF c <= Len(run) THEN run[c] ELSE [o \in Offset |-> NoPoint]]
      all == Paired(Rounds(loaded, run, ChunksPerBlock), Len(run), 2)[1]
  IN IF old = <<>> THEN all ELSE Applied(all, old[1])

-----------------------------------------------------------------------------
(* The block map.                                                          *)

\* The background has been set: before that its mask is whatever memory held.
Init ==
  /\ bck = BackgroundChunk(CHOOSE b \in Backgrounds : TRUE)
  /\ keys = <<>> /\ data = <<bck>>
  /\ add = <<>>
  /\ next = 1
  /\ client \in Clients

\* setBackgroundValue: the values, and a mask in which no point exists.
SetBackground ==
  /\ "setBackground" \in client.uses
  /\ \E b \in Backgrounds :
       /\ BackgroundChunk(b) # bck
       /\ bck' = BackgroundChunk(b)
       /\ data' = [data EXCEPT ![Len(data)] = bck']
  /\ UNCHANGED <<keys, add, next, client>>

\* setGPUInsertBuffer, which makes every mask of the buffer 0, and an insert
\* kernel: a thread calls insert or insertBlock for a slot, and the threads
\* that call it set the mask of their points and store a value.
InsertKernel(launch) ==
  /\ next + Len(launch) <= client.most + 1
  /\ add' = [i \in DOMAIN launch |->
               [key |-> launch[i].block,
                chunk |-> [o \in Offset |-> IF o \in launch[i].points
                                            THEN Point(SetToBag({next + i - 1})) ELSE NoPoint]]]
  /\ next' = next + Len(launch)
  /\ UNCHANGED <<keys, data, bck, client>>

\* flush where no slot is used: only the background is written again.
FlushNothing ==
  /\ add = <<>>
  /\ data' = Append(Front(data), bck)
  /\ UNCHANGED <<keys, bck, add, next, client>>

\* flush: sort the slots, find the runs of equal keys, merge their keys with
\* the old ones, reduce, copy the old chunks that stay alone (solve_conflicts).
Flush ==
  LET slots == [i \in DOMAIN add |-> i]
      order == SetToSortSeq(DOMAIN add, LAMBDA i, j : add[i].key < add[j].key
                                                        \/ (add[i].key = add[j].key /\ i < j))
      sorted == [i \in DOMAIN add |-> add[order[i]].key]
      starts == Append(Segments(sorted), Len(add) + 1)
      Run(s) == [i \in 1 .. starts[s + 1] - starts[s] |-> add[order[starts[s] + i - 1]].chunk]
      m == Merge(keys, Permuted(sorted, Front(starts)))
      maps == Maps(m, Len(keys))
      Old(s) == IF maps.seg_old[s] = 0 THEN <<>> ELSE <<data[maps.seg_old[s]]>>
      Result(i) ==
        IF \E c \in DOMAIN maps.copy_dst : maps.copy_dst[c] = i
        THEN data[maps.copy_src[CHOOSE c \in DOMAIN maps.copy_dst : maps.copy_dst[c] = i]]
        ELSE LET s == CHOOSE s \in DOMAIN maps.out_map : maps.out_map[s] = i
             IN SegreduceWithMask(Run(s), Old(s))
  IN /\ add # <<>>
     /\ keys' = KeysOut(m)
     /\ data' = Append([i \in DOMAIN keys' |-> Result(i)], bck)
     /\ add' = <<>>
     /\ UNCHANGED <<bck, next, client>>

\* get_sparse: where the chunk of b is, or the background.
Find(b) == IF \E i \in DOMAIN keys : keys[i] = b
           THEN CHOOSE i \in DOMAIN keys : keys[i] = b ELSE Len(data)

\* remove in a kernel, which needs no flush.
RemoveKernel(b, o) ==
  /\ "remove" \in client.uses
  /\ data' = [data EXCEPT ![Find(b)][o].exist = FALSE]
  /\ UNCHANGED <<keys, bck, add, next, client>>

\* insertFlush of the sparse grid on the host: the block, made where it belongs
\* with no point in it if it is new (insertBlockFlush); then the point.
\* mutant: the block is looked for with get_sparse, and never made
InsertFlushFound(b, o) ==
  /\ "insertFlush" \in client.uses
  /\ next <= client.most
  /\ data' = [data EXCEPT ![Find(b)][o] = Point(SetToBag({next}))]
  /\ next' = next + 1
  /\ UNCHANGED <<keys, bck, add, client>>
InsertFlush(b, o) ==
  LET at == Cardinality({i \in DOMAIN keys : keys[i] < b}) + 1
      isnew == b \notin ToSet(keys)
      made == IF isnew THEN InsertAt(data, at, [p \in Offset |-> NoPoint]) ELSE data
  IN /\ "insertFlush" \in client.uses
     /\ next <= client.most
     /\ keys' = IF isnew THEN InsertAt(keys, at, b) ELSE keys
     /\ data' = [made EXCEPT ![at][o] = Point(SetToBag({next}))]
     /\ next' = next + 1
     /\ UNCHANGED <<bck, add, client>>

Clear ==
  /\ "clear" \in client.uses
  /\ keys' = <<>> /\ data' = <<bck>> /\ add' = <<>>
  /\ UNCHANGED <<bck, next, client>>

Next ==
  \/ \E launch \in client.launches : InsertKernel(launch)
  \/ \E b \in Chunks, o \in Offset : RemoveKernel(b, o) \/ InsertFlush(b, o)
  \/ SetBackground \/ FlushNothing \/ Flush \/ Clear

Spec == Init /\ [][Next]_vars

-----------------------------------------------------------------------------
(* Properties.                                                             *)

\* Every variable has its type; the keys are strictly increasing, as the
\* search of get_sparse needs, with one chunk for each and the background.
TypeOK ==
  LET Value == {SetToBag(S) : S \in SUBSET Ins \ {{}}} \cup {Unwritten} \cup Backgrounds
      Chunk == [Offset -> [val : Value, exist : BOOLEAN]]
  IN /\ keys \in Seq(Chunks) /\ \A i \in 1 .. Len(keys) - 1 : keys[i] < keys[i + 1]
     /\ data \in Seq(Chunk) /\ Len(data) = Len(keys) + 1
     /\ bck \in Chunk
     /\ add \in Seq([key : Chunks, chunk : Chunk])
     /\ next \in 1 .. MaxInsert + 1
     /\ client \in Clients

\* BlockMapGpu_ker::get: a point that does not exist, in a chunk or not, has
\* the value setBackgroundValue was last called with, whatever the removed
\* points, the unwritten values of new chunks and the chunks merged since
\* hold; and a point that exists is never one nobody wrote.
GetAnswers ==
  \A b \in Chunks, o \in Offset :
    LET point == data[Find(b)][o]
    IN IF point.exist THEN point.val # Unwritten /\ b \in ToSet(keys)
       ELSE Last(data)[o] = bck[o] /\ ~bck[o].exist

\* The block map is a map from points to values, in which every insertion that
\* was flushed counts once, however the chunks it came in were reduced.
Points(index, chunks) ==
  LET Live == {x \in (DOMAIN index) \X Offset : chunks[x[1]][x[2]].exist}
      At(b) == CHOOSE i \in DOMAIN index : index[i] = b
  IN [k \in {<<index[x[1]], x[2]>> : x \in Live} |-> chunks[At(k[1])][k[2]].val]
Waiting ==
  UNION {{<<<<add[i].key, o>>, CHOOSE n \in DOMAIN add[i].chunk[o].val : TRUE>>
            : o \in {p \in Offset : add[i].chunk[p].exist}} : i \in DOMAIN add}

Map == INSTANCE ReducedMap WITH
  Key <- Chunks \X Offset,
  content <- Points(keys, data), pending <- Waiting, doomed <- {},
  bg <- Last(data)[CHOOSE o \in Offset : TRUE].val,
  spare <- [content |-> [k \in {} |-> EmptyBag], pending |-> {}]
ImplementsMap == Map!Spec
=============================================================================
