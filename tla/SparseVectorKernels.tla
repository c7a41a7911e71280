------------------------ MODULE SparseVectorKernels ------------------------
(***************************************************************************)
(* The kernels a sparse vector flushes with                                *)
(* (Vector/cuda/map_vector_sparse_cuda_kernels.cuh and util/cuda), and the *)
(* library calls between them, as operators on sequences.  A value is the  *)
(* sequence of the insertions reduced into it, and reducing is             *)
(* concatenation: the free choice for an associative operator, so nothing  *)
(* a reduction could tell apart is lost.                                   *)
(***************************************************************************)
EXTENDS Integers, FiniteSets, Sequences, SequencesExt, TLC

CONSTANT BlockDim   \* threads of a block (128 in map_vector_sparse.hpp)

ASSUME BlockDimAssumption == BlockDim \in Nat \ {0}

Junk == <<0>>       \* a value nobody wrote
NoKey == 0          \* an index nobody wrote

Red(a, b) == a \o b

\* The numbers of S in ascending order.
Increasing(S) ==
  [i \in 1 .. Cardinality(S) |-> CHOOSE k \in S : Cardinality({l \in S : l < k}) = i - 1]

-----------------------------------------------------------------------------
(* Library calls.                                                          *)

\* openfpm::sort: the positions of keys in some order that sorts them; equal
\* keys in any order, as std::sort gives them where CUDA runs on the CPU.
Sortings(keys) ==
  LET n == Len(keys)
  IN {s \in [1..n -> 1..n] : /\ \A i, j \in 1..n : s[i] = s[j] => i = j
                             /\ \A i \in 1 .. n - 1 : keys[s[i]] <= keys[s[i + 1]]}

Permuted(s, order) == [i \in DOMAIN order |-> s[order[i]]]

\* openfpm::merge of two sorted sequences of keys: the merged keys, each with
\* the place it came from, where places of b follow those of a.
Merge(a, b) ==
  LET both == {[key |-> a[i], from |-> i] : i \in DOMAIN a}
                \cup {[key |-> b[i], from |-> Len(a) + i] : i \in DOMAIN b}
      Before(y, x) == y.key < x.key \/ (y.key = x.key /\ y.from < x.from)
  IN [i \in 1 .. Len(a) + Len(b) |->
        CHOOSE x \in both : Cardinality({y \in both : Before(y, x)}) = i - 1]

-----------------------------------------------------------------------------
(* The insert and remove pools.                                            *)

\* construct_insert_list_key_only, its variant for small pools, and
\* construct_remove_list: the used slots of all pools, one after the other.
\* One pool per entry of count, nslot slots to each.
UsedSlots(count, nslot) ==
  FlattenSeq([b \in DOMAIN count |-> [i \in 1 .. count[b] |-> nslot * (b - 1) + i]])

\* find_buffer_offsets_for_scan, scan and construct_index_unique: where the
\* runs of equal keys start.
Segments(sorted) ==
  Increasing({p \in DOMAIN sorted : p = 1 \/ sorted[p - 1] # sorted[p]})

\* openfpm::segreduce: one value for each run.
Segreduce(data, starts) ==
  LET End(i) == IF i = Len(starts) THEN Len(data) ELSE starts[i + 1] - 1
  IN [i \in DOMAIN starts |->
        LET run == SubSeq(data, starts[i], End(i))
        IN FoldLeft(Red, Head(run), Tail(run))]

-----------------------------------------------------------------------------
(* Compaction in thread blocks.  Thread p of the grid handles entry p; the *)
(* threads with predicate 1 of a block write the block's part of the       *)
(* output one after the other (cub::BlockScan), and realign closes the     *)
(* gaps between the parts.                                                 *)

Block(p) == (p - 1) \div BlockDim
Tid(p) == (p - 1) % BlockDim
Threads(n, b) == {p \in 1..n : Block(p) = b}

\* BlockScan::ExclusiveSum of the predicates in the block of p, and the slot
\* of the output it gives.
Scan(pred, p) == Cardinality({q \in DOMAIN pred : Block(q) = Block(p) /\ q < p /\ pred[q]})
Slot(pred, p) == Block(p) * BlockDim + Scan(pred, p) + 1

\* vct_tot_out: how many the block wrote, and whether its last thread wrote.
Tot(pred, b) == Cardinality({q \in DOMAIN pred : Block(q) = b /\ pred[q]})
LastWrote(pred, b) == pred[CHOOSE p \in Threads(Len(pred), b) :
                             \A q \in Threads(Len(pred), b) : q <= p]

\* The scan of vct_tot_out: where a block's part begins in the result.
Base(pred, b) == Cardinality({q \in DOMAIN pred : Block(q) < b /\ pred[q]})

\* solve_conflicts, the predicate: the last entry of every run of equal keys.
IsLast(m) == [p \in DOMAIN m |-> p = Len(m) \/ m[p].key # m[p + 1].key]

\* solve_conflicts, the data: a thread with predicate 1 stores what it came
\* with, old or new; after the barrier a thread with predicate 0, which has
\* the old value of a key that is also new, overwrites it by the reduction.
\* mutant: the old value of a key is lost when its thread ends a block
ConflictDataInBlock(m, old, new) ==
  LET pred == IsLast(m)
      Came(i) == IF i <= Len(old) THEN old[i] ELSE new[i - Len(old)]
      Merges(p) == ~pred[p] /\ Tid(p) # BlockDim - 1
  IN [s \in DOMAIN m |->
        IF \E p \in DOMAIN m : Merges(p) /\ Slot(pred, p) = s
        THEN LET p == CHOOSE p \in DOMAIN m : Merges(p) /\ Slot(pred, p) = s
             IN Red(old[m[p].from], new[m[p + 1].from - Len(old)])
        ELSE IF \E p \in DOMAIN m : Slot(pred, p) = s
        THEN Came(m[CHOOSE p \in DOMAIN m : Slot(pred, p) = s].from)
        ELSE Junk]
ConflictData(m, old, new) ==
  LET pred == IsLast(m)
      Came(i) == IF i <= Len(old) THEN old[i] ELSE new[i - Len(old)]
      Merged(p) == Red(old[m[p].from], new[m[p + 1].from - Len(old)])
  IN [s \in DOMAIN m |->
        IF \E p \in DOMAIN m : ~pred[p] /\ Slot(pred, p) = s
        THEN Merged(CHOOSE p \in DOMAIN m : ~pred[p] /\ Slot(pred, p) = s)
        ELSE IF \E p \in DOMAIN m : pred[p] /\ Slot(pred, p) = s
        THEN Came(m[CHOOSE p \in DOMAIN m : pred[p] /\ Slot(pred, p) = s].from)
        ELSE Junk]

\* solve_conflicts, the keys: those of predicate 1, and that of the last
\* thread of the block, whose partner is in the next block.
WritesKeyInside(pred, p) == pred[p]   \* mutant: the border of the block is forgotten
WritesKey(pred, p) == pred[p] \/ Tid(p) = BlockDim - 1
ConflictKeys(m) ==
  LET pred == IsLast(m)
  IN [s \in DOMAIN m |->
        IF \E p \in DOMAIN m : WritesKey(pred, p) /\ Slot(pred, p) = s
        THEN m[CHOOSE p \in DOMAIN m : WritesKey(pred, p) /\ Slot(pred, p) = s].key
        ELSE NoKey]

\* realign: which entries of the output are copied, and where to.
\* mutant: threadIdx.x >= tot leaves, which the comment in realign warns of
CopiedBelow(pred, p) ==
  /\ Tid(p) < Tot(pred, Block(p))
  /\ ~(Tid(p) = 0 /\ Block(p) # 0 /\ ~LastWrote(pred, Block(p) - 1))
  /\ Base(pred, Block(p)) + Tid(p) < Cardinality({q \in DOMAIN pred : pred[q]})
Copied(pred, p) ==
  /\ Tid(p) <= Tot(pred, Block(p))
  /\ ~(Tid(p) = Tot(pred, Block(p)) /\ LastWrote(pred, Block(p)))
  /\ ~(Tid(p) = 0 /\ Block(p) # 0 /\ ~LastWrote(pred, Block(p) - 1))
  /\ Base(pred, Block(p)) + Tid(p) < Cardinality({q \in DOMAIN pred : pred[q]})

Realign(pred, out, nothing) ==
  LET To(p) == Base(pred, Block(p)) + Tid(p) + 1
  IN [i \in 1 .. Cardinality({q \in DOMAIN pred : pred[q]}) |->
        IF \E p \in DOMAIN pred : Copied(pred, p) /\ To(p) = i
        THEN out[CHOOSE p \in DOMAIN pred : Copied(pred, p) /\ To(p) = i]
        ELSE nothing]

\* solve_conflicts_remove and realign_remove: the entries that stay are the
\* old ones whose key is met once.
StaysIn(m, nold) ==
  [p \in DOMAIN m |-> /\ p = 1 \/ m[p - 1].key # m[p].key
                      /\ p = Len(m) \/ m[p + 1].key # m[p].key
                      /\ m[p].from <= nold]

RealignRemove(pred, came) ==
  LET To(p) == Base(pred, Block(p)) + Tid(p) + 1
      \* what solve_conflicts_remove left at place p of its output
      At(p) == came[CHOOSE q \in DOMAIN pred : pred[q] /\ Slot(pred, q) = p]
      Copies == {p \in DOMAIN pred : Tid(p) < Tot(pred, Block(p))}
  IN [i \in 1 .. Cardinality({q \in DOMAIN pred : pred[q]}) |->
        At(CHOOSE p \in Copies : To(p) = i)]
=============================================================================
