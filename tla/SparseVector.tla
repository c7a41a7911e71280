---------------------------- MODULE SparseVector ----------------------------
(***************************************************************************)
(* openfpm::vector_sparse (Vector/map_vector_sparse.hpp) with its device   *)
(* side vector_sparse_gpu_ker: a sorted vector of keys with their values,  *)
(* insertions that wait in a buffer, and the flush that merges them in.    *)
(*                                                                         *)
(*   vct_index, vct_data   the keys, and their values with the background  *)
(*                         as last element                                 *)
(*   bck                   the background the next flush writes there      *)
(*   vct_add_index/data    the insert buffer: grown by the host, cut into  *)
(*                         pools of n_add_slot slots for the device        *)
(*   vct_nadd_index        how many slots of each pool are used            *)
(*   vct_rem_index, vct_nrem_index, n_rem_slot   the same for removals     *)
(*   other                 the vector swap is called with: the members     *)
(*                         swap exchanges                                  *)
(*   client                the operations the client uses.  It flushes on  *)
(*                         the host or on the device, never on both: the   *)
(*                         temporary buffers and the insert buffer of a    *)
(*                         device flush are not what a host flush expects  *)
(*   next                  the number of the next insertion                *)
(***************************************************************************)
EXTENDS SparseVectorKernels

CONSTANTS
  Key,         \* keys; not -1, which the search gives for "not found"
  NBlock,      \* thread blocks of a kernel launch
  NSlot,       \* slots of a pool
  Backgrounds, \* what the client sets as background
  Clients,     \* the sets of operations a client uses
  MaxInsert,   \* bound: insertions of a behaviour
  MaxRemove,   \* bound: removals waiting for flush_remove
  MaxPools     \* bound: entries of a counter, which every flush makes longer

Operations == {"setBackground", "insert", "insertFlush", "flush", "swap", "clear",
               "device", "insert kernel", "preFlush", "remove kernel", "flush_remove",
               "removeUnusedBuffers"}

ASSUME SparseVectorAssumption ==
  /\ Key \subseteq Nat \ {0} /\ IsFiniteSet(Key)
  /\ NBlock \in Nat \ {0} /\ NSlot \in Nat \ {0} /\ MaxInsert \in Nat /\ MaxRemove \in Nat /\ MaxPools >= NBlock
  /\ Backgrounds # {}
  /\ Clients \subseteq SUBSET Operations

\* Insertions that are made on the device are flushed on the device.
ASSUME SidesApart == \A c \in Clients : {"insert kernel", "preFlush"} \cap c # {} => "device" \in c

VARIABLES vct_index, vct_data, bck, vct_add_index, vct_add_data, vct_nadd_index, n_add_slot,
          vct_rem_index, vct_nrem_index, n_rem_slot, other, client, next

main == <<vct_index, vct_data, bck>>
adds == <<vct_add_index, vct_add_data, vct_nadd_index, n_add_slot>>
rems == <<vct_rem_index, vct_nrem_index, n_rem_slot>>
vars == <<main, adds, rems, other, client, next>>

Ins == 1 .. MaxInsert
device == "device" \in client
Value == UNION {[1..n -> Ins] : n \in 1..MaxInsert}
SumSeq(s) == FoldLeft(LAMBDA x, y : x + y, 0, s)
Zeros(n) == [b \in 1..n |-> 0]

-----------------------------------------------------------------------------
(* Searching.                                                              *)

\* _branchfree_search_nobck, the loop: halve the n elements above base (both
\* zero-based) until one is left.
Narrow(x) ==
  LET loop[n \in 0 .. Len(vct_data)] ==
        [base \in Nat |->
           IF n <= 1 THEN base
           ELSE LET half == n \div 2
                IN loop[n - half][IF vct_index[base + half + 1] < x THEN base + half ELSE base]]
  IN loop[Len(vct_data) - 1][0]

\* _branchfree_search_nobck: id is where x is or belongs, v the key found there.
\* mutant: the last comparison, with the element that is left, is <=
SearchNoBckPast(x) ==
  LET base == Narrow(x)
      id == base + IF vct_index[base + 1] <= x THEN 1 ELSE 0
  IN IF vct_index = <<>> THEN [id |-> 0, v |-> -1]
     ELSE [id |-> id, v |-> IF id < Len(vct_index) THEN vct_index[id + 1] ELSE -1]
SearchNoBck(x) ==
  LET base == Narrow(x)
      id == base + IF vct_index[base + 1] < x THEN 1 ELSE 0
  IN IF vct_index = <<>> THEN [id |-> 0, v |-> -1]
     ELSE [id |-> id, v |-> IF id < Len(vct_index) THEN vct_index[id + 1] ELSE -1]

\* _branchfree_search: the background, which is last, stands in for x.
Search(x) ==
  LET found == SearchNoBck(x)
  IN IF found.v = x THEN found.id ELSE Len(vct_data) - 1

Get(x) == vct_data[Search(x) + 1]

-----------------------------------------------------------------------------

Init ==
  /\ bck = (CHOOSE b \in Backgrounds : TRUE)
  /\ vct_index = <<>> /\ vct_data = <<bck>>
  /\ vct_add_index = <<>> /\ vct_add_data = <<>> /\ vct_nadd_index = <<>> /\ n_add_slot = 0
  /\ vct_rem_index = <<>> /\ vct_nrem_index = <<>> /\ n_rem_slot = 0
  /\ other = [index |-> <<>>, data |-> <<bck>>, add_index |-> <<>>, add_data |-> <<>>]
  /\ client \in Clients
  /\ next = 1

\* setBackground writes the last element and bck.
SetBackground ==
  /\ "setBackground" \in client
  /\ \E b \in Backgrounds :
       /\ b # bck
       /\ bck' = b
       /\ vct_data' = [vct_data EXCEPT ![Len(vct_data)] = b]
  /\ UNCHANGED <<vct_index, adds, rems, other, client, next>>

\* insert(ele) on the host; the client stores a value in what it returns.
Insert(k) ==
  /\ "insert" \in client
  /\ next \in Ins
  /\ vct_add_index' = Append(vct_add_index, k)
  /\ vct_add_data' = Append(vct_add_data, <<next>>)
  /\ next' = next + 1
  /\ UNCHANGED <<main, vct_nadd_index, n_add_slot, rems, other, client>>

\* insertFlush(ele): the element, made where the search says if it is new; the
\* client stores a value in it.
InsertFlush(k) ==
  LET found == SearchNoBck(k)
      at == found.id + 1
  IN /\ "insertFlush" \in client
     /\ next \in Ins
     /\ IF found.v = k
        THEN /\ vct_data' = [vct_data EXCEPT ![at] = <<next>>]
             /\ UNCHANGED vct_index
        ELSE /\ vct_data' = InsertAt(vct_data, at, <<next>>)
             /\ vct_index' = InsertAt(vct_index, at, k)
     /\ next' = next + 1
     /\ UNCHANGED <<bck, adds, rems, other, client>>

-----------------------------------------------------------------------------
(* The buffers of the device.  A slot that holds nothing anybody may read  *)
(* (grown, counted out by init, or flushed) is shown as NoKey and Junk.    *)

\* setGPUInsertBuffer
SetGPUInsertBuffer ==
  /\ "insert kernel" \in client
  /\ vct_add_index' = [i \in 1 .. NBlock * NSlot |-> NoKey]
  /\ vct_add_data' = [i \in 1 .. NBlock * NSlot |-> Junk]
  /\ vct_nadd_index' = Zeros(NBlock)
  /\ n_add_slot' = NSlot
  /\ UNCHANGED <<main, rems, other, client, next>>

SetGPURemoveBuffer ==
  /\ "remove kernel" \in client
  /\ vct_rem_index' = [i \in 1 .. NBlock * NSlot |-> NoKey]
  /\ vct_nrem_index' = Zeros(NBlock)
  /\ n_rem_slot' = NSlot
  /\ UNCHANGED <<main, adds, other, client, next>>

\* The counters a kernel of NBlock blocks leaves, in which a thread of block b
\* took one slot more: after init() every block counts from zero, after
\* init_ins_inc() or init_rem_inc() from where it was.  The slots are those of
\* the block (InsertKernel has the threads).  The client launches no more
\* blocks than there are pools: the kernel does not check.
Counted(count, b, inc) ==
  [c \in DOMAIN count |-> (IF inc \/ c > NBlock THEN count[c] ELSE 0) + IF c = b THEN 1 ELSE 0]
TakenSlot(count, nslot, b, inc) == nslot * (b - 1) + (IF inc THEN count[b] ELSE 0) + 1
Stored(pool, nslot, at, x, inc, nothing) ==
  [i \in DOMAIN pool |-> IF i = at THEN x ELSE IF inc \/ i > nslot * NBlock THEN pool[i] ELSE nothing]

InsertKernel(b, k, inc) ==
  LET at == TakenSlot(vct_nadd_index, n_add_slot, b, inc)
  IN /\ "insert kernel" \in client /\ n_add_slot > 0
     /\ n_add_slot * NBlock <= Len(vct_add_index) /\ NBlock <= Len(vct_nadd_index)
     /\ next \in Ins
     /\ inc => vct_nadd_index[b] < n_add_slot
     /\ vct_add_index' = Stored(vct_add_index, n_add_slot, at, k, inc, NoKey)
     /\ vct_add_data' = Stored(vct_add_data, n_add_slot, at, <<next>>, inc, Junk)
     /\ vct_nadd_index' = Counted(vct_nadd_index, b, inc)
     /\ next' = next + 1
     /\ UNCHANGED <<main, n_add_slot, rems, other, client>>

RemoveKernel(b, k, inc) ==
  LET at == TakenSlot(vct_nrem_index, n_rem_slot, b, inc)
  IN /\ "remove kernel" \in client /\ n_rem_slot > 0
     /\ inc => vct_nrem_index[b] < n_rem_slot
     /\ inc => SumSeq(vct_nrem_index) < MaxRemove
     /\ vct_rem_index' = Stored(vct_rem_index, n_rem_slot, at, k, inc, NoKey)
     /\ vct_nrem_index' = Counted(vct_nrem_index, b, inc)
     /\ UNCHANGED <<main, adds, n_rem_slot, other, client, next>>

\* The client writes the insert buffer itself and calls preFlush: one pool of
\* one slot for each entry.
PreFlush(j, k) ==
  /\ "preFlush" \in client
  /\ next \in Ins /\ next + 1 \in Ins
  /\ vct_add_index' = <<j, k>>
  /\ vct_add_data' = <<<<next>>, <<next + 1>>>>
  /\ vct_nadd_index' = [i \in 1 .. 2 |-> 1]
  /\ n_add_slot' = 1
  /\ next' = next + 2
  /\ UNCHANGED <<main, rems, other, client>>

-----------------------------------------------------------------------------
(* Flushing.  flush, flush_v and flush_vd drop the background, merge, and  *)
(* write bck as the last element again (resetBck).                         *)

\* The merge loop of flush_on_cpu: where both have the key the new value
\* comes first in the reduction.
\* mutant: the operands the other way round
HostMergeOldFirst(keys, data) ==
  LET all == Increasing(ToSet(keys) \cup ToSet(vct_index))
      New(k) == data[CHOOSE i \in DOMAIN keys : keys[i] = k]
      Old(k) == vct_data[CHOOSE i \in DOMAIN vct_index : vct_index[i] = k]
      Both(k) == IF k \notin ToSet(vct_index) THEN New(k)
                 ELSE IF k \notin ToSet(keys) THEN Old(k)
                 ELSE Red(Old(k), New(k))
  IN [index |-> all, data |-> [i \in DOMAIN all |-> Both(all[i])]]
HostMerge(keys, data) ==
  LET all == Increasing(ToSet(keys) \cup ToSet(vct_index))
      New(k) == data[CHOOSE i \in DOMAIN keys : keys[i] = k]
      Old(k) == vct_data[CHOOSE i \in DOMAIN vct_index : vct_index[i] = k]
      Both(k) == IF k \notin ToSet(vct_index) THEN New(k)
                 ELSE IF k \notin ToSet(keys) THEN Old(k)
                 ELSE Red(New(k), Old(k))
  IN [index |-> all, data |-> [i \in DOMAIN all |-> Both(all[i])]]

\* flush_on_cpu: sort the insertions, reduce each run of equal keys to one
\* (sparse_vector_reduction_cpu), and merge.
FlushOnHost ==
  /\ "flush" \in client /\ ~device
  /\ \E order \in Sortings(vct_add_index) :
       LET sorted == Permuted(vct_add_index, order)
           starts == Segments(sorted)
           merged == HostMerge(Permuted(sorted, starts),
                               Segreduce(Permuted(vct_add_data, order), starts))
       IN /\ vct_index' = merged.index
          /\ vct_data' = Append(merged.data, bck)
  /\ vct_add_index' = <<>> /\ vct_add_data' = <<>>
  /\ UNCHANGED <<bck, vct_nadd_index, n_add_slot, rems, other, client, next>>

\* flush_on_gpu_insert without a buffer, or when no kernel used it:
\* make_continuos has counted with one more entry, 0, and finds no element.
FlushOnDeviceNothing ==
  /\ "flush" \in client /\ device
  /\ n_add_slot = 0 \/ UsedSlots(vct_nadd_index, n_add_slot) = <<>>
  /\ vct_nadd_index' = IF n_add_slot = 0 \/ vct_add_index = <<>> THEN vct_nadd_index
                       ELSE Append(vct_nadd_index, 0)
  /\ Len(vct_nadd_index') <= MaxPools
  /\ vct_data' = Append(Front(vct_data), bck)
  /\ UNCHANGED <<vct_index, bck, vct_add_index, vct_add_data, n_add_slot, rems, other, client, next>>

\* make_continuos, reorder_indexes, merge_indexes and merge_datas.
FlushOnDevice ==
  LET used == UsedSlots(Append(vct_nadd_index, 0), n_add_slot)
  IN /\ "flush" \in client /\ device
     /\ n_add_slot > 0 /\ used # <<>>
     /\ \E order \in Sortings(Permuted(vct_add_index, used)) :
          LET slots == Permuted(used, order)
              sorted == Permuted(vct_add_index, slots)
              starts == Segments(sorted)
              unique == Segreduce(Permuted(vct_add_data, slots), starts)
              m == Merge(vct_index, Permuted(sorted, starts))
          IN /\ vct_index' = Realign(IsLast(m), ConflictKeys(m), NoKey)
             /\ vct_data' = Append(Realign(IsLast(m), ConflictData(m, Front(vct_data), unique), Junk),
                                   bck)
     /\ vct_nadd_index' = Append(vct_nadd_index, 0)
     /\ n_add_slot' = 0
     /\ vct_add_index' = [i \in DOMAIN vct_add_index |-> NoKey]
     /\ vct_add_data' = [i \in DOMAIN vct_add_data |-> Junk]
     /\ UNCHANGED <<bck, rems, other, client, next>>

\* flush_remove, which exists on the device only.  The remove buffer stays as
\* it is.  Nothing to merge is left out: the code then reads the element
\* before the first of a vector.
FlushRemove ==
  LET used == UsedSlots(Append(vct_nrem_index, 0), n_rem_slot)
      m == Merge(vct_index, Increasing(ToSet(Permuted(vct_rem_index, used))))
      stays == StaysIn(m, Len(vct_index))
      came == RealignRemove(stays, [p \in DOMAIN m |-> m[p].from])
  IN /\ "flush_remove" \in client /\ n_rem_slot > 0
     /\ m # <<>>
     /\ Len(vct_nrem_index) < MaxPools
     /\ vct_index' = RealignRemove(stays, [p \in DOMAIN m |-> m[p].key])
     /\ vct_data' = Append(Permuted(vct_data, came), bck)
     /\ vct_nrem_index' = Append(vct_nrem_index, 0)
     /\ UNCHANGED <<bck, adds, vct_rem_index, n_rem_slot, other, client, next>>

-----------------------------------------------------------------------------

\* clear: the buffers for the device keep their sizes, but have no slots.
Clear ==
  /\ "clear" \in client
  /\ vct_index' = <<>>
  /\ vct_data' = <<bck>>
  /\ vct_add_index' = <<>> /\ vct_add_data' = <<>>
  /\ n_add_slot' = 0 /\ n_rem_slot' = 0
  /\ UNCHANGED <<bck, vct_nadd_index, vct_rem_index, vct_nrem_index, other, client, next>>

\* swap exchanges the vectors but neither bck nor the pools' counters: the
\* client swaps vectors of the same background that hold no filled pool.
Swap ==
  /\ "swap" \in client
  /\ Last(other.data) = bck
  /\ n_add_slot = 0
  /\ vct_index' = other.index /\ vct_data' = other.data
  /\ vct_add_index' = other.add_index /\ vct_add_data' = other.add_data
  /\ other' = [index |-> vct_index, data |-> vct_data,
               add_index |-> vct_add_index, add_data |-> vct_add_data]
  /\ UNCHANGED <<bck, vct_nadd_index, n_add_slot, rems, client, next>>

\* removeUnusedBuffers, between flushes: nothing waits for the next.
RemoveUnusedBuffers ==
  /\ "removeUnusedBuffers" \in client /\ n_add_slot = 0
  /\ device \/ vct_add_index = <<>>
  /\ vct_add_data' = <<>>
  /\ UNCHANGED <<main, vct_add_index, vct_nadd_index, n_add_slot, rems, other, client, next>>

Next ==
  \/ \E k \in Key : Insert(k) \/ InsertFlush(k)
  \/ \E j, k \in Key : PreFlush(j, k)
  \/ \E b \in 1..NBlock, k \in Key, inc \in BOOLEAN : InsertKernel(b, k, inc) \/ RemoveKernel(b, k, inc)
  \/ SetBackground \/ SetGPUInsertBuffer \/ SetGPURemoveBuffer
  \/ FlushOnHost \/ FlushOnDeviceNothing \/ FlushOnDevice \/ FlushRemove
  \/ Clear \/ Swap \/ RemoveUnusedBuffers

Spec == Init /\ [][Next]_vars

-----------------------------------------------------------------------------
(* Properties.                                                             *)

\* Every variable has its type: keys, values made of insertions, one value
\* more than keys, and pools as large as their counters say.
TypeOK ==
  /\ vct_index \in Seq(Key)
  /\ vct_data \in Seq(Value \cup Backgrounds) /\ Len(vct_data) = Len(vct_index) + 1
  /\ bck \in Backgrounds
  /\ vct_add_index \in Seq(Key \cup {NoKey})
  /\ vct_add_data \in Seq(Value \cup {Junk})
  /\ vct_nadd_index \in Seq(0..NSlot) /\ n_add_slot \in {0, 1, NSlot}
  /\ vct_rem_index \in Seq(Key \cup {NoKey})
  /\ vct_nrem_index \in Seq(0..NSlot) /\ n_rem_slot \in {0, NSlot}
  /\ next \in 1 .. MaxInsert + 1
  /\ client \in Clients

\* After any sequence of insertions, flushes, removals and swaps the keys are
\* strictly increasing, so none is there twice, and the background is behind
\* them: merging, compacting in thread blocks and insertFlush all keep what
\* the binary search needs.
IndexSorted ==
  /\ \A i \in 1 .. Len(vct_index) - 1 : vct_index[i] < vct_index[i + 1]
  /\ Last(vct_data) = bck

\* The search without branches (map_vector_sparse.hpp, _branchfree_search)
\* finds exactly the keys there are, and gives the background for the others.
SearchFinds ==
  \A x \in Key :
    IF x \in ToSet(vct_index) THEN \E i \in DOMAIN vct_index : vct_index[i] = x /\ Search(x) = i - 1
    ELSE Search(x) = Len(vct_data) - 1

\* The order of the operands, which sLeft_ and sRight_ depend on: a flush on
\* the device reduces what a key had before what is new, in a flush on the
\* host the new comes first (data_merger against cpu_block_process).
FlushOrder ==
  [][\A i \in DOMAIN vct_index, j \in DOMAIN vct_index' :
       (FlushOnHost \/ FlushOnDevice) /\ vct_index'[j] = vct_index[i] =>
         IF device THEN IsPrefix(vct_data[i], vct_data'[j]) ELSE IsSuffix(vct_data[i], vct_data'[j])
    ]_vars

\* The vector is a map in which every flushed insertion counts once.
Contents(index, data) ==
  [k \in ToSet(index) |-> ToBag(data[CHOOSE i \in DOMAIN index : index[i] = k])]
Waiting(index, data, slots) == {<<index[s], data[s][1]>> : s \in ToSet(slots)}
HostSlots(index) == [i \in DOMAIN index |-> i]
AddSlots == IF ~device THEN HostSlots(vct_add_index)
            ELSE IF n_add_slot = 0 THEN <<>> ELSE UsedSlots(vct_nadd_index, n_add_slot)

Map == INSTANCE ReducedMap WITH
  content <- Contents(vct_index, vct_data),
  pending <- Waiting(vct_add_index, vct_add_data, AddSlots),
  doomed <- IF n_rem_slot = 0 THEN {}
            ELSE ToSet(Permuted(vct_rem_index, UsedSlots(vct_nrem_index, n_rem_slot))),
  bg <- Last(vct_data),
  spare <- [content |-> Contents(other.index, other.data),
            pending |-> IF device THEN {}
                        ELSE Waiting(other.add_index, other.add_data, HostSlots(other.add_index))]
ImplementsMap == Map!Spec
=============================================================================
