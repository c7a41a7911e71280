-------------------------- MODULE InsertKernel_proof -------------------------
(***************************************************************************)
(* Proofs about InsertKernel, for every number of thread blocks, threads   *)
(* and slots, every sequence of grids, and every interleaving of threads.  *)
(***************************************************************************)
EXTENDS InsertKernel, FiniteSetTheorems, FunctionTheorems, TLAPS

-----------------------------------------------------------------------------
(* Arithmetic of pools and chunks.                                         *)

\* A slot is of the pool of one thread block only.
LEMMA PoolsApart ==
  ASSUME NEW a \in Nat, NEW b \in Nat, a # b,
         NEW n \in Nat, NEW s \in Int,
         a * n <= s, s < a * n + n
  PROVE  ~(b * n <= s /\ s < b * n + n)
<1>1. CASE a < b
  <2>1. a + 1 <= b
    BY <1>1
  <2>2. (a + 1) * n <= b * n
    BY <2>1
  <2>3. QED BY <2>2
<1>2. CASE b < a
  <2>1. b + 1 <= a
    BY <1>2
  <2>2. (b + 1) * n <= a * n
    BY <2>1
  <2>3. QED BY <2>2
<1>3. QED BY <1>1, <1>2

\* The slots of the pool of a thread block are slots of the buffer.
LEMMA PoolInBuffer ==
  ASSUME NEW m \in Nat \ {0}, NEW b \in 0 .. m - 1, NEW n \in Nat, NEW k \in 0 .. n - 1
  PROVE  (b * n) + k \in 0 .. (m * n) - 1
<1>1. b + 1 <= m
  OBVIOUS
<1>2. (b + 1) * n <= m * n
  BY <1>1
<1>3. b * n \in Nat /\ m * n \in Nat /\ (b + 1) * n = (b * n) + n
  OBVIOUS
<1>4. QED BY <1>2, <1>3

\* A chunk has one leader.
LEMMA LeaderOfChunk ==
  ASSUME NEW x \in Nat, NEW y \in Nat, NEW s \in Nat \ {0},
         x % s = 0, y % s = 0, x \div s = y \div s
  PROVE  x = y
OBVIOUS

\* A quotient is not above what it is the quotient of.
LEMMA ChunkBelow ==
  ASSUME NEW x \in Nat, NEW s \in Nat \ {0}
  PROVE  x \div s \in 0 .. x
OBVIOUS

-----------------------------------------------------------------------------
(* The inductive invariant.                                                *)

\* Places between two barriers.  A thread that runs alone (element kind) goes
\* from init's barrier to the last one without another.
Entering == {"flag", "init", "init_sync"}
Flagging == {"active", "flag_sync"}
Alone == {"take", "store", "write", "end_sync"}
Leading == {"take", "store", "share", "mem_sync"}
Reading == {"load", "write", "end_sync"}
Ending == {"outside", "flush", "done"}
Kind == kernel.grid.kind

\* The barriers keep the threads of a block between the same two of them.
SamePhase(p, q) ==
  \/ p \in Entering /\ q \in Entering
  \/ Kind = "sphere" /\ p \in Flagging /\ q \in Flagging
  \/ Kind = "element" /\ p \in Alone /\ q \in Alone
  \/ Kind # "element" /\ p \in Leading /\ q \in Leading
  \/ Kind # "element" /\ p \in Reading /\ q \in Reading
  \/ p \in Ending /\ q \in Ending
Together ==
  \A th, u \in Thread : Runs(th) /\ Runs(u) /\ th[1] = u[1] => SamePhase(pc[th], pc[u])

\* Who can be where.
PlacesOK ==
  \A th \in Thread :
    /\ ~Runs(th) => pc[th] = "outside"
    /\ pc[th] \in {"flag", "init"} => th[2] = 0
    /\ pc[th] = "flag" => Kind = "sphere"
    /\ pc[th] = "active" => Active(th)
    /\ pc[th] \in {"take", "store", "share"} => Inserts(th)
    /\ pc[th] = "write" => Writes(th)

\* The flag of a sphere, from thread 0's write on: empty until an active thread
\* has cleared it.
FlagOK ==
  Kind = "sphere" =>
    \A th \in Thread :
      /\ th[2] = 0 /\ pc[th] \in {"init", "init_sync"} => is_block_empty[th[1]]
      /\ pc[th] \in Flagging /\ ~is_block_empty[th[1]] => \E u \in Of(th[1]) : Active(u)
      /\ pc[th] = "flag_sync" /\ Active(th) => ~is_block_empty[th[1]]
      /\ pc[th] \in Leading => \E u \in Of(th[1]) : Active(u)

\* When a thread holds a slot.
SlotHeld ==
  \A th \in Thread :
    /\ pc[th] \in Entering \cup Flagging \cup {"take"} => pos[th] = NoSlot
    /\ pc[th] \in {"store", "share"} => pos[th] # NoSlot
    /\ pc[th] = "write" /\ Kind = "element" => pos[th] # NoSlot

\* The slots taken are those below the counter.
SlotBelow(b, s) == b * NSlot <= s /\ s < b * NSlot + vct_atomic_add[b]
SlotsBelow ==
  \A th \in Thread : Inserts(th) /\ pos[th] # NoSlot => SlotBelow(th[1], pos[th])

\* What the leader of a chunk put into shared memory is there until all have
\* read it, and those who have read it hold it.
Shares(th) == Kind # "element" /\ Inserts(th) /\ pc[th] \in Reading \cup {"mem_sync"}
SharedSlot ==
  \A th \in Thread :
    /\ Shares(th) => pos[th] # NoSlot /\ mem_[th[1]][Chunk(th)] = pos[th]
    /\ Kind # "element" /\ pc[th] = "write" => pos[th] = mem_[th[1]][Chunk(th)]

\* The pool has room for the insertions to come: before thread 0 has reset the
\* counter counted from the first slot, and then from the counter.
Waiting(b) == {th \in Thread : th[1] = b /\ Inserts(th) /\ pos[th] = NoSlot}
Unset(b) == \E th \in Of(b) : pc[th] \in {"flag", "init"}
Counting(b) == ~Unset(b) /\ \E th \in Of(b) : pc[th] \notin Ending
Room ==
  \A b \in Blocks :
    /\ Unset(b) => FirstSlot(b) + Cardinality(Waiting(b)) <= NSlot
    /\ Counting(b) => vct_atomic_add[b] + Cardinality(Waiting(b)) <= NSlot

IInv ==
  /\ TypeOK /\ Together /\ PlacesOK /\ FlagOK /\ SlotHeld /\ SlotsBelow /\ SharedSlot /\ Room
  /\ SlotsDisjoint
-----------------------------------------------------------------------------
(* Threads.                                                                *)

\* What a thread is made of.
LEMMA Threads ==
  ASSUME NEW th \in Thread
  PROVE  /\ th[1] \in Blocks /\ th[2] \in Tids /\ th = <<th[1], th[2]>>
         /\ th[1] \in Nat /\ th[2] \in Nat
BY InsertKernelAssumption DEF Thread, Blocks, Tids

\* The threads can be counted.
LEMMA ThreadFinite == IsFiniteSet(Thread)
<1>1. IsFiniteSet(Blocks) /\ IsFiniteSet(Tids)
  BY InsertKernelAssumption, FS_Interval DEF Blocks, Tids
<1>2. QED BY <1>1, FS_Product DEF Thread

\* Leaders of a block in one chunk are one thread, and chunks index mem_.
LEMMA Leaders ==
  ASSUME kernel.grid \in Grid, NEW th \in Thread
  PROVE  /\ Chunk(th) \in Tids
         /\ \A u \in Thread :
              Leads(th) /\ Leads(u) /\ th[1] = u[1] /\ Chunk(th) = Chunk(u) => th = u
<1>1. kernel.grid.stride \in Nat \ {0}
  BY InsertKernelAssumption DEF Grid
<1>2. th[2] \in Nat /\ th[2] \in 0 .. NThread - 1
  BY Threads DEF Tids
<1>3. th[2] \div kernel.grid.stride \in 0 .. th[2]
  BY <1>1, <1>2, ChunkBelow
<1>4. Chunk(th) \in Tids
  BY <1>2, <1>3, InsertKernelAssumption DEF Chunk, Tids
<1>5. ASSUME NEW u \in Thread, Leads(th), Leads(u), th[1] = u[1], Chunk(th) = Chunk(u)
      PROVE  th = u
  <2>1. u[2] \in Nat
    BY Threads
  <2>2. th[2] = u[2]
    BY <1>1, <1>2, <2>1, <1>5, LeaderOfChunk DEF Leads, Chunk
  <2>3. QED BY <2>2, <1>5, Threads
<1>6. QED BY <1>4, <1>5

\* Who inserts, by the kind of the kernel.
LEMMA Inserting ==
  ASSUME kernel.grid \in Grid, NEW th \in Thread
  PROVE  /\ Inserts(th) => Runs(th)
         /\ Kind = "element" => (Inserts(th) <=> Runs(th) /\ Active(th))
         /\ Kind # "element" /\ Inserts(th) => Leads(th)
         /\ Kind = "blocked" => (Inserts(th) <=> Runs(th) /\ Leads(th))
         /\ Kind = "sphere" =>
              (Inserts(th) <=> Runs(th) /\ Leads(th) /\ \E u \in Of(th[1]) : Active(u))
         /\ Kind \in {"element", "blocked", "sphere"}
<1>1. kernel.grid.kind \in {"element", "blocked", "sphere"}
  BY DEF Grid
<1>2. QED BY <1>1 DEF Inserts, Kind

\* What is said of the kernel alone stays while it runs.
LEMMA SameKernel ==
  ASSUME UNCHANGED kernel
  PROVE  /\ Kind' = Kind
         /\ \A th \in Thread :
              /\ Runs(th)' <=> Runs(th)
              /\ Active(th)' <=> Active(th)
              /\ Leads(th)' <=> Leads(th)
              /\ Chunk(th)' = Chunk(th)
              /\ Inserts(th)' <=> Inserts(th)
              /\ Writes(th)' <=> Writes(th)
         /\ \A b \in Blocks : Of(b)' = Of(b)
BY DEF Kind, Runs, Active, Leads, Chunk, Inserts, Writes, Of

\* The threads still to take a slot can be counted.
LEMMA WaitingFinite ==
  ASSUME NEW b \in Blocks
  PROVE  IsFiniteSet(Waiting(b)) /\ Cardinality(Waiting(b)) \in Nat
<1>1. Waiting(b) \in SUBSET Thread
  BY DEF Waiting
<1>2. QED BY <1>1, ThreadFinite, FS_Subset, FS_CardinalityType

-----------------------------------------------------------------------------
(* What every step of a thread keeps.                                      *)

\* A thread that goes on between the same two barriers.
LEMMA Moving ==
  ASSUME TypeOK, Together, PlacesOK, UNCHANGED kernel,
         NEW th \in Thread, NEW to \in Places,
         Go(th, to),
         pc[th] # "outside",
         SamePhase(pc[th], to),
         to \notin {"outside", "flag", "active", "take"},
         to = "init" => th[2] = 0,
         to \in {"store", "share"} => Inserts(th),
         to = "write" => Writes(th)
  PROVE  /\ pc' \in [Thread -> Places]
         /\ pc'[th] = to
         /\ \A u \in Thread : u # th => pc'[u] = pc[u]
         /\ Together' /\ PlacesOK'
<1>1. pc \in [Thread -> Places]
  BY DEF TypeOK
<1>2. pc' \in [Thread -> Places] /\ pc'[th] = to /\ \A u \in Thread : u # th => pc'[u] = pc[u]
  BY <1>1 DEF Go
<1>3. Runs(th)
  BY DEF PlacesOK
<1>4. Together'
  <2>1. \A u, v \in Thread : Runs(u) /\ Runs(v) /\ u[1] = v[1] => SamePhase(pc[u], pc[v])
    BY DEF Together
  <2>2. ASSUME NEW u \in Thread, NEW v \in Thread, Runs(u), Runs(v), u[1] = v[1]
        PROVE  SamePhase(pc'[u], pc'[v])
    <3>1. SamePhase(pc[u], pc[v])
      BY <2>1, <2>2
    <3>2. SamePhase(pc[u], pc[u]) /\ SamePhase(pc[v], pc[v])
      BY <2>1, <2>2
    <3>3. CASE u = th
      <4>1. CASE v = th
        BY <3>3, <4>1, <1>2, <3>1
          DEF SamePhase, Entering, Flagging, Alone, Leading, Reading, Ending
      <4>2. CASE v # th
        BY <3>3, <4>2, <1>2, <3>1, <3>2
          DEF SamePhase, Entering, Flagging, Alone, Leading, Reading, Ending
      <4>3. QED BY <4>1, <4>2
    <3>4. CASE u # th
      <4>1. CASE v = th
        BY <3>4, <4>1, <1>2, <3>1, <3>2
          DEF SamePhase, Entering, Flagging, Alone, Leading, Reading, Ending
      <4>2. CASE v # th
        BY <3>4, <4>2, <1>2, <3>1
      <4>3. QED BY <4>1, <4>2
    <3>5. QED BY <3>3, <3>4
  <2>3. ASSUME NEW u \in Thread, NEW v \in Thread, Runs(u)', Runs(v)', u[1] = v[1]
        PROVE  SamePhase(pc[u], pc[v])'
    <3>1. SamePhase(pc'[u], pc'[v])
      BY <2>2, <2>3, SameKernel
    <3>2. QED BY <3>1 DEF SamePhase, Kind
  <2>4. QED BY <2>3 DEF Together
<1>5. PlacesOK'
  <2>1. ASSUME NEW u \in Thread
        PROVE  /\ ~Runs(u)' => pc'[u] = "outside"
               /\ pc'[u] \in {"flag", "init"} => u[2] = 0
               /\ pc'[u] = "flag" => Kind' = "sphere"
               /\ pc'[u] = "active" => Active(u)'
               /\ pc'[u] \in {"take", "store", "share"} => Inserts(u)'
               /\ pc'[u] = "write" => Writes(u)'
    <3>1. CASE u = th
      BY <3>1, <1>2, <1>3, SameKernel
    <3>2. CASE u # th
      BY <3>2, <1>2, SameKernel DEF PlacesOK
    <3>3. QED BY <3>1, <3>2
  <2>2. QED BY <2>1 DEF PlacesOK
<1>6. QED BY <1>2, <1>4, <1>5

\* The room of the pools, over a step that is not about it.
LEMMA MovingRoom ==
  ASSUME Room, UNCHANGED <<kernel, vct_atomic_add, vct_nadd_index>>,
         NEW th \in Thread, Runs(th),
         pc[th] \notin {"flag", "init", "outside", "flush", "done"},
         pc'[th] \notin {"flag", "init"},
         \A u \in Thread : u # th => pc'[u] = pc[u],
         \A u \in Thread : Inserts(u) => (pos'[u] = NoSlot <=> pos[u] = NoSlot)
  PROVE  Room'
<1>1. ASSUME NEW b \in Blocks
      PROVE  /\ Waiting(b)' = Waiting(b)
             /\ Unset(b)' => Unset(b)
             /\ Unset(b) => Unset(b)'
             /\ Counting(b)' => Counting(b)
             /\ FirstSlot(b)' = FirstSlot(b)
  <2>1. Of(b)' = Of(b) /\ Of(b) \subseteq Thread
    BY SameKernel DEF Of
  <2>2. Waiting(b)' = Waiting(b)
    BY SameKernel DEF Waiting
  <2>3. Unset(b)' <=> Unset(b)
    BY <2>1 DEF Unset
  <2>4. Counting(b)' => Counting(b)
    BY <2>1, <2>3 DEF Counting, Ending
  <2>5. FirstSlot(b)' = FirstSlot(b)
    BY DEF FirstSlot
  <2>6. QED BY <2>2, <2>3, <2>4, <2>5
<1>2. QED BY <1>1 DEF Room

\* The flag of a sphere, over a step that is not about it.
LEMMA MovingFlag ==
  ASSUME FlagOK, UNCHANGED <<kernel, is_block_empty>>,
         NEW th \in Thread,
         \A u \in Thread : u # th => pc'[u] = pc[u],
         pc'[th] \in {"init", "init_sync"} => pc[th] \in {"init", "init_sync"},
         pc'[th] \notin Flagging,
         pc'[th] \in Leading => pc[th] \in Leading
  PROVE  FlagOK'
<1>1. \A u \in Thread : Of(u[1])' = Of(u[1]) /\ Of(u[1]) \subseteq Thread
  BY SameKernel, Threads DEF Of
<1>2. ASSUME NEW u \in Thread, Kind = "sphere"
      PROVE  /\ u[2] = 0 /\ pc'[u] \in {"init", "init_sync"} => is_block_empty'[u[1]]
             /\ pc'[u] \in Flagging /\ ~is_block_empty'[u[1]] => \E v \in Of(u[1]) : Active(v)
             /\ pc'[u] = "flag_sync" /\ Active(u) => ~is_block_empty'[u[1]]
             /\ pc'[u] \in Leading => \E v \in Of(u[1]) : Active(v)
  <2>1. CASE u = th
    BY <2>1, <1>2 DEF FlagOK, Flagging
  <2>2. CASE u # th
    BY <2>2, <1>2 DEF FlagOK
  <2>3. QED BY <2>1, <2>2
<1>3. Kind' = Kind /\ \A u \in Thread : Active(u)' <=> Active(u)
  BY SameKernel
<1>4. QED BY <1>1, <1>2, <1>3 DEF FlagOK

-----------------------------------------------------------------------------
(* The steps of a thread.                                                  *)

\* Kept by the reset of a flag.
LEMMA ClearFlagKeeps ==
  ASSUME IInv, NEW th \in Thread, ClearFlag(th)
  PROVE  IInv'
<1>1. /\ TypeOK /\ Together /\ PlacesOK /\ FlagOK /\ SlotHeld /\ SlotsBelow /\ SharedSlot /\ Room
      /\ SlotsDisjoint
      /\ pc[th] = "active" /\ Go(th, "flag_sync")
      /\ is_block_empty' = [is_block_empty EXCEPT ![th[1]] = FALSE]
      /\ UNCHANGED <<vct_atomic_add, mem_, buffer, pos, kernel, launches>>
  BY DEF IInv, ClearFlag
<1>2. Runs(th) /\ Active(th) /\ th[1] \in Blocks /\ th \in Of(th[1])
  BY <1>1, Threads DEF PlacesOK, Of
<1>3. SamePhase("active", "flag_sync")
  BY <1>1, <1>2 DEF Together, SamePhase, Entering, Flagging, Alone, Leading, Reading, Ending
<1>4. /\ pc' \in [Thread -> Places] /\ pc'[th] = "flag_sync"
      /\ \A u \in Thread : u # th => pc'[u] = pc[u]
      /\ Together' /\ PlacesOK'
  BY <1>1, <1>3, Moving DEF Places
<1>5. TypeOK'
  BY <1>1, <1>4, <1>2 DEF TypeOK, buffer
<1>6. FlagOK'
  <2>1. \A u \in Thread : u[1] = th[1] /\ Runs(u) => pc[u] \in Flagging
    BY <1>1, <1>2 DEF Together, SamePhase, Entering, Flagging, Alone, Leading, Reading, Ending
  <2>2. ASSUME NEW u \in Thread, Kind = "sphere"
        PROVE  /\ u[2] = 0 /\ pc'[u] \in {"init", "init_sync"} => is_block_empty'[u[1]]
               /\ pc'[u] \in Flagging /\ ~is_block_empty'[u[1]] => \E v \in Of(u[1]) : Active(v)
               /\ pc'[u] = "flag_sync" /\ Active(u) => ~is_block_empty'[u[1]]
               /\ pc'[u] \in Leading => \E v \in Of(u[1]) : Active(v)
    <3>1. u[1] \in Blocks
      BY Threads
    <3>2. CASE u[1] = th[1]
      <4>1. is_block_empty'[u[1]] = FALSE
        BY <1>1, <3>1, <3>2 DEF TypeOK
      <4>2. \E v \in Of(u[1]) : Active(v)
        BY <1>2, <3>2
      <4>3. pc'[u] \notin {"init", "init_sync"}
        BY <2>1, <1>4, <1>1, <3>2 DEF Flagging, PlacesOK
      <4>4. QED BY <4>1, <4>2, <4>3
    <3>3. CASE u[1] # th[1]
      <4>1. is_block_empty'[u[1]] = is_block_empty[u[1]] /\ pc'[u] = pc[u]
        BY <1>1, <3>1, <3>3, <1>4, <1>2 DEF TypeOK
      <4>2. QED BY <4>1, <2>2, <1>1 DEF FlagOK
    <3>4. QED BY <3>2, <3>3
  <2>3. \A u \in Thread : Of(u[1])' = Of(u[1]) /\ Kind' = Kind /\ (Active(u)' <=> Active(u))
    BY <1>1, SameKernel, Threads
  <2>4. \A u \in Thread : Of(u[1]) \subseteq Thread
    BY DEF Of
  <2>5. QED BY <2>2, <2>3, <2>4 DEF FlagOK
<1>7. SlotHeld'
  BY <1>1, <1>4, SameKernel DEF SlotHeld, Entering, Flagging
<1>8. SlotsBelow' /\ SlotsDisjoint'
  BY <1>1, SameKernel DEF SlotsBelow, SlotBelow, SlotsDisjoint
<1>9. SharedSlot'
  BY <1>1, <1>4, SameKernel DEF SharedSlot, Shares, Reading
<1>10. Room'
  BY <1>1, <1>2, <1>4, MovingRoom DEF buffer
<1>11. QED BY <1>4, <1>5, <1>6, <1>7, <1>8, <1>9, <1>10 DEF IInv

\* Kept by the store of the key.
LEMMA StoreKeeps ==
  ASSUME IInv, NEW th \in Thread, Store(th)
  PROVE  IInv'
<1> DEFINE to == IF kernel.grid.kind = "element" THEN "write" ELSE "share"
<1>1. /\ TypeOK /\ Together /\ PlacesOK /\ FlagOK /\ SlotHeld /\ SlotsBelow /\ SharedSlot /\ Room
      /\ SlotsDisjoint
      /\ pc[th] = "store" /\ Go(th, to)
      /\ vct_add_index' = [vct_add_index EXCEPT ![pos[th]] = KeyOf(th)]
      /\ UNCHANGED <<vct_atomic_add, mem_, is_block_empty, vct_add_data, vct_nadd_index, pos,
                     kernel, launches>>
  BY DEF IInv, Store, shared
<1>2. Runs(th) /\ Inserts(th) /\ th[1] \in Blocks
  BY <1>1, Threads DEF PlacesOK
<1>3. SamePhase("store", to)
  BY <1>1, <1>2 DEF Together, SamePhase, Entering, Flagging, Alone, Leading, Reading, Ending, Kind
<1>4. Kind = "element" => Writes(th)
  BY <1>1, <1>2, Inserting DEF TypeOK, Writes
<1>5. /\ pc' \in [Thread -> Places] /\ pc'[th] = to
      /\ \A u \in Thread : u # th => pc'[u] = pc[u]
      /\ Together' /\ PlacesOK'
  <2>1. to \in {"write", "share"} /\ (to = "write" => Writes(th)) /\ to \in Places
    BY <1>4 DEF Kind, Places
  <2>2. QED BY <1>1, <1>2, <1>3, <2>1, Moving
<1>6. TypeOK'
  <2>1. KeyOf(th) \in Int
    <3>1. th[1] \in Nat /\ Chunk(th) \in Nat /\ NThread \in Nat
      BY <1>1, Threads, Leaders, InsertKernelAssumption DEF TypeOK, Tids
    <3>2. QED BY <3>1 DEF KeyOf
  <2>2. vct_add_index' \in [Slots -> Int]
    BY <1>1, <2>1 DEF TypeOK
  <2>3. QED BY <1>1, <1>5, <2>2 DEF TypeOK
<1>7. FlagOK'
  BY <1>1, <1>5, MovingFlag DEF Flagging, Leading
<1>8. SlotHeld'
  BY <1>1, <1>5, SameKernel DEF SlotHeld, Entering, Flagging
<1>9. SlotsBelow' /\ SlotsDisjoint'
  BY <1>1, SameKernel DEF SlotsBelow, SlotBelow, SlotsDisjoint
<1>10. SharedSlot'
  BY <1>1, <1>5, SameKernel DEF SharedSlot, Shares, Reading, Kind
<1>11. Room'
  BY <1>1, <1>2, <1>5, MovingRoom
<1>12. QED BY <1>5, <1>6, <1>7, <1>8, <1>9, <1>10, <1>11 DEF IInv

\* Kept by the store of a slot in shared memory.
LEMMA ShareKeeps ==
  ASSUME IInv, NEW th \in Thread, Share(th)
  PROVE  IInv'
<1>1. /\ TypeOK /\ Together /\ PlacesOK /\ FlagOK /\ SlotHeld /\ SlotsBelow /\ SharedSlot /\ Room
      /\ SlotsDisjoint
      /\ pc[th] = "share" /\ Go(th, "mem_sync")
      /\ mem_' = [mem_ EXCEPT ![th[1]][Chunk(th)] = pos[th]]
      /\ UNCHANGED <<vct_atomic_add, is_block_empty, vct_add_index, vct_add_data, vct_nadd_index,
                     pos, kernel, launches>>
  BY DEF IInv, Share, buffer
<1>2. Runs(th) /\ Inserts(th) /\ th[1] \in Blocks /\ Chunk(th) \in Tids /\ pos[th] # NoSlot
  BY <1>1, Threads, Leaders DEF PlacesOK, TypeOK, SlotHeld
<1>3. SamePhase("share", "mem_sync") /\ Kind # "element"
  BY <1>1, <1>2 DEF Together, SamePhase, Entering, Flagging, Alone, Leading, Reading, Ending
<1>4. /\ pc' \in [Thread -> Places] /\ pc'[th] = "mem_sync"
      /\ \A u \in Thread : u # th => pc'[u] = pc[u]
      /\ Together' /\ PlacesOK'
  BY <1>1, <1>2, <1>3, Moving DEF Places
<1>5. /\ mem_' \in [Blocks -> [Tids -> Slots \cup {NoSlot}]]
      /\ mem_'[th[1]][Chunk(th)] = pos[th]
      /\ \A b \in Blocks, c \in Tids : b # th[1] \/ c # Chunk(th) => mem_'[b][c] = mem_[b][c]
  <2>1. mem_ \in [Blocks -> [Tids -> Slots \cup {NoSlot}]] /\ pos[th] \in Slots \cup {NoSlot}
    BY <1>1 DEF TypeOK
  <2>2. QED BY <1>1, <1>2, <2>1
<1>6. TypeOK'
  BY <1>1, <1>4, <1>5 DEF TypeOK
<1>7. FlagOK'
  BY <1>1, <1>4, MovingFlag DEF Flagging, Leading
<1>8. SlotHeld'
  BY <1>1, <1>4, SameKernel DEF SlotHeld, Entering, Flagging
<1>9. SlotsBelow' /\ SlotsDisjoint'
  BY <1>1, SameKernel DEF SlotsBelow, SlotBelow, SlotsDisjoint
<1>10. SharedSlot'
  <2>1. ASSUME NEW u \in Thread, Shares(u)'
        PROVE  pos[u] # NoSlot /\ mem_'[u[1]][Chunk(u)] = pos[u]
    <3>1. CASE u = th
      BY <3>1, <1>2, <1>5
    <3>2. CASE u # th
      <4>1. Shares(u) /\ Inserts(u)
        BY <3>2, <2>1, <1>1, <1>4, SameKernel DEF Shares
      <4>2. u[1] \in Blocks /\ Chunk(u) \in Tids /\ Leads(u) /\ Leads(th)
        BY <4>1, <1>1, <1>2, <1>3, Threads, Leaders, Inserting DEF TypeOK
      <4>3. u[1] # th[1] \/ Chunk(u) # Chunk(th)
        BY <4>2, <3>2, <1>1, Leaders DEF TypeOK
      <4>4. QED BY <4>1, <4>2, <4>3, <1>1, <1>5 DEF SharedSlot
    <3>3. QED BY <3>1, <3>2
  <2>2. ASSUME NEW u \in Thread, pc'[u] = "write"
        PROVE  pos[u] = mem_'[u[1]][Chunk(u)]
    <3>1. pc[u] = "write" /\ Runs(u)
      BY <2>2, <1>1, <1>4 DEF PlacesOK
    <3>2. u[1] # th[1]
      BY <3>1, <1>1, <1>2, <1>3
        DEF Together, SamePhase, Entering, Flagging, Alone, Leading, Reading, Ending
    <3>3. u[1] \in Blocks /\ Chunk(u) \in Tids
      BY <1>1, Threads, Leaders DEF TypeOK
    <3>4. QED BY <3>1, <3>2, <3>3, <1>1, <1>3, <1>5 DEF SharedSlot
  <2>3. \A u \in Thread : Chunk(u)' = Chunk(u)
    BY <1>1, SameKernel
  <2>4. QED BY <2>1, <2>2, <2>3, <1>1 DEF SharedSlot
<1>11. Room'
  BY <1>1, <1>2, <1>4, MovingRoom
<1>12. QED BY <1>4, <1>6, <1>7, <1>8, <1>9, <1>10, <1>11 DEF IInv

\* Kept by the read of the slot shared.
LEMMA LoadKeeps ==
  ASSUME IInv, NEW th \in Thread, Load(th)
  PROVE  IInv'
<1> DEFINE to == IF Writes(th) THEN "write" ELSE "end_sync"
<1>1. /\ TypeOK /\ Together /\ PlacesOK /\ FlagOK /\ SlotHeld /\ SlotsBelow /\ SharedSlot /\ Room
      /\ SlotsDisjoint
      /\ pc[th] = "load" /\ Go(th, to)
      /\ pos' = [pos EXCEPT ![th] = mem_[th[1]][Chunk(th)]]
      /\ UNCHANGED <<vct_atomic_add, mem_, is_block_empty, vct_add_index, vct_add_data,
                     vct_nadd_index, kernel, launches>>
  BY DEF IInv, Load, shared, buffer
<1>2. Runs(th) /\ th[1] \in Blocks /\ Chunk(th) \in Tids
  BY <1>1, Threads, Leaders DEF PlacesOK, TypeOK
<1>3. SamePhase("load", to) /\ Kind # "element"
  BY <1>1, <1>2 DEF Together, SamePhase, Entering, Flagging, Alone, Leading, Reading, Ending
<1>4. /\ pc' \in [Thread -> Places] /\ pc'[th] = to
      /\ \A u \in Thread : u # th => pc'[u] = pc[u]
      /\ Together' /\ PlacesOK'
  <2>1. to \in {"write", "end_sync"} /\ (to = "write" => Writes(th)) /\ to \in Places
    BY DEF Places
  <2>2. QED BY <1>1, <1>2, <1>3, <2>1, Moving
<1>5. /\ pos' \in [Thread -> Slots \cup {NoSlot}]
      /\ pos'[th] = mem_[th[1]][Chunk(th)]
      /\ \A u \in Thread : u # th => pos'[u] = pos[u]
  BY <1>1, <1>2 DEF TypeOK
<1>6. \A u \in Thread : Inserts(u) => pos'[u] = pos[u]
  <2>1. Inserts(th) => pos'[th] = pos[th]
    BY <1>1, <1>3, <1>5 DEF SharedSlot, Shares, Reading
  <2>2. QED BY <2>1, <1>5
<1>7. TypeOK'
  BY <1>1, <1>4, <1>5 DEF TypeOK
<1>8. FlagOK'
  BY <1>1, <1>4, MovingFlag DEF Flagging, Leading
<1>9. SlotHeld'
  BY <1>1, <1>3, <1>4, <1>5, SameKernel DEF SlotHeld, Entering, Flagging
<1>10. SlotsBelow' /\ SlotsDisjoint'
  BY <1>1, <1>6, SameKernel DEF SlotsBelow, SlotBelow, SlotsDisjoint
<1>11. SharedSlot'
  BY <1>1, <1>4, <1>5, <1>6, SameKernel DEF SharedSlot, Shares, Reading
<1>12. Room'
  BY <1>1, <1>2, <1>4, <1>6, MovingRoom
<1>13. QED BY <1>4, <1>7, <1>8, <1>9, <1>10, <1>11, <1>12 DEF IInv

\* Kept by the write of the element.
LEMMA WriteKeeps ==
  ASSUME IInv, NEW th \in Thread, Write(th)
  PROVE  IInv'
<1>1. /\ TypeOK /\ Together /\ PlacesOK /\ FlagOK /\ SlotHeld /\ SlotsBelow /\ SharedSlot /\ Room
      /\ SlotsDisjoint
      /\ pc[th] = "write" /\ Go(th, "end_sync")
      /\ vct_add_data' = [vct_add_data EXCEPT ![pos[th]][Offset(th)] = launches]
      /\ UNCHANGED <<vct_atomic_add, mem_, is_block_empty, vct_add_index,
                     vct_nadd_index, pos, kernel, launches>>
  BY DEF IInv, Write, shared
<1>2. Runs(th)
  BY <1>1 DEF PlacesOK
<1>3. SamePhase("write", "end_sync")
  BY <1>1, <1>2 DEF Together, SamePhase, Entering, Flagging, Alone, Leading, Reading, Ending
<1>4. /\ pc' \in [Thread -> Places] /\ pc'[th] = "end_sync"
      /\ \A u \in Thread : u # th => pc'[u] = pc[u]
      /\ Together' /\ PlacesOK'
  BY <1>1, <1>2, <1>3, Moving DEF Places
<1>5. TypeOK'
  <2>1. vct_add_data \in [Slots -> [Tids -> 0 .. MaxLaunch]] /\ launches \in 0 .. MaxLaunch
    BY <1>1 DEF TypeOK
  <2>2. vct_add_data' \in [Slots -> [Tids -> 0 .. MaxLaunch]]
    BY <1>1, <2>1
  <2>3. QED BY <1>1, <1>4, <2>2 DEF TypeOK
<1>6. FlagOK'
  BY <1>1, <1>4, MovingFlag DEF Flagging, Leading
<1>7. SlotHeld'
  BY <1>1, <1>4, SameKernel DEF SlotHeld, Entering, Flagging
<1>8. SlotsBelow' /\ SlotsDisjoint'
  BY <1>1, SameKernel DEF SlotsBelow, SlotBelow, SlotsDisjoint
<1>9. SharedSlot'
  BY <1>1, <1>4, SameKernel DEF SharedSlot, Shares, Reading
<1>10. Room'
  BY <1>1, <1>2, <1>4, MovingRoom
<1>11. QED BY <1>4, <1>5, <1>6, <1>7, <1>8, <1>9, <1>10 DEF IInv

\* Kept by the store of the counter.
LEMMA FlushKeeps ==
  ASSUME IInv, NEW th \in Thread, Flush(th)
  PROVE  IInv'
<1>1. /\ TypeOK /\ Together /\ PlacesOK /\ FlagOK /\ SlotHeld /\ SlotsBelow /\ SharedSlot /\ Room
      /\ SlotsDisjoint
      /\ pc[th] = "flush" /\ Go(th, "done")
      /\ vct_nadd_index' = [vct_nadd_index EXCEPT ![th[1]] = vct_atomic_add[th[1]]]
      /\ UNCHANGED <<vct_atomic_add, mem_, is_block_empty, vct_add_index, vct_add_data, pos,
                     kernel, launches>>
  BY DEF IInv, Flush, shared
<1>2. Runs(th) /\ th[1] \in Blocks
  BY <1>1, Threads DEF PlacesOK
<1>3. SamePhase("flush", "done")
  BY DEF SamePhase, Ending
<1>4. /\ pc' \in [Thread -> Places] /\ pc'[th] = "done"
      /\ \A u \in Thread : u # th => pc'[u] = pc[u]
      /\ Together' /\ PlacesOK'
  BY <1>1, <1>2, <1>3, Moving DEF Places
<1>5. TypeOK'
  <2>1. vct_nadd_index' \in [Blocks -> 0 .. NSlot]
    BY <1>1, <1>2 DEF TypeOK
  <2>2. QED BY <1>1, <1>4, <2>1 DEF TypeOK
<1>6. FlagOK'
  BY <1>1, <1>4, MovingFlag DEF Flagging, Leading
<1>7. SlotHeld'
  BY <1>1, <1>4, SameKernel DEF SlotHeld, Entering, Flagging
<1>8. SlotsBelow' /\ SlotsDisjoint'
  BY <1>1, SameKernel DEF SlotsBelow, SlotBelow, SlotsDisjoint
<1>9. SharedSlot'
  BY <1>1, <1>4, SameKernel DEF SharedSlot, Shares, Reading
<1>10. Room'
  <2>1. \A u \in Of(th[1]) : u \in Thread /\ pc[u] \in Ending /\ pc'[u] \in Ending
    <3>1. \A u \in Of(th[1]) : u \in Thread /\ SamePhase(pc[u], pc[th])
      BY <1>1, <1>2 DEF Together, Of
    <3>2. \A u \in Of(th[1]) : pc[u] \in Ending
      BY <3>1, <1>1 DEF SamePhase, Entering, Flagging, Alone, Leading, Reading, Ending
    <3>3. QED BY <3>1, <3>2, <1>4 DEF Ending
  <2>2. ASSUME NEW b \in Blocks
        PROVE  /\ Unset(b)' => FirstSlot(b)' + Cardinality(Waiting(b)') <= NSlot
               /\ Counting(b)' => vct_atomic_add'[b] + Cardinality(Waiting(b)') <= NSlot
    <3>1. Of(b)' = Of(b) /\ Of(b) \subseteq Thread
      BY <1>1, SameKernel DEF Of
    <3>2. CASE b = th[1]
      BY <2>1, <3>1, <3>2 DEF Unset, Counting, Ending
    <3>3. CASE b # th[1]
      <4>1. th \notin Of(b)
        BY <3>3 DEF Of
      <4>2. Waiting(b)' = Waiting(b)
        BY <1>1, SameKernel DEF Waiting
      <4>3. (Unset(b)' <=> Unset(b)) /\ (Counting(b)' <=> Counting(b))
        BY <1>4, <3>1, <4>1 DEF Unset, Counting
      <4>4. FirstSlot(b)' = FirstSlot(b)
        BY <1>1, <1>2, <3>3 DEF FirstSlot, TypeOK
      <4>5. QED BY <4>2, <4>3, <4>4, <1>1 DEF Room
    <3>4. QED BY <3>2, <3>3
  <2>3. QED BY <2>2 DEF Room
<1>11. QED BY <1>4, <1>5, <1>6, <1>7, <1>8, <1>9, <1>10 DEF IInv

\* Kept by the flag of a sphere.
LEMMA SetFlagKeeps ==
  ASSUME IInv, NEW th \in Thread, SetFlag(th)
  PROVE  IInv'
<1>1. /\ TypeOK /\ Together /\ PlacesOK /\ FlagOK /\ SlotHeld /\ SlotsBelow /\ SharedSlot /\ Room
      /\ SlotsDisjoint
      /\ pc[th] = "flag" /\ Go(th, "init")
      /\ is_block_empty' = [is_block_empty EXCEPT ![th[1]] = TRUE]
      /\ UNCHANGED <<vct_atomic_add, mem_, vct_add_index, vct_add_data, vct_nadd_index, pos,
                     kernel, launches>>
  BY DEF IInv, SetFlag, buffer
<1>2. Runs(th) /\ th[1] \in Blocks /\ th[2] = 0 /\ th \in Of(th[1])
  BY <1>1, Threads DEF PlacesOK, Of
<1>3. SamePhase("flag", "init")
  BY DEF SamePhase, Entering
<1>4. /\ pc' \in [Thread -> Places] /\ pc'[th] = "init"
      /\ \A u \in Thread : u # th => pc'[u] = pc[u]
      /\ Together' /\ PlacesOK'
  BY <1>1, <1>2, <1>3, Moving DEF Places
<1>5. TypeOK'
  BY <1>1, <1>4, <1>2 DEF TypeOK
<1>6. FlagOK'
  <2>1. \A u \in Thread : u[1] = th[1] /\ Runs(u) => pc'[u] \in Entering
    <3>1. \A u \in Thread : u[1] = th[1] /\ Runs(u) => SamePhase(pc[u], pc[th])
      BY <1>1, <1>2 DEF Together
    <3>2. QED BY <3>1, <1>1, <1>4
      DEF SamePhase, Entering, Flagging, Alone, Leading, Reading, Ending
  <2>2. ASSUME NEW u \in Thread, Kind = "sphere"
        PROVE  /\ u[2] = 0 /\ pc'[u] \in {"init", "init_sync"} => is_block_empty'[u[1]]
               /\ pc'[u] \in Flagging /\ ~is_block_empty'[u[1]] => \E v \in Of(u[1]) : Active(v)
               /\ pc'[u] = "flag_sync" /\ Active(u) => ~is_block_empty'[u[1]]
               /\ pc'[u] \in Leading => \E v \in Of(u[1]) : Active(v)
    <3>1. u[1] \in Blocks
      BY Threads
    <3>2. CASE u[1] = th[1]
      <4>1. is_block_empty'[u[1]] = TRUE
        BY <1>1, <3>1, <3>2 DEF TypeOK
      <4>2. pc'[u] \notin Flagging \cup Leading
        BY <2>1, <1>4, <1>1, <3>2
          DEF PlacesOK, Entering, Flagging, Leading
      <4>3. QED BY <4>1, <4>2 DEF Flagging
    <3>3. CASE u[1] # th[1]
      <4>1. is_block_empty'[u[1]] = is_block_empty[u[1]] /\ pc'[u] = pc[u]
        BY <1>1, <3>1, <3>3, <1>4, <1>2 DEF TypeOK
      <4>2. QED BY <4>1, <2>2, <1>1 DEF FlagOK
    <3>4. QED BY <3>2, <3>3
  <2>3. \A u \in Thread : Of(u[1])' = Of(u[1]) /\ Kind' = Kind /\ (Active(u)' <=> Active(u))
    BY <1>1, SameKernel, Threads
  <2>4. \A u \in Thread : Of(u[1]) \subseteq Thread
    BY DEF Of
  <2>5. QED BY <2>2, <2>3, <2>4 DEF FlagOK
<1>7. SlotHeld'
  BY <1>1, <1>4, SameKernel DEF SlotHeld, Entering, Flagging
<1>8. SlotsBelow' /\ SlotsDisjoint'
  BY <1>1, SameKernel DEF SlotsBelow, SlotBelow, SlotsDisjoint
<1>9. SharedSlot'
  BY <1>1, <1>4, SameKernel DEF SharedSlot, Shares, Reading
<1>10. Room'
  <2>1. ASSUME NEW b \in Blocks
        PROVE  /\ Waiting(b)' = Waiting(b)
               /\ Unset(b)' <=> Unset(b)
               /\ Counting(b)' <=> Counting(b)
               /\ FirstSlot(b)' = FirstSlot(b)
    <3>1. Of(b)' = Of(b) /\ Of(b) \subseteq Thread
      BY <1>1, SameKernel DEF Of
    <3>2. Waiting(b)' = Waiting(b)
      BY <1>1, SameKernel DEF Waiting
    <3>3. Unset(b)' <=> Unset(b)
      BY <1>1, <1>4, <3>1 DEF Unset
    <3>4. Counting(b)' <=> Counting(b)
      BY <1>1, <1>4, <3>1, <3>3 DEF Counting, Ending
    <3>5. QED BY <1>1, <3>2, <3>3, <3>4 DEF FirstSlot
  <2>2. QED BY <2>1, <1>1 DEF Room
<1>11. QED BY <1>4, <1>5, <1>6, <1>7, <1>8, <1>9, <1>10 DEF IInv

\* Kept by the first thread that sets the counter.
LEMMA ResetKeeps ==
  ASSUME IInv, NEW th \in Thread, Reset(th)
  PROVE  IInv'
<1>1. /\ TypeOK /\ Together /\ PlacesOK /\ FlagOK /\ SlotHeld /\ SlotsBelow /\ SharedSlot /\ Room
      /\ SlotsDisjoint
      /\ pc[th] = "init" /\ Go(th, "init_sync")
      /\ vct_atomic_add' = [vct_atomic_add EXCEPT ![th[1]] = FirstSlot(th[1])]
      /\ UNCHANGED <<mem_, is_block_empty, vct_add_index, vct_add_data, vct_nadd_index, pos,
                     kernel, launches>>
  BY DEF IInv, Reset, buffer
<1>2. Runs(th) /\ th[1] \in Blocks /\ th[2] = 0 /\ th \in Of(th[1])
  BY <1>1, Threads DEF PlacesOK, Of
<1>3. SamePhase("init", "init_sync")
  BY DEF SamePhase, Entering
<1>4. /\ pc' \in [Thread -> Places] /\ pc'[th] = "init_sync"
      /\ \A u \in Thread : u # th => pc'[u] = pc[u]
      /\ Together' /\ PlacesOK'
  BY <1>1, <1>2, <1>3, Moving DEF Places
<1>5. /\ FirstSlot(th[1]) \in 0 .. NSlot
      /\ FirstSlot(th[1]) + Cardinality(Waiting(th[1])) <= NSlot
  <2>1. Unset(th[1])
    BY <1>1, <1>2 DEF Unset
  <2>2. FirstSlot(th[1]) + Cardinality(Waiting(th[1])) <= NSlot
    BY <2>1, <1>1, <1>2 DEF Room
  <2>3. FirstSlot(th[1]) \in 0 .. NSlot
    BY <1>1, <1>2, InsertKernelAssumption DEF FirstSlot, TypeOK
  <2>4. QED BY <2>2, <2>3
<1>6. /\ vct_atomic_add' \in [Blocks -> 0 .. NSlot]
      /\ vct_atomic_add'[th[1]] = FirstSlot(th[1])
      /\ \A b \in Blocks : b # th[1] => vct_atomic_add'[b] = vct_atomic_add[b]
  BY <1>1, <1>2, <1>5 DEF TypeOK
<1>7. TypeOK'
  BY <1>1, <1>4, <1>6 DEF TypeOK
<1>8. FlagOK'
  BY <1>1, <1>4, MovingFlag DEF Flagging, Leading
<1>9. SlotHeld'
  BY <1>1, <1>4, SameKernel DEF SlotHeld, Entering, Flagging
<1>10. SlotsDisjoint'
  BY <1>1, SameKernel DEF SlotsDisjoint
<1>11. SlotsBelow'
  <2>1. ASSUME NEW u \in Thread, Inserts(u), pos[u] # NoSlot
        PROVE  SlotBelow(u[1], pos[u])'
    <3>1. Runs(u) /\ u[1] \in Blocks
      BY <2>1, <1>1, Inserting, Threads DEF TypeOK
    <3>2. u[1] # th[1]
      <4>1. u[1] = th[1] => SamePhase(pc[u], pc[th])
        BY <1>1, <1>2, <3>1 DEF Together
      <4>2. u[1] = th[1] => pc[u] \in Entering
        BY <4>1, <1>1 DEF SamePhase, Entering, Flagging, Alone, Leading, Reading, Ending
      <4>3. QED BY <4>2, <2>1, <1>1 DEF SlotHeld
    <3>3. SlotBelow(u[1], pos[u])
      BY <2>1, <1>1 DEF SlotsBelow
    <3>4. QED BY <3>1, <3>2, <3>3, <1>1, <1>6 DEF SlotBelow
  <2>2. QED BY <2>1, <1>1, SameKernel DEF SlotsBelow, SlotBelow
<1>12. SharedSlot'
  BY <1>1, <1>4, SameKernel DEF SharedSlot, Shares, Reading
<1>13. Room'
  <2>1. ASSUME NEW b \in Blocks
        PROVE  /\ Unset(b)' => FirstSlot(b)' + Cardinality(Waiting(b)') <= NSlot
               /\ Counting(b)' => vct_atomic_add'[b] + Cardinality(Waiting(b)') <= NSlot
    <3>1. Of(b)' = Of(b) /\ Of(b) \subseteq Thread
      BY <1>1, SameKernel DEF Of
    <3>2. Waiting(b)' = Waiting(b) /\ FirstSlot(b)' = FirstSlot(b)
      BY <1>1, SameKernel DEF Waiting, FirstSlot
    <3>3. CASE b = th[1]
      <4>1. ~Unset(b)'
        <5>1. ASSUME NEW u \in Of(b)
              PROVE  pc'[u] \notin {"flag", "init"}
          <6>1. u \in Thread /\ u[1] = th[1]
            BY <3>3 DEF Of
          <6>2. CASE u = th
            BY <6>2, <1>4
          <6>3. CASE u # th
            <7>1. u[2] # 0
              BY <6>1, <6>3, <1>2, Threads
            <7>2. QED BY <7>1, <6>1, <6>3, <1>1, <1>4 DEF PlacesOK
          <6>4. QED BY <6>2, <6>3
        <5>2. QED BY <5>1, <3>1 DEF Unset
      <4>2. QED BY <4>1, <3>2, <3>3, <1>5, <1>6
    <3>4. CASE b # th[1]
      <4>1. th \notin Of(b)
        BY <3>4 DEF Of
      <4>2. (Unset(b)' <=> Unset(b)) /\ (Counting(b)' <=> Counting(b))
        BY <1>4, <3>1, <4>1 DEF Unset, Counting
      <4>3. QED BY <4>2, <3>2, <3>4, <1>1, <1>6 DEF Room
    <3>5. QED BY <3>3, <3>4
  <2>2. QED BY <2>1 DEF Room
<1>14. QED BY <1>4, <1>7, <1>8, <1>9, <1>10, <1>11, <1>12, <1>13 DEF IInv

\* The slot of an insertion is free, and of the pool of its block.
LEMMA TakeKeeps ==
  ASSUME IInv, NEW th \in Thread, Take(th)
  PROVE  IInv'
<1> DEFINE b == th[1]
           s == (b * NSlot) + vct_atomic_add[b]
<1>1. /\ TypeOK /\ Together /\ PlacesOK /\ FlagOK /\ SlotHeld /\ SlotsBelow /\ SharedSlot /\ Room
      /\ SlotsDisjoint
      /\ pc[th] = "take" /\ Go(th, "store")
      /\ pos' = [pos EXCEPT ![th] = s]
      /\ vct_atomic_add' = [vct_atomic_add EXCEPT ![b] = @ + 1]
      /\ UNCHANGED <<mem_, is_block_empty, vct_add_index, vct_add_data, vct_nadd_index,
                     kernel, launches>>
  BY DEF IInv, Take, buffer
<1>2. Runs(th) /\ Inserts(th) /\ b \in Blocks /\ b \in Nat /\ th \in Of(b) /\ pos[th] = NoSlot
  BY <1>1, Threads DEF PlacesOK, Of, SlotHeld
<1>3. SamePhase("take", "store")
  BY <1>1, <1>2 DEF Together, SamePhase, Entering, Flagging, Alone, Leading, Reading, Ending
<1>4. /\ pc' \in [Thread -> Places] /\ pc'[th] = "store"
      /\ \A u \in Thread : u # th => pc'[u] = pc[u]
      /\ Together' /\ PlacesOK'
  BY <1>1, <1>2, <1>3, Moving DEF Places
<1>5. Cardinality(Waiting(b)) \in Nat /\ Cardinality(Waiting(b)) > 0
  <2>1. th \in Waiting(b)
    BY <1>2 DEF Waiting
  <2>2. IsFiniteSet(Waiting(b)) /\ Cardinality(Waiting(b)) \in Nat
    BY <1>2, WaitingFinite
  <2>3. Cardinality(Waiting(b)) # 0
    BY <2>1, <2>2, FS_EmptySet
  <2>4. QED BY <2>2, <2>3
<1>6. ~Unset(b) /\ Counting(b)
  <2>1. \A u \in Of(b) : SamePhase(pc[u], pc[th])
    BY <1>1, <1>2 DEF Together, Of
  <2>2. \A u \in Of(b) : pc[u] \notin {"flag", "init"}
    BY <2>1, <1>1 DEF SamePhase, Entering, Flagging, Alone, Leading, Reading, Ending
  <2>3. QED BY <2>2, <1>1, <1>2 DEF Unset, Counting, Ending
<1>7. /\ vct_atomic_add[b] + Cardinality(Waiting(b)) <= NSlot
      /\ vct_atomic_add[b] \in 0 .. NSlot - 1
  <2>1. vct_atomic_add[b] + Cardinality(Waiting(b)) <= NSlot
    BY <1>1, <1>2, <1>6 DEF Room
  <2>2. vct_atomic_add[b] \in 0 .. NSlot /\ NSlot \in Nat
    BY <1>1, <1>2, InsertKernelAssumption DEF TypeOK
  <2>3. QED BY <2>1, <2>2, <1>5
<1>8. s \in Slots /\ s \in Int /\ s # NoSlot
  <2>1. NBlock \in Nat \ {0} /\ NSlot \in Nat
    BY InsertKernelAssumption
  <2>2. s \in 0 .. (NBlock * NSlot) - 1
    BY <1>2, <1>7, <2>1, PoolInBuffer DEF Blocks
  <2>3. NBlock * NSlot \in Nat
    BY <2>1
  <2>4. s \in Int /\ s >= 0
    BY <2>2, <2>3
  <2>5. QED BY <2>2, <2>4 DEF Slots, NoSlot
<1> HIDE DEF s
<1>9. /\ pos' \in [Thread -> Slots \cup {NoSlot}]
      /\ pos'[th] = s
      /\ \A u \in Thread : u # th => pos'[u] = pos[u]
  BY <1>1, <1>8 DEF TypeOK
<1>10. /\ vct_atomic_add' \in [Blocks -> 0 .. NSlot]
       /\ vct_atomic_add'[b] = vct_atomic_add[b] + 1
       /\ \A c \in Blocks : c # b => vct_atomic_add'[c] = vct_atomic_add[c]
  <2>1. vct_atomic_add \in [Blocks -> 0 .. NSlot] /\ vct_atomic_add[b] + 1 \in 0 .. NSlot
    BY <1>1, <1>7, InsertKernelAssumption DEF TypeOK
  <2>2. QED BY <1>1, <1>2, <2>1
<1>11. TypeOK'
  BY <1>1, <1>4, <1>9, <1>10 DEF TypeOK
<1>12. FlagOK'
  BY <1>1, <1>4, MovingFlag DEF Flagging, Leading
<1>13. SlotHeld'
  BY <1>1, <1>4, <1>8, <1>9, SameKernel DEF SlotHeld, Entering, Flagging
<1>14. s < (b * NSlot) + NSlot /\ b * NSlot <= s
  BY <1>2, <1>7, InsertKernelAssumption DEF s
<1>15. ASSUME NEW u \in Thread, Inserts(u), pos[u] # NoSlot
       PROVE  /\ u[1] * NSlot <= pos[u] /\ pos[u] < (u[1] * NSlot) + vct_atomic_add'[u[1]]
              /\ pos[u] # s
  <2>1. u[1] \in Blocks /\ u[1] \in Nat /\ NSlot \in Nat
    BY Threads, InsertKernelAssumption
  <2>2. u[1] * NSlot <= pos[u] /\ pos[u] < (u[1] * NSlot) + vct_atomic_add[u[1]]
    BY <1>1, <1>15 DEF SlotsBelow, SlotBelow
  <2>3. vct_atomic_add[u[1]] \in 0 .. NSlot /\ vct_atomic_add'[u[1]] \in 0 .. NSlot
    BY <2>1, <1>1, <1>10 DEF TypeOK
  <2>4. vct_atomic_add[u[1]] <= vct_atomic_add'[u[1]]
    BY <2>1, <2>3, <1>10
  <2>5. pos[u] \in Int
    <3>1. NBlock * NSlot \in Nat
      BY InsertKernelAssumption
    <3>2. pos[u] \in Slots
      BY <1>1, <1>15 DEF TypeOK
    <3>3. QED BY <3>1, <3>2 DEF Slots
  <2>6. u[1] * NSlot \in Nat
    BY <2>1
  <2>7. pos[u] # s
    <3>1. CASE u[1] = b
      BY <3>1, <2>1, <2>2, <2>3, <2>5, <2>6 DEF s
    <3>2. CASE u[1] # b
      <4>1. ~(u[1] * NSlot <= s /\ s < (u[1] * NSlot) + NSlot)
        BY <3>2, <2>1, <1>2, <1>8, <1>14, PoolsApart
      <4>2. QED BY <4>1, <2>1, <2>2, <2>3, <2>5, <2>6
    <3>3. QED BY <3>1, <3>2
  <2>8. QED BY <2>2, <2>3, <2>4, <2>5, <2>6, <2>7
<1>16. SlotsBelow'
  <2>1. ASSUME NEW u \in Thread, Inserts(u), pos'[u] # NoSlot
        PROVE  u[1] * NSlot <= pos'[u] /\ pos'[u] < (u[1] * NSlot) + vct_atomic_add'[u[1]]
    <3>1. CASE u = th
      <4>1. s < (b * NSlot) + (vct_atomic_add[b] + 1)
        BY <1>2, <1>7, InsertKernelAssumption DEF s
      <4>2. QED BY <3>1, <4>1, <1>9, <1>10, <1>14
    <3>2. CASE u # th
      BY <3>2, <2>1, <1>9, <1>15
    <3>3. QED BY <3>1, <3>2
  <2>2. QED BY <2>1, <1>1, SameKernel DEF SlotsBelow, SlotBelow
<1>17. SlotsDisjoint'
  <2>1. ASSUME NEW u \in Thread, NEW v \in Thread, Inserts(u), Inserts(v),
               pos'[u] # NoSlot, pos'[v] # NoSlot, u # v
        PROVE  pos'[u] # pos'[v]
    <3>1. CASE u = th
      BY <3>1, <2>1, <1>9, <1>15
    <3>2. CASE v = th
      BY <3>2, <2>1, <1>9, <1>15
    <3>3. CASE u # th /\ v # th
      BY <3>3, <2>1, <1>1, <1>9 DEF SlotsDisjoint
    <3>4. QED BY <3>1, <3>2, <3>3
  <2>2. QED BY <2>1, <1>1, SameKernel DEF SlotsDisjoint
<1>18. SharedSlot'
  BY <1>1, <1>4, <1>9, SameKernel DEF SharedSlot, Shares, Reading
<1>19. Room'
  <2>1. ASSUME NEW c \in Blocks
        PROVE  /\ Unset(c)' => FirstSlot(c)' + Cardinality(Waiting(c)') <= NSlot
               /\ Counting(c)' => vct_atomic_add'[c] + Cardinality(Waiting(c)') <= NSlot
    <3>1. Of(c)' = Of(c) /\ Of(c) \subseteq Thread
      BY <1>1, SameKernel DEF Of
    <3>2. (Unset(c)' <=> Unset(c)) /\ (Counting(c)' <=> Counting(c)) /\ FirstSlot(c)' = FirstSlot(c)
      <4>1. Unset(c)' <=> Unset(c)
        BY <1>1, <1>4, <3>1 DEF Unset
      <4>2. Counting(c)' <=> Counting(c)
        BY <1>1, <1>4, <3>1, <4>1 DEF Counting, Ending
      <4>3. QED BY <4>1, <4>2, <1>1 DEF FirstSlot
    <3>3. CASE c = b
      <4>1. Waiting(c)' = Waiting(c) \ {th}
        BY <3>3, <1>1, <1>2, <1>8, <1>9, SameKernel DEF Waiting
      <4>2. th \in Waiting(c)
        BY <3>3, <1>2 DEF Waiting
      <4>3. Cardinality(Waiting(c) \ {th}) = Cardinality(Waiting(c)) - 1
        BY <4>2, WaitingFinite, FS_RemoveElement
      <4>4. ~Unset(c)'
        BY <3>2, <3>3, <1>6
      <4>5. QED BY <4>1, <4>3, <4>4, <3>3, <1>5, <1>7, <1>10
    <3>4. CASE c # b
      <4>1. Waiting(c)' = Waiting(c)
        BY <3>4, <1>1, <1>9, SameKernel DEF Waiting
      <4>2. QED BY <4>1, <3>2, <3>4, <1>1, <1>10 DEF Room
    <3>5. QED BY <3>3, <3>4
  <2>2. QED BY <2>1 DEF Room
<1>20. QED BY <1>4, <1>11, <1>12, <1>13, <1>16, <1>17, <1>18, <1>19 DEF IInv

-----------------------------------------------------------------------------
(* The barriers.                                                           *)

\* What a barrier of the threads of b keeps, wherever they go on.
LEMMA Syncing ==
  ASSUME TypeOK, Together, PlacesOK, SlotsBelow, SlotsDisjoint, Room,
         UNCHANGED <<shared, buffer, pos, kernel, launches>>,
         NEW b \in Blocks,
         pc' \in [Thread -> Places],
         \A u \in Thread : u \notin Of(b) => pc'[u] = pc[u],
         \A u \in Of(b) : pc[u] \notin {"flag", "init", "outside", "flush", "done"},
         \A u, v \in Of(b) : SamePhase(pc'[u], pc'[v]),
         \A u \in Of(b) : /\ pc'[u] \notin {"outside", "flag", "init", "store", "share", "write"}
                          /\ pc'[u] = "active" => Active(u)
                          /\ pc'[u] = "take" => Inserts(u)
  PROVE  TypeOK' /\ Together' /\ PlacesOK' /\ SlotsBelow' /\ SlotsDisjoint' /\ Room'
<1>1. TypeOK'
  BY DEF TypeOK, shared, buffer
<1>2. \A u \in Thread : Runs(u) /\ u[1] = b <=> u \in Of(b)
  BY DEF Of
<1>3. Together'
  <2>1. ASSUME NEW u \in Thread, NEW v \in Thread, Runs(u), Runs(v), u[1] = v[1]
        PROVE  SamePhase(pc'[u], pc'[v])
    <3>1. CASE u[1] = b
      BY <3>1, <2>1, <1>2
    <3>2. CASE u[1] # b
      <4>1. pc'[u] = pc[u] /\ pc'[v] = pc[v]
        BY <3>2, <2>1, <1>2
      <4>2. QED BY <4>1, <2>1 DEF Together
    <3>3. QED BY <3>1, <3>2
  <2>2. \A u \in Thread : Runs(u)' <=> Runs(u)
    BY SameKernel
  <2>3. QED BY <2>1, <2>2 DEF Together, SamePhase, Kind
<1>4. PlacesOK'
  <2>1. ASSUME NEW u \in Thread
        PROVE  /\ ~Runs(u)' => pc'[u] = "outside"
               /\ pc'[u] \in {"flag", "init"} => u[2] = 0
               /\ pc'[u] = "flag" => Kind' = "sphere"
               /\ pc'[u] = "active" => Active(u)'
               /\ pc'[u] \in {"take", "store", "share"} => Inserts(u)'
               /\ pc'[u] = "write" => Writes(u)'
    <3>1. CASE u \in Of(b)
      BY <3>1, <1>2, SameKernel
    <3>2. CASE u \notin Of(b)
      BY <3>2, SameKernel DEF PlacesOK
    <3>3. QED BY <3>1, <3>2
  <2>2. QED BY <2>1 DEF PlacesOK
<1>5. SlotsBelow' /\ SlotsDisjoint'
  BY SameKernel DEF SlotsBelow, SlotBelow, SlotsDisjoint, shared
<1>6. Room'
  <2>1. ASSUME NEW c \in Blocks
        PROVE  /\ Waiting(c)' = Waiting(c)
               /\ Unset(c)' => Unset(c)
               /\ Unset(c) => Unset(c)'
               /\ Counting(c)' => Counting(c)
               /\ FirstSlot(c)' = FirstSlot(c)
    <3>1. Of(c)' = Of(c) /\ Of(c) \subseteq Thread
      BY SameKernel DEF Of
    <3>2. Waiting(c)' = Waiting(c)
      BY SameKernel DEF Waiting
    <3>3. FirstSlot(c)' = FirstSlot(c)
      BY DEF FirstSlot, shared, buffer
    <3>4. CASE c = b
      BY <3>1, <3>2, <3>3, <3>4 DEF Unset, Counting, Ending
    <3>5. CASE c # b
      <4>1. \A u \in Of(c) : pc'[u] = pc[u]
        BY <3>5 DEF Of
      <4>2. QED BY <4>1, <3>1, <3>2, <3>3 DEF Unset, Counting
    <3>6. QED BY <3>4, <3>5
  <2>2. QED BY <2>1 DEF Room, shared
<1>7. QED BY <1>1, <1>3, <1>4, <1>5, <1>6

\* The first thread of a block runs if any does.
LEMMA FirstThread ==
  ASSUME NEW g \in Grid, NEW u \in ThreadsOf(g)
  PROVE  <<u[1], 0>> \in ThreadsOf(g)
<1>1. g.threads \in 1 .. NThread /\ NThread \in Nat
  BY InsertKernelAssumption DEF Grid
<1>2. u \in Thread /\ u[1] < g.blocks
  BY DEF ThreadsOf
<1>3. <<u[1], 0>> \in Thread
  BY <1>1, <1>2 DEF Thread, Tids
<1>4. QED BY <1>1, <1>2, <1>3 DEF ThreadsOf

\* Kept by the barrier behind init.
LEMMA SyncInitKeeps ==
  ASSUME IInv, NEW b \in Blocks, SyncInit(b)
  PROVE  IInv'
<1>1. /\ TypeOK /\ Together /\ PlacesOK /\ FlagOK /\ SlotHeld /\ SlotsBelow /\ SharedSlot /\ Room
      /\ SlotsDisjoint
      /\ Of(b) # {} /\ Of(b) \subseteq Thread
      /\ \A u \in Of(b) : pc[u] = "init_sync"
      /\ pc' = [u \in Thread |-> IF u \in Of(b) THEN AfterInit(u) ELSE pc[u]]
      /\ UNCHANGED <<shared, buffer, pos, kernel, launches>>
  BY DEF IInv, SyncInit, Barrier, Of
<1>2. \A u \in Of(b) : u \in Thread /\ Runs(u) /\ u[1] = b
  BY DEF Of
<1>3. ASSUME NEW u \in Of(b)
      PROVE  /\ Kind = "sphere" => AfterInit(u) \in Flagging /\ (Active(u) <=> AfterInit(u) = "active")
             /\ Kind = "blocked" => AfterInit(u) \in {"take", "mem_sync"} /\ (Leads(u) <=> AfterInit(u) = "take")
             /\ Kind = "element" => AfterInit(u) \in {"take", "end_sync"} /\ (Active(u) <=> AfterInit(u) = "take")
             /\ Kind \in {"element", "blocked", "sphere"}
             /\ AfterInit(u) \in Places
             /\ AfterInit(u) = "take" => Inserts(u)
  <2>1. Kind \in {"element", "blocked", "sphere"}
    BY <1>1, <1>2, Inserting DEF TypeOK
  <2>2. CASE Kind = "sphere"
    BY <2>2 DEF AfterInit, Flagging, Places, Kind
  <2>3. CASE Kind = "blocked"
    <3>1. AfterInit(u) = LeadOrRead(u)
      BY <2>3 DEF AfterInit, Kind
    <3>2. QED BY <2>3, <3>1, <1>1, <1>2, Inserting DEF LeadOrRead, Places, TypeOK
  <2>4. CASE Kind = "element"
    <3>1. AfterInit(u) = IF Active(u) THEN "take" ELSE "end_sync"
      BY <2>4 DEF AfterInit, Kind
    <3>2. QED BY <2>4, <3>1, <1>1, <1>2, Inserting DEF Places, TypeOK
  <2>5. QED BY <2>1, <2>2, <2>3, <2>4
<1>4. /\ pc' \in [Thread -> Places]
      /\ \A u \in Of(b) : pc'[u] = AfterInit(u)
      /\ \A u \in Thread : u \notin Of(b) => pc'[u] = pc[u]
  BY <1>1, <1>3 DEF TypeOK
<1>5. \A u, v \in Of(b) : SamePhase(pc'[u], pc'[v])
  BY <1>3, <1>4 DEF SamePhase, Flagging, Alone, Leading
<1>6. TypeOK' /\ Together' /\ PlacesOK' /\ SlotsBelow' /\ SlotsDisjoint' /\ Room'
  <2>1. \A u \in Of(b) : /\ pc'[u] \notin {"outside", "flag", "init", "store", "share", "write"}
                         /\ pc'[u] = "active" => Active(u)
                         /\ pc'[u] = "take" => Inserts(u)
    BY <1>3, <1>4 DEF Flagging
  <2>2. QED BY <2>1, <1>1, <1>4, <1>5, Syncing
<1>7. FlagOK'
  <2>1. ASSUME Kind = "sphere"
        PROVE  is_block_empty[b]
    <3>1. PICK v \in Of(b) : TRUE
      BY <1>1
    <3>2. <<b, 0>> \in Of(b)
      <4>1. kernel.grid \in Grid /\ v \in ThreadsOf(kernel.grid) /\ v[1] = b
        BY <3>1, <1>1, <1>2 DEF TypeOK, Runs
      <4>2. <<b, 0>> \in ThreadsOf(kernel.grid)
        BY <4>1, FirstThread
      <4>3. QED BY <4>2 DEF Of, Runs, ThreadsOf
    <3>3. QED BY <3>2, <2>1, <1>1 DEF FlagOK
  <2>2. ASSUME NEW u \in Thread, Kind = "sphere"
        PROVE  /\ u[2] = 0 /\ pc'[u] \in {"init", "init_sync"} => is_block_empty[u[1]]
               /\ pc'[u] \in Flagging /\ ~is_block_empty[u[1]] => \E v \in Of(u[1]) : Active(v)
               /\ pc'[u] = "flag_sync" /\ Active(u) => ~is_block_empty[u[1]]
               /\ pc'[u] \in Leading => \E v \in Of(u[1]) : Active(v)
    <3>1. CASE u \in Of(b)
      <4>1. is_block_empty[u[1]] /\ pc'[u] \in Flagging /\ (Active(u) <=> pc'[u] = "active")
        BY <3>1, <2>1, <2>2, <1>2, <1>3, <1>4
      <4>2. QED BY <4>1 DEF Flagging, Leading
    <3>2. CASE u \notin Of(b)
      BY <3>2, <2>2, <1>1, <1>4 DEF FlagOK
    <3>3. QED BY <3>1, <3>2
  <2>3. \A u \in Thread : Of(u[1])' = Of(u[1]) /\ Kind' = Kind /\ (Active(u)' <=> Active(u))
                            /\ Of(u[1]) \subseteq Thread
    BY <1>1, SameKernel, Threads DEF Of
  <2>4. QED BY <2>2, <2>3, <1>1 DEF FlagOK, shared
<1>8. SlotHeld'
  <2>1. ASSUME NEW u \in Thread
        PROVE  /\ pc'[u] \in Entering \cup Flagging \cup {"take"} => pos[u] = NoSlot
               /\ pc'[u] \in {"store", "share"} => pos[u] # NoSlot
               /\ pc'[u] = "write" /\ Kind = "element" => pos[u] # NoSlot
    <3>1. CASE u \in Of(b)
      <4>1. pos[u] = NoSlot
        BY <3>1, <1>1 DEF SlotHeld, Entering
      <4>2. pc'[u] \notin {"store", "share", "write"}
        BY <3>1, <1>3, <1>4 DEF Flagging
      <4>3. QED BY <4>1, <4>2
    <3>2. CASE u \notin Of(b)
      BY <3>2, <1>1, <1>4 DEF SlotHeld
    <3>3. QED BY <3>1, <3>2
  <2>2. QED BY <2>1, <1>1, SameKernel DEF SlotHeld, Entering, Flagging
<1>9. SharedSlot'
  <2>1. ASSUME NEW u \in Thread
        PROVE  /\ Kind # "element" /\ Inserts(u) /\ pc'[u] \in Reading \cup {"mem_sync"} =>
                    pos[u] # NoSlot /\ mem_[u[1]][Chunk(u)] = pos[u]
               /\ Kind # "element" /\ pc'[u] = "write" => pos[u] = mem_[u[1]][Chunk(u)]
    <3>1. CASE u \in Of(b)
      <4>1. Kind # "element" /\ pc'[u] \in Reading \cup {"mem_sync"} =>
              Kind = "blocked" /\ ~Leads(u) /\ pc'[u] # "write"
        BY <3>1, <1>3, <1>4 DEF Flagging, Reading
      <4>2. Kind = "blocked" /\ ~Leads(u) => ~Inserts(u)
        BY <3>1, <1>1, Inserting DEF TypeOK
      <4>3. QED BY <4>1, <4>2 DEF Reading
    <3>2. CASE u \notin Of(b)
      BY <3>2, <1>1, <1>4 DEF SharedSlot, Shares
    <3>3. QED BY <3>1, <3>2
  <2>2. QED BY <2>1, <1>1, SameKernel DEF SharedSlot, Shares, shared
<1>10. QED BY <1>6, <1>7, <1>8, <1>9 DEF IInv

\* Kept by the barrier behind the flag of a sphere.
LEMMA SyncFlagKeeps ==
  ASSUME IInv, NEW b \in Blocks, SyncFlag(b)
  PROVE  IInv'
<1>1. /\ TypeOK /\ Together /\ PlacesOK /\ FlagOK /\ SlotHeld /\ SlotsBelow /\ SharedSlot /\ Room
      /\ SlotsDisjoint
      /\ Of(b) # {} /\ Of(b) \subseteq Thread
      /\ \A u \in Of(b) : pc[u] = "flag_sync"
      /\ pc' = [u \in Thread |-> IF u \in Of(b) THEN Branch(u) ELSE pc[u]]
      /\ UNCHANGED <<shared, buffer, pos, kernel, launches>>
  BY DEF IInv, SyncFlag, Barrier, Of
<1>2. \A u \in Of(b) : u \in Thread /\ Runs(u) /\ u[1] = b
  BY DEF Of
<1>3. Kind = "sphere"
  BY <1>1, <1>2 DEF Together, SamePhase, Entering, Flagging, Alone, Leading, Reading, Ending
<1>4. /\ is_block_empty[b] => \A u \in Of(b) : ~Active(u)
      /\ ~is_block_empty[b] => \E u \in Of(b) : Active(u)
  BY <1>1, <1>2, <1>3 DEF FlagOK, Flagging
<1>5. ASSUME NEW u \in Of(b)
      PROVE  /\ is_block_empty[b] => Branch(u) = "end_sync" /\ ~Inserts(u)
             /\ ~is_block_empty[b] => /\ Branch(u) \in {"take", "mem_sync"}
                                      /\ Branch(u) = "take" <=> Inserts(u)
             /\ Branch(u) \in Places
  <2>1. Inserts(u) <=> Leads(u) /\ \E v \in Of(b) : Active(v)
    BY <1>1, <1>2, <1>3, Inserting DEF TypeOK
  <2>2. CASE is_block_empty[b]
    BY <2>1, <2>2, <1>2, <1>4 DEF Branch, Places
  <2>3. CASE ~is_block_empty[b]
    BY <2>1, <2>3, <1>2, <1>4 DEF Branch, LeadOrRead, Places
  <2>4. QED BY <2>2, <2>3
<1>6. /\ pc' \in [Thread -> Places]
      /\ \A u \in Of(b) : pc'[u] = Branch(u)
      /\ \A u \in Thread : u \notin Of(b) => pc'[u] = pc[u]
  BY <1>1, <1>5 DEF TypeOK
<1>7. TypeOK' /\ Together' /\ PlacesOK' /\ SlotsBelow' /\ SlotsDisjoint' /\ Room'
  <2>1. \A u, v \in Of(b) : SamePhase(pc'[u], pc'[v])
    BY <1>3, <1>5, <1>6 DEF SamePhase, Leading, Reading
  <2>2. \A u \in Of(b) : /\ pc'[u] \notin {"outside", "flag", "init", "store", "share", "write"}
                         /\ pc'[u] = "active" => Active(u)
                         /\ pc'[u] = "take" => Inserts(u)
    BY <1>5, <1>6
  <2>3. QED BY <2>1, <2>2, <1>1, <1>6, Syncing
<1>8. FlagOK'
  <2>1. ASSUME NEW u \in Thread
        PROVE  /\ u[2] = 0 /\ pc'[u] \in {"init", "init_sync"} => is_block_empty[u[1]]
               /\ pc'[u] \in Flagging /\ ~is_block_empty[u[1]] => \E v \in Of(u[1]) : Active(v)
               /\ pc'[u] = "flag_sync" /\ Active(u) => ~is_block_empty[u[1]]
               /\ pc'[u] \in Leading => \E v \in Of(u[1]) : Active(v)
    <3>1. CASE u \in Of(b)
      <4>1. u[1] = b /\ pc'[u] \notin {"init", "init_sync"} \cup Flagging
        BY <3>1, <1>2, <1>5, <1>6 DEF Flagging
      <4>2. pc'[u] \in Leading => ~is_block_empty[b]
        BY <3>1, <1>5, <1>6 DEF Leading
      <4>3. QED BY <4>1, <4>2, <1>4 DEF Flagging
    <3>2. CASE u \notin Of(b)
      BY <3>2, <1>1, <1>3, <1>6 DEF FlagOK
    <3>3. QED BY <3>1, <3>2
  <2>2. \A u \in Thread : Of(u[1])' = Of(u[1]) /\ Kind' = Kind /\ (Active(u)' <=> Active(u))
                            /\ Of(u[1]) \subseteq Thread
    BY <1>1, SameKernel, Threads DEF Of
  <2>3. QED BY <2>1, <2>2, <1>1 DEF FlagOK, shared
<1>9. SlotHeld'
  <2>1. ASSUME NEW u \in Thread
        PROVE  /\ pc'[u] \in Entering \cup Flagging \cup {"take"} => pos[u] = NoSlot
               /\ pc'[u] \in {"store", "share"} => pos[u] # NoSlot
               /\ pc'[u] = "write" /\ Kind = "element" => pos[u] # NoSlot
    <3>1. CASE u \in Of(b)
      <4>1. pos[u] = NoSlot
        BY <3>1, <1>1 DEF SlotHeld, Flagging
      <4>2. pc'[u] \notin {"store", "share", "write"}
        BY <3>1, <1>5, <1>6
      <4>3. QED BY <4>1, <4>2
    <3>2. CASE u \notin Of(b)
      BY <3>2, <1>1, <1>6 DEF SlotHeld
    <3>3. QED BY <3>1, <3>2
  <2>2. QED BY <2>1, <1>1, SameKernel DEF SlotHeld, Entering, Flagging
<1>10. SharedSlot'
  <2>1. ASSUME NEW u \in Thread
        PROVE  /\ Kind # "element" /\ Inserts(u) /\ pc'[u] \in Reading \cup {"mem_sync"} =>
                    pos[u] # NoSlot /\ mem_[u[1]][Chunk(u)] = pos[u]
               /\ Kind # "element" /\ pc'[u] = "write" => pos[u] = mem_[u[1]][Chunk(u)]
    <3>1. CASE u \in Of(b)
      BY <3>1, <1>5, <1>6 DEF Reading
    <3>2. CASE u \notin Of(b)
      BY <3>2, <1>1, <1>6 DEF SharedSlot, Shares
    <3>3. QED BY <3>1, <3>2
  <2>2. QED BY <2>1, <1>1, SameKernel DEF SharedSlot, Shares, shared
<1>11. QED BY <1>7, <1>8, <1>9, <1>10 DEF IInv

\* The two barriers behind which nothing depends on the thread's own state.
LEMMA SyncingOn ==
  ASSUME IInv, UNCHANGED <<shared, buffer, pos, kernel, launches>>,
         NEW b \in Blocks,
         pc' \in [Thread -> Places],
         \A u \in Thread : u \notin Of(b) => pc'[u] = pc[u],
         \A u \in Of(b) : \/ pc[u] = "mem_sync" /\ pc'[u] = "load"
                          \/ pc[u] = "end_sync" /\ pc'[u] \in {"flush", "done"},
         \A u, v \in Of(b) : pc[u] = pc[v]
  PROVE  IInv'
<1>1. /\ TypeOK /\ Together /\ PlacesOK /\ FlagOK /\ SlotHeld /\ SlotsBelow /\ SharedSlot /\ Room
      /\ SlotsDisjoint
  BY DEF IInv
<1>2. \A u \in Of(b) : u \in Thread /\ Runs(u) /\ u[1] = b
  BY DEF Of
<1>3. \A u \in Of(b) : pc[u] = "mem_sync" => Kind # "element"
  BY <1>1, <1>2 DEF Together, SamePhase, Entering, Flagging, Alone, Leading, Reading, Ending
<1>4. TypeOK' /\ Together' /\ PlacesOK' /\ SlotsBelow' /\ SlotsDisjoint' /\ Room'
  <2>1. \A u, v \in Of(b) : SamePhase(pc'[u], pc'[v])
    BY <1>3 DEF SamePhase, Reading, Ending
  <2>2. \A u \in Of(b) : pc[u] \notin {"flag", "init", "outside", "flush", "done"}
    OBVIOUS
  <2>3. \A u \in Of(b) : /\ pc'[u] \notin {"outside", "flag", "init", "store", "share", "write"}
                         /\ pc'[u] = "active" => Active(u)
                         /\ pc'[u] = "take" => Inserts(u)
    OBVIOUS
  <2>4. QED BY <2>1, <2>2, <2>3, <1>1, Syncing
<1>5. FlagOK'
  <2>1. ASSUME NEW u \in Thread, Kind = "sphere"
        PROVE  /\ u[2] = 0 /\ pc'[u] \in {"init", "init_sync"} => is_block_empty[u[1]]
               /\ pc'[u] \in Flagging /\ ~is_block_empty[u[1]] => \E v \in Of(u[1]) : Active(v)
               /\ pc'[u] = "flag_sync" /\ Active(u) => ~is_block_empty[u[1]]
               /\ pc'[u] \in Leading => \E v \in Of(u[1]) : Active(v)
    <3>1. CASE u \in Of(b)
      BY <3>1 DEF Flagging, Leading
    <3>2. CASE u \notin Of(b)
      BY <3>2, <2>1, <1>1 DEF FlagOK
    <3>3. QED BY <3>1, <3>2
  <2>2. \A u \in Thread : Of(u[1])' = Of(u[1]) /\ Kind' = Kind /\ (Active(u)' <=> Active(u))
                            /\ Of(u[1]) \subseteq Thread
    BY SameKernel, Threads DEF Of
  <2>3. QED BY <2>1, <2>2 DEF FlagOK, shared
<1>6. SlotHeld'
  <2>1. ASSUME NEW u \in Thread
        PROVE  /\ pc'[u] \in Entering \cup Flagging \cup {"take"} => pos[u] = NoSlot
               /\ pc'[u] \in {"store", "share"} => pos[u] # NoSlot
               /\ pc'[u] = "write" /\ Kind = "element" => pos[u] # NoSlot
    <3>1. CASE u \in Of(b)
      BY <3>1 DEF Entering, Flagging
    <3>2. CASE u \notin Of(b)
      BY <3>2, <1>1 DEF SlotHeld
    <3>3. QED BY <3>1, <3>2
  <2>2. QED BY <2>1, SameKernel DEF SlotHeld, Entering, Flagging
<1>7. SharedSlot'
  <2>1. ASSUME NEW u \in Thread
        PROVE  /\ Kind # "element" /\ Inserts(u) /\ pc'[u] \in Reading \cup {"mem_sync"} =>
                    pos[u] # NoSlot /\ mem_[u[1]][Chunk(u)] = pos[u]
               /\ Kind # "element" /\ pc'[u] = "write" => pos[u] = mem_[u[1]][Chunk(u)]
    <3>1. CASE u \in Of(b)
      BY <3>1, <1>1 DEF SharedSlot, Shares, Reading
    <3>2. CASE u \notin Of(b)
      BY <3>2, <1>1 DEF SharedSlot, Shares
    <3>3. QED BY <3>1, <3>2
  <2>2. QED BY <2>1, SameKernel DEF SharedSlot, Shares, shared
<1>8. QED BY <1>4, <1>5, <1>6, <1>7 DEF IInv

\* Kept by the barrier behind shared memory and by the last one.
LEMMA SyncMemEndKeeps ==
  ASSUME IInv, NEW b \in Blocks, SyncMem(b) \/ SyncEnd(b)
  PROVE  IInv'
<1>1. pc \in [Thread -> Places] /\ Of(b) \subseteq Thread
  BY DEF IInv, TypeOK, Of
<1>2. CASE SyncMem(b)
  <2>1. /\ \A u \in Of(b) : pc[u] = "mem_sync"
        /\ pc' = [u \in Thread |-> IF u \in Of(b) THEN "load" ELSE pc[u]]
        /\ UNCHANGED <<shared, buffer, pos, kernel, launches>>
    BY <1>2 DEF SyncMem, Barrier
  <2>2. /\ pc' \in [Thread -> Places]
        /\ \A u \in Thread : u \notin Of(b) => pc'[u] = pc[u]
        /\ \A u \in Of(b) : pc'[u] = "load"
    BY <2>1, <1>1 DEF Places
  <2>3. QED BY <2>1, <2>2, SyncingOn
<1>3. CASE SyncEnd(b)
  <2>1. /\ \A u \in Of(b) : pc[u] = "end_sync"
        /\ pc' = [u \in Thread |-> IF u \in Of(b) THEN IF u[2] = 0 THEN "flush" ELSE "done"
                                                  ELSE pc[u]]
        /\ UNCHANGED <<shared, buffer, pos, kernel, launches>>
    BY <1>3 DEF SyncEnd, Barrier
  <2>2. /\ pc' \in [Thread -> Places]
        /\ \A u \in Thread : u \notin Of(b) => pc'[u] = pc[u]
        /\ \A u \in Of(b) : pc'[u] \in {"flush", "done"}
    BY <2>1, <1>1 DEF Places
  <2>3. QED BY <2>1, <2>2, SyncingOn
<1>4. QED BY <1>2, <1>3

-----------------------------------------------------------------------------
(* The host: the initial state, a launch, a new insert buffer.             *)

\* The grids of every launch are grids.
LEMMA GridsAreGrids ==
  /\ Grids[1] \subseteq Grid
  /\ \A k \in 0 .. MaxLaunch : k < MaxLaunch => Grids[k + 1] \subseteq Grid
  /\ MaxLaunch \in Nat
<1>1. Grids \in Seq(SUBSET Grid) /\ Grids # <<>>
  BY InsertKernelAssumption
<1>2. Len(Grids) \in Nat /\ Len(Grids) > 0 /\ \A k \in 1 .. Len(Grids) : Grids[k] \in SUBSET Grid
  BY <1>1
<1>3. QED BY <1>2 DEF MaxLaunch

\* No kernel runs at first.
LEMMA InitIInv == Init => IInv
<1> SUFFICES ASSUME Init PROVE IInv
  OBVIOUS
<1>1. pc = [th \in Thread |-> "outside"] /\ pos = [th \in Thread |-> NoSlot]
  BY DEF Init
<1>2. TypeOK
  <2>1. kernel \in [grid : Grid, active : SUBSET Thread, inc : BOOLEAN]
    <3>1. (CHOOSE g \in Grids[1] : TRUE) \in Grid
      BY InsertKernelAssumption, GridsAreGrids
    <3>2. QED BY <3>1 DEF Init
  <2>2. NSlot \in Nat /\ MaxLaunch \in Nat
    BY InsertKernelAssumption, GridsAreGrids
  <2>3. QED BY <2>1, <2>2 DEF Init, TypeOK, Places, Nobody, NoKey
<1>3. Together /\ PlacesOK
  BY <1>1 DEF Together, SamePhase, Ending, PlacesOK
<1>4. FlagOK /\ SlotHeld
  BY <1>1 DEF FlagOK, SlotHeld, Entering, Flagging, Leading
<1>5. SlotsBelow /\ SlotsDisjoint
  BY <1>1 DEF SlotsBelow, SlotsDisjoint
<1>6. SharedSlot
  BY <1>1 DEF SharedSlot, Shares, Reading
<1>7. Room
  BY <1>1 DEF Room, Unset, Counting, Ending, Of
<1>8. QED BY <1>2, <1>3, <1>4, <1>5, <1>6, <1>7 DEF IInv

\* Kept by a new insert buffer.
LEMMA SetGPUInsertBufferKeeps ==
  ASSUME IInv, SetGPUInsertBuffer
  PROVE  IInv'
<1>1. /\ TypeOK /\ SlotsBelow /\ SlotsDisjoint
      /\ vct_nadd_index' = [b \in Blocks |-> 0]
      /\ vct_add_data' = [s \in Slots |-> Nobody]
      /\ pc' = [th \in Thread |-> "outside"]
      /\ UNCHANGED <<shared, vct_add_index, pos, kernel, launches>>
  BY DEF IInv, SetGPUInsertBuffer
<1>2. TypeOK'
  <2>1. NSlot \in Nat /\ MaxLaunch \in Nat
    BY InsertKernelAssumption, GridsAreGrids
  <2>2. QED BY <1>1, <2>1 DEF TypeOK, Places, Nobody, shared
<1>3. Together' /\ PlacesOK'
  BY <1>1 DEF Together, SamePhase, Ending, PlacesOK
<1>4. FlagOK'
  BY <1>1 DEF FlagOK, Flagging, Leading
<1>5. SlotHeld'
  BY <1>1 DEF SlotHeld, Entering, Flagging
<1>6. SlotsBelow' /\ SlotsDisjoint'
  BY <1>1, SameKernel DEF SlotsBelow, SlotBelow, SlotsDisjoint, shared
<1>7. SharedSlot'
  BY <1>1 DEF SharedSlot, Shares, Reading
<1>8. Room'
  BY <1>1 DEF Room, Unset, Counting, Ending, Of
<1>9. QED BY <1>2, <1>3, <1>4, <1>5, <1>6, <1>7, <1>8 DEF IInv

\* Kept by the launch of a kernel.
LEMMA LaunchKeeps ==
  ASSUME IInv, launches < MaxLaunch,
         NEW g \in Grids[launches + 1], NEW active \in SUBSET ThreadsOf(g), NEW inc \in BOOLEAN,
         Launch(g, active, inc)
  PROVE  IInv'
<1>1. /\ TypeOK
      /\ kernel' = [grid |-> g, active |-> active, inc |-> inc]
      /\ \A b \in Blocks :
           vct_nadd_index[b] + Cardinality({th \in Thread : th[1] = b /\ Inserts(th)'}) <= NSlot
      /\ pc' = [th \in Thread |-> Start(g, th)]
      /\ pos' = [th \in Thread |-> NoSlot]
      /\ launches' = launches + 1
      /\ UNCHANGED <<shared, buffer>>
  BY DEF IInv, Launch
<1>2. g \in Grid /\ launches + 1 \in 0 .. MaxLaunch
  BY <1>1, GridsAreGrids DEF TypeOK
<1>3. /\ Kind' = g.kind
      /\ \A th \in Thread : (Runs(th)' <=> th \in ThreadsOf(g))
      /\ \A b \in Blocks : Of(b)' = {th \in Thread : th \in ThreadsOf(g) /\ th[1] = b}
  BY <1>1 DEF Kind, Runs, Of
<1>4. ASSUME NEW th \in Thread
      PROVE  /\ pc'[th] = Start(g, th)
             /\ Start(g, th) \in {"outside", "flag", "init", "init_sync"}
             /\ th \notin ThreadsOf(g) <=> Start(g, th) = "outside"
             /\ Start(g, th) \in {"flag", "init"} <=> th \in ThreadsOf(g) /\ th[2] = 0
             /\ Start(g, th) = "flag" <=> th \in ThreadsOf(g) /\ th[2] = 0 /\ g.kind = "sphere"
  BY <1>1 DEF Start
<1>5. TypeOK'
  <2>1. kernel' \in [grid : Grid, active : SUBSET Thread, inc : BOOLEAN]
    BY <1>1, <1>2 DEF ThreadsOf
  <2>2. pc' \in [Thread -> Places] /\ pos' \in [Thread -> Slots \cup {NoSlot}]
    BY <1>1, <1>4 DEF Places
  <2>3. QED BY <1>1, <1>2, <2>1, <2>2 DEF TypeOK, shared, buffer
<1>6. Together'
  <2>1. \A th \in Thread : Runs(th)' => pc'[th] \in Entering
    BY <1>3, <1>4 DEF Entering
  <2>2. QED BY <2>1 DEF Together, SamePhase
<1>7. PlacesOK'
  BY <1>3, <1>4 DEF PlacesOK
<1>8. FlagOK'
  <2>1. ASSUME NEW th \in Thread, g.kind = "sphere"
        PROVE  /\ ~(th[2] = 0 /\ pc'[th] \in {"init", "init_sync"})
               /\ pc'[th] \notin Flagging \cup Leading
    BY <2>1, <1>4 DEF Flagging, Leading
  <2>2. QED BY <2>1, <1>3 DEF FlagOK, Flagging
<1>9. SlotHeld' /\ SlotsBelow' /\ SlotsDisjoint' /\ SharedSlot'
  <2>1. \A th \in Thread : pc'[th] \notin {"store", "share", "write", "mem_sync"} \cup Reading
    BY <1>4 DEF Reading
  <2>2. \A th \in Thread : pos'[th] = NoSlot
    BY <1>1
  <2>3. QED BY <2>1, <2>2
    DEF SlotHeld, SlotsBelow, SlotsDisjoint, SharedSlot, Shares, Reading
<1>10. Room'
  <2>1. ASSUME NEW b \in Blocks
        PROVE  /\ Unset(b)' => FirstSlot(b)' + Cardinality(Waiting(b)') <= NSlot
               /\ ~Counting(b)'
    <3>1. Waiting(b)' = {th \in Thread : th[1] = b /\ Inserts(th)'}
      BY <1>1 DEF Waiting
    <3>2. Cardinality(Waiting(b)') \in Nat
      <4>1. Waiting(b)' \in SUBSET Thread
        BY <3>1
      <4>2. QED BY <4>1, ThreadFinite, FS_Subset, FS_CardinalityType
    <3>3. FirstSlot(b)' \in {0, vct_nadd_index[b]} /\ vct_nadd_index[b] \in 0 .. NSlot
      BY <1>1 DEF FirstSlot, buffer, TypeOK
    <3>4. vct_nadd_index[b] + Cardinality(Waiting(b)') <= NSlot
      BY <1>1, <3>1
    <3>5. FirstSlot(b)' + Cardinality(Waiting(b)') <= NSlot
      BY <3>2, <3>3, <3>4, InsertKernelAssumption
    <3>6. ~Counting(b)'
      <4>1. ASSUME NEW u \in Of(b)'
            PROVE  Unset(b)'
        <5>1. u \in ThreadsOf(g) /\ u[1] = b
          BY <4>1, <1>3
        <5>2. <<b, 0>> \in ThreadsOf(g)
          BY <5>1, <1>2, FirstThread
        <5>3. <<b, 0>> \in Thread /\ <<b, 0>> \in Of(b)'
          BY <5>2, <1>3 DEF ThreadsOf
        <5>4. pc'[<<b, 0>>] \in {"flag", "init"}
          BY <5>2, <5>3, <1>4
        <5>5. QED BY <5>3, <5>4 DEF Unset
      <4>2. QED BY <4>1 DEF Counting
    <3>7. QED BY <3>5, <3>6
  <2>2. QED BY <2>1 DEF Room
<1>11. QED BY <1>5, <1>6, <1>7, <1>8, <1>9, <1>10 DEF IInv

-----------------------------------------------------------------------------
(* The invariants.                                                         *)

\* Every step of the kernels keeps the inductive invariant.
LEMMA NextKeeps == IInv /\ [Next]_vars => IInv'
<1> SUFFICES ASSUME IInv, [Next]_vars PROVE IInv'
  OBVIOUS
<1>1. CASE SetGPUInsertBuffer
  BY <1>1, SetGPUInsertBufferKeeps
<1>2. CASE launches < MaxLaunch /\ \E g \in Grids[launches + 1] :
             \E active \in SUBSET ThreadsOf(g), inc \in BOOLEAN : Launch(g, active, inc)
  BY <1>2, LaunchKeeps
<1>3. CASE \E th \in Thread : Step(th)
  <2>1. PICK th \in Thread : Step(th)
    BY <1>3
  <2>2. CASE SetFlag(th)
    BY <2>2, SetFlagKeeps
  <2>3. CASE Reset(th)
    BY <2>3, ResetKeeps
  <2>4. CASE ClearFlag(th)
    BY <2>4, ClearFlagKeeps
  <2>5. CASE Take(th)
    BY <2>5, TakeKeeps
  <2>6. CASE Store(th)
    BY <2>6, StoreKeeps
  <2>7. CASE Share(th)
    BY <2>7, ShareKeeps
  <2>8. CASE Load(th)
    BY <2>8, LoadKeeps
  <2>9. CASE Write(th)
    BY <2>9, WriteKeeps
  <2>10. CASE Flush(th)
    BY <2>10, FlushKeeps
  <2>11. QED BY <2>1, <2>2, <2>3, <2>4, <2>5, <2>6, <2>7, <2>8, <2>9, <2>10 DEF Step
<1>4. CASE \E b \in Blocks : Sync(b)
  <2>1. PICK b \in Blocks : Sync(b)
    BY <1>4
  <2>2. CASE SyncInit(b)
    BY <2>2, SyncInitKeeps
  <2>3. CASE SyncFlag(b)
    BY <2>3, SyncFlagKeeps
  <2>4. CASE SyncMem(b) \/ SyncEnd(b)
    BY <2>4, SyncMemEndKeeps
  <2>5. QED BY <2>1, <2>2, <2>3, <2>4 DEF Sync
<1>5. CASE UNCHANGED vars
  <2>1. UNCHANGED <<vct_atomic_add, mem_, is_block_empty, vct_add_index, vct_add_data,
                    vct_nadd_index, pc, pos, kernel, launches>>
    BY <1>5 DEF vars, shared, buffer
  <2>2. TypeOK' /\ Together' /\ PlacesOK'
    BY <2>1, SameKernel DEF IInv, TypeOK, Together, SamePhase, PlacesOK
  <2>3. FlagOK'
    BY <2>1, SameKernel DEF IInv, FlagOK, Of, Runs, Active, Kind
  <2>4. SlotHeld' /\ SlotsBelow' /\ SlotsDisjoint' /\ SharedSlot'
    BY <2>1, SameKernel
      DEF IInv, SlotHeld, SlotsBelow, SlotBelow, SlotsDisjoint, SharedSlot, Shares
  <2>5. Room'
    <3>1. \A b \in Blocks : Waiting(b)' = Waiting(b) /\ Of(b)' = Of(b)
      BY <2>1, SameKernel DEF Waiting
    <3>2. QED BY <2>1, <3>1 DEF IInv, Room, Unset, Counting, FirstSlot
  <2>6. QED BY <2>2, <2>3, <2>4, <2>5 DEF IInv
<1>6. QED BY <1>1, <1>2, <1>3, <1>4, <1>5 DEF Next

\* The invariant holds always.
LEMMA IInvAlways == Spec => []IInv
<1>1. Init => IInv
  BY InitIInv
<1>2. IInv /\ [Next]_vars => IInv'
  BY NextKeeps
<1>3. QED BY <1>1, <1>2, PTL DEF Spec

\* What a thread is about to write goes where its leader's slot is.
LEMMA SameSlotHolds ==
  ASSUME IInv
  PROVE  SameSlot
<1>1. ASSUME NEW th \in Thread, NEW u \in Thread, pc[th] = "write", Runs(u), TakerFor(th, u)
      PROVE  pos[th] = pos[u] /\ pos[th] # NoSlot
  <2>1. Runs(th) /\ Writes(th) /\ kernel.grid \in Grid
    BY <1>1 DEF IInv, PlacesOK, TypeOK
  <2>2. CASE Kind = "element"
    <3>1. u = th
      BY <1>1, <2>2 DEF TakerFor, Kind
    <3>2. QED BY <3>1, <1>1, <2>2 DEF IInv, SlotHeld
  <2>3. CASE Kind # "element"
    <3>1. u[1] = th[1] /\ Leads(u) /\ Chunk(u) = Chunk(th)
      BY <1>1, <2>3 DEF TakerFor, Kind
    <3>2. SamePhase(pc[th], pc[u])
      BY <1>1, <2>1, <3>1 DEF IInv, Together
    <3>3. pc[u] \in Reading
      BY <3>2, <1>1, <2>3
        DEF SamePhase, Entering, Flagging, Alone, Leading, Reading, Ending
    <3>4. Inserts(u)
      <4>1. CASE Kind = "blocked"
        BY <4>1, <1>1, <2>1, <3>1, Inserting
      <4>2. CASE Kind = "sphere"
        <5>1. Active(th) /\ th \in Of(u[1])
          BY <4>2, <2>1, <3>1 DEF Writes, Kind, Of
        <5>2. QED BY <4>2, <5>1, <1>1, <2>1, <3>1, Inserting
      <4>3. QED BY <4>1, <4>2, <2>1, <2>3, Inserting
    <3>5. pos[u] # NoSlot /\ mem_[u[1]][Chunk(u)] = pos[u]
      BY <3>3, <3>4, <2>3 DEF IInv, SharedSlot, Shares
    <3>6. pos[th] = mem_[th[1]][Chunk(th)]
      BY <1>1, <2>3 DEF IInv, SharedSlot
    <3>7. QED BY <3>1, <3>5, <3>6
  <2>4. QED BY <2>2, <2>3
<1>2. QED BY <1>1 DEF SameSlot

\* Every variable keeps its type: no counter passes the size of a pool, and no
\* thread holds a slot outside the insert buffer.
THEOREM TypeCorrect == Spec => []TypeOK
<1>1. IInv => TypeOK
  BY DEF IInv
<1>2. QED BY <1>1, IInvAlways, PTL

\* vector_sparse_gpu_ker::insert: the threads of all blocks, however they
\* interleave, get slots of their own.
THEOREM SlotsAreDisjoint == Spec => []SlotsDisjoint
<1>1. IInv => SlotsDisjoint
  BY DEF IInv
<1>2. QED BY <1>1, IInvAlways, PTL

\* insertBlock: what a thread reads from shared memory is the slot its leader
\* took for this chunk.
THEOREM ChunkSharesSlot == Spec => []SameSlot
<1>1. IInv => SameSlot
  BY SameSlotHolds
<1>2. QED BY <1>1, IInvAlways, PTL

-----------------------------------------------------------------------------
(* The pools: what more is invariant.                                      *)

\* The first thread of a block; whether the block runs or has run since the
\* launch, and whether its counter counts.
Zero(b) == <<b, 0>>
Launched(b) == pc[Zero(b)] # "outside"
Opened(b) == pc[Zero(b)] \notin {"outside", "flag", "init"}

\* What the pool held at the launch is there still, and its number is the first
\* slot the kernel takes.
Held(s) == [slot |-> s, key |-> vct_add_index[s], data |-> vct_add_data[s]]
First(b) == Cardinality(before[b])
BeforeKept ==
  \A b \in Blocks : Launched(b) =>
    /\ First(b) \in 0 .. NSlot
    /\ before[b] = {Held(s) : s \in b * NSlot .. b * NSlot + First(b) - 1}
    /\ ~Opened(b) => FirstSlot(b) = First(b) /\ vct_nadd_index[b] = First(b)

\* The counter counts what was there and every slot taken since.
Inserters(b) == {th \in Thread : th[1] = b /\ Inserts(th)}
CountExact ==
  \A b \in Blocks : Opened(b) =>
    vct_atomic_add[b] + Cardinality(Waiting(b)) = First(b) + Cardinality(Inserters(b))

\* The slots from the first one up to the counter are those taken.
Took(u) == Inserts(u) /\ pos[u] # NoSlot /\ Launched(u[1])
SlotsExact ==
  \A b \in Blocks : Opened(b) =>
    /\ \A u \in Thread : Took(u) /\ u[1] = b => b * NSlot + First(b) <= pos[u]
    /\ \A s \in b * NSlot + First(b) .. b * NSlot + vct_atomic_add[b] - 1 :
         \E u \in Thread : Took(u) /\ u[1] = b /\ pos[u] = s

\* A slot has the key of its insertion once it is stored, and the elements of
\* the threads that have written so far.
KeysWritten ==
  \A u \in Thread : Took(u) /\ pc[u] # "store" => vct_add_index[pos[u]] = KeyOf(u)
Written == {"end_sync", "flush", "done"}
Wrote(th, u, o) == Writes(th) /\ TakerFor(th, u) /\ Offset(th) = o /\ pc[th] \in Written
DataFor(u) == [o \in Tids |-> IF \E th \in Thread : Wrote(th, u, o) THEN launches ELSE 0]
DataWritten ==
  \A u \in Thread : Took(u) => vct_add_data[pos[u]] = DataFor(u)

\* No mask is set in the slots not taken yet.
Top(b) == IF Opened(b) THEN vct_atomic_add[b] ELSE vct_nadd_index[b]
FreeEmpty ==
  \A b \in Blocks : \A s \in b * NSlot + Top(b) .. b * NSlot + NSlot - 1 :
    vct_add_data[s] = Nobody

\* An insertion behind its atomicAdd has its slot; the first thread of a block
\* that has ended has stored the counter, and no other does.
Holding ==
  \A u \in Thread :
    Inserts(u) /\ pc[u] \notin Entering \cup Flagging \cup {"take", "outside"} => pos[u] # NoSlot
Stored ==
  /\ \A b \in Blocks : pc[Zero(b)] = "done" => vct_nadd_index[b] = vct_atomic_add[b]
  /\ \A u \in Thread : pc[u] = "flush" => u[2] = 0

PInv ==
  /\ BeforeKept /\ CountExact /\ SlotsExact /\ KeysWritten /\ DataWritten /\ FreeEmpty
  /\ Holding /\ Stored
-----------------------------------------------------------------------------
(* Threads, slots and chunks.                                              *)

\* The first thread of a block.
LEMMA ZeroOf ==
  ASSUME NEW b \in Blocks
  PROVE  Zero(b) \in Thread /\ Zero(b)[1] = b /\ Zero(b)[2] = 0
BY InsertKernelAssumption DEF Zero, Thread, Tids

\* What is said of the kernel and its grid stays while it runs.
LEMMA SameGrid ==
  ASSUME UNCHANGED kernel
  PROVE  /\ \A th \in Thread : KeyOf(th)' = KeyOf(th) /\ Offset(th)' = Offset(th)
         /\ \A th, u \in Thread : TakerFor(th, u)' <=> TakerFor(th, u)
         /\ \A b \in Blocks : Inserters(b)' = Inserters(b)
<1>1. \A th \in Thread : KeyOf(th)' = KeyOf(th) /\ Offset(th)' = Offset(th)
  BY DEF KeyOf, Offset, Chunk
<1>2. \A th, u \in Thread : TakerFor(th, u)' <=> TakerFor(th, u)
  BY DEF TakerFor, Leads, Chunk
<1>3. \A b \in Blocks : Inserters(b)' = Inserters(b)
  BY SameKernel DEF Inserters
<1>4. QED BY <1>1, <1>2, <1>3

\* The threads of a block that insert can be counted.
LEMMA InsertersFinite ==
  ASSUME NEW b \in Blocks
  PROVE  IsFiniteSet(Inserters(b)) /\ Cardinality(Inserters(b)) \in Nat
<1>1. Inserters(b) \in SUBSET Thread
  BY DEF Inserters
<1>2. QED BY <1>1, ThreadFinite, FS_Subset, FS_CardinalityType

\* The leader of a chunk is not behind its threads.
LEMMA LeaderExists ==
  ASSUME NEW x \in Nat, NEW s \in Nat \ {0}
  PROVE  \E y \in 0 .. x : y % s = 0 /\ y \div s = x \div s
<1> DEFINE q == x \div s
<1>1. q \in Nat
  OBVIOUS
<1>2. q * s <= x
  OBVIOUS
<1> HIDE DEF q
<1>3. (q * s) % s = 0 /\ (q * s) \div s = q
  BY <1>1
<1>4. q * s \in 0 .. x
  BY <1>1, <1>2
<1>5. QED BY <1>3, <1>4 DEF q

\* The thread that took the slot of another is one, and it exists if that one
\* writes.
LEMMA TakerUnique ==
  ASSUME kernel.grid \in Grid, NEW th \in Thread, NEW u \in Thread, NEW v \in Thread,
         TakerFor(th, u), TakerFor(th, v)
  PROVE  u = v
<1>1. CASE kernel.grid.kind = "element"
  BY <1>1 DEF TakerFor
<1>2. CASE kernel.grid.kind # "element"
  <2>1. u[1] = v[1] /\ Leads(u) /\ Leads(v) /\ Chunk(u) = Chunk(v)
    BY <1>2 DEF TakerFor
  <2>2. QED BY <2>1, Leaders
<1>3. QED BY <1>1, <1>2

\* A thread that writes does so for one that took a slot.
LEMMA TakerExists ==
  ASSUME kernel.grid \in Grid, NEW th \in Thread, Writes(th)
  PROVE  \E u \in Thread : TakerFor(th, u) /\ Inserts(u) /\ u[1] = th[1]
<1>1. Runs(th)
  BY DEF Writes
<1>2. CASE Kind = "element"
  <2>1. TakerFor(th, th) /\ Active(th)
    BY <1>2 DEF TakerFor, Writes, Kind
  <2>2. QED BY <2>1, <1>1, <1>2, Inserting
<1>3. CASE Kind # "element"
  <2>1. kernel.grid.stride \in Nat \ {0} /\ th[1] \in Blocks /\ th[2] \in Nat /\ th[2] \in Tids
    BY InsertKernelAssumption, Threads DEF Grid
  <2>2. PICK y \in 0 .. th[2] : /\ y % kernel.grid.stride = 0
                                /\ y \div kernel.grid.stride = th[2] \div kernel.grid.stride
    BY <2>1, LeaderExists
  <2> DEFINE u == <<th[1], y>>
  <2>3. u \in Thread /\ u[1] = th[1] /\ u[2] = y
    <3>1. y \in Tids
      BY <2>1, <2>2, InsertKernelAssumption DEF Tids
    <3>2. QED BY <3>1, <2>1 DEF Thread
  <2>4. Leads(u) /\ Chunk(u) = Chunk(th)
    BY <2>2, <2>3 DEF Leads, Chunk
  <2>5. Runs(u)
    <3>1. th[1] < kernel.grid.blocks /\ th[2] < kernel.grid.threads /\ kernel.grid.threads \in Int
      BY <1>1, InsertKernelAssumption DEF Runs, ThreadsOf, Grid
    <3>2. y < kernel.grid.threads
      BY <3>1, <2>1, <2>2
    <3>3. QED BY <3>1, <3>2, <2>3 DEF Runs, ThreadsOf
  <2>6. TakerFor(th, u)
    BY <2>3, <2>4, <1>3 DEF TakerFor, Kind
  <2>7. Inserts(u)
    <3>1. CASE Kind = "blocked"
      BY <3>1, <2>3, <2>4, <2>5, Inserting
    <3>2. CASE Kind = "sphere"
      <4>1. Active(th) /\ th \in Of(u[1])
        BY <3>2, <1>1, <2>3 DEF Writes, Kind, Of
      <4>2. QED BY <4>1, <3>2, <2>3, <2>4, <2>5, Inserting
    <3>3. QED BY <3>1, <3>2, <1>3, Inserting
  <2>8. QED BY <2>3, <2>6, <2>7
<1>4. QED BY <1>2, <1>3

-----------------------------------------------------------------------------
(* Steps that touch neither a pool nor its counter.                        *)

\* What a thread may do unnoticed.
QuietMove ==
  \A u \in Thread :
    /\ pc'[u] = "outside" <=> pc[u] = "outside"
    /\ pc'[u] = "store" <=> pc[u] = "store"
    /\ Writes(u) => (pc'[u] \in Written <=> pc[u] \in Written)
    /\ u[2] = 0 => (pc'[u] \in {"flag", "init"} <=> pc[u] \in {"flag", "init"})
    /\ u[2] = 0 /\ pc'[u] = "done" => pc[u] = "done"
    /\ pc'[u] = "flush" => u[2] = 0

\* A step that changes neither pools, counters nor slots, and lets its thread
\* go on where no part of the invariant looks, keeps the pools as they are.
LEMMA Quiet ==
  ASSUME PInv, UNCHANGED <<kernel, launches, before, buffer, vct_atomic_add>>,
         \A u \in Thread : Inserts(u) => pos'[u] = pos[u],
         QuietMove,
         Holding'
  PROVE  PInv'
<1>1. \A b \in Blocks : /\ Launched(b)' <=> Launched(b)
                        /\ Opened(b)' <=> Opened(b)
                        /\ pc'[Zero(b)] = "done" => pc[Zero(b)] = "done"
                        /\ Top(b)' = Top(b)
                        /\ First(b)' = First(b)
                        /\ FirstSlot(b)' = FirstSlot(b)
  <2>1. ASSUME NEW b \in Blocks
        PROVE  /\ Launched(b)' <=> Launched(b)
               /\ Opened(b)' <=> Opened(b)
               /\ pc'[Zero(b)] = "done" => pc[Zero(b)] = "done"
    BY ZeroOf DEF Launched, Opened, Zero, QuietMove
  <2>2. QED BY <2>1 DEF Top, First, FirstSlot, buffer
<1>2. \A u \in Thread : /\ Inserts(u)' <=> Inserts(u)
                        /\ Took(u)' <=> Took(u)
                        /\ Took(u) => pos'[u] = pos[u]
  BY <1>1, SameKernel, Threads DEF Took
<1>3. BeforeKept'
  <2>1. \A s : Held(s)' = Held(s)
    BY DEF Held, buffer
  <2>2. QED BY <1>1, <2>1 DEF PInv, BeforeKept, buffer
<1>4. CountExact'
  <2>1. \A b \in Blocks : Waiting(b)' = Waiting(b)
    BY SameKernel DEF Waiting
  <2>2. QED BY <1>1, <2>1, SameGrid DEF PInv, CountExact
<1>5. SlotsExact'
  BY <1>1, <1>2 DEF PInv, SlotsExact
<1>6. KeysWritten'
  BY <1>2, SameGrid DEF PInv, KeysWritten, buffer, QuietMove
<1>7. DataWritten'
  <2>1. ASSUME NEW u \in Thread
        PROVE  DataFor(u)' = DataFor(u)
    <3>1. \A th \in Thread, o \in Tids : Wrote(th, u, o)' <=> Wrote(th, u, o)
      BY SameKernel, SameGrid DEF Wrote, QuietMove
    <3>2. QED BY <3>1 DEF DataFor
  <2>2. QED BY <1>2, <2>1 DEF PInv, DataWritten, buffer
<1>8. FreeEmpty'
  BY <1>1 DEF PInv, FreeEmpty, buffer
<1>9. Stored'
  BY <1>1 DEF PInv, Stored, buffer, QuietMove
<1>10. QED BY <1>3, <1>4, <1>5, <1>6, <1>7, <1>8, <1>9 DEF PInv

\* The pools over the flag of a sphere.
LEMMA SetFlagFills ==
  ASSUME IInv, PInv, NEW th \in Thread, SetFlag(th)
  PROVE  PInv'
<1>1. /\ pc \in [Thread -> Places]
      /\ pc[th] = "flag" /\ Go(th, "init")
      /\ UNCHANGED <<kernel, launches, before, buffer, vct_atomic_add, pos>>
  BY DEF IInv, TypeOK, SetFlag
<1>2. pc'[th] = "init" /\ \A u \in Thread : u # th => pc'[u] = pc[u]
  BY <1>1 DEF Go
<1>3. QuietMove
  BY <1>1, <1>2 DEF Written, QuietMove, PInv, Stored
<1>4. Holding'
  BY <1>1, <1>2, SameKernel DEF PInv, Holding, Entering
<1>5. QED BY <1>1, <1>3, <1>4, Quiet

\* The pools over the reset of a flag.
LEMMA ClearFlagFills ==
  ASSUME IInv, PInv, NEW th \in Thread, ClearFlag(th)
  PROVE  PInv'
<1>1. /\ pc \in [Thread -> Places]
      /\ pc[th] = "active" /\ Go(th, "flag_sync")
      /\ UNCHANGED <<kernel, launches, before, buffer, vct_atomic_add, pos>>
  BY DEF IInv, TypeOK, ClearFlag
<1>2. pc'[th] = "flag_sync" /\ \A u \in Thread : u # th => pc'[u] = pc[u]
  BY <1>1 DEF Go
<1>3. QuietMove
  BY <1>1, <1>2 DEF Written, QuietMove, PInv, Stored
<1>4. Holding'
  BY <1>1, <1>2, SameKernel DEF PInv, Holding, Flagging
<1>5. QED BY <1>1, <1>3, <1>4, Quiet

\* The pools over the store of a slot in shared memory.
LEMMA ShareFills ==
  ASSUME IInv, PInv, NEW th \in Thread, Share(th)
  PROVE  PInv'
<1>1. /\ pc \in [Thread -> Places]
      /\ pc[th] = "share" /\ Go(th, "mem_sync")
      /\ UNCHANGED <<kernel, launches, before, buffer, vct_atomic_add, pos>>
  BY DEF IInv, TypeOK, Share
<1>2. pc'[th] = "mem_sync" /\ \A u \in Thread : u # th => pc'[u] = pc[u]
  BY <1>1 DEF Go
<1>3. QuietMove
  BY <1>1, <1>2 DEF Written, QuietMove, PInv, Stored
<1>4. Holding'
  BY <1>1, <1>2, SameKernel DEF PInv, Holding, Entering, Flagging
<1>5. QED BY <1>1, <1>3, <1>4, Quiet

\* The pools over the read of the slot shared.
LEMMA LoadFills ==
  ASSUME IInv, PInv, NEW th \in Thread, Load(th)
  PROVE  PInv'
<1>1. /\ TypeOK /\ Together /\ PlacesOK /\ SharedSlot
      /\ pc[th] = "load" /\ Go(th, IF Writes(th) THEN "write" ELSE "end_sync")
      /\ pos' = [pos EXCEPT ![th] = mem_[th[1]][Chunk(th)]]
      /\ UNCHANGED <<kernel, launches, before, buffer, vct_atomic_add>>
  BY DEF IInv, Load, shared
<1>2. /\ pc'[th] = IF Writes(th) THEN "write" ELSE "end_sync"
      /\ \A u \in Thread : u # th => pc'[u] = pc[u]
  BY <1>1 DEF Go, TypeOK
<1>3. QuietMove
  BY <1>1, <1>2 DEF Written, QuietMove, PInv, Stored
<1>4. \A u \in Thread : Inserts(u) => pos'[u] = pos[u]
  <2>1. Kind # "element"
    BY <1>1 DEF Together, PlacesOK, SamePhase, Entering, Flagging, Alone, Leading, Reading, Ending
  <2>2. Inserts(th) => pos'[th] = pos[th]
    BY <1>1, <2>1 DEF TypeOK, SharedSlot, Shares, Reading
  <2>3. \A u \in Thread : u # th => pos'[u] = pos[u]
    BY <1>1 DEF TypeOK
  <2>4. QED BY <2>2, <2>3
<1>5. Holding'
  BY <1>1, <1>2, <1>4, SameKernel DEF PInv, Holding, Entering, Flagging
<1>6. QED BY <1>1, <1>3, <1>4, <1>5, Quiet

\* The threads of b go on together, and those whose element is to be written do
\* not go past where they write it.
LEMMA SyncFills ==
  ASSUME IInv, PInv, NEW b \in Blocks, Sync(b)
  PROVE  PInv'
<1>1. /\ TypeOK /\ Together /\ PlacesOK /\ FlagOK /\ pc \in [Thread -> Places]
      /\ Of(b) \subseteq Thread
      /\ \A u \in Of(b) : Runs(u) /\ u[1] = b
  BY DEF IInv, TypeOK, Of
<1>2. \A u \in Thread : Inserts(u) /\ pc[u] \notin Entering \cup Flagging \cup {"take", "outside"} => pos[u] # NoSlot
  BY DEF PInv, Holding
<1>3. CASE SyncInit(b)
  <2>1. /\ \A u \in Of(b) : pc[u] = "init_sync"
        /\ pc' = [u \in Thread |-> IF u \in Of(b) THEN AfterInit(u) ELSE pc[u]]
        /\ UNCHANGED <<kernel, launches, before, buffer, vct_atomic_add, pos>>
    BY <1>3 DEF SyncInit, Barrier, shared
  <2>2. ASSUME NEW u \in Of(b)
        PROVE  /\ AfterInit(u) \notin {"outside", "store", "flag", "init", "flush", "done"}
               /\ Writes(u) => AfterInit(u) \notin Written
               /\ Inserts(u) => AfterInit(u) \in Entering \cup Flagging \cup {"take", "outside"}
    <3>1. u \in Thread /\ kernel.grid \in Grid /\ Kind \in {"element", "blocked", "sphere"}
      BY <1>1, Inserting DEF TypeOK
    <3>2. CASE Kind = "sphere"
      BY <3>2 DEF AfterInit, Flagging, Kind, Written
    <3>3. CASE Kind = "blocked"
      <4>1. AfterInit(u) = LeadOrRead(u)
        BY <3>3 DEF AfterInit, Kind
      <4>2. QED BY <3>1, <3>3, <4>1, Inserting DEF LeadOrRead, Written
    <3>4. CASE Kind = "element"
      <4>1. AfterInit(u) = IF Active(u) THEN "take" ELSE "end_sync"
        BY <3>4 DEF AfterInit, Kind
      <4>2. Writes(u) => Active(u)
        BY <3>4 DEF Writes, Kind
      <4>3. QED BY <3>1, <3>4, <4>1, <4>2, Inserting DEF Written
    <3>5. QED BY <3>1, <3>2, <3>3, <3>4
  <2>3. QuietMove
    BY <2>1, <2>2, <1>1 DEF Written, QuietMove, PInv, Stored
  <2>4. Holding'
    BY <2>1, <2>2, <1>1, <1>2, SameKernel DEF Holding
  <2>5. QED BY <2>1, <2>3, <2>4, Quiet
<1>4. CASE SyncFlag(b)
  <2>1. /\ \A u \in Of(b) : pc[u] = "flag_sync"
        /\ pc' = [u \in Thread |-> IF u \in Of(b) THEN Branch(u) ELSE pc[u]]
        /\ UNCHANGED <<kernel, launches, before, buffer, vct_atomic_add, pos>>
    BY <1>4 DEF SyncFlag, Barrier, shared
  <2>2. ASSUME NEW u \in Of(b)
        PROVE  /\ Branch(u) \notin {"outside", "store", "flag", "init", "flush", "done"}
               /\ Writes(u) => Branch(u) \notin Written
               /\ Inserts(u) => Branch(u) \in Entering \cup Flagging \cup {"take", "outside"}
    <3>1. u \in Thread /\ kernel.grid \in Grid /\ u[1] = b
      BY <1>1 DEF TypeOK
    <3>2. Kind = "sphere"
      BY <1>1, <2>1, <3>1
        DEF Together, SamePhase, Entering, Flagging, Alone, Leading, Reading, Ending
    <3>3. CASE is_block_empty[b]
      <4>1. \A v \in Of(b) : ~Active(v)
        BY <3>2, <3>3, <1>1, <2>1 DEF FlagOK, Flagging
      <4>2. ~Inserts(u) /\ ~Writes(u)
        <5>1. ~Inserts(u)
          BY <4>1, <3>1, <3>2, Inserting
        <5>2. ~Writes(u)
          BY <4>1, <3>1, <3>2 DEF Writes, Kind
        <5>3. QED BY <5>1, <5>2
      <4>3. QED BY <4>2, <3>1, <3>3 DEF Branch
    <3>4. CASE ~is_block_empty[b]
      <4>1. Inserts(u) => Leads(u)
        BY <3>1, <3>2, Inserting
      <4>2. QED BY <4>1, <3>1, <3>4 DEF Branch, LeadOrRead, Written
    <3>5. QED BY <3>3, <3>4
  <2>3. QuietMove
    BY <2>1, <2>2, <1>1 DEF Written, QuietMove, PInv, Stored
  <2>4. Holding'
    BY <2>1, <2>2, <1>1, <1>2, SameKernel DEF Holding
  <2>5. QED BY <2>1, <2>3, <2>4, Quiet
<1>5. CASE SyncMem(b)
  <2>1. /\ \A u \in Of(b) : pc[u] = "mem_sync"
        /\ pc' = [u \in Thread |-> IF u \in Of(b) THEN "load" ELSE pc[u]]
        /\ UNCHANGED <<kernel, launches, before, buffer, vct_atomic_add, pos>>
    BY <1>5 DEF SyncMem, Barrier, shared
  <2>2. QuietMove
    BY <2>1, <1>1 DEF Written, QuietMove, PInv, Stored
  <2>3. Holding'
    BY <2>1, <1>1, <1>2, SameKernel DEF PInv, Holding, Entering, Flagging
  <2>4. QED BY <2>1, <2>2, <2>3, Quiet
<1>6. CASE SyncEnd(b)
  <2>1. /\ \A u \in Of(b) : pc[u] = "end_sync"
        /\ pc' = [u \in Thread |-> IF u \in Of(b) THEN IF u[2] = 0 THEN "flush" ELSE "done"
                                                  ELSE pc[u]]
        /\ UNCHANGED <<kernel, launches, before, buffer, vct_atomic_add, pos>>
    BY <1>6 DEF SyncEnd, Barrier, shared
  <2>2. QuietMove
    BY <2>1, <1>1 DEF Written, QuietMove, PInv, Stored
  <2>3. Holding'
    BY <2>1, <1>1, <1>2, SameKernel DEF PInv, Holding, Entering, Flagging
  <2>4. QED BY <2>1, <2>2, <2>3, Quiet
<1>7. QED BY <1>3, <1>4, <1>5, <1>6 DEF Sync

-----------------------------------------------------------------------------
(* Steps on a pool.                                                        *)

\* A thread between its atomicAdd and the end of the kernel: its block counts,
\* and so does its first thread.
LEMMA ZeroWith ==
  ASSUME IInv, NEW th \in Thread, pc[th] \notin Ending
  PROVE  /\ Runs(th) /\ Runs(Zero(th[1])) /\ th[1] \in Blocks
         /\ SamePhase(pc[th], pc[Zero(th[1])])
         /\ Launched(th[1])
         /\ pc[th] \notin Entering => Opened(th[1])
<1>1. Runs(th) /\ th[1] \in Blocks /\ kernel.grid \in Grid
  BY Threads DEF IInv, PlacesOK, Ending, TypeOK
<1>2. Zero(th[1]) \in Thread /\ Zero(th[1])[1] = th[1] /\ Runs(Zero(th[1]))
  <2>1. <<th[1], 0>> \in ThreadsOf(kernel.grid)
    BY <1>1, FirstThread DEF Runs
  <2>2. QED BY <2>1, <1>1, ZeroOf DEF Zero, Runs
<1>3. SamePhase(pc[th], pc[Zero(th[1])])
  BY <1>1, <1>2 DEF IInv, Together
<1>4. Launched(th[1]) /\ (pc[th] \notin Entering => Opened(th[1]))
  BY <1>3 DEF Launched, Opened, SamePhase, Entering, Flagging, Alone, Leading, Reading, Ending
<1>5. QED BY <1>1, <1>2, <1>3, <1>4

\* A slot taken lies in its pool, behind what was there.
LEMMA TakenSlot ==
  ASSUME IInv, PInv, NEW u \in Thread, Took(u), Opened(u[1])
  PROVE  /\ u[1] \in Blocks /\ pos[u] \in Slots /\ pos[u] \in Int
         /\ First(u[1]) \in 0 .. NSlot
         /\ (u[1] * NSlot) + First(u[1]) <= pos[u]
         /\ pos[u] < (u[1] * NSlot) + vct_atomic_add[u[1]]
         /\ vct_atomic_add[u[1]] \in 0 .. NSlot
         /\ u[1] * NSlot \in Nat
<1>1. u[1] \in Blocks /\ u[1] \in Nat /\ NSlot \in Nat /\ NBlock * NSlot \in Nat
  BY Threads, InsertKernelAssumption
<1>2. Inserts(u) /\ pos[u] # NoSlot /\ Launched(u[1])
  BY DEF Took
<1>3. pos[u] \in Slots /\ vct_atomic_add[u[1]] \in 0 .. NSlot
  BY <1>1, <1>2 DEF IInv, TypeOK
<1>4. pos[u] \in Int
  BY <1>1, <1>3 DEF Slots
<1>5. pos[u] < (u[1] * NSlot) + vct_atomic_add[u[1]]
  BY <1>2 DEF IInv, SlotsBelow, SlotBelow
<1>6. (u[1] * NSlot) + First(u[1]) <= pos[u]
  BY <1>1 DEF PInv, SlotsExact
<1>7. First(u[1]) \in 0 .. NSlot
  BY <1>1, <1>2 DEF PInv, BeforeKept
<1>8. QED BY <1>1, <1>3, <1>4, <1>5, <1>6, <1>7

\* A step that writes only slot s, taken by u, leaves what was there and what is
\* free as it is.
LEMMA OthersUntouched ==
  ASSUME IInv, PInv, NEW u \in Thread, Took(u), Opened(u[1]),
         NEW b \in Blocks, NEW s \in Int, b * NSlot <= s, s < (b * NSlot) + NSlot,
         b # u[1] \/ s < (b * NSlot) + First(b) \/ s >= (b * NSlot) + vct_atomic_add[b]
  PROVE  s # pos[u] /\ s \in Slots
<1>1. b \in Nat /\ NSlot \in Nat /\ NBlock \in Nat \ {0} /\ b * NSlot \in Nat
  BY InsertKernelAssumption DEF Blocks
<1>2. s \in Slots
  <2>1. s - (b * NSlot) \in 0 .. NSlot - 1
    BY <1>1
  <2>2. (b * NSlot) + (s - (b * NSlot)) \in 0 .. (NBlock * NSlot) - 1
    BY <1>1, <2>1, PoolInBuffer DEF Blocks
  <2>3. (b * NSlot) + (s - (b * NSlot)) = s
    BY <1>1
  <2>4. QED BY <2>2, <2>3 DEF Slots
<1>3. CASE b = u[1]
  <2>1. /\ pos[u] \in Int /\ First(u[1]) \in 0 .. NSlot /\ vct_atomic_add[u[1]] \in 0 .. NSlot
        /\ (u[1] * NSlot) + First(u[1]) <= pos[u]
        /\ pos[u] < (u[1] * NSlot) + vct_atomic_add[u[1]]
    BY TakenSlot
  <2>2. s < (u[1] * NSlot) + First(u[1]) \/ s >= (u[1] * NSlot) + vct_atomic_add[u[1]]
    BY <1>3
  <2>3. u[1] * NSlot \in Nat
    BY TakenSlot
  <2>4. s # pos[u]
    BY <2>1, <2>2, <2>3, <1>1
  <2>5. QED BY <2>4, <1>2
<1>4. CASE b # u[1]
  <2>1. u[1] \in Nat
    BY Threads
  <2>2. ~(u[1] * NSlot <= s /\ s < (u[1] * NSlot) + NSlot)
    BY <1>1, <1>4, <2>1, PoolsApart
  <2>3. /\ u[1] * NSlot \in Nat /\ u[1] * NSlot <= pos[u] /\ pos[u] < (u[1] * NSlot) + NSlot
    BY <1>1, TakenSlot
  <2>4. QED BY <2>2, <2>3, <1>2
<1>5. QED BY <1>2, <1>3, <1>4

\* Who has written for u, over a step of a thread that does not write.
LEMMA SameData ==
  ASSUME UNCHANGED <<kernel, launches>>, NEW u \in Thread,
         \A th \in Thread : Writes(th) /\ TakerFor(th, u) => (pc'[th] \in Written <=> pc[th] \in Written)
  PROVE  DataFor(u)' = DataFor(u)
<1>1. \A th \in Thread, o \in Tids : Wrote(th, u, o)' <=> Wrote(th, u, o)
  BY SameKernel, SameGrid DEF Wrote
<1>2. QED BY <1>1 DEF DataFor

\* The pools over the store of the key.
LEMMA StoreFills ==
  ASSUME IInv, PInv, NEW th \in Thread, Store(th)
  PROVE  PInv'
<1> DEFINE to == IF kernel.grid.kind = "element" THEN "write" ELSE "share"
<1>1. /\ pc \in [Thread -> Places] /\ pc[th] = "store" /\ Go(th, to)
      /\ vct_add_index \in [Slots -> Int]
      /\ vct_add_index' = [vct_add_index EXCEPT ![pos[th]] = KeyOf(th)]
      /\ UNCHANGED <<vct_atomic_add, vct_add_data, vct_nadd_index, pos, kernel, launches, before>>
  BY DEF IInv, TypeOK, Store, shared
<1>2. pc'[th] = to /\ to \in {"write", "share"} /\ \A u \in Thread : u # th => pc'[u] = pc[u]
  BY <1>1 DEF Go
<1>3. Took(th) /\ Opened(th[1])
  <2>1. Launched(th[1]) /\ Opened(th[1])
    BY <1>1, ZeroWith DEF Ending, Entering
  <2>2. QED BY <2>1, <1>1 DEF Took, IInv, PlacesOK, SlotHeld
<1>4. \A b \in Blocks : /\ Launched(b)' <=> Launched(b)
                        /\ Opened(b)' <=> Opened(b)
                        /\ pc'[Zero(b)] = "done" => pc[Zero(b)] = "done"
                        /\ Top(b)' = Top(b)
                        /\ First(b)' = First(b)
                        /\ FirstSlot(b)' = FirstSlot(b)
  <2>1. ASSUME NEW b \in Blocks
        PROVE  /\ Launched(b)' <=> Launched(b)
               /\ Opened(b)' <=> Opened(b)
               /\ pc'[Zero(b)] = "done" => pc[Zero(b)] = "done"
    BY <1>1, <1>2, ZeroOf DEF Launched, Opened
  <2>2. QED BY <2>1, <1>1 DEF Top, First, FirstSlot
<1>5. \A u \in Thread : (Inserts(u)' <=> Inserts(u)) /\ (Took(u)' <=> Took(u))
  BY <1>1, <1>4, SameKernel, Threads DEF Took
<1>6. BeforeKept'
  <2>1. ASSUME NEW b \in Blocks, Launched(b),
               NEW s \in b * NSlot .. (b * NSlot) + First(b) - 1
        PROVE  Held(s)' = Held(s)
    <3>1. First(b) \in 0 .. NSlot /\ b * NSlot \in Nat /\ NSlot \in Nat
      BY <2>1, InsertKernelAssumption DEF PInv, BeforeKept, Blocks
    <3>2. s \in Int /\ b * NSlot <= s /\ s < (b * NSlot) + First(b) /\ s < (b * NSlot) + NSlot
      BY <3>1
    <3>3. s # pos[th] /\ s \in Slots
      BY <3>2, <1>3, OthersUntouched
    <3>4. vct_add_index'[s] = vct_add_index[s]
      BY <3>3, <1>1
    <3>5. QED BY <3>4, <1>1 DEF Held
  <2>2. ASSUME NEW b \in Blocks, Launched(b)
        PROVE  {Held(s)' : s \in b * NSlot .. (b * NSlot) + First(b) - 1}
               = {Held(s) : s \in b * NSlot .. (b * NSlot) + First(b) - 1}
    BY <2>1, <2>2
  <2>3. QED BY <2>2, <1>1, <1>4 DEF PInv, BeforeKept
<1>7. CountExact' /\ SlotsExact'
  <2>1. \A b \in Blocks : Waiting(b)' = Waiting(b)
    BY <1>1, SameKernel DEF Waiting
  <2>2. CountExact'
    BY <2>1, <1>1, <1>4, SameGrid DEF PInv, CountExact
  <2>3. SlotsExact'
    BY <1>1, <1>4, <1>5 DEF PInv, SlotsExact
  <2>4. QED BY <2>2, <2>3
<1>8. KeysWritten'
  <2>1. pos[th] \in Slots
    BY <1>3, TakenSlot
  <2>2. ASSUME NEW u \in Thread, Took(u), pc'[u] # "store"
        PROVE  vct_add_index'[pos[u]] = KeyOf(u)
    <3>1. CASE u = th
      BY <3>1, <2>1, <1>1
    <3>2. CASE u # th
      <4>1. pos[u] # pos[th]
        BY <3>2, <2>2, <1>3 DEF IInv, SlotsDisjoint, Took
      <4>2. vct_add_index'[pos[u]] = vct_add_index[pos[u]]
        <5>1. pos[u] \in Slots
          BY <2>2 DEF IInv, TypeOK, Took
        <5>2. QED BY <5>1, <4>1, <1>1
      <4>3. QED BY <4>2, <3>2, <2>2, <1>2 DEF PInv, KeysWritten
    <3>3. QED BY <3>1, <3>2
  <2>3. QED BY <2>2, <1>1, <1>5, SameGrid DEF KeysWritten
<1>9. DataWritten'
  <2>1. \A u \in Thread : DataFor(u)' = DataFor(u)
    BY <1>1, <1>2, SameData DEF Written
  <2>2. QED BY <2>1, <1>1, <1>5 DEF PInv, DataWritten
<1>10. FreeEmpty' /\ Stored'
  BY <1>1, <1>2, <1>4 DEF PInv, FreeEmpty, Stored
<1>11. Holding'
  BY <1>1, <1>2, <1>3, <1>5 DEF PInv, Holding, Took
<1>12. QED BY <1>6, <1>7, <1>8, <1>9, <1>10, <1>11 DEF PInv

\* The pools over the write of the element.
LEMMA WriteFills ==
  ASSUME IInv, PInv, NEW th \in Thread, Write(th)
  PROVE  PInv'
<1>1. /\ pc \in [Thread -> Places] /\ pc[th] = "write" /\ Go(th, "end_sync")
      /\ vct_add_data \in [Slots -> [Tids -> 0 .. MaxLaunch]]
      /\ vct_add_data' = [vct_add_data EXCEPT ![pos[th]][Offset(th)] = launches]
      /\ UNCHANGED <<vct_atomic_add, vct_add_index, vct_nadd_index, pos, kernel, launches, before>>
  BY DEF IInv, TypeOK, Write, shared
<1>2. pc'[th] = "end_sync" /\ \A u \in Thread : u # th => pc'[u] = pc[u]
  BY <1>1 DEF Go
<1>3. Writes(th) /\ kernel.grid \in Grid /\ Runs(th)
  BY <1>1 DEF IInv, PlacesOK, TypeOK
<1>4. PICK w \in Thread : TakerFor(th, w) /\ Inserts(w) /\ w[1] = th[1]
  BY <1>3, TakerExists
<1>5. pos[th] = pos[w] /\ pos[w] # NoSlot
  <2>1. Runs(w)
    BY <1>3, <1>4, Inserting
  <2>2. SameSlot
    BY SameSlotHolds
  <2>3. QED BY <2>1, <2>2, <1>1, <1>4 DEF SameSlot
<1>6. Took(w) /\ Opened(w[1])
  BY <1>1, <1>4, <1>5, ZeroWith DEF Took, Ending, Entering
<1>7. pos[w] \in Slots
  BY <1>6, TakenSlot
<1>8. \A b \in Blocks : /\ Launched(b)' <=> Launched(b)
                        /\ Opened(b)' <=> Opened(b)
                        /\ pc'[Zero(b)] = "done" => pc[Zero(b)] = "done"
                        /\ Top(b)' = Top(b)
                        /\ First(b)' = First(b)
                        /\ FirstSlot(b)' = FirstSlot(b)
  <2>1. ASSUME NEW b \in Blocks
        PROVE  /\ Launched(b)' <=> Launched(b)
               /\ Opened(b)' <=> Opened(b)
               /\ pc'[Zero(b)] = "done" => pc[Zero(b)] = "done"
    BY <1>1, <1>2, ZeroOf DEF Launched, Opened
  <2>2. QED BY <2>1, <1>1 DEF Top, First, FirstSlot
<1>9. \A u \in Thread : (Inserts(u)' <=> Inserts(u)) /\ (Took(u)' <=> Took(u))
  BY <1>1, <1>8, SameKernel, Threads DEF Took
<1>10. \A s \in Slots : s # pos[w] => vct_add_data'[s] = vct_add_data[s]
  BY <1>1, <1>5
<1>11. BeforeKept'
  <2>1. ASSUME NEW b \in Blocks, Launched(b),
               NEW s \in b * NSlot .. (b * NSlot) + First(b) - 1
        PROVE  Held(s)' = Held(s)
    <3>1. First(b) \in 0 .. NSlot /\ b * NSlot \in Nat /\ NSlot \in Nat
      BY <2>1, InsertKernelAssumption DEF PInv, BeforeKept, Blocks
    <3>2. s \in Int /\ b * NSlot <= s /\ s < (b * NSlot) + First(b) /\ s < (b * NSlot) + NSlot
      BY <3>1
    <3>3. s # pos[w] /\ s \in Slots
      BY <3>2, <1>6, OthersUntouched
    <3>4. QED BY <3>3, <1>10, <1>1 DEF Held
  <2>2. ASSUME NEW b \in Blocks, Launched(b)
        PROVE  {Held(s)' : s \in b * NSlot .. (b * NSlot) + First(b) - 1}
               = {Held(s) : s \in b * NSlot .. (b * NSlot) + First(b) - 1}
    BY <2>1, <2>2
  <2>3. QED BY <2>2, <1>1, <1>8 DEF PInv, BeforeKept
<1>12. CountExact' /\ SlotsExact'
  <2>1. \A b \in Blocks : Waiting(b)' = Waiting(b)
    BY <1>1, SameKernel DEF Waiting
  <2>2. CountExact'
    BY <2>1, <1>1, <1>8, SameGrid DEF PInv, CountExact
  <2>3. SlotsExact'
    BY <1>1, <1>8, <1>9 DEF PInv, SlotsExact
  <2>4. QED BY <2>2, <2>3
<1>13. KeysWritten'
  BY <1>1, <1>2, <1>9, SameGrid DEF PInv, KeysWritten
<1>14. DataWritten'
  <2>1. ASSUME NEW u \in Thread, Took(u)
        PROVE  vct_add_data'[pos[u]] = DataFor(u)'
    <3>1. pos[u] \in Slots /\ vct_add_data[pos[u]] = DataFor(u)
      BY <2>1 DEF IInv, TypeOK, PInv, DataWritten, Took
    <3>2. CASE u = w
      <4>1. vct_add_data'[pos[u]] = [vct_add_data[pos[u]] EXCEPT ![Offset(th)] = launches]
        BY <3>1, <3>2, <1>1, <1>5
      <4>2. \A o \in Tids : o = Offset(th) => Wrote(th, u, o)'
        BY <3>2, <1>1, <1>2, <1>3, <1>4, SameKernel, SameGrid DEF Wrote, Written
      <4>3. \A v \in Thread, o \in Tids : o # Offset(th) => (Wrote(v, u, o)' <=> Wrote(v, u, o))
        <5>1. ASSUME NEW v \in Thread, NEW o \in Tids, o # Offset(th)
              PROVE  Wrote(v, u, o)' <=> Wrote(v, u, o)
          <6>1. CASE v = th
            BY <6>1, <5>1, <1>1, SameGrid DEF Wrote
          <6>2. CASE v # th
            BY <6>2, <1>1, <1>2, SameKernel, SameGrid DEF Wrote
          <6>3. QED BY <6>1, <6>2
        <5>2. QED BY <5>1
      <4>4. ASSUME NEW o \in Tids
            PROVE  vct_add_data'[pos[u]][o] = DataFor(u)'[o]
        <5>1. DataFor(u)[o] = IF \E v \in Thread : Wrote(v, u, o) THEN launches ELSE 0
          BY DEF DataFor
        <5>2. DataFor(u)'[o] = IF \E v \in Thread : Wrote(v, u, o)' THEN launches ELSE 0
          BY <1>1 DEF DataFor
        <5>3. CASE o = Offset(th)
          <6>1. vct_add_data'[pos[u]][o] = launches
            <7>1. vct_add_data[pos[u]] \in [Tids -> 0 .. MaxLaunch]
              BY <3>1, <1>1
            <7>2. QED BY <7>1, <5>3, <4>1
          <6>2. \E v \in Thread : Wrote(v, u, o)'
            BY <5>3, <4>2
          <6>3. QED BY <6>1, <6>2, <5>2
        <5>4. CASE o # Offset(th)
          <6>1. vct_add_data'[pos[u]][o] = DataFor(u)[o]
            BY <5>4, <4>1, <3>1, <1>1
          <6>2. QED BY <6>1, <5>1, <5>2, <5>4, <4>3
        <5>5. QED BY <5>3, <5>4
      <4>5. DataFor(u)' = [o \in Tids |-> DataFor(u)'[o]]
        BY DEF DataFor
      <4>6. vct_add_data'[pos[u]] = [o \in Tids |-> vct_add_data'[pos[u]][o]]
        BY <4>1, <3>1, <1>1
      <4>7. QED BY <4>4, <4>5, <4>6
    <3>3. CASE u # w
      <4>1. pos[u] # pos[w]
        BY <3>3, <2>1, <1>4, <1>5 DEF IInv, SlotsDisjoint, Took
      <4>2. vct_add_data'[pos[u]] = vct_add_data[pos[u]]
        BY <4>1, <3>1, <1>10
      <4>3. ~TakerFor(th, u)
        BY <3>3, <1>3, <1>4, TakerUnique
      <4>4. DataFor(u)' = DataFor(u)
        <5>1. \A v \in Thread : Writes(v) /\ TakerFor(v, u) => (pc'[v] \in Written <=> pc[v] \in Written)
          BY <4>3, <1>2
        <5>2. QED BY <5>1, <1>1, SameData
      <4>5. QED BY <4>2, <4>4, <3>1
    <3>4. QED BY <3>2, <3>3
  <2>2. QED BY <2>1, <1>1, <1>9 DEF DataWritten
<1>15. FreeEmpty'
  <2>1. ASSUME NEW b \in Blocks, NEW s \in (b * NSlot) + Top(b) .. (b * NSlot) + NSlot - 1
        PROVE  vct_add_data'[s] = Nobody
    <3>1. Top(b) \in 0 .. NSlot /\ b * NSlot \in Nat /\ NSlot \in Nat
      BY InsertKernelAssumption DEF IInv, TypeOK, Top, Blocks
    <3>2. s \in Int /\ b * NSlot <= s /\ s < (b * NSlot) + NSlot /\ s >= (b * NSlot) + Top(b)
      BY <3>1
    <3>3. b = w[1] => Top(b) = vct_atomic_add[b]
      BY <1>6 DEF Top
    <3>4. s # pos[w] /\ s \in Slots
      BY <3>2, <3>3, <1>6, OthersUntouched
    <3>5. vct_add_data[s] = Nobody
      BY DEF PInv, FreeEmpty
    <3>6. QED BY <3>4, <3>5, <1>10
  <2>2. QED BY <2>1, <1>8 DEF FreeEmpty
<1>16. Stored'
  BY <1>1, <1>2, <1>8 DEF PInv, Stored
<1>17. Holding'
  BY <1>1, <1>2, <1>4, <1>5, <1>9, <1>3 DEF PInv, Holding, Entering, Flagging
<1>18. QED BY <1>11, <1>12, <1>13, <1>14, <1>15, <1>16, <1>17 DEF PInv

\* The pools over the atomicAdd that takes a slot.
LEMMA TakeFills ==
  ASSUME IInv, PInv, NEW th \in Thread, Take(th)
  PROVE  PInv'
<1> DEFINE b == th[1]
           n == vct_atomic_add[b]
           s == (b * NSlot) + n
<1>1. /\ pc \in [Thread -> Places] /\ pc[th] = "take" /\ Go(th, "store")
      /\ vct_atomic_add \in [Blocks -> 0 .. NSlot]
      /\ pos \in [Thread -> Slots \cup {NoSlot}]
      /\ pos' = [pos EXCEPT ![th] = s]
      /\ vct_atomic_add' = [vct_atomic_add EXCEPT ![b] = @ + 1]
      /\ UNCHANGED <<vct_add_index, vct_add_data, vct_nadd_index, kernel, launches, before>>
  BY DEF IInv, TypeOK, Take, buffer
<1>2. pc'[th] = "store" /\ \A u \in Thread : u # th => pc'[u] = pc[u]
  BY <1>1 DEF Go
<1>3. /\ Runs(th) /\ Inserts(th) /\ pos[th] = NoSlot /\ b \in Blocks /\ Opened(b) /\ Launched(b)
      /\ SamePhase("take", pc[Zero(b)])
  BY <1>1, ZeroWith DEF IInv, PlacesOK, SlotHeld, Ending, Entering
<1>4. th \in Waiting(b) /\ th \in Inserters(b)
  BY <1>3 DEF Waiting, Inserters
<1>5. /\ Cardinality(Waiting(b)) \in Nat /\ Cardinality(Waiting(b)) > 0
      /\ Cardinality(Waiting(b)) <= Cardinality(Inserters(b))
      /\ Cardinality(Inserters(b)) \in Nat
      /\ Cardinality(Waiting(b) \ {th}) = Cardinality(Waiting(b)) - 1
  <2>1. Waiting(b) \in SUBSET Inserters(b)
    BY DEF Waiting, Inserters
  <2>2. Cardinality(Waiting(b)) <= Cardinality(Inserters(b))
    BY <2>1, <1>3, InsertersFinite, FS_Subset
  <2>3. Cardinality(Waiting(b)) # 0
    BY <1>3, <1>4, WaitingFinite, FS_EmptySet
  <2>4. Cardinality(Waiting(b) \ {th}) = Cardinality(Waiting(b)) - 1
    BY <1>3, <1>4, WaitingFinite, FS_RemoveElement
  <2>5. QED BY <2>2, <2>3, <2>4, <1>3, WaitingFinite, InsertersFinite
<1>6. IInv'
  BY TakeKeeps
<1>7. /\ n \in 0 .. NSlot - 1 /\ First(b) \in 0 .. NSlot /\ First(b) <= n
      /\ vct_atomic_add'[b] = n + 1
      /\ \A c \in Blocks : c # b => vct_atomic_add'[c] = vct_atomic_add[c]
      /\ n + Cardinality(Waiting(b)) = First(b) + Cardinality(Inserters(b))
  <2>1. vct_atomic_add'[b] = n + 1 /\ \A c \in Blocks : c # b => vct_atomic_add'[c] = vct_atomic_add[c]
    BY <1>1, <1>3
  <2>2. n \in 0 .. NSlot /\ vct_atomic_add'[b] \in 0 .. NSlot /\ NSlot \in Nat
    BY <1>1, <1>3, <1>6, InsertKernelAssumption DEF IInv, TypeOK
  <2>3. n + Cardinality(Waiting(b)) = First(b) + Cardinality(Inserters(b))
    BY <1>3 DEF PInv, CountExact
  <2>4. First(b) \in 0 .. NSlot
    BY <1>3 DEF PInv, BeforeKept
  <2>5. QED BY <2>1, <2>2, <2>3, <2>4, <1>5
<1>8. b * NSlot \in Nat /\ NSlot \in Nat
  BY <1>3, InsertKernelAssumption DEF Blocks
<1>9. s \in Int /\ s # NoSlot /\ s \in (b * NSlot) + n .. (b * NSlot) + NSlot - 1
  BY <1>7, <1>8 DEF NoSlot
<1> HIDE DEF n, s
<1>10. pos'[th] = s /\ \A u \in Thread : u # th => pos'[u] = pos[u]
  BY <1>1
<1>11. \A c \in Blocks : /\ Launched(c)' <=> Launched(c)
                         /\ Opened(c)' <=> Opened(c)
                         /\ pc'[Zero(c)] = "done" => pc[Zero(c)] = "done"
                         /\ First(c)' = First(c)
                         /\ FirstSlot(c)' = FirstSlot(c)
  <2>1. ASSUME NEW c \in Blocks
        PROVE  /\ Launched(c)' <=> Launched(c)
               /\ Opened(c)' <=> Opened(c)
               /\ pc'[Zero(c)] = "done" => pc[Zero(c)] = "done"
    BY <1>1, <1>2, ZeroOf DEF Launched, Opened
  <2>2. QED BY <2>1, <1>1 DEF First, FirstSlot
<1>12. /\ \A u \in Thread : u # th => (Took(u)' <=> Took(u))
       /\ Took(th)'
  <2>1. \A u \in Thread : Inserts(u)' <=> Inserts(u)
    BY <1>1, SameKernel
  <2>2. \A u \in Thread : Launched(u[1])' <=> Launched(u[1])
    BY <1>11, Threads
  <2>3. QED BY <2>1, <2>2, <1>3, <1>9, <1>10 DEF Took
<1>13. BeforeKept'
  <2>1. \A t : Held(t)' = Held(t)
    BY <1>1 DEF Held
  <2>2. QED BY <2>1, <1>1, <1>11 DEF PInv, BeforeKept
<1>14. CountExact'
  <2>1. ASSUME NEW c \in Blocks, Opened(c)
        PROVE  vct_atomic_add'[c] + Cardinality(Waiting(c)') = First(c) + Cardinality(Inserters(c))
    <3>1. CASE c = b
      <4>1. Waiting(c)' = Waiting(c) \ {th}
        BY <3>1, <1>1, <1>9, <1>10, SameKernel DEF Waiting
      <4>2. n \in Int /\ First(b) \in Int
        BY <1>7, <1>8
      <4>3. vct_atomic_add'[b] + (Cardinality(Waiting(b)) - 1) = First(b) + Cardinality(Inserters(b))
        BY <4>2, <1>5, <1>7
      <4>4. QED BY <4>1, <4>3, <3>1, <1>5
    <3>2. CASE c # b
      <4>1. Waiting(c)' = Waiting(c)
        BY <3>2, <1>1, <1>10, SameKernel DEF Waiting
      <4>2. QED BY <4>1, <3>2, <2>1, <1>7 DEF PInv, CountExact
    <3>3. QED BY <3>1, <3>2
  <2>2. QED BY <2>1, <1>1, <1>11, SameGrid DEF CountExact
<1>15. SlotsExact'
  <2>1. ASSUME NEW c \in Blocks, Opened(c), NEW u \in Thread, Took(u)', u[1] = c
        PROVE  (c * NSlot) + First(c) <= pos'[u]
    <3>1. CASE u = th
      <4>1. s = (b * NSlot) + n
        BY DEF s
      <4>2. QED BY <4>1, <3>1, <2>1, <1>7, <1>8, <1>10
    <3>2. CASE u # th
      BY <3>2, <2>1, <1>10, <1>12 DEF PInv, SlotsExact
    <3>3. QED BY <3>1, <3>2
  <2>2. ASSUME NEW c \in Blocks, Opened(c),
               NEW t \in (c * NSlot) + First(c) .. (c * NSlot) + vct_atomic_add'[c] - 1
        PROVE  \E u \in Thread : Took(u)' /\ u[1] = c /\ pos'[u] = t
    <3>1. CASE c = b /\ t = s
      BY <3>1, <1>10, <1>12
    <3>2. CASE ~(c = b /\ t = s)
      <4>1. t \in (c * NSlot) + First(c) .. (c * NSlot) + vct_atomic_add[c] - 1
        <5>1. CASE c = b
          <6>1. s = (b * NSlot) + n /\ n = vct_atomic_add[b] /\ vct_atomic_add'[b] = n + 1
            BY <1>7 DEF s, n
          <6>2. n \in Int /\ First(b) \in Int
            BY <1>7, <1>8
          <6>3. t \in (b * NSlot) + First(b) .. (b * NSlot) + (n + 1) - 1 /\ t # s
            BY <5>1, <6>1, <2>2, <3>2
          <6>4. t \in (b * NSlot) + First(b) .. (b * NSlot) + n - 1
            BY <6>1, <6>2, <6>3, <1>8
          <6>5. QED BY <6>1, <6>4, <5>1
        <5>2. CASE c # b
          BY <5>2, <2>2, <1>7
        <5>3. QED BY <5>1, <5>2
      <4>2. PICK u \in Thread : Took(u) /\ u[1] = c /\ pos[u] = t
        BY <4>1, <2>2 DEF PInv, SlotsExact
      <4>3. u # th
        BY <4>2, <1>3 DEF Took
      <4>4. QED BY <4>2, <4>3, <1>10, <1>12
    <3>3. QED BY <3>1, <3>2
  <2>3. QED BY <2>1, <2>2, <1>11 DEF SlotsExact
<1>16. KeysWritten'
  <2>1. ASSUME NEW u \in Thread, Took(u)', pc'[u] # "store"
        PROVE  vct_add_index[pos'[u]] = KeyOf(u)
    <3>1. u # th
      BY <2>1, <1>2
    <3>2. Took(u) /\ pos'[u] = pos[u] /\ pc[u] # "store"
      BY <3>1, <2>1, <1>2, <1>10, <1>12
    <3>3. QED BY <3>2 DEF PInv, KeysWritten
  <2>2. QED BY <2>1, <1>1, SameGrid DEF KeysWritten
<1>17. DataWritten'
  <2>1. \A u \in Thread : DataFor(u)' = DataFor(u)
    BY <1>1, <1>2, SameData DEF Written
  <2>2. \A u \in Thread : Took(u)' /\ u # th => vct_add_data[pos'[u]] = DataFor(u)
    BY <1>10, <1>12 DEF PInv, DataWritten
  <2>3. vct_add_data[s] = Nobody
    <3>1. Top(b) = n
      BY <1>3 DEF Top, n
    <3>2. s \in (b * NSlot) + Top(b) .. (b * NSlot) + NSlot - 1
      BY <3>1, <1>9
    <3>3. QED BY <3>2, <1>3 DEF PInv, FreeEmpty
  <2>4. DataFor(th) = Nobody
    <3>1. ASSUME NEW v \in Thread, NEW o \in Tids, Wrote(v, th, o)
          PROVE  FALSE
      <4>1. Writes(v) /\ TakerFor(v, th) /\ pc[v] \in Written /\ Runs(v)
        BY <3>1 DEF Wrote, Writes
      <4>2. v # th
        BY <4>1, <1>1 DEF Written
      <4>3. Kind # "element" /\ v[1] = b
        BY <4>1, <4>2 DEF TakerFor, Kind
      <4>4. SamePhase(pc[th], pc[v])
        BY <4>1, <4>3, <1>3 DEF IInv, Together
      <4>5. QED BY <4>1, <4>3, <4>4, <1>1
        DEF SamePhase, Entering, Flagging, Alone, Leading, Reading, Ending, Written
    <3>2. QED BY <3>1 DEF DataFor, Nobody
  <2>5. \A u \in Thread : Took(u)' => vct_add_data[pos'[u]] = DataFor(u)
    BY <2>2, <2>3, <2>4, <1>10
  <2>6. QED BY <2>1, <2>5, <1>1 DEF DataWritten
<1>18. FreeEmpty'
  <2>1. ASSUME NEW c \in Blocks, NEW t \in (c * NSlot) + Top(c)' .. (c * NSlot) + NSlot - 1
        PROVE  vct_add_data[t] = Nobody
    <3>1. t \in (c * NSlot) + Top(c) .. (c * NSlot) + NSlot - 1
      <4>1. CASE c = b
        <5>1. Top(c) = n /\ Top(c)' = n + 1 /\ n \in Int
          BY <4>1, <1>3, <1>7, <1>8, <1>11 DEF Top, n
        <5>2. QED BY <5>1, <4>1, <2>1, <1>8
      <4>2. CASE c # b
        BY <4>2, <2>1, <1>1, <1>7, <1>11 DEF Top
      <4>3. QED BY <4>1, <4>2
    <3>2. QED BY <3>1 DEF PInv, FreeEmpty
  <2>2. QED BY <2>1, <1>1 DEF FreeEmpty
<1>19. Stored'
  <2>1. pc[Zero(b)] # "done"
    BY <1>3 DEF SamePhase, Entering, Flagging, Alone, Leading, Reading, Ending
  <2>2. \A c \in Blocks : pc'[Zero(c)] = "done" => vct_nadd_index[c] = vct_atomic_add'[c]
    BY <2>1, <1>7, <1>11 DEF PInv, Stored
  <2>3. QED BY <2>2, <1>1, <1>2 DEF PInv, Stored
<1>20. Holding'
  <2>1. \A u \in Thread : Inserts(u)' <=> Inserts(u)
    BY <1>1, SameKernel
  <2>2. QED BY <2>1, <1>2, <1>9, <1>10 DEF PInv, Holding
<1>21. QED BY <1>13, <1>14, <1>15, <1>16, <1>17, <1>18, <1>19, <1>20 DEF PInv

\* The pools over the first thread that sets the counter.
LEMMA ResetFills ==
  ASSUME IInv, PInv, NEW th \in Thread, Reset(th)
  PROVE  PInv'
<1> DEFINE b == th[1]
<1>1. /\ pc \in [Thread -> Places] /\ pc[th] = "init" /\ Go(th, "init_sync")
      /\ vct_atomic_add \in [Blocks -> 0 .. NSlot]
      /\ vct_atomic_add' = [vct_atomic_add EXCEPT ![b] = FirstSlot(b)]
      /\ UNCHANGED <<vct_add_index, vct_add_data, vct_nadd_index, pos, kernel, launches, before>>
  BY DEF IInv, TypeOK, Reset, buffer
<1>2. pc'[th] = "init_sync" /\ \A u \in Thread : u # th => pc'[u] = pc[u]
  BY <1>1 DEF Go
<1>3. b \in Blocks /\ th = Zero(b) /\ Launched(b) /\ ~Opened(b) /\ Runs(th)
  <2>1. b \in Blocks /\ th[2] = 0 /\ Runs(th)
    BY <1>1, Threads DEF IInv, PlacesOK
  <2>2. th = Zero(b)
    BY <2>1, Threads DEF Zero
  <2>3. QED BY <2>1, <2>2, <1>1 DEF Launched, Opened
<1>4. /\ First(b) \in 0 .. NSlot /\ FirstSlot(b) = First(b) /\ vct_nadd_index[b] = First(b)
      /\ vct_atomic_add'[b] = First(b)
      /\ \A c \in Blocks : c # b => vct_atomic_add'[c] = vct_atomic_add[c]
  <2>1. First(b) \in 0 .. NSlot /\ FirstSlot(b) = First(b) /\ vct_nadd_index[b] = First(b)
    BY <1>3 DEF PInv, BeforeKept
  <2>2. QED BY <2>1, <1>1, <1>3
<1>5. \A c \in Blocks : /\ Launched(c)' <=> Launched(c)
                        /\ Opened(c)' <=> Opened(c) \/ c = b
                        /\ pc'[Zero(c)] = "done" => pc[Zero(c)] = "done" /\ c # b
                        /\ First(c)' = First(c)
                        /\ FirstSlot(c)' = FirstSlot(c)
  <2>1. ASSUME NEW c \in Blocks
        PROVE  /\ Launched(c)' <=> Launched(c)
               /\ Opened(c)' <=> Opened(c) \/ c = b
               /\ pc'[Zero(c)] = "done" => pc[Zero(c)] = "done" /\ c # b
    <3>1. CASE c = b
      BY <3>1, <1>1, <1>2, <1>3 DEF Launched, Opened
    <3>2. CASE c # b
      <4>1. Zero(c) \in Thread /\ Zero(c) # th
        BY <3>2, ZeroOf
      <4>2. QED BY <4>1, <3>2, <1>2 DEF Launched, Opened
    <3>3. QED BY <3>1, <3>2
  <2>2. QED BY <2>1, <1>1 DEF First, FirstSlot
<1>6. \A u \in Thread : Took(u)' <=> Took(u)
  BY <1>1, <1>5, SameKernel, Threads DEF Took
<1>7. \A u \in Thread : Inserts(u) /\ u[1] = b => pos[u] = NoSlot
  <2>1. ASSUME NEW u \in Thread, Inserts(u), u[1] = b
        PROVE  pos[u] = NoSlot
    <3>1. Runs(u)
      BY <2>1, Inserting DEF IInv, TypeOK
    <3>2. SamePhase(pc[u], pc[th])
      BY <2>1, <3>1, <1>3 DEF IInv, Together
    <3>3. pc[u] \in Entering
      BY <3>2, <1>1 DEF SamePhase, Entering, Flagging, Alone, Leading, Reading, Ending
    <3>4. QED BY <3>3 DEF IInv, SlotHeld
  <2>2. QED BY <2>1
<1>8. BeforeKept'
  <2>1. \A t : Held(t)' = Held(t)
    BY <1>1 DEF Held
  <2>2. QED BY <2>1, <1>1, <1>5 DEF PInv, BeforeKept
<1>9. CountExact'
  <2>1. \A c \in Blocks : Waiting(c)' = Waiting(c)
    BY <1>1, SameKernel DEF Waiting
  <2>2. Waiting(b) = Inserters(b)
    BY <1>7 DEF Waiting, Inserters
  <2>3. \A c \in Blocks : Opened(c) \/ c = b =>
          vct_atomic_add'[c] + Cardinality(Waiting(c)) = First(c) + Cardinality(Inserters(c))
    BY <2>2, <1>3, <1>4 DEF PInv, CountExact
  <2>4. QED BY <2>1, <2>3, <1>1, <1>5, SameGrid DEF CountExact
<1>10. SlotsExact'
  <2>1. \A u \in Thread : Took(u) => u[1] # b
    BY <1>7 DEF Took
  <2>2. ASSUME NEW t \in (b * NSlot) + First(b) .. (b * NSlot) + vct_atomic_add'[b] - 1
        PROVE  FALSE
    <3>1. b * NSlot \in Nat /\ First(b) \in Int
      BY <1>3, <1>4, InsertKernelAssumption DEF Blocks
    <3>2. QED BY <3>1, <2>2, <1>4
  <2>3. QED BY <2>1, <2>2, <1>1, <1>4, <1>5, <1>6 DEF PInv, SlotsExact
<1>11. KeysWritten'
  BY <1>1, <1>2, <1>6, SameGrid DEF PInv, KeysWritten
<1>12. DataWritten'
  <2>1. \A u \in Thread : DataFor(u)' = DataFor(u)
    BY <1>1, <1>2, SameData DEF Written
  <2>2. QED BY <2>1, <1>1, <1>6 DEF PInv, DataWritten
<1>13. FreeEmpty'
  <2>1. \A c \in Blocks : Top(c)' = Top(c)
    BY <1>1, <1>3, <1>4, <1>5 DEF Top
  <2>2. QED BY <2>1, <1>1 DEF PInv, FreeEmpty
<1>14. Stored'
  BY <1>1, <1>2, <1>4, <1>5 DEF PInv, Stored
<1>15. Holding'
  BY <1>1, <1>2, SameKernel DEF PInv, Holding, Entering
<1>16. QED BY <1>8, <1>9, <1>10, <1>11, <1>12, <1>13, <1>14, <1>15 DEF PInv

\* The pools over the store of the counter.
LEMMA FlushFills ==
  ASSUME IInv, PInv, NEW th \in Thread, Flush(th)
  PROVE  PInv'
<1> DEFINE b == th[1]
<1>1. /\ pc \in [Thread -> Places] /\ pc[th] = "flush" /\ Go(th, "done")
      /\ vct_nadd_index \in [Blocks -> 0 .. NSlot]
      /\ vct_nadd_index' = [vct_nadd_index EXCEPT ![b] = vct_atomic_add[b]]
      /\ UNCHANGED <<vct_atomic_add, vct_add_index, vct_add_data, pos, kernel, launches, before>>
  BY DEF IInv, TypeOK, Flush, shared
<1>2. pc'[th] = "done" /\ \A u \in Thread : u # th => pc'[u] = pc[u]
  BY <1>1 DEF Go
<1>3. b \in Blocks /\ th = Zero(b) /\ Launched(b) /\ Opened(b)
  <2>1. b \in Blocks /\ th[2] = 0
    BY <1>1, Threads DEF PInv, Stored
  <2>2. th = Zero(b)
    BY <2>1, Threads DEF Zero
  <2>3. QED BY <2>1, <2>2, <1>1 DEF Launched, Opened
<1>4. /\ vct_nadd_index'[b] = vct_atomic_add[b]
      /\ \A c \in Blocks : c # b => vct_nadd_index'[c] = vct_nadd_index[c]
  BY <1>1, <1>3
<1>5. \A c \in Blocks : /\ Launched(c)' <=> Launched(c)
                        /\ Opened(c)' <=> Opened(c)
                        /\ pc'[Zero(c)] = "done" => pc[Zero(c)] = "done" \/ c = b
                        /\ First(c)' = First(c)
                        /\ c # b => FirstSlot(c)' = FirstSlot(c)
                        /\ Top(c)' = Top(c)
  <2>1. ASSUME NEW c \in Blocks
        PROVE  /\ Launched(c)' <=> Launched(c)
               /\ Opened(c)' <=> Opened(c)
               /\ pc'[Zero(c)] = "done" => pc[Zero(c)] = "done" \/ c = b
    <3>1. CASE c = b
      BY <3>1, <1>1, <1>2, <1>3 DEF Launched, Opened
    <3>2. CASE c # b
      <4>1. Zero(c) \in Thread /\ Zero(c) # th
        BY <3>2, ZeroOf
      <4>2. QED BY <4>1, <3>2, <1>2 DEF Launched, Opened
    <3>3. QED BY <3>1, <3>2
  <2>2. QED BY <2>1, <1>1, <1>3, <1>4 DEF First, FirstSlot, Top
<1>6. \A u \in Thread : Took(u)' <=> Took(u)
  BY <1>1, <1>5, SameKernel, Threads DEF Took
<1>7. BeforeKept'
  <2>1. \A t : Held(t)' = Held(t)
    BY <1>1 DEF Held
  <2>2. QED BY <2>1, <1>1, <1>3, <1>4, <1>5 DEF PInv, BeforeKept
<1>8. CountExact' /\ SlotsExact'
  <2>1. \A c \in Blocks : Waiting(c)' = Waiting(c)
    BY <1>1, SameKernel DEF Waiting
  <2>2. CountExact'
    BY <2>1, <1>1, <1>5, SameGrid DEF PInv, CountExact
  <2>3. SlotsExact'
    BY <1>1, <1>5, <1>6 DEF PInv, SlotsExact
  <2>4. QED BY <2>2, <2>3
<1>9. KeysWritten'
  BY <1>1, <1>2, <1>6, SameGrid DEF PInv, KeysWritten
<1>10. DataWritten'
  <2>1. \A u \in Thread : DataFor(u)' = DataFor(u)
    BY <1>1, <1>2, SameData DEF Written
  <2>2. QED BY <2>1, <1>1, <1>6 DEF PInv, DataWritten
<1>11. FreeEmpty'
  BY <1>1, <1>5 DEF PInv, FreeEmpty
<1>12. Stored'
  BY <1>1, <1>2, <1>4, <1>5 DEF PInv, Stored
<1>13. Holding'
  BY <1>1, <1>2, SameKernel DEF PInv, Holding, Entering, Flagging
<1>14. QED BY <1>7, <1>8, <1>9, <1>10, <1>11, <1>12, <1>13 DEF PInv

-----------------------------------------------------------------------------
(* The host.                                                               *)

\* The slots are different, so a pool has as many members as slots in use.
LEMMA PoolSize ==
  ASSUME NEW m \in Nat, NEW n \in Nat
  PROVE  Cardinality({Held(s) : s \in m .. m + n - 1}) = n
<1> DEFINE I == m .. m + n - 1
           P == {Held(s) : s \in I}
           f == [s \in I |-> Held(s)]
<1>1. IsFiniteSet(I) /\ Cardinality(I) = n
  <2>1. m \in Int /\ m + n - 1 \in Int
    OBVIOUS
  <2>2. IsFiniteSet(I) /\ Cardinality(I) = IF m > m + n - 1 THEN 0 ELSE (m + n - 1) - m + 1
    BY <2>1, FS_Interval
  <2>3. QED BY <2>2
<1>2. f \in Bijection(I, P)
  <2>1. f \in [I -> P]
    OBVIOUS
  <2>2. \A s, t \in I : f[s] = f[t] => s = t
    <3>1. \A s : Held(s).slot = s
      BY DEF Held
    <3>2. QED BY <3>1
  <2>3. \A p \in P : \E s \in I : f[s] = p
    OBVIOUS
  <2>4. QED BY <2>1, <2>2, <2>3, Fun_IsBij
<1>3. ExistsBijection(I, P)
  BY <1>2 DEF ExistsBijection
<1>4. QED BY <1>1, <1>3, FS_Bijection

\* No kernel runs at first, and the pools are empty.
LEMMA InitPInv == Init => PInv
<1> SUFFICES ASSUME Init PROVE PInv
  OBVIOUS
<1>1. /\ pc = [th \in Thread |-> "outside"]
      /\ vct_add_data = [s \in Slots |-> Nobody]
      /\ vct_nadd_index = [b \in Blocks |-> 0]
  BY DEF Init
<1>2. \A b \in Blocks : ~Launched(b) /\ ~Opened(b) /\ pc[Zero(b)] = "outside"
  BY <1>1, ZeroOf DEF Launched, Opened
<1>3. \A u \in Thread : ~Took(u)
  BY <1>2, Threads DEF Took
<1>4. FreeEmpty
  <2>1. ASSUME NEW b \in Blocks, NEW s \in (b * NSlot) + Top(b) .. (b * NSlot) + NSlot - 1
        PROVE  vct_add_data[s] = Nobody
    <3>1. Top(b) = 0 /\ NSlot \in Nat /\ NBlock \in Nat \ {0} /\ b * NSlot \in Nat
      BY <1>1, <1>2, InsertKernelAssumption DEF Top, Blocks
    <3>2. s \in Slots
      <4>1. s - (b * NSlot) \in 0 .. NSlot - 1 /\ s \in Int
        BY <3>1, <2>1
      <4>2. (b * NSlot) + (s - (b * NSlot)) \in 0 .. (NBlock * NSlot) - 1
        BY <3>1, <4>1, PoolInBuffer DEF Blocks
      <4>3. (b * NSlot) + (s - (b * NSlot)) = s
        BY <3>1, <4>1
      <4>4. QED BY <4>2, <4>3 DEF Slots
    <3>3. QED BY <3>2, <1>1
  <2>2. QED BY <2>1 DEF FreeEmpty
<1>5. BeforeKept /\ CountExact /\ SlotsExact
  BY <1>2 DEF BeforeKept, CountExact, SlotsExact
<1>6. KeysWritten /\ DataWritten
  BY <1>3 DEF KeysWritten, DataWritten
<1>7. Holding /\ Stored
  BY <1>1, <1>2 DEF Holding, Stored
<1>8. QED BY <1>4, <1>5, <1>6, <1>7 DEF PInv

\* The pools over a new insert buffer.
LEMMA SetGPUInsertBufferFills ==
  ASSUME IInv, PInv, SetGPUInsertBuffer
  PROVE  PInv'
<1>1. /\ pc' = [th \in Thread |-> "outside"]
      /\ vct_add_data' = [s \in Slots |-> Nobody]
      /\ vct_nadd_index' = [b \in Blocks |-> 0]
  BY DEF SetGPUInsertBuffer
<1>2. \A b \in Blocks : ~Launched(b)' /\ ~Opened(b)' /\ pc'[Zero(b)] = "outside"
  BY <1>1, ZeroOf DEF Launched, Opened
<1>3. \A u \in Thread : ~Took(u)'
  BY <1>2, Threads DEF Took
<1>4. FreeEmpty'
  <2>1. ASSUME NEW b \in Blocks, NEW s \in (b * NSlot) + Top(b)' .. (b * NSlot) + NSlot - 1
        PROVE  vct_add_data'[s] = Nobody
    <3>1. Top(b)' = 0 /\ NSlot \in Nat /\ NBlock \in Nat \ {0} /\ b * NSlot \in Nat
      BY <1>1, <1>2, InsertKernelAssumption DEF Top, Blocks
    <3>2. s \in Slots
      <4>1. s - (b * NSlot) \in 0 .. NSlot - 1 /\ s \in Int
        BY <3>1, <2>1
      <4>2. (b * NSlot) + (s - (b * NSlot)) \in 0 .. (NBlock * NSlot) - 1
        BY <3>1, <4>1, PoolInBuffer DEF Blocks
      <4>3. (b * NSlot) + (s - (b * NSlot)) = s
        BY <3>1, <4>1
      <4>4. QED BY <4>2, <4>3 DEF Slots
    <3>3. QED BY <3>2, <1>1
  <2>2. QED BY <2>1 DEF FreeEmpty
<1>5. BeforeKept' /\ CountExact' /\ SlotsExact'
  BY <1>2 DEF BeforeKept, CountExact, SlotsExact
<1>6. KeysWritten' /\ DataWritten'
  BY <1>3 DEF KeysWritten, DataWritten
<1>7. Holding' /\ Stored'
  BY <1>1, <1>2 DEF Holding, Stored
<1>8. QED BY <1>4, <1>5, <1>6, <1>7 DEF PInv

\* The pools over the launch of a kernel.
LEMMA LaunchFills ==
  ASSUME IInv, PInv, launches < MaxLaunch,
         NEW g \in Grids[launches + 1], NEW active \in SUBSET ThreadsOf(g), NEW inc \in BOOLEAN,
         Launch(g, active, inc)
  PROVE  PInv'
<1>1. /\ Idle
      /\ inc \/ \A b \in Blocks : vct_nadd_index[b] = 0
      /\ kernel' = [grid |-> g, active |-> active, inc |-> inc]
      /\ pc' = [th \in Thread |-> Start(g, th)]
      /\ pos' = [th \in Thread |-> NoSlot]
      /\ before' = [b \in Blocks |-> Pool(b)]
      /\ UNCHANGED <<vct_atomic_add, vct_add_index, vct_add_data, vct_nadd_index>>
      /\ vct_nadd_index \in [Blocks -> 0 .. NSlot]
  BY DEF Launch, shared, buffer, IInv, TypeOK
<1>2. \A th \in Thread : /\ pc'[th] \in {"outside", "flag", "init", "init_sync"}
                         /\ th[2] = 0 => pc'[th] \in {"outside", "flag", "init"}
  BY <1>1 DEF Start
<1>3. \A b \in Blocks : ~Opened(b)' /\ pc'[Zero(b)] # "done"
  BY <1>2, ZeroOf DEF Opened
<1>4. \A u \in Thread : ~Took(u)'
  BY <1>1 DEF Took
<1>5. BeforeKept'
  <2>1. ASSUME NEW b \in Blocks
        PROVE  /\ First(b)' \in 0 .. NSlot
               /\ before'[b] = {Held(s)' : s \in b * NSlot .. (b * NSlot) + First(b)' - 1}
               /\ FirstSlot(b)' = First(b)' /\ vct_nadd_index'[b] = First(b)'
    <3>1. before'[b] = {Held(s) : s \in b * NSlot .. (b * NSlot) + vct_nadd_index[b] - 1}
      BY <1>1 DEF Pool, Held
    <3>2. vct_nadd_index[b] \in 0 .. NSlot /\ vct_nadd_index[b] \in Nat /\ b * NSlot \in Nat
      BY <1>1, InsertKernelAssumption DEF Blocks
    <3>3. First(b)' = vct_nadd_index[b]
      BY <3>1, <3>2, PoolSize DEF First
    <3>4. \A s : Held(s)' = Held(s)
      BY <1>1 DEF Held
    <3>5. FirstSlot(b)' = vct_nadd_index[b]
      BY <1>1 DEF FirstSlot
    <3>6. QED BY <1>1, <3>1, <3>2, <3>3, <3>4, <3>5
  <2>2. QED BY <2>1 DEF BeforeKept
<1>6. CountExact' /\ SlotsExact'
  BY <1>3 DEF CountExact, SlotsExact
<1>7. KeysWritten' /\ DataWritten'
  BY <1>4 DEF KeysWritten, DataWritten
<1>8. FreeEmpty'
  <2>1. \A b \in Blocks : Top(b)' = Top(b)
    <3>1. ASSUME NEW b \in Blocks, Opened(b)
          PROVE  vct_atomic_add[b] = vct_nadd_index[b]
      <4>1. pc[Zero(b)] = "done"
        BY <3>1, <1>1, ZeroOf DEF Idle, Opened
      <4>2. QED BY <4>1 DEF PInv, Stored
    <3>2. QED BY <3>1, <1>1, <1>3 DEF Top
  <2>2. QED BY <2>1, <1>1 DEF PInv, FreeEmpty
<1>9. Holding' /\ Stored'
  BY <1>2, <1>3 DEF Holding, Stored, Entering
<1>10. QED BY <1>5, <1>6, <1>7, <1>8, <1>9 DEF PInv

-----------------------------------------------------------------------------
(* The pools are exact.                                                    *)

\* The pools over every step.
LEMMA NextFills == IInv /\ PInv /\ [Next]_vars => PInv'
<1> SUFFICES ASSUME IInv, PInv, [Next]_vars PROVE PInv'
  OBVIOUS
<1>1. CASE SetGPUInsertBuffer
  BY <1>1, SetGPUInsertBufferFills
<1>2. CASE launches < MaxLaunch /\ \E g \in Grids[launches + 1] :
             \E active \in SUBSET ThreadsOf(g), inc \in BOOLEAN : Launch(g, active, inc)
  BY <1>2, LaunchFills
<1>3. CASE \E th \in Thread : Step(th)
  <2>1. PICK th \in Thread : Step(th)
    BY <1>3
  <2>2. CASE SetFlag(th)
    BY <2>2, SetFlagFills
  <2>3. CASE Reset(th)
    BY <2>3, ResetFills
  <2>4. CASE ClearFlag(th)
    BY <2>4, ClearFlagFills
  <2>5. CASE Take(th)
    BY <2>5, TakeFills
  <2>6. CASE Store(th)
    BY <2>6, StoreFills
  <2>7. CASE Share(th)
    BY <2>7, ShareFills
  <2>8. CASE Load(th)
    BY <2>8, LoadFills
  <2>9. CASE Write(th)
    BY <2>9, WriteFills
  <2>10. CASE Flush(th)
    BY <2>10, FlushFills
  <2>11. QED BY <2>1, <2>2, <2>3, <2>4, <2>5, <2>6, <2>7, <2>8, <2>9, <2>10 DEF Step
<1>4. CASE \E b \in Blocks : Sync(b)
  BY <1>4, SyncFills
<1>5. CASE UNCHANGED vars
  <2>1. UNCHANGED <<kernel, launches, before, buffer, vct_atomic_add, pos, pc>>
    BY <1>5 DEF vars, shared
  <2>2. QuietMove
    BY <2>1 DEF QuietMove, PInv, Stored
  <2>3. Holding'
    BY <2>1, SameKernel DEF PInv, Holding, Entering, Flagging
  <2>4. QED BY <2>1, <2>2, <2>3, Quiet
<1>6. QED BY <1>1, <1>2, <1>3, <1>4, <1>5 DEF Next

\* When all threads of a block have ended, its pool is what it was and what they
\* inserted.
LEMMA ExactWhenDone ==
  ASSUME IInv, PInv, NEW b \in Blocks, Of(b) # {}, \A th \in Of(b) : pc[th] = "done"
  PROVE  /\ Pool(b) = before[b] \cup {[slot |-> pos[u], key |-> KeyOf(u), data |-> WrittenFor(u)] :
                                         u \in {th \in Of(b) : Inserts(th)}}
         /\ vct_nadd_index[b] = Cardinality(before[b]) + Cardinality({th \in Of(b) : Inserts(th)})
<1> DEFINE n == vct_atomic_add[b]
           base == b * NSlot
           U == {th \in Of(b) : Inserts(th)}
<1>1. \A u \in Thread : Inserts(u) /\ u[1] = b <=> u \in U
  <2>1. \A u \in Thread : Inserts(u) => Runs(u)
    BY Inserting DEF IInv, TypeOK
  <2>2. QED BY <2>1 DEF Of
<1>2. U = Inserters(b) /\ U \subseteq Thread /\ Of(b) \subseteq Thread
  BY <1>1 DEF Inserters, Of
<1>3. pc[Zero(b)] = "done" /\ Launched(b) /\ Opened(b)
  <2>1. PICK v \in Of(b) : TRUE
    OBVIOUS
  <2>2. v \in ThreadsOf(kernel.grid) /\ v[1] = b /\ kernel.grid \in Grid
    BY DEF Of, Runs, IInv, TypeOK
  <2>3. <<b, 0>> \in ThreadsOf(kernel.grid)
    BY <2>2, FirstThread
  <2>4. Zero(b) \in Of(b)
    BY <2>3, ZeroOf DEF Zero, Of, Runs
  <2>5. QED BY <2>4 DEF Launched, Opened
<1>4. \A u \in U : Took(u) /\ u[1] = b /\ pos[u] # NoSlot /\ pc[u] = "done"
  BY <1>1, <1>2, <1>3 DEF PInv, Holding, Took, Entering, Flagging
<1>5. vct_nadd_index[b] = n /\ n \in 0 .. NSlot /\ First(b) \in 0 .. NSlot
  BY <1>3 DEF PInv, Stored, BeforeKept, IInv, TypeOK
<1>6. n = First(b) + Cardinality(U)
  <2>1. Waiting(b) = {}
    BY <1>1, <1>4 DEF Waiting
  <2>2. Cardinality(Waiting(b)) = 0
    BY <2>1, FS_EmptySet
  <2>3. n + Cardinality(Waiting(b)) = First(b) + Cardinality(U)
    BY <1>2, <1>3 DEF PInv, CountExact
  <2>4. n \in Int
    BY <1>5, InsertKernelAssumption
  <2>5. QED BY <2>2, <2>3, <2>4
<1>7. ASSUME NEW u \in U
      PROVE  Held(pos[u]) = [slot |-> pos[u], key |-> KeyOf(u), data |-> WrittenFor(u)]
  <2>1. u \in Thread /\ vct_add_index[pos[u]] = KeyOf(u) /\ vct_add_data[pos[u]] = DataFor(u)
    BY <1>2, <1>4 DEF PInv, KeysWritten, DataWritten
  <2>2. ASSUME NEW th \in Thread, NEW o \in Tids
        PROVE  Wrote(th, u, o) <=> Writes(th) /\ TakerFor(th, u) /\ Offset(th) = o
    <3>1. ASSUME Writes(th), TakerFor(th, u)
          PROVE  pc[th] \in Written
      <4>1. Runs(th)
        BY <3>1 DEF Writes
      <4>2. th[1] = b
        BY <3>1, <1>4 DEF TakerFor
      <4>3. QED BY <4>1, <4>2 DEF Of, Written
    <3>2. QED BY <3>1 DEF Wrote
  <2>3. DataFor(u) = WrittenFor(u)
    BY <2>2 DEF DataFor, WrittenFor
  <2>4. QED BY <2>1, <2>3 DEF Held
<1>8. Pool(b) = {Held(s) : s \in base .. base + n - 1}
  BY <1>5 DEF Pool, Held
<1>9. before[b] = {Held(s) : s \in base .. base + First(b) - 1}
  BY <1>3 DEF PInv, BeforeKept
<1>10. base \in Nat /\ NSlot \in Nat
  BY InsertKernelAssumption DEF Blocks
<1>11. \A s \in base + First(b) .. base + n - 1 : \E u \in U : pos[u] = s
  BY <1>1, <1>3 DEF PInv, SlotsExact, Took
<1>12. \A u \in U : pos[u] \in base .. base + n - 1
  <2>1. ASSUME NEW u \in U
        PROVE  pos[u] \in base .. base + n - 1
    <3>1. pos[u] \in Int /\ base + First(b) <= pos[u] /\ pos[u] < base + n
      BY <1>2, <1>3, <1>4, TakenSlot
    <3>2. QED BY <3>1, <1>5, <1>10
  <2>2. QED BY <2>1
<1>13. base .. base + n - 1 = (base .. base + First(b) - 1) \cup (base + First(b) .. base + n - 1)
  <2>1. First(b) \in Nat /\ n \in Nat /\ First(b) <= n
    <3>1. Cardinality(U) \in Nat
      BY <1>2, InsertersFinite
    <3>2. QED BY <3>1, <1>5, <1>6, <1>10
  <2>2. QED BY <2>1, <1>10
<1> DEFINE Ins == {[slot |-> pos[u], key |-> KeyOf(u), data |-> WrittenFor(u)] : u \in U}
<1>14. Ins = {Held(pos[u]) : u \in U}
  BY <1>7
<1> HIDE DEF Ins, U, n, base
<1>15. Pool(b) = before[b] \cup Ins
  <2>1. ASSUME NEW p \in Pool(b)
        PROVE  p \in before[b] \cup Ins
    <3>1. PICK s \in base .. base + n - 1 : p = Held(s)
      BY <1>8
    <3>2. CASE s \in base .. base + First(b) - 1
      BY <3>1, <3>2, <1>9
    <3>3. CASE s \in base + First(b) .. base + n - 1
      BY <3>1, <3>3, <1>11, <1>14
    <3>4. QED BY <3>1, <3>2, <3>3, <1>13
  <2>2. ASSUME NEW p \in before[b] \cup Ins
        PROVE  p \in Pool(b)
    <3>1. CASE p \in before[b]
      BY <3>1, <1>8, <1>9, <1>13
    <3>2. CASE p \in Ins
      BY <3>2, <1>8, <1>12, <1>14
    <3>3. QED BY <3>1, <3>2
  <2>3. QED BY <2>1, <2>2
<1>16. QED BY <1>5, <1>6, <1>15 DEF First, Ins, U

\* Whatever the kinds, grids and interleavings: when a thread block has ended,
\* the pool holds what it held and exactly what its threads inserted, and
\* vct_nadd_index counts it (insert, insertBlock, flush_block_insert).
THEOREM PoolsAreExact == Spec => []PoolExact
<1>1. IInv /\ PInv => PoolExact
  BY ExactWhenDone DEF PoolExact
<1>2. Init => PInv
  BY InitPInv
<1>3. IInv /\ PInv /\ [Next]_vars => PInv'
  BY NextFills
<1>4. QED BY <1>1, <1>2, <1>3, IInvAlways, PTL DEF Spec

=============================================================================
