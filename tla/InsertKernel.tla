---------------------------- MODULE InsertKernel ----------------------------
(***************************************************************************)
(* The threads of a kernel that inserts into a sparse vector or a block    *)
(* map (vector_sparse_gpu_ker::init, insert, flush_block_insert and        *)
(* BlockMapGpu_ker::insertBlock): how concurrent threads share the pool of *)
(* their thread block.  SparseVector takes a kernel as a whole.            *)
(*                                                                         *)
(* A kernel is launched on a grid of thread blocks; it is of one of three  *)
(* kinds, which differ in how a thread comes to a slot:                    *)
(*   element   some threads insert(ele) by themselves (insertValues,       *)
(*             insertValuesHalfBlock, insertOneValue)                      *)
(*   blocked   the first thread of each chunk of threads inserts for the   *)
(*             others (insertValuesBlocked: insertBlock with a stride)     *)
(*   sphere    the thread block inserts one chunk, if it has an active     *)
(*             thread (insertSphere)                                       *)
(* remove and flush_block_remove are element insertions on the other pool. *)
(***************************************************************************)
EXTENDS Integers, FiniteSets, Sequences

CONSTANTS
  NBlock,    \* thread blocks the insert buffer has pools for
  NThread,   \* largest number of threads in a block
  NSlot,     \* slots of a pool
  Grids      \* for each launch, the grids it may have; bound: as many launches

Grid == [kind : {"element", "blocked", "sphere"}, blocks : 1 .. NBlock,
         threads : 1 .. NThread, stride : 1 .. NThread]
MaxLaunch == Len(Grids)

ASSUME InsertKernelAssumption ==
  /\ NBlock \in Nat \ {0} /\ NThread \in Nat \ {0} /\ NSlot \in Nat \ {0}
  /\ Grids \in Seq(SUBSET Grid) /\ Grids # <<>> /\ Grids[1] # {}

VARIABLES
  vct_atomic_add,  \* shared by a thread block: the next free slot of its pool
  mem_,            \* shared by a thread block: the slot each leader took
  is_block_empty,  \* shared by a thread block: no active thread yet
  vct_add_index, vct_add_data,  \* the insert buffer: keys, and who wrote each element
  vct_nadd_index,  \* how many slots of each pool are used
  pc, pos,         \* of each thread: where it is, and the slot it holds
  kernel,          \* what runs: its grid, its active threads, and init_ins_inc or init
  launches,        \* launches so far
  before           \* history: what the pools held when the kernel was launched

shared == <<vct_atomic_add, mem_, is_block_empty>>
buffer == <<vct_add_index, vct_add_data, vct_nadd_index>>
vars == <<shared, buffer, pc, pos, kernel, launches, before>>

Blocks == 0 .. NBlock - 1
Tids == 0 .. NThread - 1
Thread == Blocks \X Tids
Slots == 0 .. NBlock * NSlot - 1

NoSlot == -1                    \* a register not yet set
NoKey == -1                     \* an index nobody wrote
Nobody == [o \in Tids |-> 0]    \* elements whose mask is 0; else the launch that wrote

Places == {"outside", "flag", "init", "init_sync", "active", "flag_sync", "take", "store",
           "share", "mem_sync", "load", "write", "end_sync", "flush", "done"}

-----------------------------------------------------------------------------
(* Threads of the running kernel.                                          *)

ThreadsOf(g) == {th \in Thread : th[1] < g.blocks /\ th[2] < g.threads}
Runs(th) == th \in ThreadsOf(kernel.grid)
Of(b) == {th \in Thread : Runs(th) /\ th[1] = b}
Active(th) == th \in kernel.active

\* insertBlock: threadIdx.x / stride is the chunk of a thread, and the first
\* thread of a chunk, its leader, inserts for the others.
Chunk(th) == th[2] \div kernel.grid.stride
Leads(th) == th[2] % kernel.grid.stride = 0
Offset(th) == th[2] % kernel.grid.stride

\* The key a thread inserts, from its place in the grid: dataBlockId.
KeyOf(th) == th[1] * NThread + Chunk(th)

\* Threads that take a slot of the pool.
Inserts(th) ==
  /\ Runs(th)
  /\ CASE kernel.grid.kind = "element" -> Active(th)
       [] kernel.grid.kind = "blocked" -> Leads(th)
       [] kernel.grid.kind = "sphere" -> Leads(th) /\ \E u \in Of(th[1]) : Active(u)

\* Threads that write an element, and the one that took their slot.
Writes(th) == Runs(th) /\ (kernel.grid.kind = "blocked" \/ Active(th))
TakerFor(th, u) == IF kernel.grid.kind = "element" THEN u = th
                   ELSE u[1] = th[1] /\ Leads(u) /\ Chunk(u) = Chunk(th)

Go(th, to) == pc' = [pc EXCEPT ![th] = to]

-----------------------------------------------------------------------------

Init ==
  /\ vct_atomic_add = [b \in Blocks |-> 0]
  /\ mem_ = [b \in Blocks |-> [c \in Tids |-> NoSlot]]
  /\ is_block_empty = [b \in Blocks |-> FALSE]
  /\ vct_add_index = [s \in Slots |-> NoKey]
  /\ vct_add_data = [s \in Slots |-> Nobody]
  /\ vct_nadd_index = [b \in Blocks |-> 0]
  /\ pc = [th \in Thread |-> "outside"]
  /\ pos = [th \in Thread |-> NoSlot]
  /\ kernel = [grid |-> CHOOSE g \in Grids[1] : TRUE, active |-> {}, inc |-> FALSE]
  /\ launches = 0
  /\ before = [b \in Blocks |-> {}]

Idle == \A th \in Thread : pc[th] \in {"outside", "done"}

\* What the first counted slots of the pool of b hold.
Pool(b) ==
  {[slot |-> s, key |-> vct_add_index[s], data |-> vct_add_data[s]] :
     s \in b * NSlot .. b * NSlot + vct_nadd_index[b] - 1}

\* BlockMapGpu::setGPUInsertBuffer: counters to zero, and the masks of all
\* slots too (initializeInsertBuffer).  The keys stay.
\* mutant: the masks are left as they were
SetGPUInsertBufferNoMask ==
  /\ Idle /\ launches \in 1 .. MaxLaunch - 1
  /\ vct_nadd_index' = [b \in Blocks |-> 0]
  /\ pc' = [th \in Thread |-> "outside"]
  /\ UNCHANGED <<shared, vct_add_index, vct_add_data, pos, kernel, launches, before>>
SetGPUInsertBuffer ==
  /\ Idle /\ launches \in 1 .. MaxLaunch - 1
  /\ vct_nadd_index' = [b \in Blocks |-> 0]
  /\ vct_add_data' = [s \in Slots |-> Nobody]
  /\ pc' = [th \in Thread |-> "outside"]
  /\ UNCHANGED <<shared, vct_add_index, pos, kernel, launches, before>>

\* Thread 0 begins with what it does before the barrier of init().
\* mutant: the other threads do not wait for it
StartNoSync(g, th) ==
  IF th \notin ThreadsOf(g) THEN "outside"
  ELSE IF th[2] = 0 THEN IF g.kind = "sphere" THEN "flag" ELSE "init"
  ELSE IF g.kind = "element" THEN "take" ELSE "init_sync"
Start(g, th) ==
  IF th \notin ThreadsOf(g) THEN "outside"
  ELSE IF th[2] = 0 THEN IF g.kind = "sphere" THEN "flag" ELSE "init"
  ELSE "init_sync"

\* A launch.  The client gave the pools slots enough for what a thread block
\* inserts, as nslot asks for, and begins with init() on fresh pools only:
\* nothing in the kernel checks either.  What shared memory holds is what the
\* last kernel left there.
Launch(g, active, inc) ==
  /\ Idle
  /\ inc \/ \A b \in Blocks : vct_nadd_index[b] = 0
  /\ g.kind = "blocked" => active = {}
  /\ kernel' = [grid |-> g, active |-> active, inc |-> inc]
  /\ \A b \in Blocks :
       vct_nadd_index[b] + Cardinality({th \in Thread : th[1] = b /\ Inserts(th)'}) <= NSlot
  /\ pc' = [th \in Thread |-> Start(g, th)]
  /\ pos' = [th \in Thread |-> NoSlot]
  /\ launches' = launches + 1
  /\ before' = [b \in Blocks |-> Pool(b)]
  /\ UNCHANGED <<shared, buffer>>

-----------------------------------------------------------------------------
(* Steps of a thread.  A step that touches no shared memory is part of the *)
(* one before it.                                                          *)

\* insertSphere: thread 0 sets the flag before init().
SetFlag(th) ==
  /\ pc[th] = "flag"
  /\ is_block_empty' = [is_block_empty EXCEPT ![th[1]] = TRUE]
  /\ Go(th, "init")
  /\ UNCHANGED <<vct_atomic_add, mem_, buffer, pos, kernel, launches, before>>

\* init, init_ins_inc: thread 0 resets the shared counter.
FirstSlotStale(b) == IF kernel.inc THEN vct_nadd_index[b] ELSE vct_atomic_add[b]   \* mutant: no reset
FirstSlot(b) == IF kernel.inc THEN vct_nadd_index[b] ELSE 0
Reset(th) ==
  /\ pc[th] = "init"
  /\ vct_atomic_add' = [vct_atomic_add EXCEPT ![th[1]] = FirstSlot(th[1])]
  /\ Go(th, "init_sync")
  /\ UNCHANGED <<mem_, is_block_empty, buffer, pos, kernel, launches, before>>

\* insertSphere: an active thread clears the flag.
ClearFlag(th) ==
  /\ pc[th] = "active"
  /\ is_block_empty' = [is_block_empty EXCEPT ![th[1]] = FALSE]
  /\ Go(th, "flag_sync")
  /\ UNCHANGED <<vct_atomic_add, mem_, buffer, pos, kernel, launches, before>>

\* insert: one atomicAdd gives the slot, the key is stored afterwards.
Take(th) ==
  /\ pc[th] = "take"
  /\ pos' = [pos EXCEPT ![th] = th[1] * NSlot + vct_atomic_add[th[1]]]
  /\ vct_atomic_add' = [vct_atomic_add EXCEPT ![th[1]] = @ + 1]
  /\ Go(th, "store")
  /\ UNCHANGED <<mem_, is_block_empty, buffer, kernel, launches, before>>

Store(th) ==
  /\ pc[th] = "store"
  /\ vct_add_index' = [vct_add_index EXCEPT ![pos[th]] = KeyOf(th)]
  /\ Go(th, IF kernel.grid.kind = "element" THEN "write" ELSE "share")
  /\ UNCHANGED <<shared, vct_add_data, vct_nadd_index, pos, kernel, launches, before>>

\* insertBlock: the leader puts its slot into shared memory, and behind a
\* barrier every thread of the chunk reads it.
Share(th) ==
  /\ pc[th] = "share"
  /\ mem_' = [mem_ EXCEPT ![th[1]][Chunk(th)] = pos[th]]
  /\ Go(th, "mem_sync")
  /\ UNCHANGED <<vct_atomic_add, is_block_empty, buffer, pos, kernel, launches, before>>

Load(th) ==
  /\ pc[th] = "load"
  /\ pos' = [pos EXCEPT ![th] = mem_[th[1]][Chunk(th)]]
  /\ Go(th, IF Writes(th) THEN "write" ELSE "end_sync")
  /\ UNCHANGED <<shared, buffer, kernel, launches, before>>

\* The client writes its element and sets its mask (setExist).
Write(th) ==
  /\ pc[th] = "write"
  /\ vct_add_data' = [vct_add_data EXCEPT ![pos[th]][Offset(th)] = launches]
  /\ Go(th, "end_sync")
  /\ UNCHANGED <<shared, vct_add_index, vct_nadd_index, pos, kernel, launches, before>>

\* flush_block_insert: thread 0 stores the counter.
Flush(th) ==
  /\ pc[th] = "flush"
  /\ vct_nadd_index' = [vct_nadd_index EXCEPT ![th[1]] = vct_atomic_add[th[1]]]
  /\ Go(th, "done")
  /\ UNCHANGED <<shared, vct_add_index, vct_add_data, pos, kernel, launches, before>>

-----------------------------------------------------------------------------
(* __syncthreads: all threads of the block have to be there.               *)

Barrier(b, at, to(_)) ==
  /\ Of(b) # {}
  /\ \A th \in Of(b) : pc[th] = at
  /\ pc' = [th \in Thread |-> IF th \in Of(b) THEN to(th) ELSE pc[th]]
  /\ UNCHANGED <<shared, buffer, pos, kernel, launches, before>>

\* Of a chunk, the leader inserts and the others wait for it (insertBlock).
\* mutant: the others do not wait
LeadOrReadNoSync(th) == IF Leads(th) THEN "take" ELSE "load"
LeadOrRead(th) == IF Leads(th) THEN "take" ELSE "mem_sync"

AfterInit(th) ==
  CASE kernel.grid.kind = "sphere" -> IF Active(th) THEN "active" ELSE "flag_sync"
    [] kernel.grid.kind = "blocked" -> LeadOrRead(th)
    [] kernel.grid.kind = "element" -> IF Active(th) THEN "take" ELSE "end_sync"

\* insertSphere: the whole block inserts, or none of its threads.
\* mutant: only active threads go into the branch with the barrier
BranchActive(th) == IF is_block_empty[th[1]] \/ ~Active(th) THEN "end_sync" ELSE LeadOrRead(th)
Branch(th) == IF is_block_empty[th[1]] THEN "end_sync" ELSE LeadOrRead(th)

SyncInit(b) == Barrier(b, "init_sync", AfterInit)
SyncFlag(b) == Barrier(b, "flag_sync", Branch)
SyncMem(b) == Barrier(b, "mem_sync", LAMBDA th : "load")
SyncEnd(b) == Barrier(b, "end_sync", LAMBDA th : IF th[2] = 0 THEN "flush" ELSE "done")

Step(th) ==
  \/ SetFlag(th) \/ Reset(th) \/ ClearFlag(th) \/ Take(th) \/ Store(th) \/ Share(th)
  \/ Load(th) \/ Write(th) \/ Flush(th)
Sync(b) == SyncInit(b) \/ SyncFlag(b) \/ SyncMem(b) \/ SyncEnd(b)

Next ==
  \/ SetGPUInsertBuffer
  \/ launches < MaxLaunch /\ \E g \in Grids[launches + 1] : \E active \in SUBSET ThreadsOf(g), inc \in BOOLEAN : Launch(g, active, inc)
  \/ \E th \in Thread : Step(th)
  \/ \E b \in Blocks : Sync(b)

\* The device runs every thread of a launched block on, and no kernel waits
\* for the host: what a thread can do it does in the end.
Fairness ==
  /\ \A th \in Thread : WF_vars(Step(th))
  /\ \A b \in Blocks : WF_vars(Sync(b))

Spec == Init /\ [][Next]_vars /\ Fairness

-----------------------------------------------------------------------------
(* Properties.                                                             *)

\* Every variable has its type; the counters stay within the pools.
TypeOK ==
  /\ vct_atomic_add \in [Blocks -> 0 .. NSlot]
  /\ mem_ \in [Blocks -> [Tids -> Slots \cup {NoSlot}]]
  /\ is_block_empty \in [Blocks -> BOOLEAN]
  /\ vct_add_index \in [Slots -> Int]
  /\ vct_add_data \in [Slots -> [Tids -> 0 .. MaxLaunch]]
  /\ vct_nadd_index \in [Blocks -> 0 .. NSlot]
  /\ pc \in [Thread -> Places]
  /\ pos \in [Thread -> Slots \cup {NoSlot}]
  /\ kernel \in [grid : Grid, active : SUBSET Thread, inc : BOOLEAN]
  /\ launches \in 0 .. MaxLaunch

\* However the threads interleave, no two insertions get the same slot, of
\* whatever thread blocks they are (vector_sparse_gpu_ker::insert).
SlotsDisjoint ==
  \A th, u \in Thread :
    /\ Inserts(th) /\ Inserts(u)
    /\ pos[th] # NoSlot /\ pos[u] # NoSlot
    /\ th # u
    => pos[th] # pos[u]

\* A thread writes into the slot its leader took for this chunk, never into
\* one left in shared memory or of another chunk (insertBlock).
SameSlot ==
  \A th, u \in Thread :
    pc[th] = "write" /\ Runs(u) /\ TakerFor(th, u) => pos[th] = pos[u] /\ pos[th] # NoSlot

\* When a thread block has ended, its pool holds what it held, if the kernel
\* began with init_ins_inc, and one slot for each insertion, with its key and
\* with exactly the elements written by its threads: nothing is lost, counted
\* twice, or mixed with what an earlier kernel left.
WrittenFor(u) ==
  [o \in Tids |-> IF \E th \in Thread : Writes(th) /\ TakerFor(th, u) /\ Offset(th) = o
                  THEN launches ELSE 0]
PoolExact ==
  \A b \in Blocks :
    Of(b) # {} /\ (\A th \in Of(b) : pc[th] = "done") =>
      /\ Pool(b) = before[b] \cup {[slot |-> pos[u], key |-> KeyOf(u), data |-> WrittenFor(u)] :
                                     u \in {th \in Of(b) : Inserts(th)}}
      /\ vct_nadd_index[b] = Cardinality(before[b]) + Cardinality({th \in Of(b) : Inserts(th)})

\* Every kernel ends: no thread waits at a barrier for one that never comes.
KernelEnds == ~Idle ~> Idle
=============================================================================
