------------------------------- MODULE MemFast -------------------------------
(***************************************************************************)
(* Mem_fast (src/src/NN/Mem_type/MemFast.hpp): the memory of the fast cell *)
(* list and of the Verlet list.  One block, cl_base, holds `slot' elements *)
(* for each cell; cl_n counts the elements of each cell.  When a cell is   *)
(* nearly full the block is copied into one with twice the slots.          *)
(*                                                                         *)
(*   mem[x]   slot, cl_n and cl_base of the object x (vectors are          *)
(*            functions from 0), n the size of cl_n                        *)
(*   moved    objects that lost their memory to a move assignment; the     *)
(*            client sets them again before using them                     *)
(*   ub       the last call wrote past the end of a block                  *)
(***************************************************************************)
EXTENDS Integers, Sequences

CONSTANTS
  Lists,        \* the objects of the program
  Elements,     \* what a cell stores: particle indices
  CellCounts,   \* the numbers of cells asked for
  SlotCounts,   \* the numbers of slots asked for (16, 128 or the user's)
  Uninit,       \* what new memory holds
  Calls,        \* the operations the client uses
  MaxElements   \* bound: a cell is not filled beyond this

Operations == {"add", "remove", "clear", "destroy", "copy", "swap", "move"}

ASSUME MemAssumption ==
  /\ CellCounts \subseteq Nat
  /\ SlotCounts \subseteq Nat
  /\ MaxElements \in Nat
  /\ Uninit \notin Elements
  /\ Calls \subseteq Operations

VARIABLES mem, moved, ub

vars == <<mem, moved, ub>>

-----------------------------------------------------------------------------

Cells(m) == 0 .. m.n - 1
NoBlock(s) ==
  [slot |-> s, n |-> 0, cl_n |-> [c \in 0 .. -1 |-> 0], cl_base |-> [i \in 0 .. -1 |-> Uninit]]

Init ==
  /\ \E s \in [Lists -> SlotCounts] : mem = [x \in Lists |-> NoBlock(s[x])]
  /\ moved = {}
  /\ ub = FALSE

Usable(x) == ~ub /\ x \notin moved

\* vector::resize keeps the elements that are in both sizes.
Resized(base, n) ==
  [i \in 0 .. n - 1 |-> IF i \in DOMAIN base THEN base[i] ELSE Uninit]

\* init_to_zero: the block is resized, not cleared.
InitToZero(x, s, n) ==
  /\ ~ub
  /\ mem' = [mem EXCEPT ![x] =
       [slot |-> s, n |-> n, cl_n |-> [c \in 0 .. n - 1 |-> 0],
        cl_base |-> Resized(mem[x].cl_base, n * s)]]
  /\ moved' = moved \ {x}
  /\ UNCHANGED ub

\* realloc: element j of cell i goes from slot*i + j to 2*slot*i + j.
\* (The first is a mutant: the cells keep their old places.)
ReallocInPlace(m) ==
  [slot |-> 2 * m.slot, n |-> m.n, cl_n |-> m.cl_n,
   cl_base |-> Resized(m.cl_base, 2 * m.slot * m.n)]

Realloc(m) ==
  LET w == 2 * m.slot
  IN  [slot |-> w, n |-> m.n, cl_n |-> m.cl_n,
       cl_base |-> [i \in 0 .. w * m.n - 1 |->
                      IF i % w < m.cl_n[i \div w]
                      THEN m.cl_base[m.slot * (i \div w) + (i % w)] ELSE Uninit]]

\* One slot of each cell stays free.
\* (The first two are mutants: none does, or growth comes one element late.)
GrownLate(m, c) == IF m.cl_n[c] > m.slot THEN Realloc(m) ELSE m
GrownWhenFull(m, c) == IF m.cl_n[c] >= m.slot THEN Realloc(m) ELSE m
Grown(m, c) == IF m.cl_n[c] + 1 >= m.slot THEN Realloc(m) ELSE m

AddCell(x, c, e) ==
  LET m == Grown(mem[x], c)
      at == m.slot * c + m.cl_n[c]
  IN  /\ "add" \in Calls /\ Usable(x)
      /\ c \in Cells(mem[x]) /\ mem[x].cl_n[c] < MaxElements
      /\ IF at \in DOMAIN m.cl_base
         THEN mem' = [mem EXCEPT ![x] =
                [slot |-> m.slot, n |-> m.n, cl_n |-> [m.cl_n EXCEPT ![c] = @ + 1],
                 cl_base |-> [m.cl_base EXCEPT ![at] = e]]] /\ UNCHANGED ub
         ELSE ub' = TRUE /\ UNCHANGED mem
      /\ UNCHANGED moved

\* remove(cell, ele): the count goes down, whatever ele is.
Remove(x, c, ele) ==
  /\ "remove" \in Calls /\ Usable(x)
  /\ c \in Cells(mem[x]) /\ ele < mem[x].cl_n[c]
  /\ mem' = [mem EXCEPT ![x].cl_n[c] = @ - 1]
  /\ UNCHANGED <<moved, ub>>

Clear(x) ==
  /\ "clear" \in Calls /\ Usable(x)
  /\ mem' = [mem EXCEPT ![x].cl_n = [c \in Cells(mem[x]) |-> 0]]
  /\ UNCHANGED <<moved, ub>>

\* destroy: both vectors become empty, slot stays.
Destroy(x) ==
  /\ "destroy" \in Calls /\ Usable(x)
  /\ mem' = [mem EXCEPT ![x] = NoBlock(@.slot)]
  /\ UNCHANGED <<moved, ub>>

\* operator=(const Mem_fast &), copy_general.
Copy(x, y) ==
  /\ "copy" \in Calls /\ Usable(y)
  /\ mem' = [mem EXCEPT ![x] = mem[y]]
  /\ moved' = moved \ {x}
  /\ UNCHANGED ub

\* swap(Mem_fast &): slots and both vectors.
Swap(x, y) ==
  /\ "swap" \in Calls /\ Usable(x) /\ Usable(y)
  /\ mem' = [mem EXCEPT ![x] = mem[y], ![y] = mem[x]]
  /\ UNCHANGED <<moved, ub>>

\* swap(Mem_fast &&), from CellList's move assignment: the vectors are
\* swapped; slot is only copied to the object assigned to.
\* (The first is a mutant: slot is left as it is.)
SwapMovedVectors(x, y) ==
  /\ "move" \in Calls /\ x # y /\ ~ub /\ y \notin moved
  /\ mem' = [mem EXCEPT ![x] = [mem[y] EXCEPT !.slot = mem[x].slot],
                        ![y] = [mem[x] EXCEPT !.slot = mem[y].slot]]
  /\ moved' = (moved \ {x}) \cup {y}
  /\ UNCHANGED ub

SwapMoved(x, y) ==
  /\ "move" \in Calls /\ x # y /\ ~ub /\ y \notin moved
  /\ mem' = [mem EXCEPT ![x] = mem[y], ![y] = [mem[x] EXCEPT !.slot = mem[y].slot]]
  /\ moved' = (moved \ {x}) \cup {y}
  /\ UNCHANGED ub

Next ==
  \E x \in Lists :
    \/ \E s \in SlotCounts, n \in CellCounts : InitToZero(x, s, n)
    \/ \E c \in Cells(mem[x]), e \in Elements : AddCell(x, c, e)
    \/ \E c \in Cells(mem[x]) : \E ele \in 0 .. mem[x].cl_n[c] - 1 : Remove(x, c, ele)
    \/ Clear(x)
    \/ Destroy(x)
    \/ \E y \in Lists : Copy(x, y) \/ Swap(x, y) \/ SwapMoved(x, y)

Spec == Init /\ [][Next]_vars

-----------------------------------------------------------------------------
(* Properties.                                                             *)

\* Every object has its counters and its block, and the block is as long as
\* slots and cells ask for, except in an object that was moved from.
TypeOK ==
  /\ DOMAIN mem = Lists
  /\ \A x \in Lists :
       /\ mem[x] = [slot |-> mem[x].slot, n |-> mem[x].n,
                    cl_n |-> mem[x].cl_n, cl_base |-> mem[x].cl_base]
       /\ mem[x].slot \in Nat /\ mem[x].n \in Nat
       /\ mem[x].cl_n \in [Cells(mem[x]) -> Nat]
       /\ x \notin moved =>
            mem[x].cl_base \in [0 .. mem[x].slot * mem[x].n - 1 -> Elements \cup {Uninit}]
  /\ moved \subseteq Lists
  /\ ub \in BOOLEAN

\* getStartId and getStopId hand the iterators pointers to the first element
\* of a cell and to the one past its last: both lie in the block and in the
\* slots of that cell, whatever was added, copied or swapped before.
StopInBlock ==
  \A x \in Lists \ moved : \A c \in Cells(mem[x]) :
    /\ mem[x].cl_n[c] < mem[x].slot
    /\ mem[x].slot * c + mem[x].cl_n[c] \in DOMAIN mem[x].cl_base

\* What get(cell, ele) shows of a memory: the cells as sequences.
View(m) == [c \in Cells(m) |->
              [k \in 1 .. m.cl_n[c] |-> m.cl_base[m.slot * c + (k - 1)]]]
Contents(x) == IF x \in moved THEN [c \in 0 .. -1 |-> <<>>] ELSE View(mem[x])

\* "a class that work like a vector of vector": slots, growth and the layout of
\* the block are invisible.
Cell == INSTANCE CellMemory WITH
          cells <- [x \in Lists |-> Contents(x)], stale <- moved
ImplementsCellMemory == Cell!Spec

\* "the maximum number of particle per slot if just an indication for
\* performance" (VerletListFast.hpp): whatever the slot count, addCell does not
\* write past the end of the block.  (True from one slot on; doubling does not
\* help when there are none.)
NoOverrun == ~ub
=============================================================================
