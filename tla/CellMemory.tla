----------------------------- MODULE CellMemory -----------------------------
(***************************************************************************)
(* What the memory of a cell list promises ("a class that work like a      *)
(* vector of vector"): each list has a number of cells and each cell a     *)
(* sequence of elements.  No slots, no block, no growth.                   *)
(***************************************************************************)
EXTENDS Sequences, Integers

CONSTANTS Lists,      \* the objects of the program
          Elements,   \* what a cell stores: particle indices
          CellCounts  \* the numbers of cells a list is given

VARIABLES cells,      \* for each list, its cells
          stale       \* lists that were moved from: not used before they are set again

vars == <<cells, stale>>

Empty(n) == [c \in 0 .. n - 1 |-> <<>>]

-----------------------------------------------------------------------------

Init == cells = [x \in Lists |-> Empty(0)] /\ stale = {}

\* init_to_zero
Reset(x, n) == cells' = [cells EXCEPT ![x] = Empty(n)] /\ stale' = stale \ {x}

Add(x, c, e) ==
  /\ x \notin stale /\ c \in DOMAIN cells[x]
  /\ cells' = [cells EXCEPT ![x][c] = Append(@, e)]
  /\ UNCHANGED stale

\* "ele: element id to remove": that element goes, the others stay in order.
Remove(x, c, i) ==
  /\ x \notin stale /\ c \in DOMAIN cells[x] /\ i \in 1 .. Len(cells[x][c])
  /\ cells' = [cells EXCEPT ![x][c] =
                 SubSeq(@, 1, i - 1) \o SubSeq(@, i + 1, Len(@))]
  /\ UNCHANGED stale

\* "Delete all the elements in the Cell-list": the cells stay.
Clear(x) ==
  /\ x \notin stale
  /\ cells' = [cells EXCEPT ![x] = [c \in DOMAIN @ |-> <<>>]]
  /\ UNCHANGED stale

\* "Destroy the internal memory": no cell is left.
Destroy(x) ==
  /\ x \notin stale
  /\ cells' = [cells EXCEPT ![x] = Empty(0)]
  /\ UNCHANGED stale

Copy(x, y) ==
  /\ y \notin stale
  /\ cells' = [cells EXCEPT ![x] = cells[y]]
  /\ stale' = stale \ {x}

Swap(x, y) ==
  /\ {x, y} \cap stale = {}
  /\ cells' = [cells EXCEPT ![x] = cells[y], ![y] = cells[x]]
  /\ UNCHANGED stale

\* x takes what y has.
Move(x, y) ==
  /\ x # y /\ y \notin stale
  /\ cells' = [cells EXCEPT ![x] = cells[y], ![y] = Empty(0)]
  /\ stale' = (stale \ {x}) \cup {y}

Next ==
  \E x \in Lists :
    \/ \E n \in CellCounts : Reset(x, n)
    \/ \E c \in DOMAIN cells[x], e \in Elements : Add(x, c, e)
    \/ \E c \in DOMAIN cells[x] : \E i \in 1 .. Len(cells[x][c]) : Remove(x, c, i)
    \/ Clear(x)
    \/ Destroy(x)
    \/ \E y \in Lists : Copy(x, y) \/ Swap(x, y) \/ Move(x, y)

Spec == Init /\ [][Next]_vars
=============================================================================
