----------------------------- MODULE ReducedMap -----------------------------
(***************************************************************************)
(* What a sparse vector promises: a map from keys to values in which every *)
(* flushed insertion counts exactly once.  No pools, no sorting, no search *)
(* and no thread blocks.  SparseVector and BlockMap implement it.          *)
(*                                                                         *)
(* An insertion is known by its number, so a value is the bag of the       *)
(* insertions reduced into it: this is what sadd_, smin_, smax_ and every  *)
(* other commutative reduction can tell apart.                             *)
(***************************************************************************)
EXTENDS Integers, Bags

CONSTANTS Key, Backgrounds, MaxInsert

VARIABLES content,   \* flushed: for each key that exists, its insertions
          pending,   \* inserted and not flushed: pairs of key and insertion
          doomed,    \* what the remove buffer holds
          bg,        \* what get returns for a key that does not exist
          spare      \* content and pending of the vector swap is called with

vars == <<content, pending, doomed, bg, spare>>

Ins == 1 .. MaxInsert
Nothing == [k \in {} |-> EmptyBag]

-----------------------------------------------------------------------------

Init ==
  /\ content = Nothing
  /\ pending = {}
  /\ doomed = {}
  /\ bg \in Backgrounds
  /\ spare = [content |-> Nothing, pending |-> {}]

\* insert, on the host or by a thread: one more insertion waits for the flush.
\* A kernel that begins with init() starts the buffer again.
Insert(k, n) ==
  /\ \/ pending' = pending \cup {<<k, n>>}
     \/ pending' = {<<k, n>>}
  /\ UNCHANGED <<content, doomed, bg, spare>>

\* The buffer is filled as a whole, or dropped.
Fill ==
  /\ pending' \in SUBSET (Key \X Ins)
  /\ UNCHANGED <<content, doomed, bg, spare>>

\* insertFlush: no flush needed, and what the key had is replaced.
Assign(k, n) ==
  /\ content' = [j \in DOMAIN content \cup {k} |-> IF j = k THEN SetToBag({n}) ELSE content[j]]
  /\ UNCHANGED <<pending, doomed, bg, spare>>

\* Every pending insertion is reduced into the value of its key, once.
Flush ==
  LET Waiting(k) == {n \in Ins : <<k, n>> \in pending}
      Old(k) == IF k \in DOMAIN content THEN content[k] ELSE EmptyBag
  IN /\ content' = [k \in DOMAIN content \cup {p[1] : p \in pending}
                      |-> Old(k) (+) SetToBag(Waiting(k))]
     /\ pending' = {}
     /\ UNCHANGED <<doomed, bg, spare>>

Remove(k) ==
  /\ \/ doomed' = doomed \cup {k}
     \/ doomed' = {k}
     \/ doomed' = {}
  /\ UNCHANGED <<content, pending, bg, spare>>

\* The keys of the remove buffer are gone, the others are what they were.
FlushRemove ==
  /\ content' = [k \in DOMAIN content \ doomed |-> content[k]]
  /\ UNCHANGED <<pending, doomed, bg, spare>>

\* A removal that needs no flush.
Drop(k) ==
  /\ content' = [j \in DOMAIN content \ {k} |-> content[j]]
  /\ UNCHANGED <<pending, doomed, bg, spare>>

SetBackground ==
  /\ bg' \in Backgrounds
  /\ UNCHANGED <<content, pending, doomed, spare>>

Clear ==
  /\ content' = Nothing /\ pending' = {} /\ doomed' = {}
  /\ UNCHANGED <<bg, spare>>

Swap ==
  /\ spare' = [content |-> content, pending |-> pending]
  /\ content' = spare.content /\ pending' = spare.pending
  /\ UNCHANGED <<doomed, bg>>

Next ==
  \/ \E k \in Key, n \in Ins : Insert(k, n) \/ Assign(k, n)
  \/ \E k \in Key : Remove(k) \/ Drop(k)
  \/ Fill \/ Flush \/ FlushRemove \/ SetBackground \/ Clear \/ Swap

Spec == Init /\ [][Next]_vars
=============================================================================
