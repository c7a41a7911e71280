----------------------------- MODULE SparseMap -----------------------------
(***************************************************************************)
(* What a sparse grid promises its client, with none of its machinery: a   *)
(* partial function from the points of a row to values.  No chunks, no     *)
(* cache, no list of empty chunks, no renumbering.  SparseGrid implements  *)
(* it (see the refinement mapping there).                                  *)
(***************************************************************************)
EXTENDS Integers

CONSTANTS Points,   \* the points a grid of the largest size can have
          Values    \* what a point can store

VARIABLE store      \* the points inserted and not removed, with their values

Maps == UNION {[D -> Values] : D \in SUBSET Points}

Keep(D) == [p \in DOMAIN store \cap D |-> store[p]]

-----------------------------------------------------------------------------

Init == store = [p \in {} |-> CHOOSE v \in Values : TRUE]

\* insert<p>(key) = v: the point exists afterwards and has the value.
Put(p, v) ==
  store' = [q \in DOMAIN store \cup {p} |-> IF q = p THEN v ELSE store[q]]

\* remove(key), or remove(box): every point of D is gone, nothing else moved.
Delete(D) == store' = Keep(Points \ D)

\* resize(sz): "The old information is retained on the new grid if the new
\* grid is bigger.  When smaller the data are cropped."  The promise kept here
\* is the first half for every size: what fits into the new grid is retained;
\* some of what does not fit goes.
Resize(sz) ==
  \E gone \in SUBSET {p \in Points : p >= sz} : store' = Keep(Points \ gone)

Next ==
  \/ \E p \in Points, v \in Values : Put(p, v)
  \/ \E lo, hi \in Points : Delete(lo..hi)
  \/ \E sz \in Points : Resize(sz)
  \/ Delete(Points)                        \* clear()

Spec == Init /\ [][Next]_store
=============================================================================
