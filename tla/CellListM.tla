----------------------------- MODULE CellListM -----------------------------
(***************************************************************************)
(* CellListM (NN/CellList/CellListM.hpp): a cell list with the particles   *)
(* of several vectors, the phases.  What a cell stores is a key, the phase *)
(* in the high bits of an integer and the index in its vector in the low   *)
(* ones: Phases and Indices are how many values the sh_byte bits and the   *)
(* rest of a size_t have.  Positions belong to keys:                       *)
(* ps.get(getV(q)).pos.get(getP(q)).                                       *)
(*                                                                         *)
(* CellListM::swap exchanges the list with itself, so there is no step for *)
(* it.                                                                     *)
(***************************************************************************)
EXTENDS CellList

CONSTANTS Phases, Indices

ASSUME KeyAssumption == Phases \in Nat \ {0} /\ Indices \in Nat \ {0}

\* ele | (v_id << index bits): an index has to fit, and a phase is cut.
Key(v, i) == i + ((v * Indices) % (Phases * Indices))

GetP(q) == q % Indices
GetV(q) == q \div Indices

\* operator=(CellListM &&) exchanges the two.
MoveM(x, y) == Swap(x, y)

\* A mutant of NotBeforeM: particles of two phases are compared by index.
NotBeforeInAnyPhase(p, q) ==
  \/ pos[p][2] < pos[q][2]
  \/ pos[p][2] = pos[q][2] /\ pos[p][1] < pos[q][1]
  \/ pos[p] = pos[q] /\ GetP(p) < GetP(q)

\* CellNNIteratorSymM: in the cell of p, the particles that are not before p
\* by coordinate; of the particles in the same place those of other phases
\* and those that are not before p by index.
NotBeforeM(p, q) ==
  \/ pos[p][2] < pos[q][2]
  \/ pos[p][2] = pos[q][2] /\ pos[p][1] < pos[q][1]
  \/ pos[p] = pos[q] /\ (GetV(q) # GetV(p) \/ GetP(q) >= GetP(p))

MetSymM(x, p, q) ==
  LET c == GetCell(geo[x], pos[p])
  IN  Visits(x, c, sym[x] \ {0}, q)
        + IF NotBeforeM(p, q) THEN Visits(x, c, {0}, q) ELSE 0
=============================================================================
