----------------------------- MODULE MCCellList -----------------------------
(***************************************************************************)
(* CellList for TLC: decompositions of the box from <<0, 0>> to <<8, 8>>,  *)
(* and the half of it a processor may own.  The points lie on the corners  *)
(* and the inside of cells, and on both sides of the border between the    *)
(* box and its padding.                                                    *)
(***************************************************************************)
EXTENDS CellList, TLC

Coarse == Whole(<<0, 0>>, <<4, 4>>, <<2, 2>>, 1)
Fine == Whole(<<0, 0>>, <<2, 2>>, <<4, 4>>, 2)
Wide == Whole(<<0, 0>>, <<2, 4>>, <<4, 2>>, 1)

CoarseAndFine == {Coarse, Fine}
AllDecompositions == {Coarse, Fine, Wide}

RightHalf == {[low |-> <<4, 0>>, high |-> <<8, 8>>]}

SomePoints == {<<1, 1>>, <<4, 3>>, <<6, 1>>, <<8, 5>>, <<-2, 1>>}

Symmetry == Permutations(Lists)
=============================================================================
