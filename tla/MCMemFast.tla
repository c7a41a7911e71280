----------------------------- MODULE MCMemFast ------------------------------
(***************************************************************************)
(* MemFast for TLC.  No operation and no property names a list or an       *)
(* element, so states that differ by a permutation of either are explored  *)
(* once.                                                                   *)
(***************************************************************************)
EXTENDS MemFast, TLC

Symmetry == Permutations(Lists) \cup Permutations(Elements)
=============================================================================
