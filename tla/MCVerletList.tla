---------------------------- MODULE MCVerletList ----------------------------
(***************************************************************************)
(* Two Verlet lists over the right half of an 8 by 8 box, cut-offs that    *)
(* divide it differently, and clients of one and of two phases.            *)
(***************************************************************************)
EXTENDS VerletList, TLC

TheBox == [low |-> <<0, 0>>, high |-> <<8, 8>>]
RightHalf == [low |-> <<4, 0>>, high |-> <<8, 8>>]
TwoVerlets == {"v", "w"}
FourLists == {"cli of v", "cli of w", "x", "y"}
CliOf == [l \in TwoVerlets |-> IF l = "v" THEN "cli of v" ELSE "cli of w"]

\* Cells the client divides the box into, one thick enough for the radius.
Coarse == Whole(<<0, 0>>, <<4, 4>>, <<2, 2>>, 1)
Fine == Whole(<<0, 0>>, <<2, 2>>, <<4, 4>>, 2)
CoarseAndFine == {Coarse, Fine}

Frame(multi, gm0, at0) == [multi |-> multi, gm |-> gm0, at |-> at0]

\* The last particle is a ghost, left or right of the domain: pairs in one
\* cell, across cells, at the cut-off, and two particles in one place.
SingleFrames ==
  {Frame(FALSE, 0 :> 3, 0 :> <<4, 4>> @@ 1 :> <<5, 3>> @@ 2 :> <<7, 3>> @@ 3 :> <<3, 4>>),
   Frame(FALSE, 0 :> 3, 0 :> <<5, 6>> @@ 1 :> <<5, 6>> @@ 2 :> <<6, 5>> @@ 3 :> <<8, 7>>)}

\* Phase 1 begins at key 4.
TwoPhases ==
  {Frame(TRUE, 0 :> 2 @@ 1 :> 2, 0 :> <<5, 3>> @@ 1 :> <<6, 1>> @@ 4 :> <<5, 2>> @@ 5 :> <<7, 1>>),
   Frame(TRUE, 0 :> 1 @@ 1 :> 2, 0 :> <<5, 5>> @@ 1 :> <<3, 5>> @@ 4 :> <<5, 5>> @@ 5 :> <<6, 4>>)}

TheFrames == SingleFrames \cup TwoPhases

SomeClients ==
  {[multi |-> FALSE, max |-> 4, ops |-> {"box", "update", "drift", "copy", "swap", "move", "clear"}],
   [multi |-> FALSE, max |-> 4, ops |-> {"sym", "update", "drift", "copy", "swap"}],
   [multi |-> FALSE, max |-> 4, ops |-> {"sym", "crs", "drift", "swap", "move"}],
   [multi |-> FALSE, max |-> 4, ops |-> {"fill", "external", "drift", "copy"}],
   [multi |-> TRUE, max |-> 4, ops |-> {"fill", "external", "moveM", "drift", "swap"}]}
=============================================================================
