--------------------------- MODULE MCCellListGpu ---------------------------
(* Two grids, of square and of oblong cells, and clients that construct    *)
(* twice over other particles, ranges and options.                         *)
EXTENDS CellListGpu

Grids == {Whole(<<0, 0>>, <<2, 2>>, <<2, 2>>, 1), Whole(<<0, 0>>, <<4, 2>>, <<1, 2>>, 1)}

\* The last one is a ghost particle; the second and third share a cell.
Four == << <<3, 1>>, <<0, 0>>, <<1, 1>>, <<-1, 2>> >>
Three == << <<2, 3>>, <<1, 0>>, <<5, 3>> >>
Crowd == << <<0, 3>>, <<1, 2>>, <<1, 3>>, <<1, -1>> >>
Five == Append(Crowd, <<2, 2>>)
None == <<>>

MakeCall(pl, start, stop, g_m, full) == [pl |-> pl, start |-> start, stop |-> stop, g_m |-> g_m, full |-> full]
All(pl, g_m, full) == MakeCall(pl, 0, Len(pl), g_m, full)

SomeClients ==
  {[sparse |-> FALSE, inits |-> 1, calls |-> <<All(Four, 3, TRUE), MakeCall(Three, 1, 3, 2, FALSE)>>],
   [sparse |-> FALSE, inits |-> 0, calls |-> <<MakeCall(Crowd, 1, 4, 3, TRUE), All(None, 0, TRUE), All(Three, 2, TRUE)>>],
   [sparse |-> FALSE, inits |-> 1, calls |-> <<All(Five, 4, TRUE)>>],
   [sparse |-> TRUE, inits |-> 1, calls |-> <<All(Four, 3, TRUE), All(Three, 2, TRUE)>>],
   [sparse |-> TRUE, inits |-> 0, calls |-> <<All(Crowd, 3, TRUE), All(None, 0, TRUE)>>]}
=============================================================================
