----------------------------- MODULE MCBlockMap -----------------------------
(***************************************************************************)
(* Two blocks of two points, and thread blocks that reduce two chunks at a *)
(* time (BlockMapGpu<DataBlock<float, 64>, 128>, as the tests have it).    *)
(***************************************************************************)
EXTENDS BlockMap

TwoBackgrounds == {SetToBag({-1}), SetToBag({-2})}

One(b, points) == [block |-> b, points |-> points]
OneSlot == {<<One(b, s)>> : b \in Chunks, s \in {{}, {1}, Offset}}
TwoSlots == {<<One(c, {1}), One(b, s)>> : b, c \in Chunks, s \in {{1}, {2}}}
\* One block many times: whole rounds of the reduction, what is left, and pairs.
Many == {[i \in 1..n |-> One(2, {IF i % 2 = 0 THEN 1 ELSE o})] : n \in 3..5, o \in Offset}

SmallClients ==
  {[uses |-> {"insertFlush"}, launches |-> TwoSlots, most |-> 4],
   [uses |-> {"remove"}, launches |-> OneSlot, most |-> 3],
   [uses |-> {"insertFlush", "clear"}, launches |-> Many, most |-> 5],
   [uses |-> {"setBackground", "remove"}, launches |-> Many, most |-> 5]}
=============================================================================
