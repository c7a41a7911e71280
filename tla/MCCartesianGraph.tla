-------------------------- MODULE MCCartesianGraph --------------------------
(* Small graphs, and the calls of the factory on grids of up to 3 x 3 cells *)
(* and on grids of two cells in each of three dimensions.                   *)
EXTENDS CartesianGraph

\* one client copies, swaps and moves two small graphs; the other builds one
\* graph and iterates over its edges while it does
SmallClients ==
  {[uses |-> Graphs, writes |-> {Unset, 1}, vertices |-> 2, edges |-> 2,
    calls |-> {"new", "addVertex", "addEdge", "addEdgeChecked", "clear", "assign", "swap", "move"}],
   [uses |-> {Out}, writes |-> {1}, vertices |-> 3, edges |-> 3,
    calls |-> {"new", "addVertex", "addEdge", "clear", "iterate"}]}

SmallNews == {<<0, 2>>, <<2, 1>>}

Calls(szs) ==
  UNION {[sz : {sz}, bc : SUBSET DOMAIN sz, dim_c : 0 .. Len(sz) - 1,
          szd : {[s \in DOMAIN sz |-> 1]}] : sz \in szs}

SmallGrids ==
  Calls((UNION {[1 .. d -> 1 .. 3] : d \in 1 .. 2}) \union {<<2, 2, 2>>, <<1, 2, 2>>, <<3, 1, 2>>})
=============================================================================
