SPECIFICATION Spec
CONSTANTS
  ChunkSize = 1
  Sizes = {3}
  Values = {1}
  Calls = {"insert", "conv", "conv_cross", "get"}
  FLUSH_REMOVE = 4
  InsertionSortMax = 16
  Garbage = {0, 9}
  MaxChunks = 5
  MaxEmpty = 3
INVARIANTS FillFindsNeighbours
CHECK_DEADLOCK FALSE
