SPECIFICATION Spec
CONSTANTS
  ChunkSize = 2
  Sizes = {1, 2, 4}
  Values = {1}
  Calls = {"insert", "remove_no_flush", "resize", "clear", "reorder"}
  FLUSH_REMOVE = 4
  InsertionSortMax = 16
  Garbage = {0}
  MaxChunks = 5
  MaxEmpty = 3
INVARIANTS BackgroundFirst
PROPERTIES ImplementsMap
