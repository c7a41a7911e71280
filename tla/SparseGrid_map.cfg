SPECIFICATION Spec
CONSTANTS
  ChunkSize = 1
  Sizes = {3}
  Values = {1, 2}
  Calls = {"insert", "get", "remove", "remove_no_flush", "flush_remove", "remove_box"}
  FLUSH_REMOVE = 2
  InsertionSortMax = 16
  Garbage = {0}
  MaxChunks = 5
  MaxEmpty = 2
INVARIANTS GetIsContents
PROPERTIES ImplementsMap
