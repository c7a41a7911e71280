SPECIFICATION Spec
CONSTANTS
  ChunkSize = 2
  Sizes = {5}
  Values = {1}
  Calls = {"insert", "get", "remove", "remove_no_flush", "flush_remove", "remove_box"}
  FLUSH_REMOVE = 2
  InsertionSortMax = 16
  Garbage = {0}
  MaxChunks = 5
  MaxEmpty = 3
INVARIANTS TypeOK MapIsHeaders CacheIsMap CountIsMask EmptyIsListed
