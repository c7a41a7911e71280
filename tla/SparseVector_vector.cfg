SPECIFICATION Spec
CONSTANTS
  BlockDim = 2
  Key = {1, 2, 3}
  NBlock = 2
  NSlot = 2
  Backgrounds = {b1, b2}
  Clients = {
    {"insert", "insertFlush", "flush", "clear", "swap"},
    {"insert", "flush", "setBackground"},
    {"device", "insertFlush", "preFlush", "flush"},
    {"device", "insert kernel", "flush", "clear"},
    {"device", "insertFlush", "remove kernel", "flush_remove", "setBackground"},
    {"device", "preFlush", "insert kernel", "flush", "swap", "removeUnusedBuffers"}}
  MaxInsert = 4
  MaxRemove = 1
  MaxPools = 3
INVARIANTS TypeOK IndexSorted SearchFinds
PROPERTIES FlushOrder ImplementsMap
