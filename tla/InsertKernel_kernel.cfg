SPECIFICATION Spec
CONSTANTS
  NBlock = 2
  NThread = 4
  NSlot = 4
  Grids <- FirstAndSecond
INVARIANTS TypeOK SlotsDisjoint SameSlot PoolExact
PROPERTIES KernelEnds
CHECK_DEADLOCK FALSE
