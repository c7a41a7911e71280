SPECIFICATION Spec
CONSTANTS
  Lists = {x, y}
  Elements = {p, q}
  CellCounts = {2}
  SlotCounts = {1}
  Uninit = Uninit
  Calls = {"add", "remove", "clear", "destroy", "copy", "swap", "move"}
  MaxElements = 2
SYMMETRY Symmetry
INVARIANTS TypeOK StopInBlock NoOverrun
PROPERTIES ImplementsCellMemory
