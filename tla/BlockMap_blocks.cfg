SPECIFICATION Spec
CONSTANTS
  BlockDim = 2
  Chunks = {1, 2, 3}
  Offset = {1, 2}
  ChunksPerBlock = 2
  Clients <- SmallClients
  Backgrounds <- TwoBackgrounds
  MaxInsert = 5
INVARIANTS TypeOK GetAnswers
PROPERTIES ImplementsMap
