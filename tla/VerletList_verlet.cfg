SPECIFICATION VSpec
CONSTANTS
  Lists <- FourLists
  Particles = {0, 1, 2, 3, 4, 5}
  Points = {}
  Decompositions <- CoarseAndFine
  SubBoxes = {}
  Radii = {2, 4}
  Calls = {"copy", "swap"}
  Phases = 2
  Indices = 4
  Verlets <- TwoVerlets
  Cli <- CliOf
  External = {"x", "y"}
  Box <- TheBox
  Dom <- RightHalf
  Ghost = 2
  Frames <- TheFrames
  Clients <- SomeClients

INVARIANTS FullListExact SymListOnce CrsListOnce

CHECK_DEADLOCK FALSE
