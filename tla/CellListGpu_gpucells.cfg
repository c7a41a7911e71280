SPECIFICATION Spec
CONSTANTS
  Geometries <- Grids
  Radii = {2}
  Clients <- SomeClients
INVARIANTS ConstructedExactly NeighboursOnce
CHECK_DEADLOCK FALSE
