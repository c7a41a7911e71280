SPECIFICATION Spec
CONSTANTS
  Lists = {x, y}
  Particles = {1, 2}
  Points <- SomePoints
  Decompositions <- CoarseAndFine
  SubBoxes <- RightHalf
  Radii = {4}
  Calls = {"restrict", "dom", "pad", "radius", "clear", "destroy", "copy", "swap", "move"}
SYMMETRY Symmetry
INVARIANTS TypeOK CellContains RadiusIfCurrent
