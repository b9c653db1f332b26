SPECIFICATION Spec
CONSTANTS
  Vertices <- MCVertices
  Targets <- MCTargets
  dist <- MCDist
  NoVertex = NoVertex
  MaxParents = 4
  CheckInterval = 2
  Inputs <- MCInputs
INVARIANTS TypeOK ListInOrder KeepsTheNearest StaleMergeIsHarmless ClosedWhenDone AsIfAlone
