SPECIFICATION Spec
CONSTANTS
  Vertices <- MCVertices
  NumWarps = 3
  part <- MCPart
  dist <- MCDist
  R = 2
  AlphaNum = 6
  AlphaDen = 5
  Inputs <- MCInputs
INVARIANTS SurvivorsSelected
