SPECIFICATION Spec
CONSTANTS
  Vertices <- MCVertices
  New <- MCNew
  Blocks <- MCBlocks
  BytesPerWord = 2
  R = 2
  dist <- MCDist
  AlphaNum = 6
  AlphaDen = 5
  Forward <- MCForward
  NoVertex = NoVertex
  NumWarps = 2
INVARIANTS TypeOK MutualExclusion BytesTellHolders ListsSound
PROPERTIES LinksOneByOne Termination
