SPECIFICATION Spec
CONSTANTS
  Slots <- MCSlots
  Threads <- MCThreads
  P = 2
  Stale = Stale
  R = 2
  dist <- MCDist
  AlphaNum = 6
  AlphaDen = 5
  Pids = {0, 1, 2, 3}
  Queries <- MCQueries
  IdsOf <- MCIdsOf
  L = 2
  BaseGraphs <- MCBaseGraphs
  BaseMedoids <- MCBaseMedoids
  InsertBatch = 2
  DeleteBatch = 2
  QueryBatch = 1
  SearchL = 3
  K = 2
  DelLd = 3
  DelK = 3
  DelC = 2
  MaxInserts = 4
  MaxDeletes = 2
  MaxQueries = 1
  NoPid = NoPid
  NoVertex = NoVertex
  MaxParents = 3
INVARIANTS TypeOK ListsSound PlacesWritten ListedOnce OneKindPending EntryPointLive AnswersStand
PROPERTIES StoreSpec Termination
