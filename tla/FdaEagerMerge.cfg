SPECIFICATION Spec
CONSTANTS
  L = 1
  T = 2
  M = 3
  Capacity = 9
  DeleteCap = 9
  LtiMedoid = 0
  Pids <- MCPids
  NoPid = NoPid
  NoSlot = NoSlot
  Buffers = {b1, b2, b3}
  InsertBatch = 2
  DeleteBatch = 1
  QueryBatch = 1
  SkipMerge = FALSE
  EagerMerge = TRUE
  IdsUsedOnce = FALSE
  MaxInserts = 4
  MaxDeletes = 2
  MaxQueries = 2
INVARIANTS NothingLost
