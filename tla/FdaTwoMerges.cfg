SPECIFICATION Spec
CONSTANTS
  L = 1
  T = 2
  M = 2
  Capacity = 7
  DeleteCap = 7
  LtiMedoid = 0
  Pids <- MCPids
  NoPid = NoPid
  NoSlot = NoSlot
  Buffers = {b1, b2, b3}
  InsertBatch = 2
  DeleteBatch = 1
  QueryBatch = 1
  SkipMerge = FALSE
  EagerMerge = TRUE
  IdsUsedOnce = TRUE
  MaxInserts = 4
  MaxDeletes = 0
  MaxQueries = 1
INVARIANTS OneMergeAtATime
