SPECIFICATION Spec
CONSTANTS
  L = 1
  T = 2
  M = 2
  Capacity = 8
  DeleteCap = 8
  LtiMedoid = 0
  Pids <- MCPids
  NoPid = NoPid
  NoSlot = NoSlot
  Buffers = {b1, b2, b3}
  InsertBatch = 2
  DeleteBatch = 1
  QueryBatch = 1
  SkipMerge = FALSE
  EagerMerge = FALSE
  IdsUsedOnce = TRUE
  MaxInserts = 5
  MaxDeletes = 0
  MaxQueries = 0
PROPERTIES RwUndisturbed
