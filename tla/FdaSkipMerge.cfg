SPECIFICATION Spec
CONSTANTS
  L = 1
  T = 2
  M = 2
  Capacity = 7
  DeleteCap = 7
  LtiMedoid = 0
  Pids <- MCPids
  NoPid = NoPid
  NoSlot = NoSlot
  Buffers = {b1, b2}
  InsertBatch = 2
  DeleteBatch = 2
  QueryBatch = 2
  SkipMerge = TRUE
  EagerMerge = FALSE
  IdsUsedOnce = TRUE
  MaxInserts = 5
  MaxDeletes = 2
  MaxQueries = 2
INVARIANTS NothingLost NothingResurrected AnswersTranslateAtTheEnd
PROPERTIES StoreSpec Termination
