SPECIFICATION Spec
CONSTANTS
  L = 1
  T = 2
  M = 2
  Capacity = 10
  DeleteCap = 10
  LtiMedoid = 0
  Pids <- MCPids
  NoPid = NoPid
  NoSlot = NoSlot
  Buffers = {b1, b2, b3}
  InsertBatch = 2
  DeleteBatch = 1
  QueryBatch = 1
  SkipMerge = FALSE
  EagerMerge = FALSE
  IdsUsedOnce = FALSE
  MaxInserts = 7
  MaxDeletes = 1
  MaxQueries = 0
INVARIANTS TypeOK IndexLayout WithinCapacity AnswersTranslate LiveBufferKept
PROPERTIES SpawnAfterJoin LtiOnlyLosesTombstones UndisturbedSwapKeepsAnswers Termination
