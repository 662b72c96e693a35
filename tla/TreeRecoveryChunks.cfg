SPECIFICATION Spec
CONSTANTS
  KeyLen = 3
  Snapshot <- MCSnapshot
  Version = 1
  MaxChunk = 2
  LaterBatches <- MCLaterBatches
INVARIANTS
  RecoveryIsExact
PROPERTIES
  LaterBatchHasSameOutcome
CHECK_DEADLOCK FALSE
