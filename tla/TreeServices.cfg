SPECIFICATION ServicesSpec
CONSTANTS
  KeyLen = 2
  Batches <- MCServedBatches
  MaxVersions = 3
  PrunedKeyCount = 2
  ReaderKeys <- MCReaderKeys
  MaxCrashes = 0
  Parallelism = 2
INVARIANTS
  ReadsAreRight
  RepairIsSafe
PROPERTIES
  RepairCatchesUp
CHECK_DEADLOCK FALSE
