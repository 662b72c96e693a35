SPECIFICATION FairSpec
CONSTANTS
  KeyLen = 2
  Batches <- MCBatches
  MaxVersions = 3
  PrunedKeyCount = 2
  ReaderKeys <- NoReaderKeys
  MaxCrashes = 1
INVARIANTS
  VersionsAreRetained
  GarbageIsExact
PROPERTIES
  PrunerCatchesUp
CHECK_DEADLOCK FALSE
