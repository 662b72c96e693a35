SPECIFICATION Spec
CONSTANTS
  KeyLen = 2
  NibbleBits = 2
  PatchBits = 4
  ByteBase = 2
  WordBytes = 3
  MaxInitialWrites = 3
  MaxCompressedLen = 300
  MaxEnumIndex = 7
  BLOB_CHUNK_SIZE = 1
  ELEMENTS_PER_4844_BLOCK = 2
  CodeByte = 1
  CodeWordLen = 2
  ChunkLen = 1
  LenModulus = 8
  GenesisTree <- MCGenesisTree
  BatchPrograms <- MCBatchPrograms
  HeapWords = 4
  MaxBatches = 2
  MaxDeviations = 2
INVARIANTS
  SettledFollowsTheTree
  HonestBatchIsAgreed
  PanicsOnlyOnImpossibleInput
