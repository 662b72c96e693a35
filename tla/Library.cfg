SPECIFICATION LibrarySpec
CONSTANTS
    KEY_SIZE = 32
    HASH_SIZE = 32
    VersionBytes = 2
    ByteBase = 2
    WordBytes = 4
    MaxInitialWrites = 3
    MaxCompressedLen = 300
    MaxEnumIndex = 7
    Slots = {s1, s2}
    InitialSlots = {s1}
    SlotValues = {0, 1, 6}
    MaxLogs = 2
    MaxCalls = 4
    MaxDedupSnapshots = 2
    PatchBits = 4
    BLOB_CHUNK_SIZE = 1
    ELEMENTS_PER_4844_BLOCK = 2
    CodeByte = 3
    CodeWordLen = 2
    ChunkLen = 1
    LenModulus = 8
    PriceLimit = 64
    MAX_GAS_PER_PUBDATA_BYTE = 6
    L1_GAS_PER_PUBDATA_BYTE = 3
    ViewSlots = {k1, k2}
    ViewValues = {1, 2}
    MaxViewCalls = 4
    ReasonByte = 3
    ReasonWord = 2
    ReasonSelector = 1
    Keys <- MCKeys
    Hashes32 <- MCHashes32
    Numbers <- MCNumbers
    Manifests <- MCManifests
    Codes <- MCCodes
    PubdataEvents <- MCPubdataEvents
    MaxEvents = 3
    PubdataInputs <- MCPubdataInputs
    Wires <- MCWires
    FeeInputs <- MCFeeInputs
    MaxPrice = 7
    MaxData = 7
    GuestUsize = 7
    HostUsize = 26
    MaxLeaves = 9
    b1 = b1
    b2 = b2
    b3 = b3
    Batches = {b1, b2, b3}
    RefusedBatches = {b3}
    SecurityLevels = {"80", "100"}
    BatchLists <- MCBatchLists
    FileLists <- MCFileLists
    f1 = f1
    f2 = f2
    f3 = f3
    Folders = {f1, f2, f3}
    FolderNumber <- MCFolderNumber
    MovedProofs <- MCMovedProofs
    Moves <- MCMoves
    DOWNLOAD_RETRIES = 2
    MaxGuests = 2
    MaxCommands = 4
    DigitBase = 2
    MaxPayload = 5
    Samples <- MCSamples
    MaxSamples = 5
    Steps <- MCSteps
    Runs <- MCRuns
    FinishedBatches <- MCFinishedBatches
    MaxCapture = 2
    Pointers <- MCPointers
    Memories <- MCMemories
    PointerWidth = 8
INVARIANTS
  IncrementalIsExact
  ViewsAreRight
  EncodingsAreReadBack
  VersionsAreLaidOut
  PubdataIsRight
  FeesAreFair
  ReasonsAreParsedRightly
  CommandsDeliver
  ComparisonIsSound
PROPERTIES
  OnlyGenVksReplacesKeys
CHECK_DEADLOCK FALSE
