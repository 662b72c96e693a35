SPECIFICATION MCSpec
CONSTANTS
    ReasonByte = 3
    ReasonWord = 2
    ReasonSelector = 1
    Modes = {"OneTx", "Batch"}
    Gas = {8, 14}
    ValidationLimits = {3, 6}
    Costs <- MCCosts
    HookCost <- MCHookCost
    CallShare = 4
    Proposals = {1}
    BootloaderErrors = {1}
    MaxInstructions = 5
    CodeByte = 2
    CodeWordLen = 2
    ChunkLen = 1
    LenModulus = 16
    EraCodes <- MCEraCodes
    EvmCodes <- MCEvmCodes
    SnapshotCodes <- MCSnapshotCodes
    DefaultAccount <- MCDefaultAccount
    Accounts = {a1, a2}
    Contracts = {a2}
    MaxWorldSteps = 7
    c = c
    Boot = boot
    Deployer = deployer
    Targets <- MCTargets
    Returns <- MCReturns
    StartGas = 2
    UnseenNear = {1}
    MaxCalls = 3
    MaxFrames = 4
    Usize = 1000
    UserKey = 1
    Keccak <- MCKeccak
    Offset = 1
    Reads <- MCReads
    Calls <- MCCalls
    Ranges <- MCRanges
    U64Max = 7
    Deadline = 3
    TrustedSlots <- MCTrustedSlots
    TrustedAddressSlots <- MCTrustedAddressSlots
    WithCode <- MCWithCode
    CodeKeys <- MCCodeKeys
    Limit = 6
INVARIANTS
  RunsAgree
  CodeIsServed
  TracersReportRightly
  ValidationIsRight
PROPERTIES
  LimitIsNoticed
CHECK_DEADLOCK FALSE
