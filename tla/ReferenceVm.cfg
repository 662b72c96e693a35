CONSTANTS
  ByteBase = 2
  WordBytes = 2
  MaxInitialWrites = 3
  MaxCompressedLen = 15
  MaxEnumIndex = 7
  TIME_DELTA_PER_CYCLE = 2
  Slots = {1, 2}
  InitialSlots = {1}
  FreeSlots = {}
  MessengerSlots = {}
  SlotValues = {0, 1}
  HeapValue = 7
  CodeHash = {h1, h2, h3}
  ContractCode = {h1, h3}
  StoredCode = {h1, h2}
  CODE_ORACLE = oracle_contract
  UserContract = user
  CodeWords <- MCCodeWords
  Programs <- MCPrograms
  MaxDepth = 3
  MaxVmSnapshots = 1
SPECIFICATION VmSpec
INVARIANTS
  RecordsAreExact
  MemoryIsIntact
PROPERTIES
  OraclesImplementFramedWorld
CHECK_DEADLOCK FALSE
