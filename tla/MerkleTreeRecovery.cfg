SPECIFICATION FairSpec
CONSTANTS
  NodeKeys = {k1}
  BufferCapacity = 1
  NoCmd = NoCmd
  MaxCommands = 6
  MaxSessions = 2
INVARIANTS
  PersistenceIsSound
  BufferIsRight
PROPERTIES
  ImplementsDurableLog
  CallsReturn
