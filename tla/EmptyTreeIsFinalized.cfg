SPECIFICATION Spec
CONSTANTS
  NodeKeys = {k1}
  BufferCapacity = 1
  NoCmd = NoCmd
  MaxCommands = 4
  MaxSessions = 1
PROPERTY EmptyTreeIsFinalized
