SPECIFICATION Spec
CONSTANTS
    Batches <- MCBatches
    Stored <- MCStored
    Incompressible <- MCIncompressible
    Refunds = {1, 2}
INVARIANTS
  ExecutedAsGiven
  HeapIsRestored
  RetriesAreClean
