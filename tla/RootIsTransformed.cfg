SPECIFICATION Spec
CONSTANTS
  KeyLen = 2
  NibbleBits = 2
  Trees <- OneLeafTrees
  Programs <- MCPrograms
  Corruptions <- NoCorruptions
INVARIANT RootIsTransformed
