SPECIFICATION Spec
CONSTANTS
  KeyLen = 2
  NibbleBits = 2
  Trees <- MCTrees
  Programs <- MCPrograms
  Corruptions <- MCCorruptions
INVARIANTS
  TreeIsProved
  HonestWitnessPasses
  AcceptedMeansRight
  StreamingMatchesOracle
