SPECIFICATION Spec
CONSTANTS
  P = 7
  Slots = 4
  Junk = 3
  NTrain = 2
  D = 4
  InvGamma = 2
  Samples <- MCSamples
  Labels <- MCLabels
  Tests <- MCTests
  Packings = {"row", "col"}
INVARIANTS
  Decomposes
  CleanSlots
  RowSolves
  ScoresInPlace
  KeysGenerated
PROPERTY
  ImplementsPlain
CHECK_DEADLOCK FALSE
