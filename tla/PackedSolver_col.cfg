SPECIFICATION Spec
CONSTANTS
  P = 7
  Slots = 4
  Junk = 3
  NTrain = 2
  D = 2
  InvGamma = 2
  Samples <- MCSamples
  Labels <- MCLabels
  Tests <- MCTests
  Packings = {"col"}
INVARIANT
  Solves
CHECK_DEADLOCK FALSE
