SPECIFICATION CgSpec
CONSTANTS
  P = 7
  Slots = 4
  Junk = 3
  NTrain = 3
  D = 3
  InvGamma = 2
  NIter = 3
  Preconds = {TRUE, FALSE}
  Samples <- MCSamples
  Labels <- MCLabels
  Tests <- MCTests
INVARIANTS
  FollowsSimulation
  TrueResidual
  CgSolves
  RaisesOnlySolved
  CgScoresInPlace
  CgKeysGenerated
CHECK_DEADLOCK FALSE
