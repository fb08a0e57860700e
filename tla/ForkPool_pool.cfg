SPECIFICATION FairSpec
CONSTANTS
  NClasses = 2
  NClients = 1
  NWorkers = 2
  Faults = {"child", "fork", "parent", "machine", "name"}
  MaxFaults = 1
  MaxRaces = 1
  MaxPools = 3
INVARIANTS
  NobodyLeftBehind
  OneSolver
  BlamesTheDead
  SuccessIsComplete
PROPERTY
  EndsComplete
CHECK_DEADLOCK FALSE
