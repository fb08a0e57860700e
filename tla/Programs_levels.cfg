SPECIFICATION Spec
CONSTANTS
  UsableDepth = 25
  BootDepth = 19
  Sizes = {2, 3, 5, 8, 32, 33}
  Costs <- MCCosts
  NIter = 6
  None = None
INVARIANTS
  LevelsSuffice
  ServedAsTrained
CHECK_DEADLOCK FALSE
