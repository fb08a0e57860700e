SPECIFICATION Spec
CONSTANTS
  Pos = {11, 12, 13}
  Neg = {21, 22, 23}
  NClients = 2
  Kinds = {"iid"}
  MaxSize = 1
INVARIANTS
  AdvisedKFits
CHECK_DEADLOCK FALSE
