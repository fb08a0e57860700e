SPECIFICATION Spec
CONSTANTS
  Pos = {11, 12, 13, 14, 15}
  Neg = {21}
  NClients = 4
  Kinds = {"iid", "dirichlet"}
  MaxSize = 1
INVARIANTS
  Disjoint
  NothingLost
  NobodyEmpty
  Capped
CHECK_DEADLOCK FALSE
