SPECIFICATION FairSpec
CONSTANTS
  NClasses = 2
  NClients = 1
  Security = "128"
  Commands = {"prepare", "train"}
  KillPoints = {"context", "global", "secondary", "solve"}
  MaxFaults = 2
INVARIANTS
  TreeInv
  OneKey
  AggregateUnderOneKey
  DoneIsComplete
PROPERTIES
  InferReadsItsModel
  KeepsCustody
  RerunGetsThrough
