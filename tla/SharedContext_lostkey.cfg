SPECIFICATION Spec
CONSTANTS
  NClasses = 2
  NClients = 1
  Security = "notset"
  Commands = {"prepare"}
  KillPoints = {"global"}
  MaxFaults = 1
INVARIANT
  CheckpointsReadable
