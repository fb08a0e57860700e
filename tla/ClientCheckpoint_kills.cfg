SPECIFICATION Spec
CONSTANTS
  Proc = {w1, w2}
  w1 = w1
  w2 = w2
  Outcomes = {{}, {"bias"}, {"bias", "weights"}}
  MaxSolves = 4
  MaxKills = 3
INVARIANTS
  NeverTruncated
  AnswerIsOneSolve
PROPERTY
  ImplementsCell
CHECK_DEADLOCK FALSE
