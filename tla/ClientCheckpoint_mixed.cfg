SPECIFICATION Spec
CONSTANTS
  Proc = {w1}
  w1 = w1
  Outcomes = {{}, {"weights"}, {"bias", "weights"}}
  MaxSolves = 2
  MaxKills = 1
INVARIANTS
  AnswerIsOneSolve
CHECK_DEADLOCK FALSE
