SPECIFICATION Spec
CONSTANTS
  Sockets = {s1, h1}
  Http = {h1}
  MAX_ITERATIONS = 1
  MaxTurns = 2
  MaxClock = 3
PROPERTY FailureLeavesTrace
CHECK_DEADLOCK FALSE
