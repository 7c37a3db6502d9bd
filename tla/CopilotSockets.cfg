SPECIFICATION FairSpec
CONSTANTS
  Sockets = {s1, s2, h1}
  Http = {h1}
  MAX_ITERATIONS = 1
  MaxTurns = 2
  MaxClock = 3
INVARIANTS
  TypeOK
  TurnsWhole
  SocketHistoryInOrder
  TitleIsFirstQuestion
PROPERTY TurnEnds
CHECK_DEADLOCK FALSE
