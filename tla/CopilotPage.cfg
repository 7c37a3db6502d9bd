SPECIFICATION FairSpec
CONSTANTS
  MaxConnections = 3
  MaxTurns = 3
  MaxViews = 2
INVARIANTS
  TypeOK
  AnswersAreHistory
PROPERTIES
  AnswersStay
  PendingClears
CHECK_DEADLOCK FALSE
