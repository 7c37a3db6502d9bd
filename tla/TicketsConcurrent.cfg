SPECIFICATION Spec
CONSTANTS
  Tickets = {t1}
  Requests = {r1, r2}
  Users = {ann, bob}
  Ghosts = {ghost}
  Null = Null
  Keep = Keep
INVARIANT TypeOK
PROPERTIES
  FreshFollowsMachine
  NeverNewAgain
  OnlyAskedColumns
