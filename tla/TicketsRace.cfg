SPECIFICATION Spec
CONSTANTS
  Tickets = {t1}
  Requests = {r1, r2}
  Users = {ann, bob}
  Ghosts = {ghost}
  Null = Null
  Keep = Keep
PROPERTY FollowsMachine
