\* Two containers on one database, two tabs of one browser, three requests and one fault
\* (a crash, an expired token, a failed commit or a broken connection).
SPECIFICATION Spec
CONSTANTS
  Containers = {k1, k2}
  Tabs = {t1, t2}
  MaxRequests = 3
  MaxFaults = 1
INVARIANTS TypeOK DemoWhole SignedInAsToken
PROPERTY LockoutIsFinal
SYMMETRY Symmetry
CHECK_DEADLOCK FALSE
