SPECIFICATION Spec
CONSTANTS
  Sessions = {s1, s2}
  Callers = {p1, p2}
  Runtime = rt
  NoSession = none
  Ids = {1, 2}
  SoftQueue = 0
  HardQueue = 1
  MaxReservations = 1
  ExitOwner = TRUE
  MaxKills = 1
  MaxRestarts = 0
\* The model stops when every session id is used and every call is over.
CHECK_DEADLOCK FALSE
SYMMETRY Symmetry
INVARIANTS
  InstanceBound
