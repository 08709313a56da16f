SPECIFICATION Spec
CONSTANTS
  Sessions = {s1}
  Callers = {p1, p2, p3}
  Runtime = rt
  NoSession = none
  Ids = {1, 2}
  SoftQueue = 0
  HardQueue = 1
  MaxReservations = 2
  ExitOwner = TRUE
  MaxKills = 0
  MaxRestarts = 1
\* The model stops when every session id is used and every call is over.
CHECK_DEADLOCK FALSE
SYMMETRY Symmetry
INVARIANTS
  TypeOK
  CapacityExact
  PendingExact
  SessionBound
  NoOrphan
PROPERTY WindowSpec
