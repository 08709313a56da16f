SPECIFICATION FairSpec
CONSTANTS
  Sessions = {s1}
  Callers = {p1, p2}
  Runtime = rt
  NoSession = none
  Ids = {1, 2}
  SoftQueue = 1
  HardQueue = 2
  MaxReservations = 3
  ExitOwner = FALSE
  MaxKills = 0
  MaxRestarts = 0
\* The model stops when every session id is used and every call is over.
CHECK_DEADLOCK FALSE
PROPERTY EventuallyIdle
