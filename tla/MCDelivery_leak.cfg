SPECIFICATION FairSpec
CONSTANTS
  Sessions = {s1}
  Callers = {p1}
  Runtime = rt
  NoSession = none
  Ids = {1}
  SoftQueue = 0
  HardQueue = 1
  MaxReservations = 2
  ExitOwner = FALSE
  MaxKills = 0
  MaxRestarts = 1
\* The model stops when every session id is used and every call is over.
CHECK_DEADLOCK FALSE
PROPERTY EventuallyIdle
