SPECIFICATION FairSpec
CONSTANTS
  k1 = k1
  k2 = k2
  c1 = c1
  c2 = c2
  None = none
  Keys = {k1, k2}
  Callers = {c1, c2}
  Uses <- MCUses
  Limit = 2
  Ttls = {1}
  MaxTries = 2
  MaxCalls = 3
  MaxNow = 0
CHECK_DEADLOCK FALSE
INVARIANTS
  UsedExact
  PromisesKept
PROPERTIES
  Drains
