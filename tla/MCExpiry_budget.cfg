SPECIFICATION Spec
CONSTANTS
  k1 = k1
  k2 = k2
  c1 = c1
  c2 = c2
  None = none
  Keys = {k1, k2}
  Callers = {c1}
  Uses <- MCAll
  Limit = 1
  Ttls = {1}
  MaxTries = 2
  MaxCalls = 4
  MaxNow = 2
CHECK_DEADLOCK FALSE
INVARIANTS
  WithinBudget
