SPECIFICATION Spec
CONSTANTS
  s1 = s1
  k1 = k1
  k2 = k2
  w1 = w1
  w2 = w2
  v1 = v1
  Sessions = {s1}
  Keys = {k1, k2}
  SessionOf <- MCSessionOf
  Writers = {w1, w2}
  Service = svc
  Runtime = runtime
  None = none
  Limits <- MCLimits
  Ttls = {1}
  Values = {v1}
  MaxTries = 2
  MaxPuts = 2
  MaxNow = 0
  MaxKills = 1
SYMMETRY MCSymmetry
CHECK_DEADLOCK FALSE
INVARIANTS
  Accounts
  OneGeneration
  Watched
  NothingOrphaned
  IndicesMatch
