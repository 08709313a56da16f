SPECIFICATION ServerSpec
CONSTANTS
  Requests = {r1, r2, r3}
  Casts = {r3}
  MaxControlPending = 1
  MaxGenerations = 2
  Jobs = {j1, j2}
  MaxQueued = 2
  MaxConcurrency = 1
  MaxRetries = 1
  MaxCrashes = 2
  Nothing = nothing
  s1 = s1
  s2 = s2
  Sids = {s1, s2}
  ClusterPendingPerShard = 1
  Runtime = rt
  Tasks = {t1, t2}
  MaxMoves = 2
  MaxCuts = 1
  MaxWire = 1
  Free = free
  Users = {u1, u2}
  Ids = {i1, i2}
  MaxMemoryEvents = 1
  MaxTime = 1
  MaxUses = 4
  MaxDead = 1
\* The bounds are used up and everything is done: the parts may stop.
CHECK_DEADLOCK FALSE
INVARIANTS
  ControlSafe
  JobsKept
  StorageSafe
PROPERTIES
  JobsEnd
  MembersShown
