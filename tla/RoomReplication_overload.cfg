SPECIFICATION ReplicationSpec
CONSTANTS
  Sids = {s1, s2}
  ClusterPendingPerShard = 1
  Runtime = rt
  Tasks = {t1}
  MaxMoves = 2
  MaxCuts = 0
  MaxWire = 1
  Free = free
\* The members may have moved for the last time.
CHECK_DEADLOCK FALSE
PROPERTY ResyncRepairs
