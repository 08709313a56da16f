SPECIFICATION Spec
CONSTANTS
  s1 = s1
  s2 = s2
  s3 = s3
  u1 = u1
  u2 = u2
  topic = topic
  topic2 = topic2
  room = room
  None = none
  Sessions = {s1, s2, s3}
  Users = {u1, u2}
  Items = {topic, topic2, room}
  UserOf <- MCTwoUsers
  Kind <- MCKind
  Bucket <- MCBucket
  MaxSessions = 2
  MaxPerUser = 1
  MaxPerSession <- MCTwo
  MaxPerItem <- MCOneTopic
  MaxEdges <- MCTwo
  MaxSnapshots = 1
  MaxGrace = 1
  MaxRoomStates = 0
  MaxTimers = 2
  MayDeny = TRUE
  ResumeTtl = 1
  GraceTtl = 1
  RoomTtls = {}
  DrainRequests = {TRUE, FALSE}
  MaxNow = 1
  MaxRestarts = 1
  MaxRefused = 1
ACTION_CONSTRAINT Family
INVARIANTS
  IndicesSound
  FanReachable
  ReturnsSound
  TokenOnce
PROPERTIES
  SyncAllOrNothing
  DrainCloses
