SPECIFICATION FairSpec
CONSTANTS
  s1 = s1
  s2 = s2
  u1 = u1
  topic = topic
  topic2 = topic2
  room = room
  None = none
  Sessions = {s1, s2}
  Users = {u1}
  Items = {room}
  UserOf <- MCUserOf
  Kind <- MCRoomOnly
  Bucket <- MCBucket
  MaxSessions = 2
  MaxPerUser = 1
  MaxPerSession <- MCTwo
  MaxPerItem <- MCTwo
  MaxEdges <- MCTwo
  MaxSnapshots = 0
  MaxGrace = 1
  MaxRoomStates = 1
  MaxTimers = 2
  MayDeny = FALSE
  ResumeTtl = 1
  GraceTtl = 1
  RoomTtls = {1}
  DrainRequests = {}
  MaxNow = 2
  MaxRestarts = 0
  MaxRefused = 0
INVARIANTS
  RoomForgotten
  TimersCover
PROPERTIES
  GraceEnds
