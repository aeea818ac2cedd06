SPECIFICATION PartSpec
CONSTANTS
  MaxGen = 1
  MaxId = 1
  QueueCap = 1
  FeedCap = 1
  NoTrack = NoTrack
  s1 = s1
  s2 = s2
  AnyMode = AnyMode
  NoSession = NoSession
  NotPending = NotPending
PROPERTY SkippedWereRecorded
CHECK_DEADLOCK FALSE
