SPECIFICATION FairSpec
CONSTANTS
  Me = w1
  Capacity = 2
  Slots = {s1, s2, s3}
  TaskIds = {t1, t2}
  NoTask = NoTask
  MaxAttempts = 2
  HeartbeatTimeout = 1
  OfflineTimeout = 2
INVARIANTS TypeOK LoadExact ThreadsCurrent DrainedCleanly
PROPERTIES CrashNoticed Reregistered ImplementsLife
