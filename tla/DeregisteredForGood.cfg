SPECIFICATION Spec
CONSTANTS
  Me = w1
  Capacity = 1
  Slots = {s1, s2}
  TaskIds = {t1, t2}
  NoTask = NoTask
  MaxAttempts = 2
  HeartbeatTimeout = 1
  OfflineTimeout = 2
PROPERTY DeregisteredForGood
