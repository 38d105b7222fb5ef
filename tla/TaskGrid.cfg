SPECIFICATION GridFairSpec
CONSTANTS
  MaxTasks = 1
  Workers = {w1}
  NoWorker = NoWorker
  Slots = {s1}
  MaxRetries = 1
  TaskTimeout = 0
  HeartbeatTimeout = 1
  OfflineTimeout = 2
  MaxFaults = 2
INVARIANTS GridTypeOK BeatingOffered RetryFindsWorker
PROPERTIES GridSettles ImplementsLife
