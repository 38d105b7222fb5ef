SPECIFICATION FairSpec
CONSTANTS
  MaxTasks = 2
  Workers = {w1}
  NoWorker = NoWorker
  Slots = {s1}
  MaxRetries = 0
  TaskTimeout = 0
PROPERTY EventuallySettled
