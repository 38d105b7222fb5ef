SPECIFICATION RestartSpec
CONSTANTS
  MaxTasks = 1
  Workers = {w1}
  NoWorker = NoWorker
  Slots = {s1, s2}
  MaxRetries = 1
  TaskTimeout = 0
  MaxLives = 2
INVARIANT ResultOfThisTask
