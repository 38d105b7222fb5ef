SPECIFICATION StatusFairSpec
CONSTANTS
  MaxTasks = 1
  Workers = {w1}
  NoWorker = NoWorker
  Slots = {s1}
  MaxRetries = 1
  TaskTimeout = 0
  MaxTimeouts = 3
  MaxDone = 2
INVARIANTS StatusTypeOK RetriesWereTimeouts
PROPERTIES ResponsesGrow CompletionsCounted
