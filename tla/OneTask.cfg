SPECIFICATION Spec
CONSTANTS
  MaxTasks = 1
  Workers = {w1, w2}
  NoWorker = NoWorker
  Slots = {s1, s2}
  MaxRetries = 1
  TaskTimeout = 0
SYMMETRY Symmetry
INVARIANTS
  TypeOK NoTaskLost CallBacked CopiesWithinAttempts SnapshotRetryCurrent
  DispatchedOnlyDuringCall StaleViewRequeued
PROPERTIES SettledStable BoardSafety
