SPECIFICATION Spec
CONSTANTS
  w1 = w1
  w2 = w2
  reverse = reverse
  sum = sum
  Workers <- MCWorkers
  Types <- MCTypes
  TypeOf <- MCTypeOf
  MaxLoad = 1
  HeartbeatTimeout = 1
  OfflineTimeout = 2
INVARIANT OfflineMeansSilent
