SPECIFICATION Spec
CONSTANTS
  Sockets = {1, 2}
  kInitRetryDelayMs = 500
  kMaxRetryDelayMs = 1500
  MaxStops = 2
  numThreads = 2
  MaxPicks = 3
  Capacity = 3
  MaxBuffers = 2
  MaxLogLines = 6
  rollSize = 3
  checkEveryN = 2
  rollPeriod = 2
  MaxSeconds = 2
  Workers = {w1, w2}
  Submitters = {s1, s2}
  maxQueueSize = 2
  MaxTasks = 2
INVARIANTS
  ConnectorSound
  LinesAccounted
  PoolTasksInOrder
PROPERTIES
  StopIsFinal
  PoolStartsAndEnds
  LineIsWritten
  PoolGoesOn
CHECK_DEADLOCK FALSE
