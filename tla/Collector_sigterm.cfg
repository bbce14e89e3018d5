\* A healthy cluster: is anything lost on SIGTERM, against README.md:27?
CONSTANTS
  c1 = c1 c2 = c2 e1 = e1 e2 = e2 e3 = e3 empty = empty w1 = w1 w2 = w2 p1 = p1
  NoFrame = NoFrame
  Conns <- OneConn
  Events <- TwoEvents
  Empty = {}
  Workers <- OneWorker
  Partitions <- MCPartitions
  Partition <- TwoOnOne
  QueueSize = 1
  Capacity = 1
  BatchSize = 1
  MaxAttempts = 1
  Splits = FALSE
  Faults = {}
SPECIFICATION SysSpec
INVARIANT SigtermLosesNothing
