\* Two connections, one worker, an unbuffered channel and two events; a cluster that may
\* let an attempt expire.
CONSTANTS
  c1 = c1 c2 = c2 e1 = e1 e2 = e2 e3 = e3 empty = empty w1 = w1 w2 = w2 p1 = p1
  NoFrame = NoFrame
  Conns <- TwoConns
  Events <- ThreeFrames
  Empty <- MCEmpty
  Workers <- OneWorker
  Partitions <- MCPartitions
  Partition <- ThreeOnOne
  QueueSize = 0
  Capacity = 1
  BatchSize = 2
  MaxAttempts = 2
  Splits = TRUE
  Faults = {"timeout"}
SPECIFICATION FairSpec
INVARIANT ServerInv
INVARIANT NoWriteDuringClose
INVARIANT EndToEnd
PROPERTY ShutdownReturns
PROPERTY ImplementsRelay
