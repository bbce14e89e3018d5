\* Four events (one cannot be encoded), two partitions, batches of two,
\* which kafka-go may cut, and a cluster that fails, loses acknowledgements and lets
\* attempts expire.
CONSTANTS
  e1 = e1 e2 = e2 e3 = e3 bad = bad p1 = p1 p2 = p2
  Events <- MCEvents
  Partitions <- MCPartitions
  Partition <- MCPartition
  Unencodable <- MCUnencodable
  Capacity = 2
  BatchSize = 2
  MaxAttempts = 2
  Splits = TRUE
  Faults = {"retriable", "fatal", "unacked", "timeout"}
SPECIFICATION FairSpec
INVARIANT ProducerInv
INVARIANT AckedIsStored
PROPERTY OrderAcrossBatches
PROPERTY ImplementsRelay
PROPERTY AcceptedIsSettled
PROPERTY CloseCompletes
