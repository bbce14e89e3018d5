\* A batch that kafka-go cuts in two, and a cluster that fails now and then: is the order
\* of a partition kept, as docs/architecture.md:159 says?
CONSTANTS
  e1 = e1 e2 = e2 e3 = e3 bad = bad p1 = p1 p2 = p2
  Events <- MCEvents
  Partitions <- MCPartitions
  Partition <- MCPartition
  Unencodable <- MCUnencodable
  Capacity = 2
  BatchSize = 2
  MaxAttempts = 2
  Splits = TRUE
  Faults = {"retriable"}
SPECIFICATION Spec
INVARIANT PartitionOrder
