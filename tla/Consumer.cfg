\* Three messages, the second of which cannot be decoded, two storages, and two
\* restarts of the process.
CONSTANTS
  N = 3
  Malformed = {2}
  Storages <- MCStorages
  MaxRuns = 3
SPECIFICATION FairSpec
INVARIANT ConsumerInv
INVARIANT SkippedIsExplained
INVARIANT QuietAfterStop
PROPERTY StopReturns
PROPERTY TopicIsRead
