\* Four events, a rotation for each, compression, one backup to keep and for one
\* second, every fault but a write that fails on an open file, three seconds and
\* one restart.
CONSTANTS
  N = 4
  MaxSize = 1
  MaxBackups = 1
  MaxAge = 1
  Compress = TRUE
  Faults <- MCFaults
  NoFile = NoFile
  MaxTime = 2
  MaxRuns = 2
SPECIFICATION FairSpec
INVARIANT FileInv
PROPERTY OnlyExcessIsLost
PROPERTY SilenceIsAnnounced
PROPERTY BackupsAreTrimmed
