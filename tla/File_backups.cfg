\* Without compression: one backup to keep.
CONSTANTS
  N = 4
  MaxSize = 1
  MaxBackups = 1
  MaxAge = 0
  Compress = FALSE
  Faults = {}
  NoFile = NoFile
  MaxTime = 2
  MaxRuns = 1
SPECIFICATION Spec
PROPERTY OnlyExcessIsLost
