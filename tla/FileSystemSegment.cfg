\* No faults: sbFreeBlock adds a segment and does not write its block. All stops at MaxCreates.
CONSTANTS
  Procs = {"shell"}
  DISKBLOCKTOTAL = 6
  FREEBLOCKMAX = 2
  DIRENTRIES = 2
  FailIn = {}
  CrashIn = {}
  MaxFailures = 0
  MaxCrashes = 0
  MaxCreates = 4
SPECIFICATION Spec
INVARIANT DiskSound
CHECK_DEADLOCK FALSE
