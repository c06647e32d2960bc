\* One process, as the shell is; two segments of free blocks, the second not full.
\* After a failed write in fileCreate, and at MaxCreates, there may be nothing left to do.
CONSTANTS
  Procs = {"shell"}
  DISKBLOCKTOTAL = 6
  FREEBLOCKMAX = 2
  DIRENTRIES = 2
  FailIn = {"create", "close", "delete"}
  CrashIn = {"create", "close"}
  MaxFailures = 1
  MaxCrashes = 1
  MaxCreates = 4
SPECIFICATION Spec
INVARIANTS TypeOK  DiskConsistent
CHECK_DEADLOCK FALSE
