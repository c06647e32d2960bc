\* One core whose process slots are used again; MAIN creates children of two
\* priorities, which may kill each other with interrupts masked.
CONSTANTS
  NCORES = 1
  NPROC = 3
  QUANTUM = 2
  MaxSpawn = 3
  ChildPriorities <- LowAndHigh
  Creators <- OnlyMain
  KillOthers <- Masked
  Enablers = {1, 2}
SPECIFICATION FairSpec
INVARIANTS TypeOK ReadyMeansListed OnePlace CreatedContextIntact
PROPERTIES ContextKept NoStarvation
