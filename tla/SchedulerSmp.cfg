\* Two cores; MAIN creates children for both, no slot is used twice.
CONSTANTS
  NCORES = 2
  NPROC = 5
  QUANTUM = 1
  MaxSpawn = 2
  ChildPriorities <- OnlyHigh
  Creators <- OnlyMain
  KillOthers = {}
  Enablers = {}
SPECIFICATION Spec
INVARIANTS PlaceMatchesState NullEligible NumprocAccounts
