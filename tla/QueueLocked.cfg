\* Two cores, a semaphore's queue and one with a single taker, each with its lock.
CONSTANTS
  NCORES = 2
  NPROC = 3
  NQUEUES = 2
  NLOCK = 2
  Takers <- SharedAndOwn
SPECIFICATION FairSpec
INVARIANTS TypeOK MutualExclusion LinksMirror NoneLost
PROPERTIES Linearizable LockReleased
