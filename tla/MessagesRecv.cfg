\* A receiver with a lock waits before its message comes; the sender is on the other core.
CONSTANTS
  NCORES = 2
  Procs = {1, 2, 3}
  Affinity <- Cores3
  HasLock = {1, 2, 3}
  Interruptible = {1, 2, 3}
  Sends <- From3
  Sendnows <- None
  Recvs = {1}
  Recvnows = {}
  MaxMessages = 2
SPECIFICATION FairSpec
PROPERTIES RecvReturns
