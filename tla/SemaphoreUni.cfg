\* One core: every call, semfree and reuse of an entry included.
CONSTANTS
  NCORES = 1
  NSEM = 2
  Procs = {1, 2, 3}
  Affinity <- OneCore
  Counts = {0, 1}
  Batches = {1, 2}
  Creators = {1, 2}
  Signallers = {3}
  Freers = {2, 3}
  MaxCalls = 6
SPECIFICATION FairSpec
INVARIANTS WaitersMatchCount FreedKeepsNobody
PROPERTIES UnitsNotOverdrawn WokenReturns
