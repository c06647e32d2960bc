\* Two cores that wait and signal at once.
CONSTANTS
  NCORES = 2
  NSEM = 1
  Procs = {1, 2, 3, 4}
  Affinity <- TwoCores
  Counts = {0, 1}
  Batches = {1, 2}
  Creators = {1}
  Signallers = {}
  Freers = {}
  MaxCalls = 7
SPECIFICATION Spec
INVARIANTS TypeOK OnePlace
PROPERTIES UnitsNotOverdrawn
