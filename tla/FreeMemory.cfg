\* Core 0 allocates, both cores free.
CONSTANTS
  NCORES = 2
  BOUND = 5
  Getters = {0}
  Sizes = {1, 2}
  HeadAddr <- Misaligned
  Words = {9}
  Follow = FALSE
SPECIFICATION Spec
INVARIANTS TypeOK EveryUnitOnce LengthIsListSize Coalesced MallocTakenBack
