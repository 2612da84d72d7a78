CONSTANTS
  w1 = w1
  w2 = w2
  Tiles = {1, 2}
  NoTile = 0
  Workers = {w1}
  Limits = {2}
  Concurrency = 2
  MaxResumes = 1
  MaxChanges = 0
  MaxFaults = 1
CHECK_DEADLOCK FALSE
SPECIFICATION FairSpec
INVARIANTS KeptIsSaved ReadyIsComplete BoughtOnce WithinCeiling
PROPERTIES NeverHangs
