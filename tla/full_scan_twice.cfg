CONSTANTS
  w1 = w1
  w2 = w2
  Tiles = {1}
  NoTile = 0
  Workers = {w1, w2}
  Limits = {2}
  Concurrency = 2
  MaxResumes = 1
  MaxChanges = 1
  MaxFaults = 1
CHECK_DEADLOCK FALSE
SYMMETRY Symmetric
VIEW ReadAgain
SPECIFICATION Spec
PROPERTIES StartedOnce CancelStays
