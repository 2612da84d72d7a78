SPECIFICATION Spec
CONSTANTS
  a = a
  j1 = j1
  j2 = j2
  NumPages = 2
  Kinds = {a}
  NoKind = NoKind
  Unclassified = Unclassified
  Jobs = {j1, j2}
  NoJob = NoJob
  Slots = 2
  MaxAttempts = 2
  MaxBoxes = 2
  MaxRequests = 1
  MaxFaults = 1
INVARIANTS
  VersionTellsBox
  PagesAreGrouped
PROPERTIES
  MovesStand
SYMMETRY Sym
VIEW Seen
CHECK_DEADLOCK FALSE
