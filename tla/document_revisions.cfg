CONSTANTS
  s1 = s1
  s2 = s2
  arch = arch
  NumDocs = 2
  NumPages = 2
  Slots = {s1, s2}
  NoSlot = NoSlot
  Disciplines = {arch}
  Unsorted = Unsorted
  ProcessAll = TRUE
  HasRegion = FALSE
  MaxAttempts = 2
  MaxStalls = 1
  MaxJobs = 1
  Requests = {}
  Bound <- ErrorAndCrash
CHECK_DEADLOCK FALSE
SYMMETRY Symmetric
SPECIFICATION Spec
INVARIANTS RetiredOnlyWhenReplaced CompletedSetIsNumbered CompletedIsSearchable
