CONSTANTS
  s1 = s1
  s2 = s2
  arch = arch
  NumDocs = 1
  NumPages = 2
  Slots = {s1, s2}
  NoSlot = NoSlot
  Disciplines = {arch}
  Unsorted = Unsorted
  ProcessAll = FALSE
  HasRegion = TRUE
  MaxAttempts = 2
  MaxStalls = 1
  MaxJobs = 2
  Requests = {"reprocess", "reindex", "reembed", "choose", "delete"}
  Bound <- LateAndRequest
CHECK_DEADLOCK FALSE
SYMMETRY Symmetric
SPECIFICATION Spec
INVARIANTS TypeOK OneExecutionPerDocument FullPagesHaveChunks CompletedIsViewable
PROPERTIES KeepsPromises
