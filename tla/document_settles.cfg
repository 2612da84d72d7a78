CONSTANTS
  s1 = s1
  s2 = s2
  arch = arch
  NumDocs = 1
  NumPages = 2
  Slots = {s1, s2}
  NoSlot = NoSlot
  Disciplines = {arch}
  Unsorted = Unsorted
  ProcessAll = TRUE
  HasRegion = TRUE
  MaxAttempts = 3
  MaxStalls = 1
  MaxJobs = 1
  Requests = {"reprocess", "reindex", "delete"}
  Bound <- Settling
CHECK_DEADLOCK FALSE
SPECIFICATION FairSpec
INVARIANTS RetryIsQueued EverythingIsRead
PROPERTIES UploadsSettle
