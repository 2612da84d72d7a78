SPECIFICATION Spec
CONSTANTS
  library = library
  columns = columns
  Questions <- MCQuestions
  Library <- MCLibrary
  Measured <- MCMeasured
  Capacity = 3
  MaxTokens = 2
  MaxPages = 3
  MaxItems = 2
  MaxBatches = 2
  MaxCandidates = 2
  MaxUnclaimed = 1
  MaxSearches = 1
  MaxElsewhere = 1
  MaxHits = 1
  MaxCallouts = 1
  MaxPlaced = 1
  MaxTries = 2
INVARIANT EvidenceStands
VIEW View
