SPECIFICATION FairSpec
CONSTANTS
  NumWorkers = 1
  DefaultScale = 1
  Requests <- OnlySnapshot
  MaxRequests = 1
  MaxCrashes = 0
  Finite = FALSE
PROPERTIES
  SnapshotResolves

CHECK_DEADLOCK FALSE
