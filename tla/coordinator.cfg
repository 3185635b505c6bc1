SPECIFICATION Spec
CONSTANTS
  NumWorkers = 2
  DefaultScale = 1
  Requests <- AllRequests
  MaxRequests = 3
  MaxCrashes = 1
  Finite = TRUE
INVARIANTS
  CommittedSnapshotIsComplete
  WorkersAgreeOnConfig
  NoUnreachable
  ReturnsOnlyWhenDone
PROPERTIES
  CommittedIsImmutable

CHECK_DEADLOCK FALSE
