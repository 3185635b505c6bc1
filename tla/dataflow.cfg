SPECIFICATION FairSpec
CONSTANTS
  MAX = 5
  None = None
  Kind <- GraphKind
  Inputs <- GraphInputs
  Outputs <- GraphOutputs
  Feed <- GraphFeed
  Edges = {1, 2, 3, 4, 5, 6, 7, 8, 9, 10, 11, 12, 13, 14}
  Records = {1, 2, 3}
  Stamps <- GraphStamps
  Bound = 1
  Kept = {2}
  MaxRequests = 1
  MaxCrashes = 1
  MaxIdle = 2
INVARIANTS
  TypeOK
  EveryRecordCountsOnce
  NoDataBehindFrontier
  CompletesOnlyWhenDrained
  NoExpiredState
PROPERTIES
  ImplementsExactlyOnce
  MarkersLeaveTheGraph
  ExecutionEnds
