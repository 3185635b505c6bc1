SPECIFICATION FairSpec
CONSTANTS
  a = a
  b = b
  c = c
  k = k
  l = l
  Workers = {a, b}
  Keys = {k}
  NoKey = NoKey
  NoWorker = NoWorker
  Target <- Rendezvous
  InitWorkers = {a}
  Scales <- JoinB
  FirstVersion = 1
  MaxData = 1
  MaxEpoch = 0
  MaxBarriers = 1
  Suspends = TRUE
  Quiet = FALSE
PROPERTIES
  RescaleCompletes
  SnapshotCompletes
  SuspendCompletes
  EventuallyConsumed

CHECK_DEADLOCK FALSE
