SPECIFICATION Spec
CONSTANTS
  a = a
  b = b
  c = c
  k = k
  l = l
  Workers = {a, b}
  Keys = {k}
  NoKey = NoKey
  NoWorker = NoWorker
  Target <- Rendezvous
  InitWorkers = {a, b}
  Scales <- JoinB
  FirstVersion = 0
  MaxData = 2
  MaxEpoch = 1
  MaxBarriers = 1
  Suspends = FALSE
  Quiet = FALSE
INVARIANTS
  TypeOK
  NoLateData
  SnapshotIsCut
