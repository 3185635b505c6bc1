SPECIFICATION Spec
CONSTANTS
  a = a
  b = b
  c = c
  k = k
  l = l
  Workers = {a, b}
  Keys = {k}
  NoKey = NoKey
  NoWorker = NoWorker
  Target <- Rendezvous
  InitWorkers = {a}
  Scales <- JoinB
  FirstVersion = 1
  MaxData = 2
  MaxEpoch = 0
  MaxBarriers = 0
  Suspends = FALSE
  Quiet = FALSE
INVARIANTS
  NoUpdateLost
CHECK_DEADLOCK FALSE
