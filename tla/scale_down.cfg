SPECIFICATION Spec
CONSTANTS
  a = a
  b = b
  c = c
  k = k
  l = l
  Workers = {a, b}
  Keys = {k, l}
  NoKey = NoKey
  NoWorker = NoWorker
  Target <- Rendezvous
  InitWorkers = {a, b}
  Scales <- DownToB
  FirstVersion = 1
  MaxData = 2
  MaxEpoch = 0
  MaxBarriers = 0
  Suspends = FALSE
  Quiet = TRUE
INVARIANTS
  DeliveredExactlyOnce
  NoUpdateLost
CHECK_DEADLOCK FALSE
