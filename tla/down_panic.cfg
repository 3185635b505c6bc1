SPECIFICATION Spec
CONSTANTS
  a = a
  b = b
  c = c
  k = k
  l = l
  Workers = {a, b}
  Keys = {l}
  NoKey = NoKey
  NoWorker = NoWorker
  Target <- Rendezvous
  InitWorkers = {a, b}
  Scales <- DownToB
  FirstVersion = 1
  MaxData = 1
  MaxEpoch = 0
  MaxBarriers = 0
  Suspends = FALSE
  Quiet = TRUE
INVARIANTS
  NeverPanics
CHECK_DEADLOCK FALSE
