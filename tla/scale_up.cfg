SPECIFICATION Spec
CONSTANTS
  a = a
  b = b
  c = c
  k = k
  l = l
  Workers = {a, b, c}
  Keys = {l}
  NoKey = NoKey
  NoWorker = NoWorker
  Target <- Rendezvous
  InitWorkers = {a, b}
  Scales <- UpToThree
  FirstVersion = 1
  MaxData = 2
  MaxEpoch = 0
  MaxBarriers = 0
  Suspends = FALSE
  Quiet = FALSE
INVARIANTS
  DeliveredExactlyOnce
  NeverPanics
  NormalAfterAllCollected
