SPECIFICATION Spec
CONSTANTS
  Parts = {1, 2}
  Length <- PartLength
  AllWorkers = {0, 1, 2}
  InitWorkers = {0, 1}
  Scales = {{0}, {0, 1, 2}}
  AssignPart <- OtherPart
  Owner <- Rendezvous
  Flavours = {"stateful", "stateless", "kafka"}
  None = None
  MaxScales = 1
  MaxSnapshots = 1
  MaxCrashes = 1
  MaxFaults <- Faults
INVARIANTS
  TypeOK
  
  ReadExactlyOnce
  NoRecordSkipped
  NoDataAfterMax
  SinkCountsEveryRecord
  SinkCountsNoRecordTwice
CHECK_DEADLOCK FALSE
