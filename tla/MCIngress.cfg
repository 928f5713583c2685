SPECIFICATION Spec
CONSTANTS
  Messages <- Readings
  AcceptWithin = 1
  FutureTolerance = 0
  DedupFor = 0
  JournalFor = 0
  QueueDepth = 1
  Nobody = Nobody
  MaxTime = 1
  MaxConn = 2
  MaxWire = 1
INVARIANTS
  ActedInOrder
  EligibleIsAccountedFor
  DoubtReachesNoRule
PROPERTIES
  AcknowledgedAfterCommit
CHECK_DEADLOCK FALSE
