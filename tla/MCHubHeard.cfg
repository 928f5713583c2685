SPECIFICATION FairSpec
CONSTANTS
  Foreign = {2}
  LateWills = FALSE
  Rulings = {"approve", "shell approve", "shell revoke"}
  None = None
  MaxConn = 2
  MaxWire = 1
  MaxEpoch = 2
  MaxRestarts = 0
PROPERTIES
  ApprovedIsHeard
CHECK_DEADLOCK FALSE
