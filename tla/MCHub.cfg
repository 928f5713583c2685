SPECIFICATION Spec
CONSTANTS
  Foreign = {}
  LateWills = TRUE
  Rulings = {"shell approve", "shell revoke", "revoke"}
  None = None
  MaxConn = 2
  MaxWire = 1
  MaxEpoch = 3
  MaxRestarts = 1
INVARIANTS
  PresentIsNotBuried
  ToldOfTheGrantHeld
CHECK_DEADLOCK FALSE
