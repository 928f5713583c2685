SPECIFICATION Spec
CONSTANTS
  None = None
  MaxConn = 4
  CounterMod = 2
  Stretch = 2
  MaxUp = 4
  MaxMishaps = 3
INVARIANTS
  UnpluggedIsOffline
PROPERTIES
  CableIsAChannel
  CarriedIsKnown
