SPECIFICATION Spec
CONSTANTS
  Readers = {r1}
  Ids = {s1, s2}
  Handlers = {h1, h2}
  None = None
  Life = 2
  RenewEvery = 1
  Patience = 1
  Stall = 0
  MaxWire = 1
  MaxMishaps = 1
INVARIANTS
  EveryStreamHasAnOwner
  RevokedIsCutOff
PROPERTIES
  LeftAloneFallsSilent
  WantedIsDelivered
