SPECIFICATION RegistrySpec
CONSTANTS
  Nodes = {n1}
  n1 = n1
  Certs = {c1, c2}
  c1 = c1
  c2 = c2
  NoCert = NoCert
  Nothing = Nothing
  Admins = {shell}
  shell = shell
  Overlap = FALSE
  MaxRevision = 3
INVARIANTS
  EpochsNeverRepeat
  NoRulingIsLost
CHECK_DEADLOCK FALSE
