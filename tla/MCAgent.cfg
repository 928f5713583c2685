SPECIFICATION MCSpec
CONSTANTS
  Sources = {door}
  door = door
  MaxCount = 2
  MaxBytes = 3
  MaxAge = 0
  Commands <- OneOfEach
  SeenCapacity = 1
  Batch = 2
  Sizes = {1, 2}
  EncodeLimit = 1
  MaxTime = 1
  MaxSeq = 3
  MaxConn = 2
  Lists = {porch, clash, usb}
  clash = clash
  usb = usb
  Contents <- ContentsOf
  Profile = "camera"
  MaxSources = 2
  porch = porch
  Installed0 = hall
  hall = hall
  MaxConfigures = 2
  MaxDials <- Dials
  MaxMishaps = 1
  MaxUnread = 2
INVARIANTS
  EveryEventAccountedFor
  AtMostOneAfterTheGrant
  AppliedIsKept
  RunsWhatItSaved
PROPERTIES
  SpoolDrains
  HubKnowsTheSources
CHECK_DEADLOCK FALSE
