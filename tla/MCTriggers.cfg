SPECIFICATION Spec
CONSTANTS
  MaxSessions = 2
  MaxChunks = 2
  Depth = 1
  Kinds = {"vision", "sequence", "sensor", "threshold", "sound", "arrives", "leaves", "none"}
  Observers = {1, 2}
  Consecutive = 2
  Rearm = 1
  Within = 2
  MaxGap = 2
  Hold = 1
  Cooldown = 1
  Ttl = 1
  Echo = 1
  MaxNow <- Ticks
  LastArm = 2
  MaxInbox = 1
  MaxLog <- Stretch
INVARIANTS
  FiresAreDeserved
  DeafToItself
  FinishedMeansHeard
PROPERTIES
  SpeakerGivenBack
CHECK_DEADLOCK FALSE
