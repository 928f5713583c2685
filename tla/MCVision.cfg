SPECIFICATION VisionSpec
CONSTANTS
  Primary = primary
  Other = other
  None = None
  Workers = {1, 2}
  Enabled = TRUE
  Isolated = TRUE
  Operations = {"start", "stop", "arm", "watch", "disarm", "detect", "plain"}
  MaxMishaps = 2
  MaxAsks = 3
INVARIANTS
  BoxesAreCurrent
PROPERTIES
  CameraGivenBack
  NoWorkerIsForgotten
CHECK_DEADLOCK FALSE
