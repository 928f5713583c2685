SPECIFICATION FairSpec
CONSTANTS
  Rules = {"hall", "yard", "gate"}
  Primary = "camera"
  Detector = "detector"
  Cameras = {"yardcam"}
  Sensors = {"pir"}
  Looks <- FaultLooks
  Listens <- FaultListens
  Shoots <- FaultShoots
  Groups <- FaultGroups
  Fragile = {"camera", "detector", "yardcam", "pir"}
  Policies = {"global", "isolated"}
  Slots = 3
  HaltedKept = 1
  None = None
  MaxStarts = 1
  MaxTriggers = 1
INVARIANTS
  TheRestKeepTheirCameras
PROPERTIES
  DeadSourceIsNoticed
  FaultLetsTheCamerasGo
