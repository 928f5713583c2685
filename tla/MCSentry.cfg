SPECIFICATION Spec
CONSTANTS
  Rules = {"hall", "gate"}
  Primary = "camera"
  Detector = "detector"
  Cameras = {"yardcam"}
  Sensors = {"pir"}
  Looks <- ActLooks
  Listens <- ActListens
  Shoots <- ActShoots
  Groups <- ActGroups
  Fragile = {"camera"}
  Policies = {"global"}
  Slots = 3
  HaltedKept = 1
  None = None
  MaxStarts = 2
  MaxTriggers = 2
INVARIANTS
  StopReachesTheThread
  HaltedStaysHalted
  QuietOnceDisarmed
  NoLeaseIsLost
