CONSTANTS
  freshness_threshold = 0
  Gpus <- TwinGpus
  Backends = {"cuda", "synthetic"}
  ForeignUse = {0, 5}
  kMaxJustifiedDelta = 4
  DriverVersions = {12}
  MaxRounds = 2
SPECIFICATION Spec
INVARIANTS
  BuffersReturned
  HealthyIsEarned
  KeysTellDevicesApart
CHECK_DEADLOCK FALSE
