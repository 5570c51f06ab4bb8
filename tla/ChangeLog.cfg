\* Two hosts whose GPUs have the same device id; every kind of logged operation,
\* the log at its limit.
CONSTANTS
  w1 = w1  w2 = w2  d1 = d1  d2 = d2
  Workers <- TwoHosts  BootsOf <- TwoHostBoots
  Devices = {d1, d2}  DevicesOf <- TwoHostDevices
  PartialEnumeration = FALSE
  Batches <- AgentBatches
  FailingDevices = {d1}
  ObservedTimes = {1}
  MaxObsGen = 2  DrainLevels = {"ACTIVE", "DRAINING"}  QuarantineGens = {2}
  MaxEpoch = 1  MaxRegGen = 1  MaxTime = 1
  kMaxChangeLog = 2  DeviceIdOf <- FirstOrdinals  OtherChanges <- DriverChanges
  freshness_threshold = 0
SPECIFICATION LogSpec
INVARIANTS LogAgrees UsableIsBacked
PROPERTIES GenerationsAdvance OtherHostsUntouched AdminFencesHold
CHECK_DEADLOCK FALSE
