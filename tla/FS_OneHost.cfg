\* One worker id, two incarnations, two devices; registrations that list only part of them,
\* replayed and partial batches, an epoch roll, operators, observations that are old.
CONSTANTS
  w1 = w1  w2 = w2  d1 = d1  d2 = d2
  Workers <- OneHost  BootsOf <- OneHostBoots
  Devices = {d1, d2}  DevicesOf <- OneHostDevices
  PartialEnumeration = TRUE
  Batches <- AgentBatches
  FailingDevices = {}
  ObservedTimes = {1}
  MaxObsGen = 2  DrainLevels = {"ACTIVE", "DRAINED"}  QuarantineGens = {1}
  MaxEpoch = 2  MaxRegGen = 2  MaxTime = 2
  freshness_threshold = 0
SYMMETRY DeviceSymmetry
SPECIFICATION Spec
INVARIANTS TypeOK UsableIsBacked
PROPERTIES FenceHolds FreshKeepsSource PublicationIsAtomic
CHECK_DEADLOCK FALSE
