\* Two workers that report one device; saves and restarts between any two operations;
\* timestamps that are late, early and out of order.
CONSTANTS
  w1 = w1  w2 = w2  d1 = d1  NoFile = NoFile
  Workers = {w1, w2}  BootsOf <- TwoWorkerBoots
  Devices = {d1}  DevicesOf <- SharedDevice
  PartialEnumeration = FALSE
  Batches <- GoodBatches
  MaxObsGen = 1  ObservedTimes = {1, 2}  DrainLevels = {"ACTIVE", "DRAINING"}  QuarantineGens = {}
  MaxEpoch = 1  MaxRegGen = 1  MaxTime = 2  MaxRestarts = 1
  freshness_threshold = 0
SPECIFICATION RecoverySpec
INVARIANTS FreshIsReobserved UsableIsBacked
PROPERTIES BecomesUsableOnlyFresh FreshKeepsSource
CHECK_DEADLOCK FALSE
