\* Launched and killed processes, heartbeats cut short, under fairness.
CONSTANTS
  w1 = w1  d1 = d1  c1 = c1  c2 = c2  c3 = c3  NoConnection = NoConnection
  Workers = {w1}  BootsOf <- OneProcess
  Devices = {d1}  DevicesOf <- OneDevice
  PartialEnumeration = FALSE
  Batches <- PublishableBatches  AgentProbes <- GoodProbes
  Conns = {c1, c2}  MaxInbox = 3
  Failures = {"kill", "torn_heartbeat"}
  DrainLevels = {}  QuarantineGens = {}
  MaxObsGen = 2  MaxRegGen = 2  MaxEpoch = 1  MaxTime = 3
  heartbeat_timeout = 1  freshness_threshold = 3
SPECIFICATION FairClusterSpec
PROPERTIES DeadGoesDown LaunchedIsObserved
CHECK_DEADLOCK FALSE
