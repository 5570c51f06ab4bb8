\* A process reconnects after a reset, under fairness.
CONSTANTS
  w1 = w1  d1 = d1  c1 = c1  c2 = c2  c3 = c3  NoConnection = NoConnection
  Workers = {w1}  BootsOf <- OneProcess
  Devices = {d1}  DevicesOf <- OneDevice
  PartialEnumeration = FALSE
  Batches <- PublishableBatches  AgentProbes <- GoodProbes
  Conns = {c1, c2}  MaxInbox = 2
  Failures = {"reset"}
  DrainLevels = {}  QuarantineGens = {}
  MaxObsGen = 2  MaxRegGen = 2  MaxEpoch = 1  MaxTime = 1
  heartbeat_timeout = 0  freshness_threshold = 1
SPECIFICATION FairClusterSpec
PROPERTY ReconnectRegainsAuthority
CHECK_DEADLOCK FALSE
