\* One process; overdue heartbeats, epoch rolls, operators, backend failures, handshake timeouts.
CONSTANTS
  w1 = w1  d1 = d1  c1 = c1  c2 = c2  c3 = c3  NoConnection = NoConnection
  Workers = {w1}  BootsOf <- OneProcess
  Devices = {d1}  DevicesOf <- OneDevice
  PartialEnumeration = TRUE
  Batches <- PublishableBatches  AgentProbes <- GoodProbes
  Conns = {c1, c2}  MaxInbox = 2
  Failures = {"reset", "timeout", "backend", "torn_snapshot", "torn_heartbeat"}
  DrainLevels = {"ACTIVE", "DRAINING"}  QuarantineGens = {1}
  MaxObsGen = 1  MaxRegGen = 2  MaxEpoch = 2  MaxTime = 2
  heartbeat_timeout = 0  freshness_threshold = 1
SPECIFICATION ClusterSpec
INVARIANT ClusterTypeOK
PROPERTIES ImplementsStore WatchIsKept
CHECK_DEADLOCK FALSE
