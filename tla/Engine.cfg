SPECIFICATION EngineSpec
CONSTANTS
  Sources = {"a", "b", "c"}
  Attackers = {"a", "b", "c"}
  BenignPorts = {80}
  ScannedPorts <- PortsScanned
  NormalCounts = {1}
  FloodBurst = 2
  Every <- Periods
  ShardKey <- Keys
  WORKER_COUNT = 2
  QUEUE_CAPACITY = 4
  Rows = {1, 2}
  Columns = {"a", "b", "c"}
  Hash <- OneRowCollides
  CounterMax = 9
  Bucket <- OwnBucket
  FloodThreshold = 2
  ScanThreshold = 2
  Window = 1
  MaxTime = 2
  MaxTicks = 1
INVARIANTS BurstReported ExploitReported TraversalReported NoneAccusedFalsely
PROPERTY ShardedAsWhole
CHECK_DEADLOCK FALSE
