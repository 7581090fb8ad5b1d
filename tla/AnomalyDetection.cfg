SPECIFICATION HistorySpec
CONSTANTS
  Sources = {"a", "b", "c"}
  Ports = {22, 53, 80}
  Shapes <- MixedShapes
  Rows = {1, 2}
  Columns = {0, 1}
  Hash <- CollidingHash
  CounterMax = 3
  Bucket <- PortBucket
  FloodThreshold = 2
  ScanThreshold = 2
  Window = 2
  MaxTime = 4
  MaxEvents = 4
INVARIANTS
  AnomalyTypeOK
  NeverUndercounts
  FloodRaised
  OneAlertPerWindow
  FloodJustified
  SketchesOfWindow
  ScanExact
CHECK_DEADLOCK FALSE
