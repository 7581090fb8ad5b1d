SPECIFICATION HistorySpec
CONSTANTS
  Sources = {"a"}
  Ports = {80}
  Shapes <- SynShapes
  Rows = {1, 2}
  Columns = {0, 1}
  Hash <- OneHash
  CounterMax = 4
  Bucket <- PortBucket
  FloodThreshold = 3
  ScanThreshold = 2
  Window = 3
  MaxTime = 6
  MaxEvents = 4
INVARIANT SlidingWindow
CHECK_DEADLOCK FALSE
