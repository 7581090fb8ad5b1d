SPECIFICATION MonitorSpec
CONSTANTS
  Sources = {"a", "b"}
  ShardKey <- Keys
  WORKER_COUNT = 2
  QUEUE_CAPACITY = 1
  ALERT_HISTORY_CAP = 2
  MaxAlerts <- FirstAndLast
  MaxBatch = 2
  MaxProduced = 2
  PageCap = 2
  CaptureLimit = 1
  DashboardLimit = 2
  Millisecond <- SameMillisecond
  MaxPolls = 2
INVARIANTS ShownIsSnapshot SeriesNeverFalls CapturedOnce CaptureMissesLittle
PROPERTY GoesBackOnlyOnOverlap
CHECK_DEADLOCK FALSE
