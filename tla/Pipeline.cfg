SPECIFICATION ProducerFairSpec
CONSTANTS
  Sources = {"a", "b"}
  ShardKey <- Keys
  WORKER_COUNT = 2
  QUEUE_CAPACITY = 1
  ALERT_HISTORY_CAP = 2
  MaxAlerts <- FirstAndLast
  MaxBatch = 2
  MaxProduced = 3
INVARIANTS PipelineTypeOK EventsConserved SourceAffinity AlertsInEventOrder StoreIsRecent
PROPERTIES ProducerNeverBlocks WorkersIndependent
CHECK_DEADLOCK FALSE
