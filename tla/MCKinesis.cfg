\* Two shards of up to two records, requested singly or in pairs.  The process
\* ends.
CONSTANTS
  s1 = s1
  s2 = s2
  Shards = {s1, s2}
  maxRecords = 2
  MaxRecord = 2
SPECIFICATION KinesisFairSpec
INVARIANTS
  OneWorkerPerShard
  HandledOnceInOrder
  CheckpointIsHandled
PROPERTIES
  RefinesLogConsumer
  CancelEndsProcess
  EveryRecordIsHandled
CHECK_DEADLOCK FALSE
