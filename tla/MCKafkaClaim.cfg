\* Two replicas, both topics set, handovers and a crash.  The bounds on messages
\* and generations let the system stop.
CONSTANTS
  m1 = m1
  m2 = m2
  Members = {m1, m2}
  OffsetsInitial = "oldest"
  ResponseTopicSet = TRUE
  ErrorTopicSet = TRUE
  MaxOffset = 2
  MaxGeneration = 4
  MaxCrashes = 1
SPECIFICATION FairSpec
INVARIANTS
  CommittedIsFinished
  CommitEndsAtResponse
  OrderlyHandoverIsExact
PROPERTIES
  RefinesLogConsumer
  CommitNeverGoesBack
  EveryMessageIsHandled
CHECK_DEADLOCK FALSE
