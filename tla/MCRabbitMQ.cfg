\* Two replicas with one slot each, two messages, and the loss of one consumer.
\* The bounds let the system stop.
CONSTANTS
  x = x
  y = y
  r1 = r1
  r2 = r2
  Messages = {x, y}
  Replicas = {r1, r2}
  MaxDeliveries = 2
  MaxLosses = 1
  CONCURRENT = 1
  ResponseTopicSet = TRUE
  ErrorTopicSet = TRUE
SPECIFICATION FairSpec
INVARIANTS
  SlotsCountHandlers
  ExactWithoutClosing
PROPERTIES
  RefinesAtLeastOnce
  EveryMessageIsHandled
CHECK_DEADLOCK FALSE
