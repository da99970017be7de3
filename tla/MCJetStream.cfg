\* Two messages delivered twice to two slots; a process may be interrupted or
\* crash, and another follows it.  The bounds let the system stop.
CONSTANTS
  MaxMessage = 2
  MaxDeliveries = 2
  MaxRestarts = 1
  CONCURRENT = 2
  ResponseTopicSet = TRUE
SPECIFICATION FairSpec
INVARIANTS
  SlotsCountHandlers
PROPERTIES
  RefinesAtLeastOnce
  AckedIsNeverRedelivered
  EveryDeliveryIsHandled
CHECK_DEADLOCK FALSE
