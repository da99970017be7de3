\* Two members, two messages sent up to twice, and one crash or interrupt.
\* Messages and members run out, and the system stops.
CONSTANTS
  r1 = r1
  r2 = r2
  Members = {r1, r2}
  ResponseTopicSet = TRUE
  ErrorTopicSet = TRUE
  MaxMessage = 2
  MaxDeliveries = 2
  MaxEnds = 1
SPECIFICATION FairSpec
INVARIANTS
  ResponseIsNotRepeated
PROPERTIES
  RefinesAtLeastOnce
  AckedIsNeverRedelivered
  EveryMessageIsSent
CHECK_DEADLOCK FALSE
