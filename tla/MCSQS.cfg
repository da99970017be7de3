\* Two replicas, two messages received up to twice in batches of up to two, and
\* one crash.  Messages and replicas run out, and the system stops.
CONSTANTS
  m1 = m1
  m2 = m2
  r1 = r1
  r2 = r2
  Messages = {m1, m2}
  Replicas = {r1, r2}
  maxNumberOfMessages = 2
  ResponseQueueSet = TRUE
  ErrorQueueSet = TRUE
  MaxReceives = 2
  MaxCrashes = 1
SPECIFICATION Spec
INVARIANTS
  ResponseIsNotRepeated
  EveryReceiptHasOneOutcome
PROPERTIES
  RefinesAtLeastOnce
CHECK_DEADLOCK FALSE
