\* The first process is interrupted.
CONSTANTS
  MaxMessage = 2
  MaxDeliveries = 2
  MaxRestarts = 1
  CONCURRENT = 1
  ResponseTopicSet = TRUE
SPECIFICATION Spec
INVARIANTS
  ShutdownNeverPanics
CHECK_DEADLOCK FALSE
