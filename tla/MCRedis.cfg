\* Two replicas, three messages, one crash and a signal for each replica.
\* Messages and replicas run out, and the system stops.
CONSTANTS
  r1 = r1
  r2 = r2
  Replicas = {r1, r2}
  ResponseTopicSet = TRUE
  ErrorTopicSet = TRUE
  MaxMessage = 3
  MaxCrashes = 1
SPECIFICATION FairSpec
INVARIANTS
  LostOnlyInCalls
PROPERTIES
  RefinesAtMostOnce
  SignalEndsReplica
CHECK_DEADLOCK FALSE
