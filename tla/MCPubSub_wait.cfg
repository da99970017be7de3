\* One message, and no crash: the callback waits for its publication.  The
\* result comes, but the wait never ends, and everything stops.
CONSTANTS
  m1 = m1
  Messages = {m1}
  WithAttribute = {}
  MaxDeliveries = 1
  MaxCrashes = 0
SPECIFICATION FairSpec
PROPERTIES
  PublicationEnds
CHECK_DEADLOCK FALSE
