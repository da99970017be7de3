\* Two messages, both with an attribute, given up to twice, and one crash, with
\* each topic set or not.  Messages run out, and callbacks wait for ever.
CONSTANTS
  m1 = m1
  m2 = m2
  Messages = {m1, m2}
  WithAttribute = {m1, m2}
  MaxDeliveries = 2
  MaxCrashes = 1
SPECIFICATION FairSpec
INVARIANTS
  CrashLosesOneResponse
  OwnAttributeIsLast
PROPERTIES
  RefinesAtLeastOnce
  CallbackEndsUnlessPublished
CHECK_DEADLOCK FALSE
