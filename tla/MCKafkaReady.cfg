\* Up to five calls of Consume.  The process ends, or the bound is reached.
CONSTANTS
  MaxConsume = 5
SPECIFICATION ProcessFairSpec
INVARIANTS
  NeverPanics
PROPERTIES
  SignalIsObeyed
  UpWhenSetUp
CHECK_DEADLOCK FALSE
