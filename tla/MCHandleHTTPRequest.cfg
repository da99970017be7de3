\* A retry limit of 2: every order of three outcomes, on the boundary statuses.
\* The calls end, so the run may stop.
CONSTANTS
  twice = twice
  never = never
  Calls = {twice, never}
  MaxRetries <- MCMaxRetries
  Statuses = {101, 200, 299, 300, 301, 500}
SPECIFICATION Spec
INVARIANTS
  NoPostAfterSuccess
  OutcomeIsOfLastAttempt
PROPERTIES
  RefinesInvocation
CHECK_DEADLOCK FALSE
