SPECIFICATION Spec
CONSTANTS EVERY = 4
  AGAIN = 1
  Slip = 2
  MaxTime = 24
CHECK_DEADLOCK FALSE
INVARIANTS FailureAudited
