SPECIFICATION Spec
CONSTANTS
  N = 1
  MaxRetries = 1
INVARIANTS
  FailedMeansStudent
CHECK_DEADLOCK FALSE
