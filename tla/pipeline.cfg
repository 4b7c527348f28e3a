SPECIFICATION Spec
CONSTANTS
  N = 3
  MaxRetries = 1
INVARIANTS
  TypeOK
  SkippedIffBlocked
  RetriesExhausted
  EligibleWorkWasRun
  InfraErrorDecides
CHECK_DEADLOCK FALSE
