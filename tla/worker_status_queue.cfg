SPECIFICATION Spec
CONSTANTS
  Tasks = {t1}
  Workers = {w1}
  MaxRetries = 1
  Prefetch = 1
  RetryManaged = FALSE
  NForks = 1
  Forks <- MCForks
  MaxFaults = 0
  MaxStops = 0
INVARIANTS
  FailureReturnsToQueue
CHECK_DEADLOCK FALSE
