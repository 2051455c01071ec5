SPECIFICATION FairSpec
CONSTANTS
  Tasks = {t1}
  Workers = {w1, w2}
  MaxRetries = 1
  Prefetch = 1
  RetryManaged = TRUE
  NForks = 3
  Forks <- MCForks
  MaxFaults = 1
  MaxStops = 1
INVARIANTS
  NoLoss
  WorkBounded
PROPERTIES
  Settles
  DrainCompletes
CHECK_DEADLOCK FALSE
