SPECIFICATION Spec
CONSTANTS
  Tasks = {t1, t2}
  Workers = {w1}
  MaxRetries = 1
  Prefetch = 2
  RetryManaged = TRUE
  NForks = 2
  Forks <- MCForks
  MaxFaults = 1
  MaxStops = 1
SYMMETRY TaskSymmetry
INVARIANTS
  DeliveryInv
  ClientInv
  CounterExact
  DrainedBeforeClose
  DlqJustified
  OnceWithoutFaults
PROPERTIES
  ImplementsTaskQueue
CHECK_DEADLOCK FALSE
