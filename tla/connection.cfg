SPECIFICATION Spec
CONSTANTS
  Workers <- ThreeWorkers
  Inverted = TRUE
INVARIANTS
  AvailableOnceStarted
