SPECIFICATION FairSpec
CONSTANTS
  Workers <- ThreeWorkers
  Inverted = FALSE
PROPERTIES
  FailureRestarts
