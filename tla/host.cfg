SPECIFICATION FairSpec
CONSTANTS
  Workers <- ThreeWorkers
  Inverted = FALSE
INVARIANTS
  HostTypeOK
  ConnectionOutlivesCallbacks
PROPERTIES
  StopEnds
