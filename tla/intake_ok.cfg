SPECIFICATION Spec
CONSTANTS
  Calls = {c1, c2}
  None = None
  Recipients = 2
  MaxFaults = 1
  MaxDeletes = 0
SYMMETRY Symmetry
INVARIANTS
  OkMeansQueued
CHECK_DEADLOCK FALSE
