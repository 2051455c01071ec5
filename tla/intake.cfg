SPECIFICATION Spec
CONSTANTS
  Calls = {c1, c2, c3}
  None = None
  Recipients = 2
  MaxFaults = 2
  MaxDeletes = 1
SYMMETRY Symmetry
INVARIANTS
  IntakeTypeOK
  QueuedOnce
  Accounted
  EmptyIsRaceLoser
CHECK_DEADLOCK FALSE
