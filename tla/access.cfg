SPECIFICATION Spec
CONSTANTS
  Projects = {p1, p2}
  Tokens = {t1, t2}
  Credentials = {k1, k2}
  Calls = {c1, c2, c3}
  None = None
  MaxEdits = 2
SYMMETRY Symmetry
INVARIANTS
  AccessTypeOK
  SavesOwn
  OffStaysOff
  SentWithOwn
PROPERTIES
  RevokedCutsOff
  DeletedStaysDeleted
CHECK_DEADLOCK FALSE
