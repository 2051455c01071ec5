SPECIFICATION FairSpec
CONSTANTS
  MaxCalls = 3
INVARIANTS
  TypeOK
  WayBack
  DialogTells
PROPERTIES
  ReloadJustified
  ReturnsByItself
CHECK_DEADLOCK FALSE
