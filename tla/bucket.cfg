SPECIFICATION FairSpec
CONSTANTS
  Workers = {w1, w2}
  Fast = {w1}
  Token = 2
  Capacity = 3
  TTL = 6
  MaxSkew = 1
  Skew <- MCSkew
  MaxDelay = 1
  Window = 4
  MaxFaults = 1
INVARIANTS
  BucketInv
  WindowBound
  SendBound
PROPERTIES
  GrantsContinue
