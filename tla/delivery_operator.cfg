SPECIFICATION DeliverySpec
CONSTANTS
  Tasks = {t1}
  Workers = {w1, w2}
  MaxRetries = 1
  Prefetch = 1
  RetryManaged = TRUE
  NForks = 2
  Forks <- MCForks
  MaxFaults = 1
  MaxStops = 1
  Transient = TRUE
  MaxEdits = 1
SYMMETRY Symmetry
INVARIANTS
  DeliveryTypeOK
  NotificationNotLost
  DlqMeansUnsent
  DuplicatesNeedFaults
  DoneIsRecorded
PROPERTIES
  DeletionEndsSending
  ImplementsNotification
CHECK_DEADLOCK FALSE
