SPECIFICATION Spec
CONSTANTS
  Least = 2
  FinishAfter = 2
  NULL = NULL
  MaxInput = 4
  MaxTime = 5
INVARIANTS EachInputInOneEntry NothingTypedIsLost
PROPERTY StaleNeverGrows
CHECK_DEADLOCK FALSE
