SPECIFICATION LimiterSpec
CONSTANTS
  Value = {0, 1, 3, 5}
  MaxTime = 6
  U64_MAX = 7
  NONE = NONE
CHECK_DEADLOCK FALSE
INVARIANTS
  AdminCanRecover
PROPERTY
  ImplementsBucket
