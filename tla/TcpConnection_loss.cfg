SPECIFICATION Spec
CONSTANTS
  MaxBytes = 3
  MaxLen = 3
  highWaterMark_ = 3
INVARIANTS NothingLost
CHECK_DEADLOCK FALSE
