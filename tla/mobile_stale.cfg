SPECIFICATION Spec
CONSTANTS
  MaxPages = 3
  MaxTaps = 2
  None = None
CHECK_DEADLOCK FALSE
INVARIANT StaleIsNotReused
