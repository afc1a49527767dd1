SPECIFICATION EtsySpec
CONSTANTS
  Calls = {c1, c2}
  None = None
  MaxConcurrent = 2
INVARIANT
  PostedOnce
CHECK_DEADLOCK FALSE
