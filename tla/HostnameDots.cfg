SPECIFICATION Spec
CONSTANTS
  NameLength = 2
  URLLength = 1
  LastYear = 2261
INVARIANT
  SameNumberOfDots
CHECK_DEADLOCK FALSE
