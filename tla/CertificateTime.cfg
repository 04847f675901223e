SPECIFICATION Spec
CONSTANTS
  NameLength = 1
  URLLength = 1
  LastYear = 9999
INVARIANT
  TimeWithinADay
CHECK_DEADLOCK FALSE
