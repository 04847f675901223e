SPECIFICATION Spec
CONSTANTS
  Conn = {c1, c2}
  Replaced = {}
PROPERTY
  IsConnectedReturns
CHECK_DEADLOCK FALSE
