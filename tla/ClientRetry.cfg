SPECIFICATION Spec
CONSTANTS
  Conn = {c1, c2}
  Replaced = {}
PROPERTY
  ConnectReturns
CHECK_DEADLOCK FALSE
