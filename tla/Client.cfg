SPECIFICATION Spec
CONSTANTS
  Conn = {c1, c2}
  Replaced = {"request"}
INVARIANTS
  TypeOK
  OpenHasThread
  HandlersForwarded
PROPERTIES
  HandlerDisconnectHangs
  DisconnectReturns
  IsDisconnectedReturns
CHECK_DEADLOCK FALSE
