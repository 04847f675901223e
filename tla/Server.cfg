SPECIFICATION Spec
CONSTANTS
  Conn = {c1, c2}
  Replaced = {"request"}
INVARIANTS
  TypeOK
  ListTracksConnections
  TaskHasConnection
  LoopIsValid
PROPERTIES
  HandlerStopHangs
  StopReturns
CHECK_DEADLOCK FALSE
