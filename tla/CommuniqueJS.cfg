SPECIFICATION Spec
CONSTANTS
  Request = {r1, r2, r3}
  Info = {i1}
  Notice = {n1}
INVARIANTS
  TypeOK
  RepliesReachTheirHandler
  HandlersKept
PROPERTY
  RequestsEnd
CHECK_DEADLOCK FALSE
