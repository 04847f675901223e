SPECIFICATION Spec
CONSTANTS
  r1 = r1
  r2 = r2
  r3 = r3
  r4 = r4
  i1 = i1
  Request = {r1, r2, r3, r4}
  Info = {i1}
  Sender <- CrossingSender
  Replaced <- RequestAtServer
  Nested <- R3SendsR4
  MaxToken = 1
INVARIANTS
  TypeOK
  ResponsesMatched
  RepliesReachTheirRequest
  AnsweredInOrder
  HandledInOrder
  NoHandlerForgotten
  OnePlacePerRequest
  NestedNeverAnswered
PROPERTY
  EveryRequestEnds
CHECK_DEADLOCK FALSE
