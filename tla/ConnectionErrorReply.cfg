SPECIFICATION Spec
CONSTANTS
  r1 = r1
  r2 = r2
  r3 = r3
  r4 = r4
  i1 = i1
  Request = {r1, r2}
  Info = {}
  Sender <- CrossingSender
  Replaced <- RequestAtClient
  Nested <- R3SendsR4
  MaxToken = 1
INVARIANT
  ReplyIsPassedToCallback
CHECK_DEADLOCK FALSE
