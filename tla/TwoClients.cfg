SPECIFICATION Spec
CONSTANTS
  r1 = r1
  r2 = r2
  r3 = r3
  Request = {r1, r2, r3}
  Client <- ForwardClient
  Sender <- ForwardSender
  Nested <- Forward
  MaxToken = 0
  Replaced = {"a"}
INVARIANTS
  OneHandlerAtATime
  ForwardedNeverAnswered
PROPERTIES
  ForwardingStopsServer
  BothServed
CHECK_DEADLOCK FALSE
