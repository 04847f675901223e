SPECIFICATION Spec
CONSTANTS
  MaxToken = 3
  Thread = {n1, n2}
  Element = {e1, e2}
  NoElement = NoElement
  NoThread = NoThread
INVARIANTS
  TypeOK
  TokensAscend
  LocalsFresh
PROPERTIES
  LockReleased
  ImplementsTokenMap
