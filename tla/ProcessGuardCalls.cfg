\* Two objects and three children, any sequence of calls.
SPECIFICATION Spec
CONSTANTS
  Objects = {a, b}
  Children = {c1, c2, c3}
INVARIANTS
  ObjectTypeOK
  OwnedUntilCollected
PROPERTIES
  SignalsItsOwnChild
  TryWaitReturns
CHECK_DEADLOCK FALSE
