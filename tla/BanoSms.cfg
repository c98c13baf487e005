SPECIFICATION Spec
CONSTANT
  MaxExtra = 3
INVARIANTS
  SessionReleased
  RequestOnce
  NeverBothWait
PROPERTIES
  Returns
