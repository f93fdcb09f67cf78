CONSTANTS
  Auth = {a1}
  Call = {c1, c2, c3}
  TTL = 1
  MaxTime = 2
SPECIFICATION Spec
CHECK_DEADLOCK FALSE
PROPERTY TransientKeepsLastValid
