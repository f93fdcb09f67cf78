CONSTANTS
  State = {s1}
  Request = {r1, r2}
  Key = {k1, k2}
  None = None
SPECIFICATION Spec
SYMMETRY Symmetry
CHECK_DEADLOCK FALSE
INVARIANT NoNilDecrypt
