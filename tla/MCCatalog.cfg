CONSTANTS
  Auth = {a1}
  Call = {c1, c2, c3}
  TTL = 1
  MaxTime = 2
SPECIFICATION Spec
SYMMETRY Symmetry
CHECK_DEADLOCK FALSE
INVARIANTS
  TypeOK
  HitIsFresh
  RevokedServedOnlyFromMemory
  RefreshNeedsLiveKey
