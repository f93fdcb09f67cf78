CONSTANTS
  Url = {u1, u2, u3, u4, foreign}
  Origin = {u1, u2, u3, u4}
  First = u1
  NoLink = NoLink
  Malformed = Malformed
  MaxPages = 3
SPECIFICATION Spec
CHECK_DEADLOCK FALSE
INVARIANTS
  TypeOK
  RequestsAreBounded
  WalkIsExact
