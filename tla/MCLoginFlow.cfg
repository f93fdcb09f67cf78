CONSTANTS
  State = {s1, s2}
  Request = {r1, r2}
  Key = {k1, k2}
  None = None
SPECIFICATION FairSpec

CHECK_DEADLOCK FALSE
INVARIANTS
  TypeOK
  DeliveredIsAccepted
  ConnectedKept
  DeliveredIsConnected
  NilKeyNeedsRace
  
PROPERTIES
  ImplementsContract
  EventuallyAnswered
