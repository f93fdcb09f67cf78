CONSTANTS
  Calls = {call}
  Pumps = {pump}
  Hosts = {h1, h2}
  None = None
SPECIFICATION Spec
CHECK_DEADLOCK FALSE
INVARIANTS
  TypeOK
  CallbacksAreSound
  NothingLeaks
