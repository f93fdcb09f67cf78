CONSTANTS
  MaxLines = 3
  Responses <- MCResponses
SPECIFICATION Spec
CHECK_DEADLOCK FALSE
INVARIANTS
  TypeOK
  FramesAreWhole
  NothingIsWithheld
  FramesAreEvents
  ClientsReadTheEvents
PROPERTY
  ImplementsRelay
