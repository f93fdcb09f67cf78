CONSTANTS
  MaxLines = 3
  Responses <- MCResponses
SPECIFICATION Spec
CHECK_DEADLOCK FALSE
INVARIANT SlugsAreChangedBack
