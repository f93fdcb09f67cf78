CONSTANT MaxPieces = 8
SPECIFICATION FairSpec
CHECK_DEADLOCK FALSE
INVARIANTS
  TypeOK
  RelaysThePrefix
  StreamsAreClosed
PROPERTIES
  ImplementsRelay
  EventuallyEnds
