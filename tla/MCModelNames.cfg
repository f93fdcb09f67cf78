CONSTANTS
  Segment <- MCSegment
  Lower <- MCLower
  Provider = "openrouter"
  Empty = ""
  Effort <- MCEffort
  Listed <- MCListed
  MaxListed = 3
  Asked <- MCAsked
  None = None
SPECIFICATION Spec
CHECK_DEADLOCK FALSE
INVARIANTS
  TypeOK
  RoundTrip
  NoVendorGuess
  EffortIsTheModels
  AdvertisedIsAccepted
  OnlyNitroClashes
  UniqueIsPublished
