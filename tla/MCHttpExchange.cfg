SPECIFICATION Spec
CONSTANTS
  ReadBufLength = 3
  Word = 64
  Responses <- MCResponses
  Urls <- MCUrls
  MaxIps = 2
  MaxCalls = 2
CHECK_DEADLOCK FALSE
INVARIANTS
  Destination
  HeaderFits
  InPlace
  BodyComplete
PROPERTY
  Ends
