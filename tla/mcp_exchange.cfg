SPECIFICATION ExchangeSpec
CONSTANTS
  MaxResult = 16
  MaxStructured = 8
  Budget = 6
  SocketTimeout = 2
  MaxLookup = 5
  MaxRedirects = 2
  MaxAttempts = 3
  MaxBytes = 3
  MaxPieces = 2
  MaxEvents = 2
  MaxText = 3
  Home <- MCHome
  Places <- MCPlaces
  Replies <- MCReplies
  Contents <- MCContents
CHECK_DEADLOCK FALSE
INVARIANTS
  InTime
  KeysStayBehind
  LeftOutIsTold
PROPERTIES
  CallEnds
