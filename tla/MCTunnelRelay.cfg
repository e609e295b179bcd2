SPECIFICATION FairSpec
CONSTANTS
  MaxChunks = 2
  RequireAuth = TRUE
  AllowUDP = TRUE
INVARIANTS StreamReturned NoLeftoverDeadline
PROPERTIES TruncatesNothing HandlerReturns
