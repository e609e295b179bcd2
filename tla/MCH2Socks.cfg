SPECIFICATION HandlerFairSpec
CONSTANTS
  None = None
  Remotes = {v4, v6}
  Hosts = {h1}
  Ports = {1, 2}
  IdleTicks = 2
  MaxChunks = 2
  AllowUDP = TRUE
INVARIANTS HandlerEndsClean ServesOnePeer
PROPERTIES TruncatesOneWay StopHasCause HostsAssociation IdleEnds HandlerEnds
