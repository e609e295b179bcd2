SPECIFICATION FairSpec
CONSTANTS
  None = None
  Clients = {c1}
  Transports = {"auto", "h3", "h2"}
  SelfTest = TRUE
  FirstBackoff = 5
  MaxBackoff = 30
  Attempts = 3
INVARIANTS ServesUntilSignal OrderlyShutdown
PROPERTIES PendingServed SignalEnds
