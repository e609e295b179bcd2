SPECIFICATION FairSpec
CONSTANTS
  None = None
  Bundles = {b1, b2}
  NAddrs = 2
  SyncReply = TRUE
INVARIANTS OnePumpSet NoLostWakeup QuietAfterClose
PROPERTIES HoldsOneConnection HealthyIsKept RedialsUnlessParked CloseReturns
