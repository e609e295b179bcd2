SPECIFICATION FairSpec
CONSTANTS
  None = None
  Bundles = {b1, b2}
  NAddrs = 2
  SyncReply = TRUE
PROPERTIES Redials
