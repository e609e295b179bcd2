SPECIFICATION LiveSpec
CONSTANTS
  None = None
  Procs = {p1, p2}
  Resolvers = {p1}
  Bundles = {1, 2}
  Dohs = {1, 2}
  NAddrs = 1
  NServers = 1
PROPERTIES CallsReturn DohIsSingleFlight
