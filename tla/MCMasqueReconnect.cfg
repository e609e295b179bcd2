SPECIFICATION Spec
SYMMETRY Symmetry
CONSTANTS
  None = None
  Procs = {p1, p2}
  Bundles = {b1, b2, b3}
  Dohs = {}
  NAddrs = 2
  NServers = 1
INVARIANTS TypeOK
PROPERTIES HoldsOneConnection NoHealthyReplaced
