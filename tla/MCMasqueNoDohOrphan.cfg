SPECIFICATION Spec
SYMMETRY Symmetry
CONSTANTS
  None = None
  Procs = {p1, p2}
  Bundles = {b1, b2}
  Dohs = {d1, d2}
  NAddrs = 1
  NServers = 1
INVARIANT NoDohOrphan
