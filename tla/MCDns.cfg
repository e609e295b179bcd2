SPECIFICATION FairSpec
CONSTANTS
  None = None
  Procs = {p1, p2}
  Hosts = {h1, h2}
  SweepAt = 1
  MaxEntries = 1
  MinTTL = 1
  MaxTTL = 1
  RawTTLs = {0, 2}
INVARIANTS CacheBounded ServedInWindow AddressOrError
PROPERTIES PrefersV4 TransportRetried DnsIsSingleFlight LookupsReturn
