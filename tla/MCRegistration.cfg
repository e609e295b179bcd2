SPECIFICATION FairSpec
CONSTANTS
  None = None
  Procs = {p1, p2}
  Accounts = {a1, a2, a3}
INVARIANTS SavedIsEnrolled StrandedByFaultOnly
PROPERTIES RegNeverReplaces DelWorks
