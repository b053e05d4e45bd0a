SPECIFICATION FairSpec
CONSTANTS
  Procs = {p1, p2, p3}
  Hosts = {h1, h2}
  Variants = {"acquisition", "metadata", "inventory"}
  Attested = {"metadata", "inventory"}
  None = None
INVARIANTS TypeOK MutualExclusion
PROPERTIES LiveOwnerKeepsLock EveryAttemptEnds
CHECK_DEADLOCK FALSE
