SPECIFICATION FairSpec
CONSTANTS
  p1 = p1
  p2 = p2
  h1 = h1
  h2 = h2
  Cohorts = {g}
  Contents = {x, y}
  Procs = {p1, p2}
  HostOf <- TwoHosts
  Commands <- BesideStager
  MaxPurged = 2
  None = None
INVARIANTS TypeOK ActiveIsRegistered
PROPERTIES RegisteredKeepsDataset DetachedKept LockReleased
