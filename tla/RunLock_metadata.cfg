SPECIFICATION Spec
CONSTANTS
  Procs = {p1, p2, p3}
  Hosts = {h1}
  Variants = {"metadata"}
  Attested = {}
  None = None
PROPERTY LiveOwnerKeepsLock
CHECK_DEADLOCK FALSE
