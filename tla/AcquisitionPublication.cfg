SPECIFICATION PSpec
CONSTANTS
  Targets = {t1, t2}
  Ops = {"raw", "txt"}
  Files = {f1, f2}
  Commands = {c1, c2}
  MaxInFlight = 2
  None = None
  Overlap = FALSE
SYMMETRY Perms
INVARIANTS TypeOK BodiesRemain SucceededHasResult ReadyOnlyWhenAcquired ReceiptIsFinal
PROPERTY LoopDoneMeansComplete
CHECK_DEADLOCK FALSE
