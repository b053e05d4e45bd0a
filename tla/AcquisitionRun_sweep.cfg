SPECIFICATION Spec
CONSTANTS
  Targets = {t1}
  Ops = {"raw"}
  Files = {f1}
  Commands = {c1, c2}
  MaxInFlight = 2
  None = None
  Overlap = TRUE
INVARIANT BodiesRemain
CHECK_DEADLOCK FALSE
