SPECIFICATION Spec
CONSTANTS
  Targets = {t1}
  Ops = {"raw", "txt"}
  Files = {f1}
  Commands = {c1, c2}
  MaxInFlight = 1
  None = None
  Overlap = FALSE
INVARIANT RetryCanExecute
CHECK_DEADLOCK FALSE
