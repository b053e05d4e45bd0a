SPECIFICATION Spec
CONSTANTS
  Workers = {w1}
  Handlers = {h1, h2, h3}
  Urls = {u1}
  MaxConnections = 2
  MaxFailures = 1
  None = None
SYMMETRY Perms
INVARIANTS TypeOK BudgetHolds
PROPERTIES AnswerIsOurs
