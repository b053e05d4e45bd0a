SPECIFICATION Spec
CONSTANTS
  Snapshots = {s1, s2}
  Contents = {c1, c2}
  Hashed = c1
  MaxPublications = 3
  Branches = {main}
  Main = main
  Tags = {t1}
  Publishers = {p1, p2}
  None = None
  PinField = "manifest_sha256"
  Apart = {"purge", "pointer"}
SYMMETRY Perms
INVARIANTS TypeOK RefsRecorded
PROPERTIES RootsStayIntact CommitIsCAS  ImplementsRepository
