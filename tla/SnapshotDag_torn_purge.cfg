SPECIFICATION Spec
CONSTANTS
  Snapshots = {s1, s2, s3}
  Contents = {c1}
  Hashed = c1
  MaxPublications = 3
  Branches = {main, dev}
  Main = main
  Tags = {t1}
  Publishers = {p1, p2}
  None = None
  PinField = "manifest_sha256"
  Apart = {"purge", "pointer"}
SYMMETRY Perms
INVARIANT RefsOnDisk
