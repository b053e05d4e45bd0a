---- MODULE MCSnapshotDag ----
EXTENDS SnapshotDagRefinement, TLC
Perms == Permutations(Snapshots) \cup Permutations(Publishers)
====
