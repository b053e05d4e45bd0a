---- MODULE MCRunLock ----
EXTENDS RunLock, TLC
Perms == Permutations(Procs) \cup Permutations(Hosts)
====
