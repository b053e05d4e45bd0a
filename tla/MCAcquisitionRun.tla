---- MODULE MCAcquisitionRun ----
EXTENDS AcquisitionRun, TLC
Perms == Permutations(Targets) \cup Permutations(Files) \cup Permutations(Commands)
====
