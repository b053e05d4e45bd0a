----------------------- MODULE MCAcquisitionPublication -----------------------
EXTENDS AcquisitionPublication, TLC
Perms == Permutations(Targets) \cup Permutations(Files) \cup Permutations(Commands)
=============================================================================
