----------------------------- MODULE MCSecBroker -----------------------------
EXTENDS SecBroker, TLC

Perms == Permutations(Handlers)
=============================================================================
