---------------------------- MODULE MCCohortStore ----------------------------
EXTENDS CohortStore

CONSTANTS p1, p2, h1, h2

\* Two commands on different hosts.
TwoHosts == [p \in Procs |-> IF p = p1 THEN h1 ELSE h2]

\* Every command beside one that stages a dataset: the others do all their work
\* under the lock, one after the other.
BesideStager == [p \in Procs |-> IF p = p1 THEN Kinds ELSE {"ingest"}]
=============================================================================
