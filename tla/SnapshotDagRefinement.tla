------------------------ MODULE SnapshotDagRefinement ------------------------
(***************************************************************************)
(* SnapshotDag implements SnapshotRepository: rows of the catalog are the  *)
(* published snapshots, a snapshot is readable when its lineage resolves   *)
(* with every part on disk as recorded, and a publisher's attempt is what  *)
(* it is about to publish from the moment it has read the tip.             *)
(***************************************************************************)
EXTENDS SnapshotDag

Readables == {t \in nodes : Intact(t)}

\* Who copies in place reads the tip when that is done, unless it has seen one.
TipRead(p) ==
    pub[p].pc # "idle" /\ (pub[p].pc \in {"planned", "copying"} => pub[p].expected # None)

Attempt(p) ==
    IF TipRead(p)
    THEN [snap |-> pub[p].snap, name |-> pub[p].branch, expected |-> pub[p].expected]
    ELSE [snap |-> None, name |-> None, expected |-> None]

Writing == {p \in Publishers : pub[p].pc = "copying"}

Repository == INSTANCE SnapshotRepository
                WITH Pointers <- Refs,
                     published <- nodes,
                     readable <- Readables,
                     attempt <- [p \in Publishers |-> Attempt(p)],
                     writing <- Writing

\* Every step of publish_node, the operator commands and gc is a step of the
\* abstract repository or changes nothing it can see: compare-and-swap of the
\* tip, names only at published snapshots, and no damage to what a name keeps
\* but by the first write of a merge or augmentation into its directories.
ImplementsRepository == Repository!Spec
=============================================================================
