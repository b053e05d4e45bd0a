-------------------------- MODULE SnapshotDagProofs --------------------------
(***************************************************************************)
(* Proofs about the snapshot DAG, for any number of snapshots, contents,   *)
(* names, publishers and publications. Types and the exclusion of          *)
(* publishers hold as the code stands. That a commit is a compare-and-swap *)
(* is proved of stores on which checkout, branch and tag run while nobody  *)
(* publishes; that nothing a name keeps is damaged, and that what is       *)
(* committed is intact, of stores on which the purging half of gc runs     *)
(* alone.                                                                  *)
(***************************************************************************)
EXTENDS SnapshotDag, TLAPS

-----------------------------------------------------------------------------
(* Lineage                                                                 *)

\* A recorded snapshot is in its own lineage (walk_lineage starts with it).
LEMMA LineageSelf == ASSUME NEW t \in nodes PROVE t \in Lineage(t)
  BY DEF Lineage

\* A lineage holds recorded snapshots only: the recursive query joins on nodes.
LEMMA LineageNodes == ASSUME NEW t PROVE Lineage(t) \subseteq nodes
  BY DEF Lineage

\* The recorded parents of a lineage are in it: the query runs to its fixpoint.
LEMMA LineageIsClosed == ASSUME NEW t PROVE LineageClosed(Lineage(t))
<1> SUFFICES ASSUME NEW x \in Lineage(t), NEW y \in Follows(x) PROVE y \in Lineage(t)
  BY DEF LineageClosed
<1>1. y \in nodes
  BY DEF Follows
<1>2. ASSUME NEW C \in SUBSET nodes, t \in C, LineageClosed(C) PROVE y \in C
  BY <1>2 DEF Lineage, LineageClosed
<1>3. t \in nodes
  BY DEF Lineage
<1> QED
  BY <1>1, <1>2, <1>3 DEF Lineage

\* What keeps a snapshot intact across a step: the rows of its lineage stay as
\* they are, and so do the directories that hold their parts.
LEMMA IntactKept ==
  ASSUME NEW t, Intact(t),
         Lineage(t) \subseteq nodes',
         \A x \in Lineage(t) : row'[x] = row[x],
         \A x \in Lineage(t) : \A part \in row[x].parts : disk'[part[1]] = disk[part[1]]
  PROVE  Intact(t)'
<1>0. PICK L : L = Lineage(t)
  OBVIOUS
<1> USE <1>0
<1>1. t \in L /\ L \subseteq nodes
  BY LineageSelf, LineageNodes DEF Intact, Resolvable
<1>2. ASSUME NEW x \in L, row[x].kind = "delta"
      PROVE  row[x].parent \in L /\ row[x].pin = Digest(row[row[x].parent])
  <2>1. row[x].parent \in nodes /\ row[x].pin = Digest(row[row[x].parent])
    BY <1>2 DEF Intact, Resolvable, ParentLinkOK
  <2>2. row[x].parent \in Follows(x)
    BY <1>2, <2>1 DEF Follows
  <2> QED
    BY <2>1, <2>2, LineageIsClosed DEF LineageClosed
<1>3. LineageClosed(L)'
  BY <1>2 DEF LineageClosed, Follows
<1>4. Lineage(t)' \subseteq L
  BY <1>1, <1>3 DEF Lineage
<1>5. ASSUME NEW x \in L PROVE ParentLinkOK(x)'
  BY <1>2 DEF ParentLinkOK, Digest
<1>6. Resolvable(t)'
  BY <1>1, <1>4, <1>5 DEF Resolvable
<1>7. ASSUME NEW x \in L PROVE PartsMatch(row[x])'
  BY DEF PartsMatch, Intact
<1> QED
  BY <1>4, <1>6, <1>7 DEF Intact

-----------------------------------------------------------------------------
(* Types                                                                   *)

\* A process that is publishing has an id and a manifest.
Named ==
    \A p \in Publishers : pub[p].pc # "idle" =>
        /\ pub[p].snap \in Snapshots /\ pub[p].man \in Manifest
        /\ pub[p].man.kind = "delta" => pub[p].man.parent \in Snapshots

TypeInv == TypeOK /\ Named

\* Branch and tag names point at snapshots.
LEMMA RootsTyped == TypeOK => Roots \subseteq Snapshots
  BY DEF TypeOK, Roots

\* A recorded row is a manifest.
LEMMA RowTyped == ASSUME TypeOK, NEW x \in nodes PROVE x \in Snapshots /\ row[x] \in Manifest
  BY DEF TypeOK, nodes

\* A manifest has a digest (manifest_sha256).
LEMMA DigestTyped == ASSUME NEW m \in Manifest PROVE Digest(m) \in Digests
  BY DEF Digest, Digests, Manifest

\* A manifest's parts, one by one.
LEMMA PartTyped ==
  ASSUME NEW m \in Manifest, NEW part \in m.parts
  PROVE  part[1] \in Snapshots /\ part[2] \in Contents /\ part = <<part[1], part[2]>>
  BY DEF Manifest, Parts

\* The checkpoint a publisher makes is a manifest.
LEMMA CheckpointTyped ==
  ASSUME NEW s \in Snapshots, NEW d \in Contents, NEW t \in Stamps
  PROVE  Checkpoint(s, d, t) \in Manifest
  BY DEF Checkpoint, Manifest, Parts

\* The delta a publisher makes on a recorded snapshot is a manifest.
LEMMA DeltaTyped ==
  ASSUME TypeOK, NEW s \in Snapshots, NEW d \in Contents, NEW t \in Stamps, NEW q \in nodes,
         NEW pin \in Digests \cup {None}
  PROVE  Delta(s, d, t, q, pin) \in Manifest
<1>1. q \in Snapshots /\ row[q] \in Manifest
  BY RowTyped
<1> QED
  BY <1>1 DEF Delta, Manifest, Parts

\* What a process that begins to publish remembers: r.
BeginsAs(p, r) ==
    /\ pub[p].pc = "idle" /\ PublisherMayStart
    /\ pub' = [pub EXCEPT ![p] = r]
    /\ UNCHANGED <<row, ref, locks, op, gc>>
    /\ r \in Publication /\ r.snap \in Snapshots /\ r.man \in Manifest
    /\ r.pc \in {"staged", "planned", "copying"}
    /\ r.pc = "planned" => r.man.kind = "delta"
    /\ r.pc = "copying" => r.man.kind = "checkpoint"
    /\ r.expected = IF r.pc = "copying" THEN None ELSE ref[r.branch]
    /\ r.man.kind = "delta" =>
          /\ r.man.parent \in nodes
          /\ (r.pc = "staged" /\ PinField = "manifest_sha256")
                => r.man.pin = Digest(row[r.man.parent])
    /\ \/ disk' = disk /\ (r.pc = "planned" \/ (r.pc = "staged" /\ r.place # "placed"))
       \/ /\ disk[r.snap] = "absent" /\ disk' = [disk EXCEPT ![r.snap] = r.data]
          /\ r.pc = "staged"
       \/ CopyInto(p, r.snap) /\ r.pc = "copying"

\* Staging a well-formed manifest begins a publication.
LEMMA StageBeginsAs ==
  ASSUME TypeInv, NEW p \in Publishers, NEW s \in Snapshots, NEW m \in Manifest,
         NEW b \in Branches, NEW place \in {"beside", "elsewhere", "placed"},
         NEW d \in Contents, Stage(p, s, m, b, place, d),
         \/ disk' = disk /\ place # "placed"
         \/ disk[s] = "absent" /\ disk' = [disk EXCEPT ![s] = d],
         m.kind = "delta" =>
            /\ m.parent \in nodes
            /\ PinField = "manifest_sha256" => m.pin = Digest(row[m.parent])
  PROVE  \E r : BeginsAs(p, r)
<1>1. ref[b] \in Snapshots \cup {None}
  BY DEF TypeInv, TypeOK, Refs
<1>2. PICK r : r = [pc |-> "staged", snap |-> s, branch |-> b, expected |-> ref[b],
                    place |-> place, data |-> d, man |-> m]
  OBVIOUS
<1>3. r \in Publication
  BY <1>1, <1>2 DEF Publication
<1>4. BeginsAs(p, r)
  BY <1>2, <1>3 DEF BeginsAs, Stage
<1> QED
  BY <1>4

\* StageDelta, as it begins.
LEMMA DeltaBegins ==
  ASSUME TypeInv, NEW p \in Publishers, NEW s \in Snapshots, NEW b \in Branches,
         NEW t \in Stamps, StageDelta(p, s, b, t)
  PROVE  \E r : BeginsAs(p, r)
<1> USE DagAssumption
<1>1. CASE ref[b] = None
  <2>1. PICK m : m = Checkpoint(s, Hashed, t)
    OBVIOUS
  <2>2. m \in Manifest /\ m.kind = "checkpoint"
    BY <2>1, CheckpointTyped DEF Checkpoint
  <2>3. None \notin nodes
    BY DEF nodes
  <2>4. Stage(p, s, m, b, "beside", Hashed) /\ disk' = disk
    BY <1>1, <2>1, <2>3 DEF StageDelta
  <2> QED
    BY <2>2, <2>4, StageBeginsAs
<1>2. CASE ref[b] # None
  <2>1. ref[b] \in nodes /\ ref[b] \in Snapshots /\ row[ref[b]] \in Manifest
    BY <1>2, RowTyped DEF StageDelta, TypeInv
  <2>2. PICK pin : pin = IF PinField = "manifest_sha256" THEN Digest(row[ref[b]]) ELSE None
    OBVIOUS
  <2>3. pin \in Digests \cup {None}
    BY <2>1, <2>2, DigestTyped
  <2>4. PICK m : m = Delta(s, Hashed, t, ref[b], pin)
    OBVIOUS
  <2>5. m \in Manifest /\ m.parent = ref[b] /\ m.pin = pin
    BY <2>1, <2>3, <2>4, DeltaTyped DEF Delta, TypeInv
  <2>6. Stage(p, s, m, b, "beside", Hashed) /\ disk' = disk
    BY <1>2, <2>2, <2>4 DEF StageDelta
  <2> QED
    BY <2>1, <2>2, <2>5, <2>6, StageBeginsAs
<1> QED
  BY <1>1, <1>2

\* StageCatalog, as it begins.
LEMMA CatalogBegins ==
  ASSUME TypeInv, NEW p \in Publishers, NEW s \in Snapshots, NEW q, NEW b \in Branches,
         NEW d \in Contents, NEW t \in Stamps, StageCatalog(p, s, q, b, d, t)
  PROVE  \E r : BeginsAs(p, r)
<1>1. disk[s] = "absent" /\ disk' = [disk EXCEPT ![s] = d]
  BY DEF StageCatalog, dirs
<1>2. CASE Stage(p, s, Checkpoint(s, d, t), b, "placed", d)
  <2>1. PICK m : m = Checkpoint(s, d, t)
    OBVIOUS
  <2>2. m \in Manifest /\ m.kind = "checkpoint"
    BY <2>1, CheckpointTyped DEF Checkpoint
  <2> QED
    BY <1>1, <1>2, <2>1, <2>2, StageBeginsAs
<1>3. CASE q \in nodes /\ Stage(p, s, Delta(s, d, t, q, Digest(row[q])), b, "placed", d)
  <2>1. PICK m : m = Delta(s, d, t, q, Digest(row[q]))
    OBVIOUS
  <2>2. Digest(row[q]) \in Digests
    BY <1>3, RowTyped, DigestTyped DEF TypeInv
  <2>3. m \in Manifest /\ m.parent = q /\ m.pin = Digest(row[q])
    BY <1>3, <2>1, <2>2, DeltaTyped DEF Delta, TypeInv
  <2> QED
    BY <1>1, <1>3, <2>1, <2>3, StageBeginsAs
<1> QED
  BY <1>2, <1>3 DEF StageCatalog

\* StageCompact, as it begins.
LEMMA CompactBegins ==
  ASSUME TypeInv, NEW p \in Publishers, NEW s \in Snapshots, NEW b \in Branches,
         NEW d \in Contents, NEW t \in Stamps, StageCompact(p, s, b, d, t)
  PROVE  \E r : BeginsAs(p, r)
<1>1. PICK c : c = Checkpoint(s, d, t)
  OBVIOUS
<1>2. c \in Manifest /\ c.kind = "checkpoint"
  BY <1>1, CheckpointTyped DEF Checkpoint
<1>3. ref[b] \in Snapshots /\ Digest(row[ref[b]]) \in Digests
  BY RowTyped, DigestTyped DEF StageCompact, TypeInv
<1>4. PICK m : m = [c EXCEPT !.parent = ref[b], !.pin = Digest(row[ref[b]])]
  OBVIOUS
<1>5. m \in Manifest /\ m.kind = "checkpoint"
  BY <1>2, <1>3, <1>4 DEF Manifest
<1>6. Stage(p, s, m, b, "elsewhere", d) /\ disk' = disk
  BY <1>1, <1>4 DEF StageCompact
<1> QED
  BY <1>5, <1>6, StageBeginsAs

\* StageImport, as it begins.
LEMMA ImportBegins ==
  ASSUME TypeInv, NEW p \in Publishers, NEW s \in Snapshots, NEW q, NEW b \in Branches,
         NEW d \in Contents, NEW t \in Stamps, StageImport(p, s, q, b, d, t)
  PROVE  \E r : BeginsAs(p, r)
<1>1. PICK c : c = Checkpoint(s, d, t)
  OBVIOUS
<1>2. c \in Manifest /\ c.kind = "checkpoint"
  BY <1>1, CheckpointTyped DEF Checkpoint
<1>3. q \in Snapshots /\ disk[q] \in Contents
  BY RowTyped DEF StageImport, TypeInv
<1>4. PICK m : m = [c EXCEPT !.parts = @ \cup {<<q, disk[q]>>}]
  OBVIOUS
<1>5. m \in Manifest /\ m.kind = "checkpoint"
  BY <1>2, <1>3, <1>4 DEF Manifest, Parts
<1>6. Stage(p, s, m, b, "elsewhere", d) /\ disk' = disk
  BY <1>1, <1>4 DEF StageImport
<1> QED
  BY <1>5, <1>6, StageBeginsAs

\* StartMerge, as it begins.
LEMMA MergeBegins ==
  ASSUME TypeInv, NEW p \in Publishers, NEW s \in Snapshots, NEW b \in Branches,
         NEW d \in Contents, NEW t \in Stamps, StartMerge(p, s, b, d, t)
  PROVE  \E r : BeginsAs(p, r)
<1>1. PICK c : c = Checkpoint(s, d, t)
  OBVIOUS
<1>2. c \in Manifest /\ c.kind = "checkpoint"
  BY <1>1, CheckpointTyped DEF Checkpoint
<1>3. PICK m : m = [c EXCEPT !.parts = {}]
  OBVIOUS
<1>4. m \in Manifest /\ m.kind = "checkpoint"
  BY <1>2, <1>3 DEF Manifest
<1>5. PICK r : r = [pc |-> "copying", snap |-> s, branch |-> b, expected |-> None,
                    place |-> "placed", data |-> d, man |-> m]
  OBVIOUS
<1>6. r \in Publication
  BY <1>4, <1>5 DEF Publication
<1>7. pub' = [pub EXCEPT ![p] = r]
  BY <1>1, <1>3, <1>5 DEF StartMerge
<1>8. BeginsAs(p, r)
  BY <1>4, <1>5, <1>6, <1>7 DEF BeginsAs, StartMerge
<1> QED
  BY <1>8

\* PlanAugment, as it begins.
LEMMA AugmentBegins ==
  ASSUME TypeInv, NEW p \in Publishers, NEW s \in Snapshots, NEW q, NEW b \in Branches,
         NEW d \in Contents, NEW t \in Stamps, PlanAugment(p, s, q, b, d, t)
  PROVE  \E r : BeginsAs(p, r)
<1>1. q \in nodes /\ q \in Snapshots /\ row[q] \in Manifest
  BY RowTyped DEF PlanAugment, TypeInv
<1>2. PICK m : m = [kind |-> "delta", parent |-> q, pin |-> None, anchor |-> q,
                    parts |-> row[q].parts, stamp |-> t]
  OBVIOUS
<1>3. m \in Manifest /\ m.kind = "delta" /\ m.parent = q
  BY <1>1, <1>2 DEF Manifest
<1>4. ref[b] \in Snapshots \cup {None}
  BY DEF TypeInv, TypeOK, Refs
<1>5. PICK r : r = [pc |-> "planned", snap |-> s, branch |-> b, expected |-> ref[b],
                    place |-> "placed", data |-> d, man |-> m]
  OBVIOUS
<1>6. r \in Publication
  BY <1>3, <1>4, <1>5 DEF Publication
<1>7. pub' = [pub EXCEPT ![p] = r]
  BY <1>2, <1>5 DEF PlanAugment
<1>8. BeginsAs(p, r)
  BY <1>1, <1>3, <1>5, <1>6, <1>7 DEF BeginsAs, PlanAugment
<1> QED
  BY <1>8

\* Whatever is begun, by any of the six writers, begins like that.
LEMMA BeginShape ==
  ASSUME TypeInv, NEW p \in Publishers, Begin(p)
  PROVE  (\E r : BeginsAs(p, r)) /\ begun' \in 0..MaxPublications
<1>1. PICK t : t = begun + 1
  OBVIOUS
<1>2. t \in Stamps /\ begun' = t /\ t \in 0..MaxPublications
  BY <1>1, DagAssumption DEF Begin, Stamps, TypeInv, TypeOK
<1>3. PICK s \in Snapshots, q \in Snapshots \cup {None}, b \in Branches, d \in Contents :
         \/ StageDelta(p, s, b, t) \/ StageCatalog(p, s, q, b, d, t)
         \/ StageCompact(p, s, b, d, t) \/ StageImport(p, s, q, b, d, t)
         \/ StartMerge(p, s, b, d, t) \/ PlanAugment(p, s, q, b, d, t)
  BY <1>1 DEF Begin
<1> QED
  BY <1>2, <1>3, DeltaBegins, CatalogBegins, CompactBegins, ImportBegins, MergeBegins,
     AugmentBegins

\* What FinishCopy leaves: the process has staged r, and the directory holds c.
FinishesAs(p, r, c) ==
    /\ pub[p].pc = "copying"
    /\ pub' = [pub EXCEPT ![p] = r]
    /\ disk' = [disk EXCEPT ![pub[p].snap] = c]
    /\ UNCHANGED <<row, ref, locks, op, gc>>
    /\ c \in Disk \ {"absent"}
    /\ OthersWrite(p, pub[p].snap) => c = "mixed"
    /\ r \in Publication /\ r.man \in Manifest /\ r.pc = "staged"
    /\ r.snap = pub[p].snap /\ r.branch = pub[p].branch
    /\ r.man.kind = pub[p].man.kind /\ r.man.parent = pub[p].man.parent
    /\ r.man.kind = "delta" => r.man.pin = RecordedDigest(r.man.parent)
    /\ r.expected = IF pub[p].expected = None THEN ref[r.branch] ELSE pub[p].expected

\* The copy of merge and augment ends like that.
LEMMA FinishShape ==
  ASSUME TypeInv, NEW p \in Publishers, FinishCopy(p)
  PROVE  \E r, c : FinishesAs(p, r, c)
<1> USE DagAssumption
<1>1. PICK s, m : s = pub[p].snap /\ m = pub[p].man
  OBVIOUS
<1>2. pub[p].pc = "copying" /\ s \in Snapshots /\ m \in Manifest /\ pub[p] \in Publication
  BY <1>1 DEF FinishCopy, TypeInv, TypeOK, Named
<1>3. PICK base : base = PartDirs(m)
  OBVIOUS
<1>4. base \subseteq Snapshots
  BY <1>2, <1>3, PartTyped DEF PartDirs
<1>5. PICK left \in CopyLeaves(p), seen \in [base -> Contents] :
          /\ disk' = [disk EXCEPT ![s] = left[1]]
          /\ pub' = [pub EXCEPT ![p] = [pub[p] EXCEPT !.pc = "staged", !.expected = TipSeen(p),
                                             !.man = MadeManifest(p, seen, left[2])]]
  BY <1>1, <1>3 DEF FinishCopy
<1>6. left[1] \in Disk \ {"absent"} /\ left[2] \in Contents
      /\ (OthersWrite(p, s) => left[1] = "mixed")
  <2>1. pub[p].data \in Contents
    BY <1>2 DEF Publication
  <2>2. CASE disk[s] = "torn" /\ ~OthersWrite(p, s)
    BY <1>1, <1>5, <2>1, <2>2 DEF CopyLeaves, Disk
  <2>3. CASE ~(disk[s] = "torn" /\ ~OthersWrite(p, s))
    <3>1. left \in (IF OthersWrite(p, s) THEN {"mixed"} ELSE {"mixed"} \cup Contents) \X Contents
      BY <1>1, <1>5, <2>3 DEF CopyLeaves
    <3> QED
      BY <3>1 DEF Disk
  <2> QED
    BY <2>2, <2>3
<1>7. PICK parts : parts = {<<x, seen[x]>> : x \in base} \cup {<<s, left[2]>>}
  OBVIOUS
<1>8. parts \subseteq Parts
  BY <1>2, <1>4, <1>5, <1>6, <1>7 DEF Parts
<1>9. PICK pin : pin = IF m.kind = "delta" THEN RecordedDigest(m.parent) ELSE None
  OBVIOUS
<1>10. pin \in Digests \cup {None}
  <2>1. CASE m.kind = "delta" /\ RecordedDigest(m.parent) # None
    <3>1. row[m.parent] # None
      BY <2>1 DEF RecordedDigest
    <3>2. row[m.parent] \in Manifest
      BY <1>1, <1>2, <2>1, <3>1 DEF TypeInv, TypeOK, Named
    <3> QED
      BY <1>9, <2>1, <3>1, <3>2, DigestTyped DEF RecordedDigest
  <2> QED
    BY <1>9, <2>1
<1>11. PICK n : n = [m EXCEPT !.parts = parts, !.pin = pin] /\ n = MadeManifest(p, seen, left[2])
  BY <1>1, <1>3, <1>7, <1>9 DEF MadeManifest
<1>12. n \in Manifest /\ n.kind = m.kind /\ n.parent = m.parent /\ n.pin = pin
  BY <1>2, <1>8, <1>10, <1>11 DEF Manifest
<1>13. PICK e : e = TipSeen(p)
                 /\ e = IF pub[p].expected = None THEN ref[pub[p].branch]
                        ELSE pub[p].expected
  BY <1>1 DEF TipSeen
<1>14. e \in Snapshots \cup {None}
  BY <1>2, <1>13 DEF Publication, TypeInv, TypeOK, Refs
<1>15. PICK r : r = [pub[p] EXCEPT !.pc = "staged", !.expected = e, !.man = n]
  OBVIOUS
<1>16. r \in Publication /\ r.pc = "staged" /\ r.snap = s /\ r.branch = pub[p].branch
       /\ r.man = n /\ r.expected = e
  BY <1>1, <1>2, <1>12, <1>14, <1>15 DEF Publication
<1>17. pub' = [pub EXCEPT ![p] = r]
  BY <1>5, <1>11, <1>13, <1>15
<1>18. UNCHANGED <<row, ref, locks, op, gc>>
  BY DEF FinishCopy
<1>19. m.kind \in {"delta", "checkpoint"}
  BY <1>2 DEF Manifest
<1>20. FinishesAs(p, r, left[1])
  BY <1>1, <1>2, <1>5, <1>6, <1>9, <1>12, <1>13, <1>16, <1>17, <1>18, <1>19 DEF FinishesAs
<1> QED
  BY <1>20

\* What a step does to one publisher's record keeps the records typed.
LEMMA RecordTyped ==
  ASSUME TypeInv, NEW p \in Publishers, NEW r \in Publication,
         pub' = [pub EXCEPT ![p] = r],
         r.pc # "idle" => /\ r.snap \in Snapshots /\ r.man \in Manifest
                          /\ r.man.kind = "delta" => r.man.parent \in Snapshots
  PROVE  pub' \in [Publishers -> Publication] /\ Named'
  BY DEF TypeInv, TypeOK, Named

\* A step of publish_node that only moves on.
LEMMA LabelShape ==
  ASSUME TypeInv, NEW p \in Publishers, NEW l \in {"copying", "locked", "compared", "moved"},
         pub[p].pc # "idle", pub' = [pub EXCEPT ![p].pc = l]
  PROVE  \E r \in Publication :
            /\ pub' = [pub EXCEPT ![p] = r]
            /\ r.pc = l /\ r.snap = pub[p].snap /\ r.branch = pub[p].branch
            /\ r.expected = pub[p].expected /\ r.place = pub[p].place
            /\ r.data = pub[p].data /\ r.man = pub[p].man
<1>1. pub[p] \in Publication
  BY DEF TypeInv, TypeOK
<1>2. PICK r : r = [pub[p] EXCEPT !.pc = l]
  OBVIOUS
<1>3. r \in Publication
  BY <1>1, <1>2 DEF Publication
<1> QED
  BY <1>1, <1>2, <1>3 DEF Publication

\* The idle record is one.
LEMMA IdleTyped == IdlePub \in Publication /\ IdlePub.pc = "idle"
  BY DagAssumption DEF IdlePub, Publication

\* One directory changes.
LEMMA DiskTyped ==
  ASSUME TypeOK, NEW s \in Snapshots, NEW c \in Disk, disk' = [disk EXCEPT ![s] = c]
  PROVE  disk' \in [Snapshots -> Disk]
  BY DEF TypeOK

\* A copy into a directory changes that directory only, and leaves no complete
\* content there.
LEMMA CopyShape ==
  ASSUME NEW p, NEW s, CopyInto(p, s)
  PROVE  \E c \in {"torn", "mixed"} : disk' = [disk EXCEPT ![s] = c]
  BY DEF CopyInto

\* Every publisher's step keeps the types.
LEMMA PublisherTyped ==
  ASSUME TypeInv, NEW p \in Publishers, PublisherStep(p)
  PROVE  TypeInv'
<1> USE DagAssumption
<1>1. CASE Begin(p)
  <2>1. PICK r : BeginsAs(p, r)
    BY <1>1, BeginShape
  <2>2. pub' \in [Publishers -> Publication] /\ Named'
    <3>1. r.man.kind = "delta" => r.man.parent \in Snapshots
      BY <2>1 DEF BeginsAs, nodes
    <3> QED
      BY <2>1, <3>1, RecordTyped DEF BeginsAs
  <2>3. disk' \in [Snapshots -> Disk]
    <3>1. r.snap \in Snapshots /\ r.data \in Disk
      BY <2>1 DEF BeginsAs, Publication, Disk
    <3>2. CASE disk' = disk
      BY <3>2 DEF TypeInv, TypeOK
    <3>3. CASE disk' = [disk EXCEPT ![r.snap] = r.data]
      BY <3>1, <3>3, DiskTyped DEF TypeInv
    <3>4. CASE CopyInto(p, r.snap)
      BY <3>1, <3>4, CopyShape, DiskTyped DEF TypeInv, Disk
    <3> QED
      BY <2>1, <3>2, <3>3, <3>4 DEF BeginsAs
  <2>4. begun' \in 0..MaxPublications
    BY <1>1, BeginShape
  <2> QED
    BY <2>1, <2>2, <2>3, <2>4 DEF BeginsAs, TypeInv, TypeOK
<1>2. CASE Proceed(p) /\ UNCHANGED begun
  <2>1. pub[p].pc # "idle"
    BY <1>2 DEF Proceed, StartCopy, FinishCopy, AcquireLock, CompareTip, StaleParent, MoveDir,
                CrashMove, Commit, CommitRefused, CrashPublisher
  <2>2. /\ pub[p].snap \in Snapshots /\ pub[p].man \in Manifest /\ pub[p] \in Publication
        /\ pub[p].man.kind = "delta" => pub[p].man.parent \in Snapshots
    BY <2>1 DEF TypeInv, TypeOK, Named
  <2>3. pub[p].data \in Disk /\ pub[p].branch \in Refs
    BY <2>2 DEF Publication, Disk, Refs
  <2>4. CASE StartCopy(p) \/ AcquireLock(p) \/ CompareTip(p) \/ MoveDir(p)
    <3>1. PICK l \in {"copying", "locked", "compared", "moved"} :
             pub' = [pub EXCEPT ![p].pc = l]
      BY <2>4 DEF StartCopy, AcquireLock, CompareTip, MoveDir
    <3>2. pub' \in [Publishers -> Publication] /\ Named'
      <4>1. PICK r \in Publication :
               /\ pub' = [pub EXCEPT ![p] = r]
               /\ r.pc = l /\ r.snap = pub[p].snap /\ r.branch = pub[p].branch
               /\ r.expected = pub[p].expected /\ r.place = pub[p].place
               /\ r.data = pub[p].data /\ r.man = pub[p].man
        BY ONLY TypeInv, p \in Publishers, <2>1, <3>1, LabelShape
      <4> QED
        BY <2>2, <4>1, RecordTyped
    <3>3. CASE StartCopy(p)
      <4>1. disk' \in [Snapshots -> Disk]
        BY <2>2, <3>3, CopyShape, DiskTyped DEF StartCopy, TypeInv, Disk
      <4> QED
        BY <1>2, <3>2, <3>3, <4>1 DEF StartCopy, TypeInv, TypeOK
    <3>4. CASE AcquireLock(p)
      BY <1>2, <3>2, <3>4 DEF AcquireLock, TypeInv, TypeOK, LockFiles
    <3>5. CASE CompareTip(p)
      BY <1>2, <3>2, <3>5 DEF CompareTip, TypeInv, TypeOK
    <3>6. CASE MoveDir(p)
      <4>1. disk' = disk \/ disk' = [disk EXCEPT ![pub[p].snap] = pub[p].data]
        BY <3>6 DEF MoveDir
      <4>2. disk' \in [Snapshots -> Disk]
        BY <2>2, <2>3, <4>1, DiskTyped DEF TypeInv, TypeOK
      <4> QED
        BY <1>2, <3>2, <3>6, <4>2 DEF MoveDir, TypeInv, TypeOK
    <3> QED
      BY <2>4, <3>3, <3>4, <3>5, <3>6
  <2>5. CASE FinishCopy(p)
    <3>1. PICK r, c : FinishesAs(p, r, c)
      BY <2>5, FinishShape
    <3>2. pub' \in [Publishers -> Publication] /\ Named'
      BY <2>2, <3>1, RecordTyped DEF FinishesAs
    <3>3. disk' \in [Snapshots -> Disk]
      BY <2>2, <3>1, DiskTyped DEF FinishesAs, TypeInv
    <3> QED
      BY <1>2, <3>1, <3>2, <3>3 DEF FinishesAs, TypeInv, TypeOK
  <2>6. ASSUME Stop(p)
        PROVE  /\ pub' \in [Publishers -> Publication] /\ Named'
               /\ locks' \in [LockFiles -> Publishers \cup {"gc", None}]
    <3>1. pub' = [pub EXCEPT ![p] = IdlePub]
      BY <2>6 DEF Stop
    <3>2. pub' \in [Publishers -> Publication] /\ Named'
      BY <3>1, IdleTyped, RecordTyped
    <3>3. locks' \in [LockFiles -> Publishers \cup {"gc", None}]
      BY <2>6 DEF Stop, TypeInv, TypeOK
    <3> QED
      BY <3>2, <3>3
  <2>7. CASE StaleParent(p) \/ CommitRefused(p) \/ CrashPublisher(p)
    BY <1>2, <2>6, <2>7 DEF StaleParent, CommitRefused, CrashPublisher, TypeInv, TypeOK
  <2>8. CASE CrashMove(p)
    <3>1. disk' \in [Snapshots -> Disk]
      BY <2>2, <2>8, DiskTyped DEF CrashMove, TypeInv, Disk
    <3> QED
      BY <1>2, <2>6, <2>8, <3>1 DEF CrashMove, TypeInv, TypeOK
  <2>9. CASE Commit(p)
    <3>1. row' \in [Snapshots -> Manifest \cup {None}]
      BY <2>2, <2>9 DEF Commit, TypeInv, TypeOK
    <3>2. ref' \in [Refs -> Snapshots \cup {None}]
      BY <2>2, <2>3, <2>9 DEF Commit, TypeInv, TypeOK
    <3> QED
      BY <1>2, <2>6, <2>9, <3>1, <3>2 DEF Commit, TypeInv, TypeOK
  <2> QED
    BY <1>2, <2>4, <2>5, <2>7, <2>8, <2>9 DEF Proceed
<1> QED
  BY <1>1, <1>2 DEF PublisherStep

\* Every step keeps the types.
LEMMA StepTyped == ASSUME TypeInv, [Next]_vars PROVE TypeInv'
<1> USE DagAssumption
<1>1. CASE UNCHANGED vars
  BY <1>1 DEF vars, TypeInv, TypeOK, Named
<1>2. ASSUME NEW p \in Publishers, PublisherStep(p) PROVE TypeInv'
  BY <1>2, PublisherTyped
<1>3. CASE OperatorStep /\ UNCHANGED begun
  <2> USE <1>3 DEF TypeInv, TypeOK, Named
  <2>1. ASSUME NEW n \in Refs, NEW s \in Snapshots, CheckSnapshot(n, s) PROVE TypeInv'
    BY <2>1 DEF CheckSnapshot
  <2>2. CASE WriteRef
    BY <2>2 DEF WriteRef, IdleOp, Refs
  <2>3. ASSUME NEW n \in Refs, DeleteRef(n) PROVE TypeInv'
    BY <2>3 DEF DeleteRef
  <2> QED
    BY <2>1, <2>2, <2>3 DEF OperatorStep
<1>4. CASE GcStep /\ UNCHANGED begun
  <2> USE <1>4, RootsTyped DEF TypeInv, TypeOK, Named
  <2>0. nodes \subseteq Snapshots /\ dirs \subseteq Snapshots
    BY DEF nodes, dirs
  <2>1. CASE GcReadRoots
    BY <2>1 DEF GcReadRoots
  <2>2. CASE GcReport
    BY <2>0, <2>2 DEF GcReport, Prunable
  <2>3. CASE GcLock
    BY <2>3 DEF GcLock, LockFiles, PurgeLockFile
  <2>4. CASE GcRecheck
    <3>1. Removable(gc.report \cap Prunable(gc.roots)) \subseteq Snapshots
      BY DEF Removable
    <3> QED
      BY <2>0, <2>4, <3>1 DEF GcRecheck, IdleGc
  <2>5. ASSUME NEW s \in Snapshots, GcRemoveStart(s) PROVE TypeInv'
    <3>1. disk' \in [Snapshots -> Disk]
      BY <2>5, DiskTyped DEF GcRemoveStart, Disk
    <3> QED
      BY <2>5, <3>1 DEF GcRemoveStart
  <2>6. CASE GcRemoveEnd
    BY <2>6 DEF GcRemoveEnd, Disk
  <2>7. CASE GcDeleteRow
    BY <2>7 DEF GcDeleteRow
  <2>8. CASE GcFinish
    BY <2>8 DEF GcFinish, LockFiles, PurgeLockFile, IdleGc
  <2>9. CASE CrashGc
    BY <2>9 DEF CrashGc, LockFiles, PurgeLockFile, IdleGc
  <2> QED
    BY <2>1, <2>2, <2>3, <2>4, <2>5, <2>6, <2>7, <2>8, <2>9 DEF GcStep
<1> QED
  BY <1>1, <1>2, <1>3, <1>4 DEF Next

\* The initial state is typed.
LEMMA InitTyped == Init => TypeInv
<1> SUFFICES ASSUME Init PROVE TypeInv
  OBVIOUS
<1>1. pub \in [Publishers -> Publication] /\ Named
  BY IdleTyped DEF Init, Named
<1> QED
  BY <1>1, DagAssumption DEF Init, TypeInv, TypeOK, IdleOp, IdleGc, Refs, Disk

\* The catalog, the directories, the locks and every process state keep their
\* types, whoever runs beside whom.
THEOREM TypeCorrect == Spec => []TypeOK
<1>1. TypeInv /\ [Next]_vars => TypeInv'
  BY StepTyped
<1>2. TypeInv => TypeOK
  BY DEF TypeInv
<1> QED
  BY <1>1, <1>2, InitTyped, PTL DEF Spec

-----------------------------------------------------------------------------
(* The publication lock and the compare-and-swap                           *)

\* A publisher past AcquireLock holds the lock, hence there is at most one.
LockHeld ==
    \A p \in Publishers :
        pub[p].pc \in {"locked", "compared", "moved"} => locks[PublishLockFile] = p

\* Every step keeps the lock with who is past AcquireLock: gc takes another file.
LEMMA StepLock ==
  ASSUME TypeInv, LockHeld, [Next]_vars
  PROVE  LockHeld'
<1> USE DagAssumption DEF LockHeld
<1>0. pub \in [Publishers -> Publication] /\ PublishLockFile \in LockFiles
      /\ locks \in [LockFiles -> Publishers \cup {"gc", None}]
      /\ PublishLockFile # PurgeLockFile
  BY DEF TypeInv, TypeOK, LockFiles, PublishLockFile, PurgeLockFile
<1>1. CASE UNCHANGED vars \/ OperatorStep
  BY <1>1 DEF vars, OperatorStep, CheckSnapshot, WriteRef, DeleteRef
<1>2. CASE GcStep
  <2>1. /\ pub' = pub
        /\ \A p \in Publishers : locks[PublishLockFile] = p => locks'[PublishLockFile] = p
    <3>1. CASE CrashGc
      BY <1>0, <3>1 DEF CrashGc
    <3> QED
      BY <1>0, <1>2, <3>1 DEF GcStep, GcReadRoots, GcReport, GcLock, GcRecheck, GcRemoveStart,
                  GcRemoveEnd, GcDeleteRow, GcFinish
  <2> QED
    BY <2>1
<1>3. ASSUME NEW p \in Publishers, PublisherStep(p) PROVE LockHeld'
  <2>1. CASE Begin(p)
    BY <1>0, <2>1, BeginShape DEF BeginsAs
  <2>2. CASE StartCopy(p)
    BY <1>0, <2>2 DEF StartCopy, Publication
  <2>3. CASE FinishCopy(p)
    BY <1>0, <2>3, FinishShape DEF FinishesAs
  <2>4. CASE AcquireLock(p)
    BY <1>0, <2>4 DEF AcquireLock, Publication
  <2>5. CASE CompareTip(p)
    BY <1>0, <2>5 DEF CompareTip, Publication
  <2>6. CASE MoveDir(p)
    BY <1>0, <2>6 DEF MoveDir, Publication
  <2>7. CASE StaleParent(p) \/ CommitRefused(p) \/ CrashPublisher(p) \/ CrashMove(p) \/ Commit(p)
    BY <1>0, <2>7, IdleTyped DEF StaleParent, CommitRefused, CrashPublisher, CrashMove, Commit, Stop
  <2> QED
    BY <1>3, <2>1, <2>2, <2>3, <2>4, <2>5, <2>6, <2>7 DEF PublisherStep, Proceed
<1> QED
  BY <1>1, <1>2, <1>3 DEF Next

\* The publication lock excludes publishers from each other whatever else runs.
LEMMA LockHeldHolds == Spec => [](TypeInv /\ LockHeld)
<1>1. Init => TypeInv /\ LockHeld
  BY InitTyped DEF Init, LockHeld, IdlePub
<1> QED
  BY <1>1, StepTyped, StepLock, PTL DEF Spec

\* The operator's pointer commands run while nobody publishes.
PointerAlone == op.pc # "idle" => NobodyPublishes

\* What CompareTip saw is still the tip when the row is committed.
TipUnmoved ==
    \A p \in Publishers : pub[p].pc \in {"compared", "moved"} => TipMatches(p)

CasInv == PointerAlone /\ TipUnmoved

\* A publisher's step keeps the exclusion of operators and the compared tip.
LEMMA PublisherCas ==
  ASSUME "pointer" \in Apart, TypeInv, LockHeld, CasInv, NEW p \in Publishers, PublisherStep(p)
  PROVE  CasInv'
<1> USE DagAssumption DEF CasInv, LockHeld, PointerAlone, NobodyPublishes, TipUnmoved, TipMatches
<1>0. pub \in [Publishers -> Publication]
  BY DEF TypeInv, TypeOK
<1>1. CASE Begin(p)
  <2>1. PICK r : BeginsAs(p, r)
    BY <1>1, BeginShape
  <2> QED
    BY <1>0, <2>1 DEF BeginsAs, PublisherMayStart
<1>2. CASE Proceed(p)
  <2>1. pub[p].pc # "idle" /\ op' = op
    BY <1>2 DEF Proceed, StartCopy, FinishCopy, AcquireLock, CompareTip, StaleParent, MoveDir,
                CrashMove, Commit, CommitRefused, CrashPublisher
  <2>2. CASE StartCopy(p) \/ AcquireLock(p) \/ CompareTip(p) \/ MoveDir(p)
    <3>1. CASE StartCopy(p)
      BY <1>0, <2>1, <3>1 DEF StartCopy, Publication
    <3>2. CASE AcquireLock(p)
      BY <1>0, <2>1, <3>2 DEF AcquireLock, Publication
    <3>3. CASE CompareTip(p)
      BY <1>0, <2>1, <3>3 DEF CompareTip, Publication
    <3>4. CASE MoveDir(p)
      BY <1>0, <2>1, <3>4 DEF MoveDir, Publication
    <3> QED
      BY <2>2, <3>1, <3>2, <3>3, <3>4
  <2>3. CASE FinishCopy(p)
    BY <1>0, <2>1, <2>3, FinishShape DEF FinishesAs
  <2>4. CASE StaleParent(p) \/ CommitRefused(p) \/ CrashPublisher(p) \/ CrashMove(p)
    BY <1>0, <2>1, <2>4, IdleTyped DEF StaleParent, CommitRefused, CrashPublisher, CrashMove, Stop
  <2>5. CASE Commit(p)
    BY <1>0, <2>1, <2>5, IdleTyped DEF Commit, Stop
  <2> QED
    BY <1>2, <2>2, <2>3, <2>4, <2>5 DEF Proceed
<1> QED
  BY <1>1, <1>2 DEF PublisherStep

\* Under "pointer" the exclusion of operators and the compared tip hold in every
\* reachable state, also beside a running gc.
LEMMA CasInvHolds == ASSUME "pointer" \in Apart PROVE Spec => [](TypeInv /\ CasInv)
<1>1. Init => CasInv
  BY DEF Init, CasInv, PointerAlone, TipUnmoved, IdlePub, IdleOp
<1>2. ASSUME TypeInv, LockHeld, CasInv, [Next]_vars PROVE CasInv'
  <2> USE DEF CasInv, PointerAlone, NobodyPublishes, TipUnmoved, TipMatches
  <2>1. CASE UNCHANGED vars
    BY <1>2, <2>1 DEF vars
  <2>2. CASE \E p \in Publishers : PublisherStep(p)
    BY <1>2, <2>2, PublisherCas
  <2>3. CASE OperatorStep
    BY <1>2, <2>3 DEF OperatorStep, CheckSnapshot, WriteRef, DeleteRef, OperatorMayStart, IdleOp
  <2>4. CASE GcStep
    <3>1. UNCHANGED <<ref, pub, op>>
      BY <2>4 DEF GcStep, GcReadRoots, GcReport, GcLock, GcRecheck, GcRemoveStart,
                  GcRemoveEnd, GcDeleteRow, GcFinish, CrashGc
    <3> QED
      BY <1>2, <3>1
  <2> QED
    BY <1>2, <2>1, <2>2, <2>3, <2>4 DEF Next
<1> QED
  BY <1>1, <1>2, LockHeldHolds, PTL DEF Spec

\* A commit of publish_node replaces exactly the tip its publisher read, on a store
\* whose branches no operator moves while somebody publishes; gc may run beside it.
THEOREM CommitIsCASHolds == ASSUME "pointer" \in Apart PROVE Spec => CommitIsCAS
<1>1. TypeInv /\ CasInv /\ [Next]_vars =>
        [\A p \in Publishers :
            (pub[p].pc = "moved" /\ pub'[p].pc = "idle"
                /\ ref'[pub[p].branch] # ref[pub[p].branch])
            => ref[pub[p].branch] = pub[p].expected]_vars
  BY DEF CasInv, TipUnmoved, TipMatches
<1> QED
  BY <1>1, CasInvHolds, PTL DEF Spec, CommitIsCAS

-----------------------------------------------------------------------------
(* Safety when the purging half of gc runs alone                           *)

\* Nothing else runs between GcLock and the end of the purge.
PurgeAlone == Purging => NobodyPublishes /\ op.pc = "idle"

\* What publisher p has built so far: the directory it copies into holds no
\* complete content yet, one that is in place is there, the parent of a delta is
\* recorded and, from staging on, pinned as it is recorded.
BuildsOn(p) ==
    /\ pub[p].pc = "copying" => disk[pub[p].snap] \in {"torn", "mixed"}
    /\ \/ pub[p].pc = "moved"
       \/ pub[p].place = "placed" /\ pub[p].pc \in {"staged", "locked", "compared"}
       => disk[pub[p].snap] # "absent"
    /\ pub[p].pc = "planned" => pub[p].man.kind = "delta"
    /\ (pub[p].pc # "idle" /\ pub[p].man.kind = "delta") =>
          /\ pub[p].man.parent \in nodes
          /\ (PinField = "manifest_sha256" /\ pub[p].pc \notin {"planned", "copying"})
                => pub[p].man.pin = Digest(row[pub[p].man.parent])

CheckedRecorded == op.pc = "checked" => op.snap \in nodes

\* What the collector is about to remove is in no root's lineage, and holds no
\* part of a snapshot that stays.
PurgeIsSafe ==
    /\ gc.pc = "locked" => gc.roots = Roots
    /\ gc.pc \in {"removing", "deleting"} => gc.cur \in gc.todo
    /\ gc.pc \in {"purging", "removing", "deleting"} =>
          /\ \A r \in Roots : Lineage(r) \cap gc.todo = {}
          /\ \A d \in gc.todo \cap dirs, x \in nodes \ gc.todo : d \notin PartDirs(row[x])

SafeInv == /\ RefsRecorded /\ PurgeAlone /\ CheckedRecorded /\ PurgeIsSafe
           /\ \A p \in Publishers : BuildsOn(p)

\* How a publisher's step changes the directories: none, or one that holds no
\* complete content, or the one it starts to copy into; and when somebody else
\* copies there, no complete content comes out.
DiskStep(p) ==
    \/ disk' = disk
    \/ \E s \in Snapshots, c \in Disk \ {"absent"} :
          /\ disk' = [disk EXCEPT ![s] = c]
          /\ disk[s] \notin Contents \/ (Copying(s)' /\ c \notin Contents)
          /\ (\E q \in Publishers \ {p} : pub[q].pc = "copying" /\ pub[q].snap = s)
                => c \in {"torn", "mixed"}

\* A publisher never runs beside a purge, keeps the rows there are, moves a
\* branch only to a recorded snapshot, and changes directories as said.
PublisherFrames(p) ==
    /\ ~Purging /\ op' = op /\ gc' = gc
    /\ \A q \in Publishers : q # p => pub'[q] = pub[q]
    /\ \A x \in nodes : row'[x] = row[x]
    /\ \/ ref' = ref
       \/ \E b \in Refs, s \in nodes' : ref' = [ref EXCEPT ![b] = s]
    /\ DiskStep(p)

\* So does a process that begins to publish.
LEMMA BeginFrames ==
  ASSUME "purge" \in Apart, TypeInv, SafeInv, NEW p \in Publishers, NEW r, BeginsAs(p, r)
  PROVE  PublisherFrames(p) /\ BuildsOn(p)'
<1> USE DagAssumption
<1>1. pub \in [Publishers -> Publication] /\ disk \in [Snapshots -> Disk] /\ r.snap \in Snapshots
  BY DEF TypeInv, TypeOK, BeginsAs
<1>2. pub'[p] = r /\ \A q \in Publishers : q # p => pub'[q] = pub[q]
  BY <1>1 DEF BeginsAs
<1>3. DiskStep(p)
  <2>1. CASE disk[r.snap] = "absent" /\ disk' = [disk EXCEPT ![r.snap] = r.data]
    <3>1. r.data \in Contents /\ r.data \in Disk \ {"absent"} /\ disk[r.snap] \notin Contents
      BY <2>1 DEF BeginsAs, Publication, Disk
    <3>2. ~\E q \in Publishers \ {p} : pub[q].pc = "copying" /\ pub[q].snap = r.snap
      BY <2>1 DEF SafeInv, BuildsOn
    <3> QED
      BY <1>1, <2>1, <3>1, <3>2 DEF DiskStep
  <2>2. CASE CopyInto(p, r.snap) /\ r.pc = "copying"
    <3>1. Copying(r.snap)'
      BY <1>2, <2>2 DEF Copying
    <3>2. PICK c \in {"torn", "mixed"} : disk' = [disk EXCEPT ![r.snap] = c]
      BY <2>2, CopyShape
    <3>3. c \in Disk \ {"absent"} /\ c \notin Contents
      BY DEF Disk
    <3>4. PICK s \in Snapshots : s = r.snap
      BY <1>1
    <3> QED
      BY <3>1, <3>2, <3>3, <3>4 DEF DiskStep
  <2> QED
    BY <2>1, <2>2 DEF BeginsAs, DiskStep
<1>4. BuildsOn(p)'
  <2>1. r.pc = "copying" => disk'[r.snap] \in {"torn", "mixed"}
    BY <1>1, CopyShape DEF BeginsAs
  <2>2. (r.place = "placed" /\ r.pc = "staged") => disk'[r.snap] # "absent"
    BY <1>1 DEF BeginsAs, Publication
  <2>3. nodes' = nodes /\ row' = row
    BY DEF BeginsAs, nodes
  <2> QED
    BY <1>2, <2>1, <2>2, <2>3 DEF BuildsOn, BeginsAs, Digest
<1> QED
  BY <1>2, <1>3, <1>4 DEF PublisherFrames, BeginsAs, PublisherMayStart

\* And every later step of a publisher, from copying to the commit.
LEMMA ProceedFrames ==
  ASSUME "purge" \in Apart, TypeInv, SafeInv, NEW p \in Publishers, Proceed(p)
  PROVE  PublisherFrames(p) /\ BuildsOn(p)'
<1> USE DagAssumption
<1>1. pub[p].pc # "idle" /\ op' = op /\ gc' = gc
  BY DEF Proceed, StartCopy, FinishCopy, AcquireLock, CompareTip, StaleParent, MoveDir,
         CrashMove, Commit, CommitRefused, CrashPublisher
<1>2. ~Purging
  BY <1>1 DEF SafeInv, PurgeAlone, NobodyPublishes
<1>3. PICK s \in Snapshots : s = pub[p].snap
  BY <1>1 DEF TypeInv, Named
<1>4. /\ pub \in [Publishers -> Publication] /\ disk \in [Snapshots -> Disk]
      /\ row \in [Snapshots -> Manifest \cup {None}] /\ ref \in [Refs -> Snapshots \cup {None}]
      /\ pub[p].data \in Contents /\ pub[p].branch \in Refs /\ pub[p].man \in Manifest
  BY <1>1 DEF TypeInv, TypeOK, Named, Publication, Refs
<1>5. BuildsOn(p) /\ \A q \in Publishers : pub[q].pc = "copying" => disk[pub[q].snap] \in {"torn", "mixed"}
  BY DEF SafeInv, BuildsOn
<1>6. CASE StartCopy(p)
  <2>1. PICK r \in Publication :
             /\ pub' = [pub EXCEPT ![p] = r]
             /\ r.pc = "copying" /\ r.snap = pub[p].snap /\ r.branch = pub[p].branch
             /\ r.expected = pub[p].expected /\ r.place = pub[p].place
             /\ r.data = pub[p].data /\ r.man = pub[p].man
    BY ONLY TypeInv, p \in Publishers, <1>1, <1>6, LabelShape DEF StartCopy
  <2>2. pub'[p] = r /\ \A q \in Publishers : q # p => pub'[q] = pub[q]
    BY <1>4, <2>1
  <2>3. PICK c \in {"torn", "mixed"} : disk' = [disk EXCEPT ![s] = c]
    BY <1>3, <1>6, CopyShape DEF StartCopy
  <2>4. c \in Disk \ {"absent"} /\ c \notin Contents
    BY DEF Disk
  <2>5. Copying(s)'
    BY <1>3, <2>1, <2>2 DEF Copying
  <2>6. DiskStep(p)
    BY <2>3, <2>4, <2>5 DEF DiskStep
  <2>7. UNCHANGED <<row, ref>> /\ nodes' = nodes
    BY <1>6 DEF StartCopy, nodes
  <2>8. disk'[s] \in {"torn", "mixed"}
    BY <1>4, <2>3
  <2>9. BuildsOn(p)'
    BY <1>1, <1>3, <1>5, <2>1, <2>2, <2>7, <2>8 DEF BuildsOn
  <2> QED
    BY <1>1, <1>2, <2>2, <2>6, <2>7, <2>9 DEF PublisherFrames
<1>7. CASE FinishCopy(p)
  <2>1. PICK r, c : FinishesAs(p, r, c)
    BY <1>7, FinishShape
  <2>2. pub'[p] = r /\ \A q \in Publishers : q # p => pub'[q] = pub[q]
    BY <1>4, <2>1 DEF FinishesAs
  <2>3. disk[s] \notin Contents
    BY <1>3, <1>5, <2>1 DEF FinishesAs
  <2>4. (\E q \in Publishers \ {p} : pub[q].pc = "copying" /\ pub[q].snap = s)
           => c \in {"torn", "mixed"}
    BY <1>3, <2>1 DEF FinishesAs, OthersWrite
  <2>5. DiskStep(p)
    BY <1>3, <2>1, <2>3, <2>4 DEF DiskStep, FinishesAs
  <2>6. UNCHANGED <<row, ref>> /\ nodes' = nodes
    BY <2>1 DEF FinishesAs, nodes
  <2>7. disk'[s] # "absent"
    BY <1>3, <1>4, <2>1 DEF FinishesAs
  <2>8. r.man.kind = "delta" => r.man.parent \in nodes
                                 /\ r.man.pin = Digest(row[r.man.parent])
    BY <1>1, <1>5, <2>1 DEF FinishesAs, BuildsOn, RecordedDigest, nodes
  <2>9. BuildsOn(p)'
    BY <1>3, <2>1, <2>2, <2>6, <2>7, <2>8 DEF BuildsOn, FinishesAs
  <2> QED
    BY <1>1, <1>2, <2>2, <2>5, <2>6, <2>9 DEF PublisherFrames
<1>8. CASE AcquireLock(p) \/ CompareTip(p) \/ MoveDir(p)
  <2>1. PICK l \in {"copying", "locked", "compared", "moved"} :
             /\ l # "copying"
             /\ pub' = [pub EXCEPT ![p].pc = l]
             /\ l = "moved" <=> pub[p].pc = "compared"
             /\ pub[p].pc \in {"staged", "locked", "compared"}
    BY <1>8 DEF AcquireLock, CompareTip, MoveDir
  <2>2. PICK r \in Publication :
             /\ pub' = [pub EXCEPT ![p] = r]
             /\ r.pc = l /\ r.snap = pub[p].snap /\ r.branch = pub[p].branch
             /\ r.expected = pub[p].expected /\ r.place = pub[p].place
             /\ r.data = pub[p].data /\ r.man = pub[p].man
    BY ONLY TypeInv, p \in Publishers, <1>1, <2>1, LabelShape
  <2>3. pub'[p] = r /\ \A q \in Publishers : q # p => pub'[q] = pub[q]
    BY <1>4, <2>2
  <2>4. UNCHANGED <<row, ref>> /\ nodes' = nodes
    BY <1>8 DEF AcquireLock, CompareTip, MoveDir, nodes
  <2>5. \/ disk' = disk
        \/ disk[s] = "absent" /\ disk' = [disk EXCEPT ![s] = pub[p].data]
    BY <1>3, <1>8 DEF AcquireLock, CompareTip, MoveDir, dirs
  <2>6. DiskStep(p)
    <3>1. CASE disk[s] = "absent" /\ disk' = [disk EXCEPT ![s] = pub[p].data]
      <4>1. disk[s] \notin Contents /\ pub[p].data \in Disk \ {"absent"}
        BY <1>4, <3>1 DEF Disk
      <4>2. ~\E q \in Publishers \ {p} : pub[q].pc = "copying" /\ pub[q].snap = s
        BY <1>5, <3>1
      <4> QED
        BY <3>1, <4>1, <4>2 DEF DiskStep
    <3> QED
      BY <2>5, <3>1 DEF DiskStep
  <2>7. (l = "moved" \/ pub[p].place = "placed") => disk'[s] # "absent"
    <3>1. CASE MoveDir(p)
      <4>1. CASE pub[p].place = "placed" \/ s \in dirs
        BY <1>3, <1>5, <3>1, <4>1 DEF MoveDir, BuildsOn, dirs
      <4>2. CASE ~(pub[p].place = "placed" \/ s \in dirs)
        <5>1. disk' = [disk EXCEPT ![s] = pub[p].data]
          BY <1>3, <3>1, <4>2 DEF MoveDir
        <5> QED
          BY <1>4, <5>1
      <4> QED
        BY <4>1, <4>2
    <3>2. CASE AcquireLock(p) \/ CompareTip(p)
      BY <1>3, <1>5, <2>1, <3>2 DEF AcquireLock, CompareTip, BuildsOn
    <3> QED
      BY <1>8, <3>1, <3>2
  <2>8. BuildsOn(p)'
    BY <1>1, <1>3, <1>5, <2>1, <2>2, <2>3, <2>4, <2>7 DEF BuildsOn
  <2> QED
    BY <1>1, <1>2, <2>3, <2>4, <2>6, <2>8 DEF PublisherFrames
<1>9. CASE StaleParent(p) \/ CommitRefused(p) \/ CrashPublisher(p) \/ CrashMove(p) \/ Commit(p)
  <2>1. pub' = [pub EXCEPT ![p] = IdlePub]
    BY <1>9 DEF StaleParent, CommitRefused, CrashPublisher, CrashMove, Commit, Stop
  <2>2. pub'[p].pc = "idle" /\ \A q \in Publishers : q # p => pub'[q] = pub[q]
    BY <1>4, <2>1, IdleTyped
  <2>3. BuildsOn(p)'
    BY <2>2 DEF BuildsOn
  <2>4. DiskStep(p)
    <3>1. CASE CrashMove(p)
      <4>1. disk[s] = "absent" /\ disk' = [disk EXCEPT ![s] = "torn"]
        BY <1>3, <3>1 DEF CrashMove, dirs
      <4>2. "torn" \in Disk \ {"absent"} /\ disk[s] \notin Contents
        BY <4>1 DEF Disk
      <4> QED
        BY <4>1, <4>2 DEF DiskStep
    <3> QED
      BY <1>9, <3>1 DEF StaleParent, CommitRefused, CrashPublisher, Commit, DiskStep
  <2>5. \A x \in nodes : row'[x] = row[x]
    BY <1>3, <1>4, <1>9 DEF StaleParent, CommitRefused, CrashPublisher, CrashMove, Commit, nodes
  <2>6. ref' = ref \/ \E b \in Refs, x \in nodes' : ref' = [ref EXCEPT ![b] = x]
    <3>1. CASE Commit(p)
      <4>1. s \in nodes'
        BY <1>3, <1>4, <3>1 DEF Commit, nodes
      <4> QED
        BY <1>3, <1>4, <3>1, <4>1 DEF Commit
    <3> QED
      BY <1>9, <3>1 DEF StaleParent, CommitRefused, CrashPublisher, CrashMove
  <2> QED
    BY <1>1, <1>2, <2>2, <2>3, <2>4, <2>5, <2>6 DEF PublisherFrames
<1> QED
  BY <1>6, <1>7, <1>8, <1>9 DEF Proceed

\* A publisher's step keeps the invariant.
LEMMA PublisherSafe ==
  ASSUME "purge" \in Apart, TypeInv, SafeInv, NEW p \in Publishers, PublisherStep(p)
  PROVE  PublisherFrames(p) /\ SafeInv'
<1> USE DagAssumption
<1>1. PublisherFrames(p) /\ BuildsOn(p)'
  <2>1. CASE Begin(p)
    BY <2>1, BeginShape, BeginFrames
  <2>2. CASE Proceed(p)
    BY <2>2, ProceedFrames
  <2> QED
    BY <2>1, <2>2 DEF PublisherStep
<1>2. nodes \subseteq nodes'
  BY <1>1 DEF PublisherFrames, nodes
<1>3. RefsRecorded'
  BY <1>1, <1>2 DEF PublisherFrames, SafeInv, RefsRecorded, Roots, TypeInv, TypeOK
<1>4. PurgeAlone' /\ CheckedRecorded' /\ PurgeIsSafe'
  BY <1>1, <1>2 DEF PublisherFrames, Purging, PurgeAlone, CheckedRecorded, PurgeIsSafe, SafeInv
<1>5. ASSUME NEW q \in Publishers, q # p PROVE BuildsOn(q)'
  <2>1. BuildsOn(q) /\ pub'[q] = pub[q]
    BY <1>1, <1>5 DEF SafeInv, PublisherFrames
  <2>2. (pub[q].pc # "idle") => pub[q].snap \in Snapshots
    BY DEF TypeInv, Named
  <2>3. /\ pub[q].pc = "copying" => disk'[pub[q].snap] \in {"torn", "mixed"}
        /\ (pub[q].pc # "idle" /\ disk[pub[q].snap] # "absent") => disk'[pub[q].snap] # "absent"
    <3>1. CASE disk' = disk
      BY <2>1, <3>1 DEF BuildsOn
    <3>2. ASSUME NEW s \in Snapshots, NEW c \in Disk \ {"absent"}, disk' = [disk EXCEPT ![s] = c],
                 (\E z \in Publishers \ {p} : pub[z].pc = "copying" /\ pub[z].snap = s)
                    => c \in {"torn", "mixed"}
          PROVE  /\ pub[q].pc = "copying" => disk'[pub[q].snap] \in {"torn", "mixed"}
                 /\ (pub[q].pc # "idle" /\ disk[pub[q].snap] # "absent")
                       => disk'[pub[q].snap] # "absent"
      BY <1>5, <2>1, <2>2, <3>2 DEF BuildsOn, TypeInv, TypeOK
    <3> QED
      BY <1>1, <3>1, <3>2 DEF PublisherFrames, DiskStep
  <2>4. ASSUME pub[q].man.parent \in nodes PROVE row'[pub[q].man.parent] = row[pub[q].man.parent]
    BY <1>1, <2>4 DEF PublisherFrames
  <2> QED
    BY <1>2, <2>1, <2>3, <2>4 DEF BuildsOn
<1> QED
  BY <1>1, <1>3, <1>4, <1>5 DEF SafeInv

\* The operator's step keeps the invariant.
LEMMA OperatorSafe ==
  ASSUME "purge" \in Apart, TypeInv, SafeInv, OperatorStep
  PROVE  SafeInv' /\ UNCHANGED <<row, disk, pub>>
<1> USE DagAssumption DEF TypeInv, TypeOK, SafeInv
<1>1. ~Purging /\ gc' = gc /\ UNCHANGED <<row, disk, pub>>
  BY DEF OperatorStep, CheckSnapshot, WriteRef, DeleteRef, OperatorMayStart, PurgeAlone
<1>2. nodes' = nodes
  BY <1>1 DEF nodes
<1>3. PurgeIsSafe' /\ PurgeAlone'
  BY <1>1 DEF PurgeIsSafe, PurgeAlone, Purging
<1>4. \A p \in Publishers : BuildsOn(p)'
  BY <1>1, <1>2 DEF BuildsOn
<1>5. RefsRecorded' /\ CheckedRecorded'
  <2>1. ASSUME NEW n \in Refs, NEW s \in Snapshots, CheckSnapshot(n, s)
        PROVE  RefsRecorded' /\ CheckedRecorded'
    BY <1>2, <2>1 DEF CheckSnapshot, RefsRecorded, Roots, CheckedRecorded
  <2>2. CASE WriteRef
    BY <1>2, <2>2 DEF WriteRef, IdleOp, RefsRecorded, Roots, CheckedRecorded
  <2>3. ASSUME NEW n \in Refs, DeleteRef(n) PROVE RefsRecorded' /\ CheckedRecorded'
    BY <1>2, <2>3 DEF DeleteRef, RefsRecorded, Roots, CheckedRecorded
  <2> QED
    BY <2>1, <2>2, <2>3 DEF OperatorStep
<1> QED
  BY <1>1, <1>3, <1>4, <1>5

\* What survives the part-path protection loop holds no part of what stays.
LEMMA RemovableProtects ==
  ASSUME NEW cand
  PROVE  /\ Removable(cand) \subseteq cand
         /\ \A d \in Removable(cand) \cap dirs, x \in nodes \ Removable(cand) :
               d \notin PartDirs(row[x])
  BY DEF Removable

\* The lineages of the roots are retained.
LEMMA PrunableSparesRoots ==
  ASSUME NEW roots, NEW r \in roots
  PROVE  Lineage(r) \cap Prunable(roots) = {}
  BY DEF Prunable, Retained

\* A lineage cannot grow when rows are deleted.
LEMMA LineageShrinks ==
  ASSUME NEW r, nodes' \subseteq nodes, \A x \in nodes' : row'[x] = row[x]
  PROVE  Lineage(r)' \subseteq Lineage(r)
<1>1. PICK L, N : L = Lineage(r) /\ N = nodes'
  OBVIOUS
<1>2. CASE r \in nodes'
  <2>1. r \in L
    BY <1>1, <1>2, LineageSelf
  <2>2. LineageClosed(L \cap N)'
    BY <1>1, LineageIsClosed DEF LineageClosed, Follows
  <2>3. Lineage(r)' \subseteq L \cap N
    BY <1>1, <1>2, <2>1, <2>2 DEF Lineage
  <2> QED
    BY <1>1, <2>3
<1>3. CASE r \notin nodes'
  BY <1>3 DEF Lineage
<1> QED
  BY <1>2, <1>3

\* Rows decide lineages.
LEMMA LineageSame == ASSUME NEW r, row' = row PROVE Lineage(r)' = Lineage(r) /\ nodes' = nodes
  BY DEF Lineage, LineageClosed, Follows, nodes

\* The collector's step keeps the invariant, and damages no root's lineage: it
\* deletes no row of it and leaves the directories that hold its parts alone.
LEMMA GcSafe ==
  ASSUME "purge" \in Apart, TypeInv, SafeInv, GcStep
  PROVE  /\ SafeInv'
         /\ UNCHANGED <<ref, pub, op>> /\ nodes' \subseteq nodes
         /\ \A x \in nodes' : row'[x] = row[x]
         /\ \A r \in Roots : /\ Lineage(r) \subseteq nodes'
                             /\ \A x \in Lineage(r), d \in Snapshots :
                                   d \in PartDirs(row[x]) => disk'[d] = disk[d]
<1>0. /\ row \in [Snapshots -> Manifest \cup {None}] /\ disk \in [Snapshots -> Disk]
      /\ nodes \subseteq Snapshots /\ dirs \subseteq Snapshots
      /\ gc.todo \subseteq Snapshots
      /\ gc \in [pc : {"idle", "roots", "reported", "locked", "purging", "removing", "deleting"},
               roots : SUBSET Snapshots, report : SUBSET Snapshots,
               todo : SUBSET Snapshots, targets : SUBSET Snapshots,
               cur : Snapshots \cup {None}]
  BY DEF nodes, dirs, TypeInv, TypeOK
<1>inv. RefsRecorded /\ PurgeAlone /\ CheckedRecorded /\ PurgeIsSafe /\ \A p \in Publishers : BuildsOn(p)
  BY DEF SafeInv
<1> USE <1>inv
<1>1. UNCHANGED <<ref, pub, op>> /\ Roots' = Roots
  BY DEF GcStep, GcReadRoots, GcReport, GcLock, GcRecheck, GcRemoveStart, GcRemoveEnd,
         GcDeleteRow, GcFinish, CrashGc, Roots
<1>2. ASSUME NEW r \in Roots PROVE r \in Lineage(r) /\ Lineage(r) \subseteq nodes
  <2>1. r \in nodes
    BY DEF RefsRecorded
  <2> QED
    BY <2>1, LineageSelf, LineageNodes
<1>3. CASE GcReadRoots \/ GcReport \/ GcLock \/ GcFinish \/ CrashGc \/ GcRecheck
  <2>1. UNCHANGED <<row, disk>> /\ nodes' = nodes /\ dirs' = dirs
    BY <1>3 DEF GcReadRoots, GcReport, GcLock, GcFinish, CrashGc, GcRecheck, nodes, dirs
  <2>2. /\ (GcReadRoots \/ GcReport \/ GcFinish \/ CrashGc)
              => gc'.pc \in {"roots", "reported", "idle"}
        /\ GcRecheck => Purging
    <3>1. GcReadRoots => gc'.pc = "roots"
      BY <1>0 DEF GcReadRoots
    <3>2. GcReport => gc'.pc = "reported"
      BY <1>0 DEF GcReport
    <3>3. GcFinish \/ CrashGc => gc'.pc = "idle"
      BY DEF GcFinish, CrashGc, IdleGc
    <3>4. GcRecheck => Purging
      BY DEF GcRecheck, Purging
    <3> QED
      BY <3>1, <3>2, <3>3, <3>4
  <2>5. PurgeAlone'
    <3>1. CASE GcReadRoots \/ GcReport \/ GcFinish \/ CrashGc
      BY <2>2, <3>1 DEF PurgeAlone, Purging
    <3>2. CASE GcLock
      BY <1>1, <3>2 DEF GcLock, PurgeMayStart, PurgeAlone, NobodyPublishes
    <3>3. CASE GcRecheck
      BY <1>1, <2>2, <3>3 DEF PurgeAlone, NobodyPublishes
    <3> QED
      BY <1>3, <3>1, <3>2, <3>3
  <2>3. PurgeIsSafe'
    <3>1. CASE GcRecheck
      <4> DEFINE cand == gc.report \cap Prunable(Roots)
      <4>1. gc'.todo = Removable(cand) /\ gc'.pc = "purging"
        BY <1>0, <3>1 DEF GcRecheck, PurgeIsSafe, IdleGc
      <4>2. \A r \in Roots' : Lineage(r)' \cap gc'.todo = {}
        BY <1>1, <2>1, <4>1, RemovableProtects, PrunableSparesRoots, LineageSame
      <4>3. \A d \in gc'.todo \cap dirs', x \in nodes' \ gc'.todo : d \notin PartDirs(row'[x])
        BY <2>1, <4>1, RemovableProtects
      <4> QED
        BY <4>1, <4>2, <4>3 DEF PurgeIsSafe
    <3>2. CASE GcLock
      BY <1>0, <1>1, <3>2 DEF GcLock, PurgeIsSafe
    <3>3. CASE GcReadRoots \/ GcReport \/ GcFinish \/ CrashGc
      BY <2>2, <3>3 DEF PurgeIsSafe
    <3> QED
      BY <1>3, <3>1, <3>2, <3>3
  <2>4. RefsRecorded' /\ CheckedRecorded' /\ \A p \in Publishers : BuildsOn(p)'
    BY <1>1, <2>1 DEF RefsRecorded, CheckedRecorded, BuildsOn
  <2> QED
    BY <1>1, <1>2, <2>1, <2>3, <2>4, <2>5 DEF SafeInv
<1>4. CASE GcRemoveEnd \/ GcDeleteRow \/ \E s \in Snapshots : GcRemoveStart(s)
  <2>1. NobodyPublishes /\ op.pc = "idle"
    BY <1>4 DEF GcRemoveEnd, GcDeleteRow, GcRemoveStart, PurgeAlone, Purging
  <2>2. /\ \A r \in Roots : Lineage(r) \cap gc.todo = {}
        /\ \A d \in gc.todo \cap dirs, x \in nodes \ gc.todo : d \notin PartDirs(row[x])
    BY <1>4 DEF GcRemoveEnd, GcDeleteRow, GcRemoveStart, PurgeIsSafe
  <2>3. PurgeAlone' /\ CheckedRecorded' /\ \A p \in Publishers : BuildsOn(p)'
    BY <1>1, <2>1 DEF PurgeAlone, NobodyPublishes, CheckedRecorded, BuildsOn
  <2>4. CASE GcRemoveEnd \/ \E s \in Snapshots : GcRemoveStart(s)
    <3>1. PICK s \in gc.todo, c \in {"torn", "mixed", "absent"} :
             /\ disk' = disk \/ disk' = [disk EXCEPT ![s] = c]
             /\ c # "absent" => s \in dirs
             /\ gc'.cur = s
      BY <1>0, <2>4 DEF GcRemoveEnd, GcRemoveStart, PurgeIsSafe
    <3>2. /\ row' = row /\ nodes' = nodes
          /\ gc'.todo = gc.todo /\ gc'.pc \in {"removing", "deleting"}
      BY <1>0, <2>4 DEF GcRemoveEnd, GcRemoveStart, nodes
    <3>3. dirs' \subseteq dirs
      BY <1>0, <3>1 DEF dirs
    <3>4. PurgeIsSafe'
      <4>1. \A r \in Roots' : Lineage(r)' \cap gc'.todo = {}
        BY <1>1, <2>2, <3>2, LineageSame
      <4>2. \A d \in gc'.todo \cap dirs', x \in nodes' \ gc'.todo : d \notin PartDirs(row'[x])
        BY <2>2, <3>2, <3>3
      <4> QED
        BY <3>1, <3>2, <4>1, <4>2 DEF PurgeIsSafe
    <3>5. ASSUME NEW r \in Roots, NEW x \in Lineage(r), NEW d \in Snapshots, d \in PartDirs(row[x])
          PROVE  disk'[d] = disk[d]
      <4>1. x \in nodes \ gc.todo
        BY <1>2, <2>2, <3>5
      <4>2. s \in dirs => d # s
        BY <2>2, <3>1, <3>5, <4>1
      <4>3. s \notin dirs => disk[s] = "absent" \/ s \notin Snapshots
        BY DEF dirs
      <4> QED
        BY <1>0, <3>1, <4>2, <4>3
    <3> QED
      BY <1>1, <1>2, <2>3, <3>2, <3>4, <3>5 DEF RefsRecorded, SafeInv
  <2>5. CASE GcDeleteRow
    <3>1. /\ gc.cur \in gc.todo /\ disk' = disk /\ row' = [row EXCEPT ![gc.cur] = None]
          /\ gc'.pc = "purging" /\ gc'.todo = gc.todo \ {gc.cur}
      BY <1>0, <2>5 DEF GcDeleteRow, PurgeIsSafe
    <3>2. /\ nodes' = nodes \ {gc.cur} /\ dirs' = dirs
          /\ \A x \in nodes' : row'[x] = row[x]
      BY <1>0, <3>1 DEF nodes, dirs
    <3>3. ASSUME NEW r \in Roots PROVE gc.cur \notin Lineage(r)
      BY <2>2, <3>1, <3>3
    <3>4. RefsRecorded'
      BY <1>1, <1>2, <3>2, <3>3 DEF RefsRecorded
    <3>5. \A r \in Roots' : Lineage(r)' \cap gc'.todo = {}
      BY <1>1, <2>2, <3>1, <3>2, LineageShrinks
    <3>6. \A d \in gc'.todo \cap dirs', x \in nodes' \ gc'.todo : d \notin PartDirs(row'[x])
      BY <2>2, <3>1, <3>2
    <3>7. PurgeIsSafe'
      BY <3>1, <3>5, <3>6 DEF PurgeIsSafe
    <3> QED
      BY <1>1, <1>2, <2>3, <3>1, <3>2, <3>3, <3>4, <3>7 DEF SafeInv
  <2> QED
    BY <1>4, <2>4, <2>5
<1> QED
  BY <1>3, <1>4 DEF GcStep

\* Under "purge" the invariant holds in every reachable state.
LEMMA SafeInvHolds == ASSUME "purge" \in Apart PROVE Spec => [](TypeInv /\ SafeInv)
<1>1. Init => TypeInv /\ SafeInv
  <2> SUFFICES ASSUME Init PROVE SafeInv
    BY InitTyped
  <2> QED
    BY DEF Init, SafeInv, RefsRecorded, PurgeAlone, Purging, CheckedRecorded, PurgeIsSafe,
           BuildsOn, Roots, IdlePub, IdleOp, IdleGc
<1>2. ASSUME TypeInv, SafeInv, [Next]_vars PROVE SafeInv'
  <2>1. CASE UNCHANGED vars
    BY <1>2, <2>1 DEF vars, SafeInv, RefsRecorded, PurgeAlone, Purging, NobodyPublishes,
                CheckedRecorded, PurgeIsSafe, BuildsOn, Roots, Lineage, LineageClosed, Follows,
                nodes, dirs
  <2> QED
    BY <1>2, <2>1, PublisherSafe, OperatorSafe, GcSafe DEF Next
<1> QED
  BY <1>1, <1>2, StepTyped, PTL DEF Spec

-----------------------------------------------------------------------------
(* Theorems                                                                *)

\* The parts of an intact snapshot's lineage are complete contents on disk.
LEMMA IntactParts ==
  ASSUME TypeInv, NEW t, Intact(t), NEW x \in Lineage(t), NEW part \in row[x].parts
  PROVE  /\ x \in nodes /\ part[1] \in Snapshots /\ part[1] \in PartDirs(row[x])
         /\ disk[part[1]] = part[2] /\ part[2] \in Contents
<1>1. x \in nodes /\ row[x] \in Manifest
  BY LineageNodes, RowTyped DEF TypeInv
<1>2. part[1] \in Snapshots /\ part[2] \in Contents
  BY <1>1, PartTyped
<1> QED
  BY <1>1, <1>2 DEF Intact, PartsMatch, PartDirs

\* A step that keeps the rows and every directory with a complete content keeps
\* whatever is intact.
LEMMA IntactGrows ==
  ASSUME TypeInv, NEW t, Intact(t),
         \A x \in nodes : x \in nodes' /\ row'[x] = row[x],
         \A s \in Snapshots : disk[s] \in Contents => disk'[s] = disk[s]
  PROVE  Intact(t)'
<1>1. Lineage(t) \subseteq nodes
  BY LineageNodes
<1>2. ASSUME NEW x \in Lineage(t), NEW part \in row[x].parts
      PROVE  disk'[part[1]] = disk[part[1]]
  BY <1>2, IntactParts
<1> QED
  BY <1>1, <1>2, IntactKept

\* A step of publish_node, merge or augment leaves an intact snapshot intact, or
\* starts to copy into one of its directories.
LEMMA PublisherKeepsIntact ==
  ASSUME TypeInv, NEW p \in Publishers, PublisherFrames(p), NEW t, Intact(t)
  PROVE  Intact(t)' \/ \E x \in Holders(t) : Copying(x)'
<1> USE DagAssumption
<1>1. \A x \in nodes : x \in nodes' /\ row'[x] = row[x]
  BY DEF PublisherFrames, nodes
<1>2. disk \in [Snapshots -> Disk]
  BY DEF TypeInv, TypeOK
<1>3. CASE disk' = disk
  BY <1>1, <1>3, IntactGrows
<1>4. ASSUME NEW s \in Snapshots, NEW c, disk' = [disk EXCEPT ![s] = c],
             disk[s] \notin Contents \/ Copying(s)'
      PROVE  Intact(t)' \/ \E x \in Holders(t) : Copying(x)'
  <2>1. CASE disk[s] \notin Contents
    <3>1. \A z \in Snapshots : disk[z] \in Contents => disk'[z] = disk[z]
      BY <1>2, <1>4, <2>1
    <3> QED
      BY <1>1, <3>1, IntactGrows
  <2>2. CASE s \in Holders(t) /\ Copying(s)'
    BY <2>2
  <2>3. CASE s \notin Holders(t)
    <3>1. ASSUME NEW x \in Lineage(t), NEW part \in row[x].parts
          PROVE  disk'[part[1]] = disk[part[1]]
      <4>1. part[1] \in Snapshots /\ part[1] \in PartDirs(row[x])
        BY <3>1, IntactParts
      <4>2. part[1] # s
        BY <2>3, <4>1 DEF Holders
      <4> QED
        BY <1>2, <1>4, <4>1, <4>2
    <3>2. Lineage(t) \subseteq nodes
      BY LineageNodes
    <3> QED
      BY <1>1, <3>1, <3>2, IntactKept
  <2> QED
    BY <1>4, <2>1, <2>2, <2>3
<1> QED
  BY <1>3, <1>4 DEF PublisherFrames, DiskStep

\* Every step leaves what a name points at intact, or is the start of a copy into
\* one of its directories.
LEMMA RootKept ==
  ASSUME "purge" \in Apart, TypeInv, SafeInv, [Next]_vars, NEW t \in Roots, Intact(t)
  PROVE  Intact(t)' \/ \E x \in Holders(t) : Copying(x)'
<1>1. ASSUME NEW p \in Publishers, PublisherStep(p)
      PROVE  Intact(t)' \/ \E x \in Holders(t) : Copying(x)'
  BY <1>1, PublisherSafe, PublisherKeepsIntact
<1>2. CASE UNCHANGED vars \/ OperatorStep
  <2>1. UNCHANGED <<row, disk>>
    BY <1>2, OperatorSafe DEF vars
  <2>2. nodes' = nodes
    BY <2>1 DEF nodes
  <2> QED
    BY <2>1, <2>2, IntactGrows
<1>3. CASE GcStep
  <2>1. /\ Lineage(t) \subseteq nodes' /\ \A x \in nodes' : row'[x] = row[x]
        /\ \A x \in Lineage(t), d \in Snapshots : d \in PartDirs(row[x]) => disk'[d] = disk[d]
    BY <1>3, GcSafe
  <2>2. ASSUME NEW x \in Lineage(t), NEW part \in row[x].parts
        PROVE  disk'[part[1]] = disk[part[1]]
    BY <2>1, <2>2, IntactParts
  <2> QED
    BY <2>1, <2>2, IntactKept
<1> QED
  BY <1>1, <1>2, <1>3 DEF Next

\* What a name keeps pointing at stays resolvable with all its parts as recorded,
\* through every publication, checkout, crash and collection, torn directories
\* included, unless merge or augment starts to copy into one of its directories;
\* of stores on which nothing else runs between GcLock and the end of a purge.
THEOREM RootsStayIntactHolds == ASSUME "purge" \in Apart PROVE Spec => RootsStayIntact
<1> DEFINE Kept == \A r \in Refs : (ref'[r] = ref[r] /\ ref[r] # None /\ Intact(ref[r]))
                          => \/ Intact(ref[r])'
                             \/ \E x \in Holders(ref[r]) : Copying(x)'
<1>1. ASSUME TypeInv, SafeInv, [Next]_vars PROVE [Kept]_vars
  <2>1. SUFFICES ASSUME NEW n \in Refs, ref'[n] = ref[n], ref[n] # None, Intact(ref[n])
                 PROVE  Intact(ref[n])' \/ \E x \in Holders(ref[n]) : Copying(x)'
    OBVIOUS
  <2>2. PICK t : t = ref[n]
    OBVIOUS
  <2>3. t \in Roots
    BY <2>1, <2>2 DEF Roots
  <2>4. Intact(t)
    BY <2>1, <2>2
  <2>5. Intact(t)' \/ \E x \in Holders(t) : Copying(x)'
    BY <1>1, <2>3, <2>4, RootKept
  <2> QED
    BY <2>1, <2>2, <2>5
<1> QED
  BY <1>1, SafeInvHolds, PTL DEF Spec, RootsStayIntact

\* Only its own commit records the snapshot a publisher is about to commit.
LEMMA OnlyCommitRecords ==
  ASSUME TypeInv, [Next]_vars, NEW p \in Publishers, NEW s \in Snapshots, pub[p].pc = "moved",
         pub[p].snap = s, s \notin nodes, s \in nodes', LockHeld
  PROVE  Commit(p)
<1> USE DagAssumption
<1>1. row' # row
  BY DEF nodes
<1>2. ~OperatorStep
  BY <1>1 DEF OperatorStep, CheckSnapshot, WriteRef, DeleteRef
<1>3. ~GcStep
  <2>1. ~GcDeleteRow
    BY DEF GcDeleteRow, nodes, TypeInv, TypeOK
  <2> QED
    BY <1>1, <2>1 DEF GcStep, GcReadRoots, GcReport, GcLock, GcRecheck, GcRemoveStart,
                      GcRemoveEnd, GcFinish, CrashGc
<1>4. PICK q \in Publishers : PublisherStep(q)
  BY <1>1, <1>2, <1>3 DEF Next, vars
<1>5. ~Begin(q)
  BY <1>1, BeginShape DEF BeginsAs
<1>6. Commit(q)
  BY <1>1, <1>4, <1>5 DEF PublisherStep, Proceed, StartCopy, FinishCopy, AcquireLock,
              CompareTip, StaleParent, MoveDir, CrashMove, CommitRefused, CrashPublisher
<1>7. q = p
  BY <1>6 DEF Commit, LockHeld
<1> QED
  BY <1>6, <1>7

\* What a commit records resolves with all its parts when it was built well: the
\* chain is the new snapshot and, for a delta, the chain of its parent.
LEMMA CommitIntact ==
  ASSUME PinField = "manifest_sha256", TypeInv, SafeInv, NEW p \in Publishers,
         NEW s \in Snapshots, Commit(p), pub[p].snap = s, s \notin nodes, BuiltWell(p)
  PROVE  Intact(s)'
<1> USE DagAssumption
<1>1. PICK m, q : m = pub[p].man /\ q = m.parent
  OBVIOUS
<1>2. /\ pub[p].pc = "moved" /\ disk' = disk /\ row' = [row EXCEPT ![s] = m]
      /\ m \in Manifest
  BY <1>1 DEF Commit, TypeInv, Named
<1>3. /\ nodes' = nodes \cup {s} /\ row'[s] = m
      /\ \A x \in nodes : row'[x] = row[x]
  BY <1>2 DEF nodes, TypeInv, TypeOK
<1>4. \A part \in m.parts : disk'[part[1]] = part[2]
  <2>1. disk[s] # "absent"
    BY <1>2 DEF SafeInv, BuildsOn
  <2> QED
    BY <1>1, <1>2, <2>1 DEF BuiltWell
<1>5. m.kind = "delta" => Intact(q) /\ q \in nodes /\ m.pin = Digest(row[q])
  BY <1>1, <1>2 DEF BuiltWell, SafeInv, BuildsOn
<1>6. PICK L : L = {s} \cup (IF m.kind = "delta" THEN Lineage(q) ELSE {})
  OBVIOUS
<1>7. L \subseteq nodes' /\ s \in L /\ s \in nodes'
  BY <1>3, <1>6, LineageNodes
<1>8. ASSUME NEW x \in L PROVE PartsMatch(row[x])'
  <2>1. CASE x = s
    BY <1>3, <1>4, <2>1 DEF PartsMatch
  <2>2. CASE x # s
    <3>1. m.kind = "delta" /\ x \in Lineage(q) /\ x \in nodes
      BY <1>6, <1>8, <2>2, LineageNodes
    <3> QED
      BY <1>2, <1>3, <1>5, <3>1 DEF Intact, PartsMatch
  <2> QED
    BY <2>1, <2>2
<1>9. ASSUME NEW x \in L, row'[x].kind = "delta"
      PROVE  /\ row'[x].parent \in L /\ row'[x].parent \in nodes
             /\ row'[x].pin = Digest(row[row'[x].parent])
  <2>1. CASE x = s
    BY <1>1, <1>3, <1>5, <1>6, <1>9, <2>1, LineageSelf
  <2>2. CASE x # s
    <3>1. m.kind = "delta" /\ x \in Lineage(q) /\ x \in nodes /\ row'[x] = row[x]
      BY <1>3, <1>6, <1>9, <2>2, LineageNodes
    <3>2. row[x].parent \in nodes /\ row[x].pin = Digest(row[row[x].parent])
      BY <1>5, <1>9, <3>1 DEF Intact, Resolvable, ParentLinkOK
    <3>3. row[x].parent \in Lineage(q)
      BY <1>9, <3>1, <3>2, LineageIsClosed DEF LineageClosed, Follows
    <3> QED
      BY <1>6, <3>1, <3>2, <3>3
  <2> QED
    BY <2>1, <2>2
<1>10. LineageClosed(L)'
  BY <1>9 DEF LineageClosed, Follows
<1>11. Lineage(s)' \subseteq L
  BY <1>7, <1>10 DEF Lineage
<1>12. ASSUME NEW x \in L PROVE ParentLinkOK(x)'
  <2>1. ASSUME row'[x].kind = "delta"
        PROVE  row'[x].parent \in nodes' /\ row'[x].pin = Digest(row'[row'[x].parent])
    BY <1>3, <1>9, <2>1
  <2> QED
    BY <2>1 DEF ParentLinkOK, Digest
<1>13. Resolvable(s)'
  BY <1>7, <1>11, <1>12 DEF Resolvable
<1> QED
  BY <1>8, <1>11, <1>13 DEF Intact

\* A commit of publish_node that records a new snapshot installs one that resolves
\* with all its parts when it was built well: the directory is there before the row
\* is committed, a delta's parent is recorded and the digest pinned is still its
\* own, through republished ids, crashes and purges in between.
THEOREM CommitInstallsIntactTipHolds ==
  ASSUME "purge" \in Apart, PinField = "manifest_sha256"
  PROVE  Spec => CommitInstallsIntactTip
<1> DEFINE Installs == \A p \in Publishers, s \in Snapshots :
              (/\ pub[p].pc = "moved" /\ pub[p].snap = s
               /\ s \notin nodes /\ s \in nodes'
               /\ BuiltWell(p))
              => Intact(s)'
<1>1. ASSUME TypeInv, LockHeld, SafeInv, [Next]_vars PROVE [Installs]_vars
  BY <1>1, OnlyCommitRecords, CommitIntact
<1> QED
  BY <1>1, LockHeldHolds, SafeInvHolds, PTL DEF Spec, CommitInstallsIntactTip
=============================================================================
