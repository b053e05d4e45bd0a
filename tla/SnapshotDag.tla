----------------------------- MODULE SnapshotDag -----------------------------
(***************************************************************************)
(* The snapshot DAG of one dataset (edgar_sec/infra/storage/dag): a SQLite *)
(* catalog of snapshot nodes, branch and tag pointers into it, one         *)
(* directory of Parquet parts per snapshot, the publishers that move a     *)
(* branch by compare-and-swap under an advisory file lock, the operator's  *)
(* checkout/branch/tag commands, and the garbage collector.                *)
(*                                                                         *)
(* Every SQLite transaction and every file-system operation is one step,   *)
(* and an operation on a whole directory (rmtree, copy) is two: a process  *)
(* may be killed between any two steps, which frees its flock and nothing  *)
(* else. The publishers of every store are modelled side by side.          *)
(***************************************************************************)
EXTENDS Naturals, FiniteSets

CONSTANTS
    Snapshots,      \* snapshot ids: hashes, plan ids or the operator's choice
    Contents,       \* what the parts of a snapshot's directory may be
    Hashed,         \* the content that a content-hashed id names
    MaxPublications,\* how many publications are begun (a bound of the model)
    Branches,       \* branch names
    Main,           \* the protected branch
    Tags,           \* tag names
    Publishers,     \* concurrent publishing processes
    None,           \* no snapshot / nobody / no row
    PinField,       \* the digest delta publishers of this store put in a ParentRef
    Apart           \* what operators run only while nothing else runs on the
                    \* store: "pointer", checkout/branch/tag; "purge", the
                    \* locked half of gc. The code enforces neither.

\* Values of created_at, part of a manifest's digest: when it was begun.
Stamps == 1..MaxPublications

\* A part: the snapshot directory that holds it, and its content.
Parts == Snapshots \X Contents

\* What manifest_sha256 is a hash of.
Digest(m) == <<m.kind, m.parent, m.parts, m.stamp>>
Digests == {"delta", "checkpoint"} \X (Snapshots \cup {None}) \X (SUBSET Parts) \X Stamps

\* What a manifest says of a snapshot; pin is the digest in its ParentRef. The
\* logical fingerprint is the digest of the parts.
Manifest == [kind : {"delta", "checkpoint"}, parent : Snapshots \cup {None},
             pin : Digests \cup {None}, anchor : Snapshots, parts : SUBSET Parts,
             stamp : Stamps]

ASSUME DagAssumption ==
    /\ Main \in Branches
    /\ Branches \cap Tags = {}
    /\ None \notin Snapshots \cup Manifest \cup Digests
    /\ None \notin Publishers
    /\ "gc" \notin Publishers
    /\ Hashed \in Contents
    /\ MaxPublications \in Nat
    /\ {"absent", "torn", "mixed"} \cap Contents = {}
    /\ PinField \in {"manifest_sha256", "logical_fingerprint"}
    /\ Apart \subseteq {"pointer", "purge"}

VARIABLES
    begun,     \* publications begun so far
    row,       \* table nodes: the manifest recorded for each id, or None
    disk,      \* what is in each id's directory under snapshots_root
    ref,       \* tables branches and tags: what each name points to
    locks,     \* holder of each lock file
    pub,       \* state of each publisher
    op,        \* state of the operator's checkout/branch/tag command
    gc         \* state of the garbage collector

vars == <<begun, row, disk, ref, locks, pub, op, gc>>

\* A directory is absent, holds a complete content, or is torn: some files are
\* missing or half written. In a mixed one two processes wrote at once.
Disk == {"absent", "torn", "mixed"} \cup Contents

nodes == {s \in Snapshots : row[s] # None}
dirs == {s \in Snapshots : disk[s] # "absent"}
PartDirs(m) == {part[1] : part \in m.parts}

Refs == Branches \cup Tags
Roots == {ref[r] : r \in Refs} \ {None}

\* The two lock files: publish_node locks the catalog database itself,
\* purge_unreferenced locks the repository's publication lock file.
PublishLockFile == "catalog.sqlite"
PurgeLockFile == ".publication.lock"
LockFiles == {PublishLockFile, PurgeLockFile}

-----------------------------------------------------------------------------
(* Lineage: DAGCatalog.walk_lineage and traversal.walk_lineage             *)

\* The recorded parents the recursive query follows from x: none from a
\* checkpoint, and a parent without a row ends the walk silently.
Follows(x) ==
    IF row[x].kind = "delta" THEN {row[x].parent} \cap nodes ELSE {}

LineageClosed(C) == \A x \in C : Follows(x) \subseteq C

\* The smallest set of recorded nodes that holds t and what it follows.
Lineage(t) ==
    {x \in nodes : t \in nodes /\
        \A C \in SUBSET nodes : (t \in C /\ LineageClosed(C)) => x \in C}

\* A delta's parent must be recorded and match the digest pinned in the ref.
ParentLinkOK(x) ==
    row[x].kind = "delta" =>
        row[x].parent \in nodes /\ row[x].pin = Digest(row[row[x].parent])

\* traversal.walk_lineage returns a chain instead of raising.
Resolvable(t) == t \in nodes /\ \A x \in Lineage(t) : ParentLinkOK(x)

\* Every part of a manifest is a file on disk with the recorded digest.
PartsMatch(m) == \A part \in m.parts : disk[part[1]] = part[2]

Intact(t) == Resolvable(t) /\ \A x \in Lineage(t) : PartsMatch(row[x])

\* The files of the chain are there to be read, whatever is in them.
Readable(t) == \A x \in Lineage(t) : PartDirs(row[x]) \subseteq dirs

-----------------------------------------------------------------------------
(* Initial state: a new repository                                         *)

IdlePub == [pc |-> "idle", snap |-> None, branch |-> Main, expected |-> None,
            place |-> "beside", data |-> Hashed, man |-> None]
IdleOp == [pc |-> "idle", name |-> Main, snap |-> None]
IdleGc == [pc |-> "idle", roots |-> {}, report |-> {}, todo |-> {}, targets |-> {},
           cur |-> None]

Init ==
    /\ begun = 0
    /\ row = [s \in Snapshots |-> None]
    /\ disk = [s \in Snapshots |-> "absent"]
    /\ ref = [r \in Refs |-> None]
    /\ locks = [f \in LockFiles |-> None]
    /\ pub = [p \in Publishers |-> IdlePub]
    /\ op = IdleOp
    /\ gc = IdleGc

Purging == gc.pc \in {"locked", "purging", "removing", "deleting"}
NobodyPublishes == \A p \in Publishers : pub[p].pc = "idle"

OperatorMayStart == /\ "pointer" \in Apart => NobodyPublishes
                    /\ "purge" \in Apart => ~Purging
PublisherMayStart == /\ "pointer" \in Apart => op.pc = "idle"
                     /\ "purge" \in Apart => ~Purging
PurgeMayStart == "purge" \in Apart => NobodyPublishes /\ op.pc = "idle"

-----------------------------------------------------------------------------
(* Publishers that stage a directory and then call publish_node            *)

\* A checkpoint with the one content d of its own.
Checkpoint(s, d, t) ==
    [kind |-> "checkpoint", parent |-> None, pin |-> None, anchor |-> s,
     parts |-> {<<s, d>>}, stamp |-> t]

\* get_manifest_sha256(id) or "".
RecordedDigest(q) == IF row[q] = None THEN None ELSE Digest(row[q])

\* A delta on the recorded q, pinning its digest as the store's writers do.
Delta(s, d, t, q, pin) ==
    [kind |-> "delta", parent |-> q, pin |-> pin, anchor |-> row[q].anchor,
     parts |-> {<<s, d>>}, stamp |-> t]

\* Stage manifest m of s with content d for branch b, whose tip is read. The parts are staged
\* beside the store, elsewhere (an operator's directory), or are in place.
Stage(p, s, m, b, place, d) ==
    /\ pub[p].pc = "idle"
    /\ PublisherMayStart
    /\ pub' = [pub EXCEPT ![p] = [pc |-> "staged", snap |-> s, branch |-> b,
                                  expected |-> ref[b], place |-> place, data |-> d,
                                  man |-> m]]
    /\ UNCHANGED <<row, ref, locks, op, gc>>

\* Ids of deltas hash the tip and the content: nobody knows s by another one.
HashOf(p, s, tip) ==
    \A m \in {row[s]} \cup {pub[q].man : q \in {q \in Publishers \ {p} : pub[q].snap = s}} :
        m # None => m.parent = tip /\ m.parts = {<<s, Hashed>>}

\* Inventory, acquisition, XBRL review: a delta on the tip, or a first
\* checkpoint when the branch has no tip.
StageDelta(p, s, b, t) ==
    LET tip == ref[b] IN
    /\ HashOf(p, s, tip)
    /\ \/ /\ tip = None
          /\ Stage(p, s, Checkpoint(s, Hashed, t), b, "beside", Hashed)
       \/ /\ tip \in nodes \ {s}
          /\ PinField = "manifest_sha256" => Resolvable(tip)
          /\ Stage(p, s, Delta(s, Hashed, t, tip,
                               IF PinField = "manifest_sha256" THEN Digest(row[tip]) ELSE None),
                   b, "beside", Hashed)
    /\ UNCHANGED disk

\* Filing catalog: a delta on q, the parent of the metadata snapshot it is made
\* from, when q is recorded here, else a checkpoint. os.replace puts the directory in place,
\* which must not exist; the tip is read just before publish_node.
StageCatalog(p, s, q, b, d, t) ==
    /\ s \notin dirs
    /\ disk' = [disk EXCEPT ![s] = d]
    /\ \/ /\ q = None
          /\ Stage(p, s, Checkpoint(s, d, t), b, "placed", d)
       \/ /\ q \in nodes \ {s}
          /\ Readable(q)
          /\ Stage(p, s, Delta(s, d, t, q, Digest(row[q])), b, "placed", d)

\* compact_lineage: a checkpoint on top of the tip it consolidates.
StageCompact(p, s, b, d, t) ==
    /\ ref[b] \in nodes
    /\ Resolvable(ref[b]) /\ Readable(ref[b])
    /\ Stage(p, s, [Checkpoint(s, d, t) EXCEPT !.parent = ref[b], !.pin = Digest(row[ref[b]])],
             b, "elsewhere", d)
    /\ UNCHANGED disk

\* cmd_publish: an operator-made manifest; part paths are root-relative, so
\* it may reference parts in another recorded snapshot's directory.
StageImport(p, s, q, b, d, t) ==
    /\ q \in nodes \ {s}
    /\ disk[q] \in Contents
    /\ Stage(p, s, [Checkpoint(s, d, t) EXCEPT !.parts = @ \cup {<<q, disk[q]>>}],
             b, "elsewhere", d)
    /\ UNCHANGED disk

-----------------------------------------------------------------------------
(* Publishers that copy into the snapshot's directory: merge and augment   *)

\* Who else is writing into the directory of s.
OthersWrite(p, s) ==
    \/ \E q \in Publishers \ {p} : pub[q].pc = "copying" /\ pub[q].snap = s
    \/ gc.pc = "removing" /\ gc.cur = s

\* publish_parts: mkdir(exist_ok=True), then copy2 part by part over what is
\* there; nothing looks whether the id is published.
CopyInto(p, s) ==
    disk' = [disk EXCEPT ![s] = IF OthersWrite(p, s) THEN "mixed" ELSE "torn"]

\* metadata merge: a checkpoint under the plan's id or the operator's.
StartMerge(p, s, b, d, t) ==
    /\ pub[p].pc = "idle"
    /\ PublisherMayStart
    /\ CopyInto(p, s)
    /\ pub' = [pub EXCEPT ![p] =
                 [pc |-> "copying", snap |-> s, branch |-> b, expected |-> None,
                  place |-> "placed", data |-> d,
                  man |-> [Checkpoint(s, d, t) EXCEPT !.parts = {}]]]
    /\ UNCHANGED <<row, ref, locks, op, gc>>

\* metadata augment: a delta on any published base q that lacks some of the
\* requested companies and whose parts verify, and which it lists with its own.
\* The tip is read now, long before publish_node.
PlanAugment(p, s, q, b, d, t) ==
    /\ pub[p].pc = "idle"
    /\ PublisherMayStart
    /\ q \in nodes
    /\ PartsMatch(row[q])
    /\ s = q => <<q, d>> \notin row[q].parts
    /\ pub' = [pub EXCEPT ![p] =
                 [pc |-> "planned", snap |-> s, branch |-> b, expected |-> ref[b],
                  place |-> "placed", data |-> d,
                  man |-> [kind |-> "delta", parent |-> q, pin |-> None, anchor |-> q,
                           parts |-> row[q].parts, stamp |-> t]]]
    /\ UNCHANGED <<row, disk, ref, locks, op, gc>>

StartCopy(p) ==
    /\ pub[p].pc = "planned"
    /\ CopyInto(p, pub[p].snap)
    /\ pub' = [pub EXCEPT ![p].pc = "copying"]
    /\ UNCHANGED <<row, ref, locks, op, gc>>

\* What file_sha256 reads in the directory of x: any content while it is torn.
DigestSeen(x) == IF disk[x] \in Contents THEN {disk[x]} ELSE Contents

\* What the copy leaves in the directory, and what its own digests were of:
\* anything when somebody else wrote there too.
CopyLeaves(p) ==
    LET s == pub[p].snap IN
    IF disk[s] = "torn" /\ ~OthersWrite(p, s) THEN {<<pub[p].data, pub[p].data>>}
    ELSE (IF OthersWrite(p, s) THEN {"mixed"} ELSE {"mixed"} \cup Contents) \X Contents

\* The manifest made of the digests of the base's parts as they are now, those of
\* its own, and the digest of the base's row.
MadeManifest(p, seen, own) ==
    LET m == pub[p].man IN
    [m EXCEPT !.parts = {<<x, seen[x]>> : x \in PartDirs(m)} \cup {<<pub[p].snap, own>>},
              !.pin = IF m.kind = "delta" THEN RecordedDigest(m.parent) ELSE None]

\* The tip is read when everything is copied, unless augment has seen one before.
TipSeen(p) == IF pub[p].expected = None THEN ref[pub[p].branch] ELSE pub[p].expected

\* The last part is copied and the manifest made. A file that is missing is an
\* error, and the process ends (CrashPublisher).
FinishCopy(p) ==
    LET s == pub[p].snap
        base == PartDirs(pub[p].man)
    IN
    /\ pub[p].pc = "copying"
    /\ base \cup {s} \subseteq dirs
    /\ \E left \in CopyLeaves(p), seen \in [base -> Contents] :
          /\ \A x \in base : seen[x] \in DigestSeen(x)
          /\ disk' = [disk EXCEPT ![s] = left[1]]
          /\ pub' = [pub EXCEPT ![p] = [pub[p] EXCEPT !.pc = "staged", !.expected = TipSeen(p),
                                             !.man = MadeManifest(p, seen, left[2])]]
    /\ UNCHANGED <<row, ref, locks, op, gc>>

-----------------------------------------------------------------------------
(* publish_node                                                            *)

\* with PublicationLock(catalog.catalog_file)
AcquireLock(p) ==
    /\ pub[p].pc = "staged"
    /\ locks[PublishLockFile] = None
    /\ locks' = [locks EXCEPT ![PublishLockFile] = p]
    /\ pub' = [pub EXCEPT ![p].pc = "locked"]
    /\ UNCHANGED <<row, disk, ref, op, gc>>

\* Mutant of TipMatches: the branch is moved without comparing its tip.
TipMatchesUnchecked(p) == TRUE

\* The pointer is still the one the publisher saw.
TipMatches(p) == ref[pub[p].branch] = pub[p].expected

CompareTip(p) ==
    /\ pub[p].pc = "locked"
    /\ TipMatches(p)
    /\ pub' = [pub EXCEPT ![p].pc = "compared"]
    /\ UNCHANGED <<row, disk, ref, locks, op, gc>>

\* The publisher ends: its lock is released, a staging directory is removed, a
\* directory that is in place stays.
Stop(p) ==
    /\ pub' = [pub EXCEPT ![p] = IdlePub]
    /\ locks' = [f \in LockFiles |-> IF locks[f] = p THEN None ELSE locks[f]]

\* StaleParentError.
StaleParent(p) ==
    /\ pub[p].pc = "locked"
    /\ ~TipMatches(p)
    /\ Stop(p)
    /\ UNCHANGED <<row, disk, ref, op, gc>>

\* Mutant of MoveDir: the row is committed while the parts are still staged.
MoveDirForgotten(p) ==
    /\ pub[p].pc = "compared"
    /\ pub' = [pub EXCEPT ![p].pc = "moved"]
    /\ UNCHANGED <<row, disk, ref, locks, op, gc>>

\* if staged.exists() and not target_dir.exists(): shutil.move. A directory
\* that is already there is taken as it is.
MoveDir(p) ==
    /\ pub[p].pc = "compared"
    /\ disk' = IF pub[p].place = "placed" \/ pub[p].snap \in dirs THEN disk
               ELSE [disk EXCEPT ![pub[p].snap] = pub[p].data]
    /\ pub' = [pub EXCEPT ![p].pc = "moved"]
    /\ UNCHANGED <<row, ref, locks, op, gc>>

\* Killed inside shutil.move from another file system, which copies.
CrashMove(p) ==
    /\ pub[p].pc = "compared"
    /\ pub[p].place = "elsewhere"
    /\ pub[p].snap \notin dirs
    /\ disk' = [disk EXCEPT ![pub[p].snap] = "torn"]
    /\ Stop(p)
    /\ UNCHANGED <<row, ref, op, gc>>

\* _insert_manifest: an id that is recorded with the same parts keeps its row.
SameRecorded(p) == row[pub[p].snap].parts = pub[p].man.parts

\* DAGCatalog.publish_node: the row and the pointer in one transaction; then
\* the lock is released.
Commit(p) ==
    LET s == pub[p].snap IN
    /\ pub[p].pc = "moved"
    /\ s \in nodes => SameRecorded(p)
    /\ row' = IF s \in nodes THEN row ELSE [row EXCEPT ![s] = pub[p].man]
    /\ ref' = [ref EXCEPT ![pub[p].branch] = s]
    /\ Stop(p)
    /\ UNCHANGED <<disk, op, gc>>

\* ValueError "already recorded with different digest": rolled back.
CommitRefused(p) ==
    /\ pub[p].pc = "moved"
    /\ pub[p].snap \in nodes /\ ~SameRecorded(p)
    /\ Stop(p)
    /\ UNCHANGED <<row, disk, ref, op, gc>>

CrashPublisher(p) ==
    /\ pub[p].pc # "idle"
    /\ Stop(p)
    /\ UNCHANGED <<row, disk, ref, op, gc>>

-----------------------------------------------------------------------------
(* Operator commands: two transactions each, no lock                       *)

\* Mutant of CheckSnapshot: no has_snapshot test before the pointer is written.
CheckSnapshotUnchecked(n, s) ==
    /\ op.pc = "idle"
    /\ OperatorMayStart
    /\ n \in Tags => ref[n] = None
    /\ op' = [pc |-> "checked", name |-> n, snap |-> s]
    /\ UNCHANGED <<row, disk, ref, locks, pub, gc>>

\* checkout_tip, create_branch and create_tag first ask has_snapshot; a tag
\* must also be free.
CheckSnapshot(n, s) ==
    /\ op.pc = "idle"
    /\ OperatorMayStart
    /\ s \in nodes
    /\ n \in Tags => ref[n] = None
    /\ op' = [pc |-> "checked", name |-> n, snap |-> s]
    /\ UNCHANGED <<row, disk, ref, locks, pub, gc>>

\* write_pointer overwrites a branch; the INSERT of a tag fails on a name
\* that was taken meanwhile.
WriteRef ==
    /\ op.pc = "checked"
    /\ ref' = IF op.name \in Tags /\ ref[op.name] # None THEN ref
              ELSE [ref EXCEPT ![op.name] = op.snap]
    /\ op' = IdleOp
    /\ UNCHANGED <<row, disk, locks, pub, gc>>

\* Mutant of DeleteRef: the name is dropped instead of unset.
DeleteRefDropsName(n) ==
    /\ OperatorMayStart
    /\ n # Main
    /\ ref[n] # None
    /\ ref' = [r \in Refs \ {n} |-> ref[r]]
    /\ UNCHANGED <<row, disk, locks, pub, op, gc>>

\* delete_branch (never the protected one) and delete_tag: one DELETE.
DeleteRef(n) ==
    /\ OperatorMayStart
    /\ n # Main
    /\ ref[n] # None
    /\ ref' = [ref EXCEPT ![n] = None]
    /\ UNCHANGED <<row, disk, locks, pub, op, gc>>

-----------------------------------------------------------------------------
(* Garbage collection: cmd_gc = analyze_retention ; purge_unreferenced     *)

\* Mutant of Retained: the lineages of the roots are not walked.
RetainedRootsOnly(roots) == roots

\* walk_lineage of every root, plus each chain node's checkpoint anchor.
Retained(roots) ==
    UNION {Lineage(r) \cup {row[x].anchor : x \in Lineage(r)} : r \in roots}

Prunable(roots) == (nodes \cup dirs) \ Retained(roots)

\* Mutant of Removable: directories are removed without the part-path check.
RemovableUnprotected(cand) == cand

\* The part-path protection loop: the largest set of candidates none of whose
\* directories holds a part of a recorded snapshot outside the set.
Removable(cand) ==
    UNION {R \in SUBSET cand :
              \A d \in R : d \in dirs =>
                  \A x \in nodes \ R : d \notin PartDirs(row[x])}

\* discover_roots of the unlocked analysis, then its scan.
GcReadRoots ==
    /\ gc.pc = "idle"
    /\ gc' = [gc EXCEPT !.pc = "roots", !.roots = Roots]
    /\ UNCHANGED <<row, disk, ref, locks, pub, op>>

GcReport ==
    /\ gc.pc = "roots"
    /\ gc' = [gc EXCEPT !.pc = "reported", !.roots = {},
                        !.report = Prunable(gc.roots)]
    /\ UNCHANGED <<row, disk, ref, locks, pub, op>>

\* with PublicationLock(DAGPaths(root).publication_lock_path), then the roots
\* of the second analysis.
GcLock ==
    /\ gc.pc = "reported"
    /\ PurgeMayStart
    /\ locks[PurgeLockFile] = None
    /\ locks' = [locks EXCEPT ![PurgeLockFile] = "gc"]
    /\ gc' = [gc EXCEPT !.pc = "locked", !.roots = Roots]
    /\ UNCHANGED <<row, disk, ref, pub, op>>

GcRecheck ==
    /\ gc.pc = "locked"
    /\ LET todo == Removable(gc.report \cap Prunable(gc.roots)) IN
       gc' = [IdleGc EXCEPT !.pc = "purging", !.todo = todo, !.targets = todo \cap dirs]
    /\ UNCHANGED <<row, disk, ref, locks, pub, op>>

\* shutil.rmtree of the next candidate, file by file; any order of ids occurs.
\* A candidate that had no directory goes straight to its row.
GcRemoveStart(s) ==
    /\ gc.pc = "purging"
    /\ s \in gc.todo
    /\ gc' = [gc EXCEPT !.pc = IF s \in gc.targets THEN "removing" ELSE "deleting", !.cur = s]
    /\ disk' = IF s \in gc.targets \cap dirs
               THEN [disk EXCEPT ![s] = IF OthersWrite("gc", s) THEN "mixed" ELSE "torn"]
               ELSE disk
    /\ UNCHANGED <<row, ref, locks, pub, op>>

GcRemoveEnd ==
    /\ gc.pc = "removing"
    /\ disk' = [disk EXCEPT ![gc.cur] = "absent"]
    /\ gc' = [gc EXCEPT !.pc = "deleting"]
    /\ UNCHANGED <<row, ref, locks, pub, op>>

\* DELETE FROM nodes, its own transaction.
GcDeleteRow ==
    /\ gc.pc = "deleting"
    /\ row' = [row EXCEPT ![gc.cur] = None]
    /\ gc' = [gc EXCEPT !.pc = "purging", !.cur = None, !.todo = @ \ {gc.cur}]
    /\ UNCHANGED <<disk, ref, locks, pub, op>>

GcFinish ==
    /\ gc.pc = "purging"
    /\ gc.todo = {}
    /\ gc' = IdleGc
    /\ locks' = [locks EXCEPT ![PurgeLockFile] = None]
    /\ UNCHANGED <<row, disk, ref, pub, op>>

CrashGc ==
    /\ gc.pc # "idle"
    /\ gc' = IdleGc
    /\ locks' = [f \in LockFiles |-> IF locks[f] = "gc" THEN None ELSE locks[f]]
    /\ UNCHANGED <<row, disk, ref, pub, op>>

-----------------------------------------------------------------------------

\* A publication is begun; its manifest is stamped with the time.
Begin(p) ==
    LET t == begun + 1 IN
    /\ begun < MaxPublications
    /\ begun' = t
    /\ \E s \in Snapshots, q \in Snapshots \cup {None}, b \in Branches, d \in Contents :
       \/ StageDelta(p, s, b, t)
       \/ StageCatalog(p, s, q, b, d, t)
       \/ StageCompact(p, s, b, d, t)
       \/ StageImport(p, s, q, b, d, t)
       \/ StartMerge(p, s, b, d, t)
       \/ PlanAugment(p, s, q, b, d, t)

Proceed(p) ==
    \/ StartCopy(p)
    \/ FinishCopy(p)
    \/ AcquireLock(p)
    \/ CompareTip(p)
    \/ StaleParent(p)
    \/ MoveDir(p)
    \/ CrashMove(p)
    \/ Commit(p)
    \/ CommitRefused(p)
    \/ CrashPublisher(p)

PublisherStep(p) ==
    \/ Begin(p)
    \/ Proceed(p) /\ UNCHANGED begun

OperatorStep ==
    \/ \E n \in Refs, s \in Snapshots : CheckSnapshot(n, s)
    \/ WriteRef
    \/ \E n \in Refs : DeleteRef(n)

GcStep ==
    \/ GcReadRoots
    \/ GcReport
    \/ GcLock
    \/ GcRecheck
    \/ \E s \in Snapshots : GcRemoveStart(s)
    \/ GcRemoveEnd
    \/ GcDeleteRow
    \/ GcFinish
    \/ CrashGc

Next ==
    \/ \E p \in Publishers : PublisherStep(p)
    \/ (OperatorStep \/ GcStep) /\ UNCHANGED begun

Spec == Init /\ [][Next]_vars

-----------------------------------------------------------------------------
(* Properties                                                              *)

\* What a publishing process remembers.
Publication ==
    [pc : {"idle", "planned", "copying", "staged", "locked", "compared", "moved"},
     snap : Snapshots \cup {None}, branch : Branches, expected : Snapshots \cup {None},
     place : {"beside", "elsewhere", "placed"}, data : Contents, man : Manifest \cup {None}]

\* Type invariant.
TypeOK ==
    /\ begun \in 0..MaxPublications
    /\ row \in [Snapshots -> Manifest \cup {None}]
    /\ disk \in [Snapshots -> Disk]
    /\ ref \in [Refs -> Snapshots \cup {None}]
    /\ locks \in [LockFiles -> Publishers \cup {"gc", None}]
    /\ pub \in [Publishers -> Publication]
    /\ op \in [pc : {"idle", "checked"}, name : Refs, snap : Snapshots \cup {None}]
    /\ gc \in [pc : {"idle", "roots", "reported", "locked", "purging", "removing", "deleting"},
               roots : SUBSET Snapshots, report : SUBSET Snapshots,
               todo : SUBSET Snapshots, targets : SUBSET Snapshots,
               cur : Snapshots \cup {None}]

\* Every branch and tag points at a recorded snapshot: "a pointer to a
\* nonexistent dataset is worse than a stale one" (metadata_sync/merger.py).
RefsRecorded == Roots \subseteq nodes

\* What a branch or tag points at resolves: "Every parent link cryptographically
\* pins `manifest_sha256`" (infra/storage/dag/README.md), so the digests that
\* traversal.walk_lineage compares are equal.
RefsResolvable == \A t \in Roots : Resolvable(t)

\* What a branch or tag points at has its directories: the pointer is "validated
\* first" (publish_current_snapshot, checkout_tip).
RefsOnDisk == \A t \in Roots : t \in nodes /\ PartDirs(row[t]) \subseteq dirs

\* Somebody copies parts into the directory of x.
Copying(x) == \E p \in Publishers : pub[p].pc = "copying" /\ pub[p].snap = x

\* The directories that hold the parts of t's lineage.
Holders(t) == UNION {PartDirs(row[x]) : x \in Lineage(t)}

\* No step of any process damages what a name keeps pointing at: a snapshot
\* that resolves with all its parts as recorded keeps doing so while a branch or
\* tag points at it, whatever is published, collected or killed meanwhile
\* (purge_unreferenced, its retention walk and its part-path protection), except
\* when merge or augment starts to copy into one of its directories.
RootsStayIntact ==
    [][\A r \in Refs : (ref'[r] = ref[r] /\ ref[r] # None /\ Intact(ref[r]))
                          => \/ Intact(ref[r])'
                             \/ \E x \in Holders(ref[r]) : Copying(x)']_vars

\* publish_node's compare-and-move: a commit replaces exactly the tip its
\* publisher read when it staged, so no other publication is overwritten.
CommitIsCAS ==
    [][\A p \in Publishers :
          (pub[p].pc = "moved" /\ pub'[p].pc = "idle"
              /\ ref'[pub[p].branch] # ref[pub[p].branch])
          => ref[pub[p].branch] = pub[p].expected]_vars

\* What p is about to commit was built on intact ground: its parent is intact,
\* the parts it shares are as it recorded them, and its own directory does not
\* hold anything else, left behind under the same id by another process.
BuiltWell(p) ==
    /\ pub[p].man.kind = "delta" => Intact(pub[p].man.parent)
    /\ \A part \in pub[p].man.parts :
          \/ disk[part[1]] = part[2]
          \/ part[1] = pub[p].snap /\ disk[part[1]] = "absent"

\* A commit that records a new snapshot installs one that resolves with all its
\* parts, when it was built well (move before commit, parents recorded before
\* children, the pinned digest still the parent's).
CommitInstallsIntactTip ==
    [][\A p \in Publishers, s \in Snapshots :
          (/\ pub[p].pc = "moved" /\ pub[p].snap = s
           /\ s \notin nodes /\ s \in nodes'
           /\ BuiltWell(p))
          => Intact(s)']_vars

=============================================================================
