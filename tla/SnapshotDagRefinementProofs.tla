--------------------- MODULE SnapshotDagRefinementProofs ---------------------
(***************************************************************************)
(* The snapshot DAG implements the abstract snapshot repository, for any   *)
(* number of snapshots, contents, names, publishers and publications, on   *)
(* stores where operators' pointer commands and the purging half of gc run *)
(* while nobody publishes.                                                 *)
(***************************************************************************)
EXTENDS SnapshotDagRefinement, SnapshotDagProofs

\* What the abstract repository sees of the publishers.
Attempts == [p \in Publishers |-> Attempt(p)]

RefInv == TypeInv /\ SafeInv /\ CasInv

-----------------------------------------------------------------------------
(* Readable snapshots                                                      *)

\* A step that keeps the rows and every complete directory leaves every readable
\* snapshot readable (staging, moving a directory in place, the commit).
LEMMA ReadableGrows ==
  ASSUME TypeInv, \A x \in nodes : x \in nodes' /\ row'[x] = row[x],
         \A s \in Snapshots : disk[s] \in Contents => disk'[s] = disk[s]
  PROVE  Readables \subseteq Readables'
<1> SUFFICES ASSUME NEW t \in Readables PROVE t \in Readables'
  OBVIOUS
<1>1. t \in nodes /\ Intact(t)
  BY DEF Readables
<1>2. Intact(t)'
  BY <1>1, IntactGrows
<1> QED
  BY <1>1, <1>2 DEF Readables

\* A step that leaves the rows alone and completes no directory makes no snapshot
\* readable (the first write of a copy, a torn move).
LEMMA ReadableShrinks ==
  ASSUME TypeInv, row' = row,
         \A s \in Snapshots : disk'[s] \in Contents => disk'[s] = disk[s]
  PROVE  Readables' \subseteq Readables
<1> SUFFICES ASSUME NEW t \in Readables' PROVE t \in Readables
  OBVIOUS
<1>1. nodes' = nodes /\ Lineage(t)' = Lineage(t)
  BY LineageSame
<1>2. t \in nodes /\ Resolvable(t)
  BY <1>1 DEF Readables, Intact, Resolvable, ParentLinkOK, Digest
<1>3. ASSUME NEW x \in Lineage(t) PROVE PartsMatch(row[x])
  <2>1. \A part \in row[x].parts : disk'[part[1]] = part[2]
    BY <1>1, <1>3 DEF Readables, Intact, PartsMatch
  <2>2. row[x] \in Manifest
    BY <1>3, LineageNodes, RowTyped DEF TypeInv
  <2>3. ASSUME NEW part \in row[x].parts PROVE disk[part[1]] = part[2]
    BY <2>1, <2>2, <2>3, PartTyped
  <2> QED
    BY <2>3 DEF PartsMatch
<1> QED
  BY <1>2, <1>3 DEF Readables, Intact

\* Rows and directories decide what is readable.
LEMMA ReadableSame ==
  ASSUME UNCHANGED <<row, disk>>
  PROVE  Readables' = Readables /\ nodes' = nodes
  BY DEF Readables, Intact, Resolvable, Lineage, LineageClosed, Follows, ParentLinkOK, Digest,
         PartsMatch, nodes

\* Readable snapshots are published.
LEMMA ReadablePublished == Readables \subseteq nodes /\ Readables' \subseteq nodes'
  BY DEF Readables

-----------------------------------------------------------------------------
(* Attempts                                                                *)

\* A publisher that has not read the tip has no attempt, and one that has has one.
LEMMA AttemptIdle ==
  ASSUME TypeInv, NEW p \in Publishers
  PROVE  /\ TipRead(p) <=> Attempt(p) # Repository!Idle
         /\ Attempts[p] = Attempt(p)
<1>1. pub[p].pc # "idle" => pub[p].snap # None
  BY DagAssumption DEF TypeInv, Named
<1> QED
  BY <1>1 DEF Attempt, Attempts, TipRead, Repository!Idle

\* What one publisher's new record r makes of the attempts and the writers.
LEMMA RecordSeen ==
  ASSUME TypeInv, NEW p \in Publishers, NEW r, pub' = [pub EXCEPT ![p] = r]
  PROVE  /\ Writing' = IF r.pc = "copying" THEN Writing \cup {p} ELSE Writing \ {p}
         /\ Attempts' = [Attempts EXCEPT ![p] =
              IF r.pc # "idle" /\ (r.pc \in {"planned", "copying"} => r.expected # None)
              THEN [snap |-> r.snap, name |-> r.branch, expected |-> r.expected]
              ELSE Repository!Idle]
<1>1. pub'[p] = r /\ \A q \in Publishers : q # p => pub'[q] = pub[q]
  BY DEF TypeInv, TypeOK
<1>2. /\ \A q \in Publishers : q # p => Attempt(q)' = Attempt(q)
      /\ Attempt(p)' = IF r.pc # "idle" /\ (r.pc \in {"planned", "copying"} => r.expected # None)
              THEN [snap |-> r.snap, name |-> r.branch, expected |-> r.expected]
              ELSE Repository!Idle
  BY <1>1 DEF Attempt, TipRead, Repository!Idle
<1>3. Writing' = IF r.pc = "copying" THEN Writing \cup {p} ELSE Writing \ {p}
  BY <1>1 DEF Writing
<1> QED
  BY <1>2, <1>3 DEF Attempts

\* Setting an attempt to what it is changes nothing.
LEMMA SameAttempt ==
  ASSUME NEW p \in Publishers, NEW a, Attempts[p] = a
  PROVE  [Attempts EXCEPT ![p] = a] = Attempts
  BY DEF Attempts

\* What the abstract repository can see.
LEMMA AbstractVars ==
  ASSUME UNCHANGED <<nodes, Readables, ref, Attempts, Writing>>
  PROVE  UNCHANGED Repository!vars
  BY DEF Repository!vars, Attempts

\* A publisher's state decides its attempt.
LEMMA AttemptsFixed == ASSUME pub' = pub PROVE Attempts' = Attempts /\ Writing' = Writing
  BY DEF Attempts, Attempt, TipRead, Writing

-----------------------------------------------------------------------------
(* Publishers                                                              *)

\* Beginning a publication: the writers that stage read the tip, merge starts to
\* write over files, and an augmentation that finds no tip will look again.
LEMMA BeginImplements ==
  ASSUME TypeInv, SafeInv, NEW p \in Publishers, NEW r, BeginsAs(p, r)
  PROVE  \/ \E n \in Refs, s \in Snapshots : Repository!Begin(p, n, s)
         \/ Repository!Overwrite(p)
         \/ UNCHANGED Repository!vars
<1> USE DagAssumption
<1>1. /\ pub' = [pub EXCEPT ![p] = r] /\ UNCHANGED <<row, ref>> /\ pub[p].pc = "idle"
      /\ r.snap \in Snapshots /\ r.branch \in Refs /\ r.data \in Contents
  BY DEF BeginsAs, Publication, Refs
<1>2. nodes' = nodes /\ disk \in [Snapshots -> Disk]
  BY <1>1 DEF nodes, TypeInv, TypeOK
<1>3. Attempts[p] = Repository!Idle /\ p \notin Writing
  BY <1>1, AttemptIdle DEF TipRead, Writing
<1>4. CASE r.pc = "copying"
  <2>1. PICK c \in {"torn", "mixed"} : disk' = [disk EXCEPT ![r.snap] = c]
    BY <1>4, CopyShape DEF BeginsAs
  <2>2. \A s \in Snapshots : disk'[s] \in Contents => disk'[s] = disk[s]
    BY <1>1, <1>2, <2>1
  <2>3. Readables' \subseteq Readables
    BY <1>1, <2>2, ReadableShrinks
  <2>4. r.expected = None
    BY <1>4 DEF BeginsAs
  <2>5. Writing' = Writing \cup {p} /\ Attempts' = Attempts
    BY <1>1, <1>3, <1>4, <2>4, RecordSeen, SameAttempt
  <2>6. Repository!Overwrite(p)
    BY <1>1, <1>2, <1>3, <2>3, <2>5 DEF Repository!Overwrite, Attempts
  <2> QED
    BY <2>6
<1>5. CASE r.pc # "copying" /\ ~(r.pc = "planned" /\ r.expected = None)
  <2>1. \A s \in Snapshots : disk[s] \in Contents => disk'[s] = disk[s]
    BY <1>1, <1>2, <1>5 DEF BeginsAs
  <2>2. Readables \subseteq Readables' /\ Readables' \subseteq nodes
    BY <1>1, <1>2, <2>1, ReadableGrows, ReadablePublished
  <2>3. r.expected = ref[r.branch] /\ r.pc # "idle"
    BY <1>5 DEF BeginsAs
  <2>4. /\ Writing' = Writing \ {p}
        /\ Attempts' = [Attempts EXCEPT ![p] = [snap |-> r.snap, name |-> r.branch,
                                                expected |-> ref[r.branch]]]
    <3>1. r.pc \in {"planned", "copying"} => r.expected # None
      BY <1>5
    <3>2. PICK a : a = [snap |-> r.snap, name |-> r.branch, expected |-> r.expected]
      OBVIOUS
    <3>3. Writing' = Writing \ {p} /\ Attempts' = [Attempts EXCEPT ![p] = a]
      BY <1>1, <1>5, <2>3, <3>1, <3>2, RecordSeen
    <3> QED
      BY <2>3, <3>2, <3>3
  <2>5. Repository!Begin(p, r.branch, r.snap)
    BY <1>1, <1>2, <1>3, <2>2, <2>4 DEF Repository!Begin, Attempts
  <2> QED
    BY <1>1, <2>5
<1>6. CASE r.pc = "planned" /\ r.expected = None
  <2>1. disk' = disk
    BY <1>6 DEF BeginsAs
  <2>2. Writing' = Writing /\ Attempts' = Attempts
    <3>1. Writing' = Writing \ {p} /\ Attempts' = [Attempts EXCEPT ![p] = Repository!Idle]
      BY <1>1, <1>6, RecordSeen
    <3>2. Writing \ {p} = Writing
      BY <1>3
    <3> QED
      BY <1>3, <3>1, <3>2, SameAttempt
  <2> QED
    BY <1>1, <2>1, <2>2, ReadableSame, AbstractVars
<1> QED
  BY <1>4, <1>5, <1>6

\* Augment's first write into the directory of the snapshot it extends.
LEMMA StartCopyImplements ==
  ASSUME TypeInv, SafeInv, NEW p \in Publishers, StartCopy(p)
  PROVE  Repository!Overwrite(p)
<1> USE DagAssumption
<1>1. /\ pub[p].pc = "planned" /\ UNCHANGED <<row, ref>> /\ CopyInto(p, pub[p].snap)
      /\ pub[p].snap \in Snapshots /\ pub[p].man.kind = "delta"
      /\ disk \in [Snapshots -> Disk]
  BY DEF StartCopy, TypeInv, TypeOK, Named, SafeInv, BuildsOn
<1>2. PICK r \in Publication :
             /\ pub' = [pub EXCEPT ![p] = r]
             /\ r.pc = "copying" /\ r.snap = pub[p].snap /\ r.branch = pub[p].branch
             /\ r.expected = pub[p].expected /\ r.place = pub[p].place
             /\ r.data = pub[p].data /\ r.man = pub[p].man
  BY ONLY TypeInv, p \in Publishers, StartCopy(p), <1>1, LabelShape DEF StartCopy
<1>3. /\ p \notin Writing
      /\ Attempts[p] = IF r.expected # None
            THEN [snap |-> r.snap, name |-> r.branch, expected |-> r.expected]
            ELSE Repository!Idle
  BY <1>1, <1>2, AttemptIdle DEF Attempt, TipRead, Writing, Repository!Idle
<1>4. Writing' = Writing \cup {p} /\ Attempts' = Attempts
  <2>1. PICK a : a = IF r.expected # None
            THEN [snap |-> r.snap, name |-> r.branch, expected |-> r.expected]
            ELSE Repository!Idle
    OBVIOUS
  <2>2. Writing' = Writing \cup {p} /\ Attempts' = [Attempts EXCEPT ![p] = a]
    BY <1>1, <1>2, <2>1, RecordSeen
  <2> QED
    BY <1>3, <2>1, <2>2, SameAttempt
<1>5. \A s \in Snapshots : disk'[s] \in Contents => disk'[s] = disk[s]
  BY <1>1, CopyShape
<1>6. Readables' \subseteq Readables /\ nodes' = nodes
  BY <1>1, <1>5, ReadableShrinks, LineageSame
<1> QED
  BY <1>1, <1>3, <1>4, <1>6 DEF Repository!Overwrite, Attempts

\* The end of the copy: the files are written, and the tip is read if none was seen.
LEMMA FinishCopyImplements ==
  ASSUME TypeInv, SafeInv, NEW p \in Publishers, FinishCopy(p)
  PROVE  \/ \E n \in Refs, s \in Snapshots : Repository!Begin(p, n, s)
         \/ Repository!Written(p)
<1> USE DagAssumption
<1>1. PICK r, c : FinishesAs(p, r, c)
  BY FinishShape
<1>2. /\ pub[p].pc = "copying" /\ UNCHANGED <<row, ref>>
      /\ pub' = [pub EXCEPT ![p] = r] /\ r.pc = "staged"
      /\ r.snap = pub[p].snap /\ r.branch = pub[p].branch
      /\ r.man.kind = pub[p].man.kind /\ r.man.kind \in {"delta", "checkpoint"}
      /\ r.snap \in Snapshots /\ r.branch \in Refs /\ disk \in [Snapshots -> Disk]
      /\ disk' = [disk EXCEPT ![r.snap] = c]
  BY <1>1 DEF FinishesAs, TypeInv, TypeOK, Named, Publication, Refs, Manifest
<1>3. disk[r.snap] \notin Contents
  BY <1>2 DEF SafeInv, BuildsOn
<1>4. \A s \in Snapshots : disk[s] \in Contents => disk'[s] = disk[s]
  BY <1>2, <1>3
<1>5. nodes' = nodes
  BY <1>2 DEF nodes
<1>6. Readables \subseteq Readables' /\ Readables' \subseteq nodes
  BY <1>2, <1>4, <1>5, ReadableGrows, ReadablePublished
<1>7. p \in Writing /\ Writing' = Writing \ {p}
      /\ Attempts' = [Attempts EXCEPT ![p] = [snap |-> r.snap, name |-> r.branch,
                                              expected |-> r.expected]]
  BY <1>2, RecordSeen DEF Writing
<1>8. CASE pub[p].expected # None
  <2>1. Attempts[p] = [snap |-> r.snap, name |-> r.branch, expected |-> r.expected]
    <3>1. r.expected = pub[p].expected
      BY <1>1, <1>8 DEF FinishesAs
    <3>2. TipRead(p) /\ Attempts[p] = Attempt(p)
      BY <1>2, <1>8, AttemptIdle DEF TipRead
    <3> QED
      BY <1>2, <3>1, <3>2 DEF Attempt
  <2>2. Attempts' = Attempts
    BY <1>7, <2>1, SameAttempt
  <2>3. Repository!Written(p)
    BY <1>2, <1>5, <1>6, <1>7, <2>2 DEF Repository!Written, Attempts
  <2> QED
    BY <2>3
<1>9. CASE pub[p].expected = None
  <2>1. Attempts[p] = Repository!Idle /\ r.expected = ref[r.branch]
    BY <1>1, <1>2, <1>9, AttemptIdle DEF FinishesAs, TipRead
  <2>2. Repository!Begin(p, r.branch, r.snap)
    BY <1>2, <1>5, <1>6, <1>7, <2>1 DEF Repository!Begin, Attempts
  <2> QED
    BY <1>2, <2>2
<1> QED
  BY <1>2, <1>8, <1>9

\* What the names keep: the roots of the retention walk.
LEMMA KeptRecorded == Repository!Kept = Roots
  BY DEF Repository!Kept, Roots

\* Taking the lock and comparing the tip are invisible, moving a directory in place
\* makes snapshots readable and hurts none.
LEMMA LockingImplements ==
  ASSUME TypeInv, SafeInv, NEW p \in Publishers, AcquireLock(p) \/ CompareTip(p) \/ MoveDir(p)
  PROVE  Repository!Housekeep
<1> USE DagAssumption
<1>1. /\ pub[p].pc \in {"staged", "locked", "compared"} /\ UNCHANGED <<row, ref>>
      /\ pub[p].snap \in Snapshots /\ disk \in [Snapshots -> Disk]
      /\ \/ disk' = disk
         \/ disk[pub[p].snap] = "absent" /\ disk' = [disk EXCEPT ![pub[p].snap] = pub[p].data]
  BY DEF AcquireLock, CompareTip, MoveDir, TypeInv, TypeOK, Named, dirs
<1>2. PICK l \in {"copying", "locked", "compared", "moved"} :
         l # "copying" /\ pub' = [pub EXCEPT ![p].pc = l]
  BY DEF AcquireLock, CompareTip, MoveDir
<1>3. PICK r \in Publication :
             /\ pub' = [pub EXCEPT ![p] = r]
             /\ r.pc = l /\ r.snap = pub[p].snap /\ r.branch = pub[p].branch
             /\ r.expected = pub[p].expected /\ r.place = pub[p].place
             /\ r.data = pub[p].data /\ r.man = pub[p].man
  BY ONLY TypeInv, p \in Publishers, <1>1, <1>2, LabelShape
<1>4. Attempts[p] = [snap |-> r.snap, name |-> r.branch, expected |-> r.expected]
      /\ p \notin Writing
  BY <1>1, <1>3, AttemptIdle DEF Attempt, TipRead, Writing
<1>5. Writing' = Writing /\ Attempts' = Attempts
  <2>1. PICK a : a = [snap |-> r.snap, name |-> r.branch, expected |-> r.expected]
    OBVIOUS
  <2>2. r.pc # "idle" /\ r.pc # "copying"
    BY <1>2, <1>3
  <2>3. Writing' = Writing \ {p} /\ Attempts' = [Attempts EXCEPT ![p] = a]
    BY <1>3, <2>1, <2>2, RecordSeen
  <2>4. Writing \ {p} = Writing
    BY <1>4
  <2> QED
    BY <1>4, <2>1, <2>3, <2>4, SameAttempt
<1>6. \A s \in Snapshots : disk[s] \in Contents => disk'[s] = disk[s]
  BY <1>1
<1>7. nodes' = nodes
  BY <1>1 DEF nodes
<1>8. Readables \subseteq Readables' /\ Readables' \subseteq nodes'
  BY <1>1, <1>6, <1>7, ReadableGrows, ReadablePublished
<1>9. Roots \subseteq nodes
  BY DEF SafeInv, RefsRecorded
<1> QED
  BY <1>1, <1>5, <1>7, <1>8, <1>9, KeptRecorded DEF Repository!Housekeep, Attempts

\* A stale parent, a refused manifest, or a kill, gives the attempt up.
LEMMA StopAbandons ==
  ASSUME TypeInv, NEW p \in Publishers,
         StaleParent(p) \/ CommitRefused(p) \/ CrashPublisher(p) \/ CrashMove(p)
  PROVE  Repository!Abandon(p)
<1> USE DagAssumption
<1>1. /\ pub[p].pc # "idle" /\ UNCHANGED <<row, ref>> /\ pub' = [pub EXCEPT ![p] = IdlePub]
      /\ pub[p].snap \in Snapshots /\ disk \in [Snapshots -> Disk]
      /\ \/ disk' = disk
         \/ disk[pub[p].snap] = "absent" /\ disk' = [disk EXCEPT ![pub[p].snap] = "torn"]
  BY DEF StaleParent, CommitRefused, CrashPublisher, CrashMove, Stop, TypeInv, TypeOK, Named, dirs
<1>3. IdlePub.pc = "idle"
  BY IdleTyped
<1>4. Writing' = Writing \ {p} /\ Attempts' = [Attempts EXCEPT ![p] = Repository!Idle]
  BY <1>1, <1>3, RecordSeen
<1>5. /\ \A s \in Snapshots : disk[s] \in Contents => disk'[s] = disk[s]
      /\ \A s \in Snapshots : disk'[s] \in Contents => disk'[s] = disk[s]
  BY <1>1
<1>6. nodes' = nodes
  BY <1>1 DEF nodes
<1>7. Readables' = Readables
  BY <1>1, <1>5, <1>6, ReadableGrows, ReadableShrinks
<1> QED
  BY <1>1, <1>4, <1>6, <1>7 DEF Repository!Abandon, Attempts

\* The transaction of publish_node is the abstract publication: the tip is still
\* the one that was read.
LEMMA CommitPublishes ==
  ASSUME TypeInv, CasInv, NEW p \in Publishers, Commit(p)
  PROVE  Repository!Publish(p)
<1> USE DagAssumption
<1>1. /\ pub[p].pc = "moved" /\ pub[p].snap \in Snapshots /\ pub[p].branch \in Refs
      /\ pub[p].man \in Manifest
      /\ disk' = disk /\ pub' = [pub EXCEPT ![p] = IdlePub]
      /\ ref' = [ref EXCEPT ![pub[p].branch] = pub[p].snap]
  BY DEF Commit, Stop, TypeInv, TypeOK, Named, Publication, Refs
<1>2. /\ nodes' = nodes \cup {pub[p].snap}
      /\ \A x \in nodes : x \in nodes' /\ row'[x] = row[x]
  <2>1. row \in [Snapshots -> Manifest \cup {None}]
    BY DEF TypeInv, TypeOK
  <2>2. CASE pub[p].snap \in nodes
    BY <2>2 DEF Commit, nodes
  <2>3. CASE pub[p].snap \notin nodes
    <3>1. row' = [row EXCEPT ![pub[p].snap] = pub[p].man] /\ pub[p].man # None
      BY <1>1, <2>3 DEF Commit
    <3> QED
      BY <1>1, <2>1, <2>3, <3>1 DEF nodes
  <2> QED
    BY <2>2, <2>3
<1>3. /\ Attempts[p] # Repository!Idle
      /\ Attempts[p] = [snap |-> pub[p].snap, name |-> pub[p].branch,
                        expected |-> pub[p].expected]
      /\ p \notin Writing
  BY <1>1, AttemptIdle DEF Attempt, TipRead, Writing
<1>4. IdlePub.pc = "idle"
  BY IdleTyped
<1>5. Writing' = Writing /\ Attempts' = [Attempts EXCEPT ![p] = Repository!Idle]
  <2>1. Writing' = Writing \ {p} /\ Attempts' = [Attempts EXCEPT ![p] = Repository!Idle]
    BY <1>1, <1>4, RecordSeen
  <2>2. Writing \ {p} = Writing
    BY <1>3
  <2> QED
    BY <2>1, <2>2
<1>6. ref[pub[p].branch] = pub[p].expected
  BY <1>1 DEF CasInv, TipUnmoved, TipMatches
<1>7. Readables \subseteq Readables' /\ Readables' \subseteq nodes'
  BY <1>1, <1>2, ReadableGrows, ReadablePublished
<1>8. /\ Attempts[p].snap = pub[p].snap /\ Attempts[p].name = pub[p].branch
      /\ Attempts[p].expected = pub[p].expected
  BY <1>3
<1> QED
  BY <1>1, <1>2, <1>3, <1>5, <1>6, <1>7, <1>8 DEF Repository!Publish, Attempts

-----------------------------------------------------------------------------
(* Operator commands and garbage collection                                *)

\* has_snapshot is invisible; checkout, branch, tag and their deletions point a
\* name at something published, or unset it, or leave a taken tag alone.
LEMMA OperatorPoints ==
  ASSUME TypeInv, SafeInv, OperatorStep
  PROVE  \/ UNCHANGED Repository!vars
         \/ \E n \in Refs, s \in Snapshots \cup {None} : Repository!Point(n, s)
<1>1. UNCHANGED <<row, disk, pub>>
  BY DEF OperatorStep, CheckSnapshot, WriteRef, DeleteRef
<1>2. Attempts' = Attempts /\ Writing' = Writing /\ Readables' = Readables /\ nodes' = nodes
  BY <1>1, AttemptsFixed, ReadableSame
<1>3. ASSUME NEW n \in Refs, NEW s \in Snapshots \cup {None}, s \in nodes \cup {None},
             ref' = [ref EXCEPT ![n] = s]
      PROVE  Repository!Point(n, s)
  BY <1>2, <1>3 DEF Repository!Point, Attempts
<1>4. ASSUME ref' = ref PROVE UNCHANGED Repository!vars
  BY <1>2, <1>4, AbstractVars
<1>5. CASE WriteRef
  <2>1. op.pc = "checked" /\ op.name \in Refs /\ op.snap \in nodes
        /\ op.snap \in Snapshots \cup {None}
    BY <1>5 DEF WriteRef, SafeInv, CheckedRecorded, TypeInv, TypeOK
  <2>2. ref' = ref \/ ref' = [ref EXCEPT ![op.name] = op.snap]
    BY <1>5 DEF WriteRef
  <2>3. PICK n \in Refs, s \in Snapshots \cup {None} : n = op.name /\ s = op.snap
    BY <2>1
  <2> QED
    BY <1>3, <1>4, <2>1, <2>2, <2>3
<1>6. ASSUME NEW n \in Refs, DeleteRef(n) PROVE Repository!Point(n, None)
  BY <1>3, <1>6 DEF DeleteRef
<1>7. ASSUME NEW n \in Refs, NEW s \in Snapshots, CheckSnapshot(n, s) PROVE ref' = ref
  BY <1>7 DEF CheckSnapshot
<1> QED
  BY <1>4, <1>5, <1>6, <1>7 DEF OperatorStep

\* The collector removes directories and rows of what no name keeps, file by file
\* and row by row; the rest of its steps are invisible.
LEMMA GcHousekeeps ==
  ASSUME "purge" \in Apart, TypeInv, SafeInv, GcStep
  PROVE  Repository!Housekeep
<1>1. UNCHANGED <<ref, pub>> /\ nodes' \subseteq nodes /\ SafeInv'
  BY GcSafe
<1>2. Attempts' = Attempts /\ Writing' = Writing
  BY <1>1, AttemptsFixed
<1>3. Roots \subseteq nodes'
  BY <1>1 DEF SafeInv, RefsRecorded, Roots
<1>4. ASSUME NEW t \in Readables, t \in Roots PROVE t \in Readables'
  <2>1. Intact(t)
    BY DEF Readables
  <2>2. /\ Lineage(t) \subseteq nodes' /\ \A x \in nodes' : row'[x] = row[x]
        /\ \A x \in Lineage(t), d \in Snapshots : d \in PartDirs(row[x]) => disk'[d] = disk[d]
    BY <1>4, GcSafe
  <2>3. ASSUME NEW x \in Lineage(t), NEW part \in row[x].parts
        PROVE  disk'[part[1]] = disk[part[1]]
    BY <2>1, <2>2, <2>3, IntactParts
  <2>4. Intact(t)'
    BY <2>1, <2>2, <2>3, IntactKept
  <2> QED
    BY <1>3, <1>4, <2>4 DEF Readables
<1>5. Readables' \subseteq nodes'
  BY ReadablePublished
<1> QED
  BY <1>1, <1>2, <1>3, <1>4, <1>5, KeptRecorded DEF Repository!Housekeep, Attempts

-----------------------------------------------------------------------------
(* The refinement                                                          *)

\* A new repository is a new abstract repository.
LEMMA InitImplements == Init => Repository!Init
<1> SUFFICES ASSUME Init PROVE Repository!Init
  OBVIOUS
<1>1. nodes = {} /\ Readables = {} /\ ref = [r \in Refs |-> None] /\ Writing = {}
  BY DEF Init, Readables, nodes, Writing, IdlePub
<1>2. ASSUME NEW p \in Publishers PROVE Attempt(p) = Repository!Idle
  BY DEF Init, IdlePub, Attempt, TipRead, Repository!Idle
<1> QED
  BY <1>1, <1>2 DEF Repository!Init

\* Every step of the store is a step of the abstract repository or invisible.
LEMMA StepImplements ==
  ASSUME "purge" \in Apart, RefInv, [Next]_vars
  PROVE  [Repository!Next]_(Repository!vars)
<1> USE DEF RefInv
<1>1. CASE UNCHANGED vars
  <2>1. UNCHANGED <<row, disk, ref, pub>>
    BY <1>1 DEF vars
  <2> QED
    BY <2>1, ReadableSame, AttemptsFixed, AbstractVars
<1>2. ASSUME NEW p \in Publishers, PublisherStep(p)
      PROVE  [Repository!Next]_(Repository!vars)
  <2>1. CASE Begin(p)
    BY <2>1, BeginShape, BeginImplements DEF Repository!Next
  <2>2. CASE StartCopy(p)
    BY <2>2, StartCopyImplements DEF Repository!Next
  <2>3. CASE FinishCopy(p)
    BY <2>3, FinishCopyImplements DEF Repository!Next
  <2>4. CASE AcquireLock(p) \/ CompareTip(p) \/ MoveDir(p)
    BY <2>4, LockingImplements DEF Repository!Next
  <2>5. CASE StaleParent(p) \/ CommitRefused(p) \/ CrashPublisher(p) \/ CrashMove(p)
    BY <2>5, StopAbandons DEF Repository!Next
  <2>6. CASE Commit(p)
    BY <2>6, CommitPublishes DEF Repository!Next
  <2> QED
    BY <1>2, <2>1, <2>2, <2>3, <2>4, <2>5, <2>6 DEF PublisherStep, Proceed
<1>3. CASE OperatorStep
  BY <1>3, OperatorPoints DEF Repository!Next
<1>4. CASE GcStep
  BY <1>4, GcHousekeeps DEF Repository!Next
<1> QED
  BY <1>1, <1>2, <1>3, <1>4 DEF Next

\* On stores whose operators move pointers and purge while nobody publishes, the
\* six writers, publish_node, checkout, branch, tag and gc implement the abstract
\* repository: a publication replaces exactly the tip it was built on, names point
\* at published snapshots, and what a name keeps can be read until a merge or an
\* augmentation starts to write over files in place.
THEOREM ImplementsRepositoryHolds ==
  ASSUME "purge" \in Apart, "pointer" \in Apart
  PROVE  Spec => ImplementsRepository
<1>1. RefInv /\ [Next]_vars => [Repository!Next]_(Repository!vars)
  BY StepImplements
<1>2. Spec => []RefInv
  BY SafeInvHolds, CasInvHolds, PTL DEF RefInv
<1> QED
  BY <1>1, <1>2, InitImplements, PTL DEF Spec, ImplementsRepository, Repository!Spec
=============================================================================
