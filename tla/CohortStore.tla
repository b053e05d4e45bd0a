----------------------------- MODULE CohortStore -----------------------------
(***************************************************************************)
(* The cohort store (edgar_sec/infra/storage/cohort, pipelines/cohort):    *)
(* one SQLite catalog, one directory per cohort, staging directories with  *)
(* heartbeat leases, and an flock that publication, deletion and           *)
(* maintenance hold. Ingestion, workspace saves, deletion and maintenance  *)
(* run as processes that may be killed between any two steps.              *)
(*                                                                         *)
(* A generic cohort id is a hash of the CIKs alone, so one id may be       *)
(* ingested with different datasets (other company names, another writer); *)
(* the row keeps the digest of the one that was registered. A staging      *)
(* directory whose process is gone is named by nobody: removing it changes *)
(* nothing here. Purge directories of a cohort with the same contents      *)
(* count as one.                                                           *)
(***************************************************************************)
EXTENDS Naturals, FiniteSets

CONSTANTS
    Cohorts,    \* cohort ids
    Contents,   \* datasets, told apart by their digest
    Procs,      \* concurrent commands
    HostOf,     \* the host a process runs on
    Commands,   \* the commands each process runs, one after the other
    MaxPurged,  \* a bound on the purge directories of a cohort
    None

\* The commands, and those that name a cohort.
OnCohort == {"ingest", "save", "delete", "detach"}
Kinds == OnCohort \cup {"staging", "missing", "orphans", "detached"}

ASSUME CohortAssumption ==
    /\ None \notin Cohorts \cup Procs \cup Contents
    /\ Commands \in [Procs -> SUBSET Kinds]
    /\ MaxPurged \in Nat

VARIABLES
    rows,      \* table cohorts: the digest that is registered, or None
    detached,  \* table detached_cohort_datasets
    active,    \* the active source pointer
    official,  \* cohorts of an official source, hence pinned; never changes
    dir,       \* each cohort's directory: its dataset and its .detached marker
    purged,    \* the .stage-purge- directories of each cohort
    stage,     \* staging directory of each process
    beat,      \* its heartbeat thread
    lock,      \* holder of the publication lock
    proc,      \* each process: where it is and what it works on
    lost       \* registered cohorts whose dataset somebody else removed

vars == <<rows, detached, active, official, dir, purged, stage, beat, lock, proc, lost>>
catalog == <<rows, detached, active, official>>
files == <<dir, purged, lost>>

\* A directory: the dataset in it, if any, and whether the marker is there.
NoDir == [there |-> FALSE, data |-> None, mark |-> FALSE]
Dir == {NoDir} \cup [there : {TRUE}, data : Contents \cup {None}, mark : BOOLEAN]
Holding(x) == [there |-> TRUE, data |-> x, mark |-> FALSE]
With(d, x) == [there |-> TRUE, data |-> x, mark |-> d.mark]
Unmarked(d) == [there |-> d.there, data |-> d.data, mark |-> FALSE]
Marked(d) == [there |-> TRUE, data |-> d.data, mark |-> TRUE]

\* What a killed shutil.rmtree leaves of a directory.
Remnants(d) == {With(d, None), Unmarked(d), Holding(None)} \ {d}

IdleProc == [pc |-> "idle", cmd |-> None, c |-> None, data |-> None, undo |-> None,
             moved |-> NoDir, left |-> {}]

Init ==
    /\ rows = [c \in Cohorts |-> None]
    /\ detached = {}
    /\ active = None
    /\ official \in SUBSET Cohorts
    /\ dir = [c \in Cohorts |-> NoDir]
    /\ purged = [c \in Cohorts |-> {}]
    /\ stage = [p \in Procs |-> NoDir]
    /\ beat = [p \in Procs |-> "off"]
    /\ lock = None
    /\ proc = [p \in Procs |-> IdleProc]
    /\ lost = {}

At(p, label) == proc[p].pc = label
Goto(p, label) == proc' = [proc EXCEPT ![p].pc = label]
Finish(p) == proc' = [proc EXCEPT ![p] = IdleProc]
C(p) == proc[p].c

Registered == {c \in Cohorts : rows[c] # None}

\* The dataset file is there, whatever its digest ...
HasDataset(c) == dir[c].data # None

\* ... and it is the one that x is the digest of.
Verified(c, x) == dir[c].data = x

\* with paths.publication_lock(): the flock is taken, or given back.
Take(p) == lock = None /\ lock' = p
Release(p) == lock = p /\ lock' = None

\* An exception in a locked section: the lock is given back, the command ends.
Raise(p) == Release(p) /\ Finish(p)

-----------------------------------------------------------------------------
(* _publish_query (ingest) and CohortWorkspace.save                        *)

\* x is the dataset that is to be published: what the input file holds, or what
\* the saved expression evaluates to.
Begin(p, cmd, c, x) ==
    /\ At(p, "idle")
    /\ cmd \in Commands[p]
    /\ (c # None) = (cmd \in OnCohort)
    /\ (x # None) = (cmd \in {"ingest", "save"})
    /\ cmd = "save" => c \notin official
    /\ proc' = [proc EXCEPT ![p] =
          [pc |-> IF cmd \in {"ingest", "save"} THEN "look" ELSE "enter",
           cmd |-> cmd, c |-> c, data |-> x, undo |-> None, moved |-> NoDir, left |-> {}]]
    /\ UNCHANGED <<catalog, files, stage, beat, lock>>

\* catalog.get_cohort. Of the cohort it finds, a save returns it or refuses, and
\* an ingestion of another dataset is refused: "is immutable".
Look(p) ==
    /\ At(p, "look")
    /\ CASE C(p) \notin Registered ->
              Goto(p, IF proc[p].cmd = "ingest" THEN "occupied" ELSE "create")
         [] proc[p].cmd = "ingest" /\ rows[C(p)] = proc[p].data -> Goto(p, "inspect")
         [] OTHER -> Finish(p)
    /\ UNCHANGED <<catalog, files, stage, beat, lock>>

\* "unregistered cohort directory exists"
Occupied(p) ==
    /\ At(p, "occupied")
    /\ IF dir[C(p)].there THEN Finish(p) ELSE Goto(p, "create")
    /\ UNCHANGED <<catalog, files, stage, beat, lock>>

\* A registered cohort: its dataset is hashed without the lock; a generic one
\* that is not intact is refused, an official one will be repaired.
Inspect(p) ==
    /\ At(p, "inspect")
    /\ LET intact == Verified(C(p), proc[p].data) IN
       IF intact \/ C(p) \in official
       THEN proc' = [proc EXCEPT ![p].pc = "relock",
                                 ![p].undo = IF intact THEN "intact" ELSE "repair"]
       ELSE Finish(p)
    /\ UNCHANGED <<catalog, files, stage, beat, lock>>

Relock(p) ==
    /\ At(p, "relock")
    /\ Take(p)
    /\ Goto(p, "recheck")
    /\ UNCHANGED <<catalog, files, stage, beat>>

\* "changed during publication", or go on with what was seen before the lock.
Recheck(p) ==
    /\ At(p, "recheck")
    /\ \/ /\ rows[C(p)] # proc[p].data
          /\ Raise(p)
       \/ /\ rows[C(p)] = proc[p].data
          /\ Goto(p, CASE proc[p].undo = "intact" -> "confirm"
                       [] proc[p].undo # "intact" /\ dir[C(p)].there -> "mend"
                       [] OTHER -> "restage")
          /\ UNCHANGED lock
    /\ UNCHANGED <<catalog, files, stage, beat>>

\* os.replace of the rebuilt dataset into the directory that is there.
Mend(p) ==
    /\ At(p, "mend")
    /\ dir' = [dir EXCEPT ![C(p)] = With(dir[C(p)], proc[p].data)]
    /\ lost' = lost \ {C(p)}
    /\ Goto(p, "confirm")
    /\ UNCHANGED <<catalog, purged, stage, beat, lock>>

\* create_staging_dir: directory and lease under the lock, then the heartbeat
\* thread of active_staging_lease. A repair already holds the lock.
OpenStage(p) ==
    /\ stage' = [stage EXCEPT ![p] = Holding(None)]
    /\ beat' = [beat EXCEPT ![p] = "on"]
    /\ UNCHANGED <<catalog, files, lock>>

Create(p) ==
    /\ At(p, "create")
    /\ lock = None
    /\ OpenStage(p)
    /\ Goto(p, "fill")

Restage(p) ==
    /\ At(p, "restage")
    /\ OpenStage(p)
    /\ Goto(p, "refill")

\* The dataset is moved or written into the staging directory, without the lock
\* in Create's case. The directory may have been swept meanwhile.
Fill(p) ==
    /\ proc[p].pc \in {"fill", "refill"}
    /\ \/ /\ stage[p] # NoDir
          /\ stage' = [stage EXCEPT ![p] = Holding(proc[p].data)]
          /\ Goto(p, IF At(p, "fill") THEN "leased" ELSE "released")
       \/ /\ stage[p] = NoDir
          /\ At(p, "fill")
          /\ Goto(p, "leaseFailed")
          /\ UNCHANGED stage
    /\ UNCHANGED <<catalog, files, beat, lock>>

\* Leaving active_staging_lease joins the heartbeat thread; a save then hashes
\* its staged dataset, which fails when it is gone.
EndLease(p) ==
    /\ proc[p].pc \in {"leased", "released", "leaseFailed"}
    /\ beat[p] # "due"
    /\ beat' = [beat EXCEPT ![p] = "off"]
    /\ Goto(p, CASE At(p, "leased") /\ (proc[p].cmd = "save" => stage[p].data # None)
                      -> "lockPublish"
                 [] At(p, "released") -> "publish"
                 [] OTHER -> "cleanup")
    /\ UNCHANGED <<catalog, files, stage, lock>>

LockPublish(p) ==
    /\ At(p, "lockPublish")
    /\ Take(p)
    /\ Goto(p, "publish")
    /\ UNCHANGED <<catalog, files, stage, beat>>

\* Mutant of PublishRefused: the exception leaves without the lock's release.
PublishRefusedLocked(p) ==
    /\ dir[C(p)].there \/ stage[p] = NoDir
    /\ Goto(p, "cleanup")
    /\ UNCHANGED <<dir, lost, stage, lock>>

\* The target exists; the staging directory is gone.
PublishRefused(p) ==
    /\ dir[C(p)].there \/ stage[p] = NoDir
    /\ Release(p)
    /\ Goto(p, "cleanup")
    /\ UNCHANGED <<dir, lost, stage>>

\* publish_staging_dir: the lease is dropped and the directory renamed, which a
\* heartbeat may have recreated without the dataset.
Publish(p) ==
    /\ At(p, "publish")
    /\ \/ /\ ~dir[C(p)].there /\ stage[p] # NoDir
          /\ dir' = [dir EXCEPT ![C(p)] = stage[p]]
          /\ lost' = IF stage[p].data = rows[C(p)] THEN lost \ {C(p)} ELSE lost
          /\ stage' = [stage EXCEPT ![p] = NoDir]
          /\ Goto(p, IF proc[p].undo = "repair" THEN "confirm" ELSE "register")
          /\ UNCHANGED lock
       \/ PublishRefused(p)
    /\ UNCHANGED <<catalog, purged, beat>>

\* finally: remove_staging_dir, under the lock, if the directory exists.
Cleanup(p) ==
    /\ At(p, "cleanup")
    /\ stage[p] # NoDir => lock = None
    /\ stage' = [stage EXCEPT ![p] = NoDir]
    /\ Finish(p)
    /\ UNCHANGED <<catalog, files, beat, lock>>

\* register_cohort of a cohort that has its row: the digest is checked again.
Confirm(p) ==
    /\ At(p, "confirm")
    /\ Raise(p)
    /\ UNCHANGED <<catalog, files, stage, beat>>

\* "dataset file is missing or its digest does not match", and a row that another
\* command has added meanwhile "is immutable".
Registrable(p) == Verified(C(p), proc[p].data) /\ rows[C(p)] \in {None, proc[p].data}

\* register_cohort: the row, in one transaction.
Register(p) ==
    /\ At(p, "register")
    /\ Registrable(p)
    /\ rows' = [rows EXCEPT ![C(p)] = proc[p].data]
    /\ Raise(p)
    /\ UNCHANGED <<detached, active, official, files, stage, beat>>

\* A failed registration removes the directory unless the id is registered. A save
\* that is refused over its dataset leaves the directory.
Withdrawn(p) ==
    /\ C(p) \notin Registered
    /\ proc[p].cmd = "save" => Verified(C(p), proc[p].data)

\* Refused, or the transaction fails (the name is taken).
RegisterFails(p) ==
    /\ At(p, "register")
    /\ dir' = IF Withdrawn(p) THEN [dir EXCEPT ![C(p)] = NoDir] ELSE dir
    /\ Raise(p)
    /\ UNCHANGED <<catalog, purged, lost, stage, beat>>

-----------------------------------------------------------------------------
(* The heartbeat thread and the lease                                      *)

\* 30 s have passed; the thread asks for the lock with a descriptor of its own,
\* also while the command that waits for it in EndLease holds the lock.
HeartbeatDue(p) ==
    /\ beat[p] = "on"
    /\ beat' = [beat EXCEPT ![p] = "due"]
    /\ UNCHANGED <<catalog, files, stage, lock, proc>>

\* atomic_write_json also makes the directory when it is gone.
HeartbeatWrites(p) ==
    /\ beat[p] = "due"
    /\ lock = None
    /\ stage' = [stage EXCEPT ![p] = Holding(stage[p].data)]
    /\ beat' = [beat EXCEPT ![p] = "on"]
    /\ UNCHANGED <<catalog, files, lock, proc>>

-----------------------------------------------------------------------------
(* delete_cohort                                                           *)

\* The lock, for deletion and maintenance.
Enter(p) ==
    /\ At(p, "enter")
    /\ Take(p)
    /\ Goto(p, IF proc[p].cmd \in {"delete", "detach"} THEN "check" ELSE proc[p].cmd)
    /\ UNCHANGED <<catalog, files, stage, beat>>

\* Not "not found", and not pinned as every active cohort is.
Deletable(c) == c \in Registered /\ c \notin official

\* Workspace aliases are left out: one may always refuse the deletion.
Check(p) ==
    /\ At(p, "check")
    /\ \/ /\ Deletable(C(p))
          /\ Cardinality(purged[C(p)]) < MaxPurged
          /\ Goto(p, "move")
          /\ UNCHANGED lock
       \/ Raise(p)
    /\ UNCHANGED <<catalog, files, stage, beat>>

\* delete: the directory is renamed to .stage-purge-, if it is there.
Quarantine(p) ==
    /\ At(p, "move")
    /\ proc[p].cmd = "delete"
    /\ LET c == C(p) IN
       /\ purged' = [purged EXCEPT ![c] = @ \cup ({dir[c]} \ {NoDir})]
       /\ dir' = [dir EXCEPT ![c] = NoDir]
       /\ proc' = [proc EXCEPT ![p].pc = "forget", ![p].moved = dir[c], ![p].left = purged[c]]
    /\ UNCHANGED <<catalog, lost, stage, beat, lock>>

\* delete --keep-dataset: the .detached marker is created; without a dataset the
\* command raises.
Mark(p) ==
    /\ At(p, "move")
    /\ proc[p].cmd = "detach"
    /\ \/ /\ HasDataset(C(p))
          /\ dir' = [dir EXCEPT ![C(p)] = Marked(dir[C(p)])]
          /\ proc' = [proc EXCEPT ![p].pc = "forget",
                                  ![p].undo = IF dir[C(p)].mark THEN None ELSE "unmark"]
          /\ UNCHANGED lock
       \/ /\ ~HasDataset(C(p))
          /\ Raise(p)
          /\ UNCHANGED dir
    /\ UNCHANGED <<catalog, purged, lost, stage, beat>>

\* One transaction: the retention record and the row.
Forget(p) ==
    /\ At(p, "forget")
    /\ rows' = [rows EXCEPT ![C(p)] = None]
    /\ lost' = lost \ {C(p)}
    /\ detached' = IF proc[p].cmd = "detach" THEN detached \cup {C(p)} ELSE detached
    /\ IF proc[p].moved # NoDir
       THEN Goto(p, "purge") /\ UNCHANGED lock
       ELSE Raise(p)
    /\ UNCHANGED <<active, official, dir, purged, stage, beat>>

\* The directory of a deletion that is rolled back: the marker is removed, the
\* quarantined directory renamed back if nothing has taken its place.
MovesBack(p) == proc[p].moved # NoDir /\ ~dir[C(p)].there
RolledBack(p) ==
    IF MovesBack(p) THEN proc[p].moved
    ELSE IF proc[p].undo = "unmark" THEN Unmarked(dir[C(p)]) ELSE dir[C(p)]

\* The transaction fails.
ForgetFails(p) ==
    /\ At(p, "forget")
    /\ dir' = [dir EXCEPT ![C(p)] = RolledBack(p)]
    /\ purged' = IF MovesBack(p) THEN [purged EXCEPT ![C(p)] = proc[p].left] ELSE purged
    /\ Raise(p)
    /\ UNCHANGED <<catalog, lost, stage, beat>>

\* shutil.rmtree of the quarantined directory, after the commit.
Purge(p) ==
    /\ At(p, "purge")
    /\ purged' = [purged EXCEPT ![C(p)] = proc[p].left]
    /\ Raise(p)
    /\ UNCHANGED <<catalog, dir, lost, stage, beat>>

-----------------------------------------------------------------------------
(* maintain_cohort_store, one task; --all is staging, missing, orphans in  *)
(* a row                                                                   *)

\* Mutant of Restorable: a purge directory is removed whatever the catalog says.
RestorableNever(c) == FALSE

\* The row is still there and nothing took the directory's place.
Restorable(c) == c \in Registered /\ ~dir[c].there

\* _clean_staging, a purge directory: put back or removed, in the order of their
\* random names and without a look at the digests.
SettlePurge(p, c, d) ==
    /\ At(p, "staging")
    /\ d \in purged[c]
    /\ purged' = [purged EXCEPT ![c] = @ \ {d}]
    /\ dir' = IF Restorable(c) THEN [dir EXCEPT ![c] = d] ELSE dir
    /\ UNCHANGED <<catalog, lost, stage, beat, lock, proc>>

\* staging_lease_is_unexpired is false: on its own host a process is asked for, on
\* another one the age of the heartbeat decides. It may pass
\* MAX_STAGING_LEASE_SECONDS whenever the process waits for the lock or is
\* suspended, so at any time.
LeaseExpired(p, q) == HostOf[p] # HostOf[q]

\* _clean_staging, a live process's staging directory. rmtree that is killed, or
\* fails because the process writes meanwhile, has removed the dataset only.
SweepStage(p, q) ==
    /\ At(p, "staging")
    /\ stage[q] # NoDir
    /\ LeaseExpired(p, q)
    /\ \E d \in {NoDir, Holding(None)} : stage' = [stage EXCEPT ![q] = d]
    /\ UNCHANGED <<catalog, files, beat, lock, proc>>

StagingDone(p) ==
    /\ At(p, "staging")
    /\ \A c \in Cohorts : purged[c] = {}
    /\ Raise(p)
    /\ UNCHANGED <<catalog, files, stage, beat>>

\* Mutant of Missing: pinned and active cohorts are not spared.
MissingAll == {c \in Registered \ detached : ~HasDataset(c)}

\* Rows without a dataset that nothing protects.
Missing == {c \in Registered \ detached : ~HasDataset(c) /\ c \notin official /\ c # active}

CleanMissing(p) ==
    /\ At(p, "missing")
    /\ rows' = [c \in Cohorts |-> IF c \in Missing THEN None ELSE rows[c]]
    /\ lost' = lost \ Missing
    /\ Raise(p)
    /\ UNCHANGED <<detached, active, official, dir, purged, stage, beat>>

\* Mutant of Orphan: retention records and markers are not consulted.
OrphanUnregistered(c) == dir[c].there /\ c \notin Registered

\* A directory without row, retention record and marker.
Orphan(c) == dir[c].there /\ ~dir[c].mark /\ c \notin Registered \cup detached

CleanOrphan(p, c) ==
    /\ At(p, "orphans")
    /\ Orphan(c)
    /\ dir' = [dir EXCEPT ![c] = NoDir]
    /\ UNCHANGED <<catalog, purged, lost, stage, beat, lock, proc>>

OrphansDone(p) ==
    /\ At(p, "orphans")
    /\ \A c \in Cohorts : ~Orphan(c)
    /\ Raise(p)
    /\ UNCHANGED <<catalog, files, stage, beat>>

\* _clean_detached: marked directories without a row, then their records.
Dropped(c) == dir[c].mark /\ c \notin Registered

RemoveDetached(p, c) ==
    /\ At(p, "detached")
    /\ Dropped(c)
    /\ dir' = [dir EXCEPT ![c] = NoDir]
    /\ UNCHANGED <<catalog, purged, lost, stage, beat, lock, proc>>

DetachedDone(p) ==
    /\ At(p, "detached")
    /\ \A c \in Cohorts : ~Dropped(c)
    /\ detached' = {c \in detached : c \in Registered \/ dir[c].there}
    /\ Raise(p)
    /\ UNCHANGED <<rows, active, official, files, stage, beat>>

-----------------------------------------------------------------------------
(* Transactions that take no lock                                          *)

\* refresh_official_source ends with set_active_source_pointer.
SwapActive(c) ==
    /\ c \in Registered \cap official
    /\ active' = c
    /\ UNCHANGED <<rows, detached, official, files, stage, beat, lock, proc>>

\* Somebody else removes a registered dataset, or its directory.
Lose(c) ==
    /\ c \in Registered
    /\ HasDataset(c)
    /\ \E d \in {NoDir, With(dir[c], None)} : dir' = [dir EXCEPT ![c] = d]
    /\ lost' = lost \cup {c}
    /\ UNCHANGED <<catalog, purged, stage, beat, lock, proc>>

\* Mutant of Die: the lock outlives its process, as a lock file would.
DieLocked(p) ==
    /\ Finish(p)
    /\ stage' = [stage EXCEPT ![p] = NoDir]
    /\ beat' = [beat EXCEPT ![p] = "off"]
    /\ UNCHANGED lock

\* Killed: the flock goes with the process, files stay.
Die(p) ==
    /\ Finish(p)
    /\ lock' = IF lock = p THEN None ELSE lock
    /\ stage' = [stage EXCEPT ![p] = NoDir]
    /\ beat' = [beat EXCEPT ![p] = "off"]

Crash(p) ==
    /\ ~At(p, "idle")
    /\ Die(p)
    /\ UNCHANGED <<catalog, files>>

\* Killed inside the shutil.rmtree of a cohort's directory ...
TornDir(p, c) ==
    /\ \/ At(p, "orphans") /\ Orphan(c)
       \/ At(p, "detached") /\ Dropped(c)
       \/ At(p, "register") /\ c = C(p) /\ Withdrawn(p) /\ dir[c].there
    /\ \E d \in Remnants(dir[c]) : dir' = [dir EXCEPT ![c] = d]
    /\ Die(p)
    /\ UNCHANGED <<catalog, purged, lost>>

\* ... of the directory a deletion has set aside ...
TornPurge(p) ==
    /\ At(p, "purge")
    /\ \E d \in Remnants(proc[p].moved) :
          purged' = [purged EXCEPT ![C(p)] = proc[p].left \cup {d}]
    /\ Die(p)
    /\ UNCHANGED <<catalog, dir, lost>>

\* ... or of a purge directory that _clean_staging removes.
TornSettle(p, c, d) ==
    /\ At(p, "staging")
    /\ d \in purged[c]
    /\ ~Restorable(c)
    /\ \E e \in Remnants(d) : purged' = [purged EXCEPT ![c] = (@ \ {d}) \cup {e}]
    /\ Die(p)
    /\ UNCHANGED <<catalog, dir, lost>>

-----------------------------------------------------------------------------

\* What a process that runs does next.
Step(p) ==
    \/ Look(p) \/ Occupied(p) \/ Inspect(p) \/ Relock(p) \/ Recheck(p)
    \/ Mend(p) \/ Create(p) \/ Restage(p) \/ Fill(p) \/ EndLease(p)
    \/ LockPublish(p) \/ Publish(p) \/ Cleanup(p) \/ Confirm(p)
    \/ Register(p) \/ RegisterFails(p)
    \/ Enter(p) \/ Check(p) \/ Quarantine(p) \/ Mark(p) \/ Forget(p)
    \/ ForgetFails(p) \/ Purge(p)
    \/ \E c \in Cohorts : \E d \in purged[c] : SettlePurge(p, c, d)
    \/ \E q \in Procs : SweepStage(p, q)
    \/ StagingDone(p) \/ CleanMissing(p)
    \/ \E c \in Cohorts : CleanOrphan(p, c) \/ RemoveDetached(p, c)
    \/ OrphansDone(p) \/ DetachedDone(p)

Next ==
    \/ \E p \in Procs :
          \/ \E cmd \in Kinds, c \in Cohorts \cup {None}, x \in Contents \cup {None} :
                Begin(p, cmd, c, x)
          \/ Step(p) \/ HeartbeatDue(p) \/ HeartbeatWrites(p)
          \/ Crash(p) \/ TornPurge(p)
          \/ \E c \in Cohorts : TornDir(p, c) \/ \E d \in purged[c] : TornSettle(p, c, d)
    \/ \E c \in Cohorts : SwapActive(c) \/ Lose(c)

Spec == Init /\ [][Next]_vars

\* A process that is not killed goes on, and so does its heartbeat thread.
FairSpec ==
    /\ Spec
    /\ \A p \in Procs : WF_vars(Step(p)) /\ WF_vars(HeartbeatWrites(p))

-----------------------------------------------------------------------------
(* Properties                                                              *)

Labels == {"idle", "look", "occupied", "create", "inspect", "relock", "recheck", "mend",
           "restage", "fill", "refill", "leased", "released", "leaseFailed", "lockPublish",
           "publish", "cleanup", "confirm", "register", "enter", "check", "move", "forget",
           "purge", "staging", "missing", "orphans", "detached"}

\* Where a command is and what it works on; what it has seen or must undo, the
\* directory it has set aside and the purge directories that were there before.
ProcState ==
    [pc : Labels, cmd : Kinds \cup {None}, c : Cohorts \cup {None},
     data : Contents \cup {None}, undo : {None, "intact", "repair", "unmark"},
     moved : Dir, left : SUBSET Dir]

\* Every variable has its type; a lock holder is a process that is running.
TypeOK ==
    /\ rows \in [Cohorts -> Contents \cup {None}]
    /\ detached \subseteq Cohorts
    /\ active \in official \cup {None}
    /\ official \subseteq Cohorts
    /\ dir \in [Cohorts -> Dir]
    /\ purged \in [Cohorts -> SUBSET Dir]
    /\ stage \in [Procs -> Dir]
    /\ beat \in [Procs -> {"off", "on", "due"}]
    /\ lock \in Procs \cup {None}
    /\ lock # None => ~At(lock, "idle")
    /\ proc \in [Procs -> ProcState]
    /\ lost \subseteq Cohorts

\* The dataset that is registered is in the cohort's directory, or in a purge
\* directory from which maintenance can put it back.
OnDisk(c) == \E d \in purged[c] \cup {dir[c]} : d.data = rows[c]

\* --clean-stale-staging finds another dataset, or none, in the directory of a
\* registered cohort: it then removes the purge directories of that cohort, the
\* one with the registered dataset too (maintenance.py:446).
Overridden(c) ==
    /\ lock # None /\ proc[lock].cmd = "staging"
    /\ dir[c].there
    /\ dir[c].data # rows[c]

\* Whatever deletion, its rollback, kills, ingestion of other datasets under the
\* same id, late publications and maintenance do in turn, a cohort is registered
\* with its dataset, and that dataset stays on disk while the cohort is registered
\* and nobody else damages it, but for one step: the one Overridden describes,
\* which a stale or torn purge directory that was put back first leads to, or a
\* publication that raced with a deletion.
RegisteredKeepsDataset ==
    [][\A c \in Registered' \ lost' :
          (c \in Registered => OnDisk(c)) => OnDisk(c)' \/ Overridden(c)]_vars

\* The pointer that official-source resolution follows names a registered cohort
\* even after its dataset is lost and --clean-missing has run.
ActiveIsRegistered == active # None => active \in Registered

\* A dataset kept by delete --keep-dataset is given up or changed by
\* --clean-detached only, never by --clean-orphans, a failed registration, an
\* ingestion of another dataset under its id or another deletion.
DetachedKept ==
    [][\A c \in Cohorts \ Registered :
          dir[c].mark /\ dir'[c] # dir[c]
             => lock # None /\ proc[lock].cmd = "detached"]_vars

\* A repair joins its heartbeat thread while it holds the lock that the thread is
\* waiting for (ingestion.py:331, paths.py:279).
JoinsItself(p) == lock = p /\ At(p, "released") /\ beat[p] = "due"

\* Every section under the publication lock ends and gives it back, unless the
\* repair of an official source takes 30 s in its staging lease: then it waits for
\* its own heartbeat, and everybody else for the lock.
LockReleased == []<>(lock = None \/ \E p \in Procs : JoinsItself(p))
=============================================================================
