-------------------------- MODULE CohortStoreProofs --------------------------
(***************************************************************************)
(* The cohort store under any number of commands, cohorts and hosts: the   *)
(* publication lock and the order of the steps within it suffice for what  *)
(* deletion, rollback, ingestion, maintenance and kills between any two    *)
(* steps do to registered and detached datasets.                           *)
(***************************************************************************)
EXTENDS CohortStore, TLAPS

\* The labels of a section under the publication lock, and what they belong to.
Writing == {"recheck", "mend", "restage", "refill", "released", "publish", "confirm",
            "register"}
Deleting == {"check", "move", "forget", "purge"}
Tasks == {"staging", "missing", "orphans", "detached"}
Locked == Writing \cup Deleting \cup Tasks

\* A command is at a label of its own kind, on a cohort when it takes one, and
\* writes a dataset.
Role(p) ==
    /\ proc[p].pc # "idle" => proc[p].cmd \in Kinds
    /\ proc[p].pc # "idle" /\ proc[p].cmd \in OnCohort => proc[p].c \in Cohorts
    /\ proc[p].pc \in {"enter", "check", "move"} => proc[p].moved = NoDir
    /\ proc[p].pc = "enter" => proc[p].cmd \notin {"ingest", "save"}
    /\ proc[p].pc \in Deleting => proc[p].cmd \in {"delete", "detach"}
    /\ proc[p].pc \in Tasks => proc[p].cmd = proc[p].pc
    /\ proc[p].pc \notin Deleting \cup Tasks \cup {"idle", "enter"}
          => proc[p].cmd \in {"ingest", "save"} /\ proc[p].data # None

\* The flock is held in the sections under it and nowhere else.
Holds(p) == lock = p <=> proc[p].pc \in Locked

\* A staging directory belongs to a command that publishes it, without a marker, and
\* the heartbeat thread lives within active_staging_lease.
Owned(p) ==
    /\ ~stage[p].mark
    /\ stage[p] # NoDir =>
          proc[p].pc \in {"fill", "refill", "leased", "released", "leaseFailed",
                          "lockPublish", "publish", "cleanup"}
    /\ beat[p] # "off" =>
          proc[p].pc \in {"fill", "refill", "leased", "released", "leaseFailed"}

\* What a section has established remains true until it ends: the row that is being
\* repaired, the row that is being deleted and is not pinned, the directory that was
\* set aside, the row that is gone, the directory that was published without a marker.
Section(p) ==
    /\ proc[p].pc = "mend" => rows[proc[p].c] = proc[p].data
    /\ proc[p].pc \in {"move", "forget"}
          => proc[p].c \in Registered /\ proc[p].c \notin official
    /\ proc[p].pc = "forget" /\ proc[p].moved # NoDir
          => purged[proc[p].c] = proc[p].left \cup {proc[p].moved}
    /\ proc[p].pc = "purge" => proc[p].c \notin Registered
    /\ proc[p].pc = "register" => ~dir[proc[p].c].mark

InOrder(p) == Role(p) /\ Holds(p) /\ Owned(p) /\ Section(p)

StoreInv ==
    /\ TypeOK
    /\ \A p \in Procs : InOrder(p)
    /\ ActiveIsRegistered

-----------------------------------------------------------------------------
(* How a step changes the command that takes it                            *)

\* The catalog and the directories have their types.
StoreTyped ==
    /\ rows \in [Cohorts -> Contents \cup {None}]
    /\ detached \subseteq Cohorts /\ official \subseteq Cohorts
    /\ active \in official \cup {None}
    /\ dir \in [Cohorts -> Dir]
    /\ purged \in [Cohorts -> SUBSET Dir]
    /\ lost \subseteq Cohorts

\* The lock stays where it is, or the command takes it or gives it back.
Passes(p) ==
    \/ UNCHANGED lock
    \/ lock = None /\ lock' = p
    \/ lock = p /\ lock' = None

\* What a command's own step leaves alone: the other commands, their staging
\* directories and heartbeats.
OthersSame(p) ==
    /\ proc' \in [Procs -> ProcState]
    /\ stage' \in [Procs -> Dir]
    /\ beat' \in [Procs -> {"off", "on", "due"}]
    /\ \A q \in Procs : q # p => proc'[q] = proc[q] /\ stage'[q] = stage[q] /\ beat'[q] = beat[q]

\* The parts of the type invariant.
LEMMA TypesOf ==
    ASSUME StoreInv, NEW p \in Procs
    PROVE  /\ StoreTyped
           /\ proc \in [Procs -> ProcState] /\ proc[p] \in ProcState
           /\ stage \in [Procs -> Dir] /\ stage[p] \in Dir
           /\ beat \in [Procs -> {"off", "on", "due"}]
           /\ lock \in Procs \cup {None} /\ p # None
BY CohortAssumption DEF StoreInv, TypeOK, StoreTyped

\* The absent directory.
LEMMA NoDirShape == NoDir \in Dir /\ ~NoDir.there /\ ~NoDir.mark /\ NoDir.data = None
BY DEF NoDir, Dir

\* A directory that is not there is the absent one.
LEMMA DirShape ==
    ASSUME NEW d \in Dir
    PROVE  d.data \in Contents \cup {None} /\ d.mark \in BOOLEAN /\ (~d.there => d = NoDir)
<1>1. CASE d = NoDir
  BY <1>1 DEF NoDir
<1>2. CASE d \in [there : {TRUE}, data : Contents \cup {None}, mark : BOOLEAN]
  BY <1>2
<1>. QED BY <1>1, <1>2 DEF Dir

\* A directory that has just been filled has no marker.
LEMMA HoldingShape ==
    ASSUME NEW x \in Contents \cup {None}
    PROVE  Holding(x) \in Dir /\ Holding(x).there /\ ~Holding(x).mark /\ Holding(x).data = x
BY DEF Dir, Holding

\* Another dataset in it: os.replace of the rebuilt one, or its removal.
LEMMA WithShape ==
    ASSUME NEW d \in Dir, NEW x \in Contents \cup {None}
    PROVE  With(d, x) \in Dir /\ With(d, x).data = x /\ (~d.mark => ~With(d, x).mark)
<1>1. d.mark \in BOOLEAN
  BY DirShape
<1>. QED BY <1>1 DEF Dir, With

\* The marker comes and goes without the dataset.
LEMMA MarkedShape ==
    ASSUME NEW d \in Dir
    PROVE  /\ Marked(d) \in Dir /\ Marked(d).data = d.data
           /\ Unmarked(d) \in Dir /\ Unmarked(d).data = d.data
<1>1. CASE d = NoDir
  BY <1>1 DEF Dir, NoDir, Marked, Unmarked
<1>2. CASE d \in [there : {TRUE}, data : Contents \cup {None}, mark : BOOLEAN]
  BY <1>2 DEF Dir, Marked, Unmarked
<1>. QED BY <1>1, <1>2 DEF Dir

\* What a killed rmtree leaves is a directory.
LEMMA RemnantShape ==
    ASSUME NEW d \in Dir
    PROVE  Remnants(d) \subseteq Dir
<1>1. With(d, None) \in Dir /\ Holding(None) \in Dir /\ Unmarked(d) \in Dir
  BY WithShape, HoldingShape, MarkedShape
<1>. QED BY <1>1 DEF Remnants

\* The other fields of a command.
SameTask(p) ==
    /\ proc'[p].cmd = proc[p].cmd /\ proc'[p].c = proc[p].c /\ proc'[p].data = proc[p].data
    /\ proc'[p].moved = proc[p].moved /\ proc'[p].left = proc[p].left

\* Goto changes the label of its command and nothing else.
LEMMA GotoEffect ==
    ASSUME StoreInv, NEW p \in Procs, NEW label \in Labels, Goto(p, label)
    PROVE  /\ proc' \in [Procs -> ProcState]
           /\ proc'[p].pc = label /\ SameTask(p) /\ proc'[p].undo = proc[p].undo
           /\ \A q \in Procs : q # p => proc'[q] = proc[q]
<1>. DEFINE r == [proc[p] EXCEPT !.pc = label]
<1>1. proc[p] \in ProcState /\ proc \in [Procs -> ProcState]
  BY TypesOf
<1>2. r \in ProcState /\ r.pc = label /\ r.cmd = proc[p].cmd /\ r.c = proc[p].c
      /\ r.data = proc[p].data /\ r.undo = proc[p].undo /\ r.moved = proc[p].moved
      /\ r.left = proc[p].left
  BY <1>1 DEF ProcState
<1>3. proc' = [proc EXCEPT ![p] = r]
  BY <1>1 DEF Goto, ProcState
<1>. HIDE DEF r
<1>. QED BY <1>1, <1>2, <1>3 DEF SameTask

\* A step that goes on and remembers what it saw or must undo.
LEMMA UndoEffect ==
    ASSUME StoreInv, NEW p \in Procs, NEW label \in Labels,
           NEW undo \in {None, "intact", "repair", "unmark"},
           proc' = [proc EXCEPT ![p].pc = label, ![p].undo = undo]
    PROVE  /\ proc' \in [Procs -> ProcState]
           /\ proc'[p].pc = label /\ SameTask(p)
           /\ \A q \in Procs : q # p => proc'[q] = proc[q]
<1>. DEFINE r == [proc[p] EXCEPT !.pc = label, !.undo = undo]
<1>1. proc[p] \in ProcState /\ proc \in [Procs -> ProcState]
  BY TypesOf
<1>2. r \in ProcState /\ r.pc = label /\ r.cmd = proc[p].cmd /\ r.c = proc[p].c
      /\ r.data = proc[p].data /\ r.moved = proc[p].moved /\ r.left = proc[p].left
  BY <1>1 DEF ProcState
<1>3. proc' = [proc EXCEPT ![p] = r]
  BY <1>1 DEF ProcState
<1>. HIDE DEF r
<1>. QED BY <1>1, <1>2, <1>3 DEF SameTask

\* The end of a command.
LEMMA FinishEffect ==
    ASSUME StoreInv, NEW p \in Procs, Finish(p)
    PROVE  /\ proc' \in [Procs -> ProcState] /\ proc'[p].pc = "idle"
           /\ \A q \in Procs : q # p => proc'[q] = proc[q]
<1>1. IdleProc \in ProcState /\ IdleProc.pc = "idle"
  BY NoDirShape DEF IdleProc, ProcState, Labels
<1>. QED BY <1>1, TypesOf DEF Finish

\* A step of p keeps the order of every other command when it changes the catalog and
\* the directories under the lock only.
LEMMA OthersInOrder ==
    ASSUME StoreInv, NEW p \in Procs, OthersSame(p), Passes(p),
           lock # p => UNCHANGED <<rows, official, dir, purged>>, UNCHANGED official,
           NEW q \in Procs, q # p
    PROVE  InOrder(q)'
<1>1. proc'[q] = proc[q] /\ stage'[q] = stage[q] /\ beat'[q] = beat[q] /\ InOrder(q)
  BY DEF OthersSame, StoreInv
<1>2. Role(q)' /\ Owned(q)'
  BY <1>1 DEF InOrder, Role, Owned
<1>3. Holds(q)'
  BY <1>1, TypesOf DEF InOrder, Holds, Passes
<1>4. Section(q)'
  <2>1. CASE proc[q].pc \in Locked
    <3>1. UNCHANGED <<rows, official, dir, purged>>
      BY <1>1, <2>1 DEF InOrder, Holds
    <3>. QED BY <1>1, <3>1 DEF InOrder, Section, Registered
  <2>2. CASE proc[q].pc \notin Locked
    BY <1>1, <2>2 DEF Section, Registered, Locked, Deleting, Writing
  <2>. QED BY <2>1, <2>2
<1>. QED BY <1>2, <1>3, <1>4 DEF InOrder

\* The holder of the lock is running when every command is in order.
LEMMA TypesNext ==
    ASSUME StoreTyped', NEW p \in Procs, OthersSame(p), lock' \in Procs \cup {None},
           \A q \in Procs : InOrder(q)'
    PROVE  TypeOK'
<1>1. lock' # None => ~At(lock, "idle")'
  BY DEF InOrder, Holds, Locked, Writing, Deleting, Tasks, At
<1>. QED BY <1>1 DEF TypeOK, StoreTyped, OthersSame

\* A step that changes neither the catalog nor a directory.
LEMMA QuietStep ==
    ASSUME StoreInv, NEW p \in Procs, OthersSame(p), Passes(p), InOrder(p)',
           UNCHANGED <<catalog, files>>
    PROVE  StoreInv'
<1>1. UNCHANGED <<rows, official, dir, purged>>
  BY DEF catalog, files
<1>2. \A q \in Procs : InOrder(q)'
  BY <1>1, OthersInOrder
<1>3. StoreTyped' /\ ActiveIsRegistered'
  BY TypesOf DEF StoreInv, StoreTyped, ActiveIsRegistered, Registered, catalog, files
<1>4. lock' \in Procs \cup {None}
  BY TypesOf DEF Passes
<1>5. TypeOK'
  BY <1>2, <1>3, <1>4, TypesNext
<1>. QED BY <1>2, <1>3, <1>5 DEF StoreInv

\* A step under the lock.
LEMMA LockedStep ==
    ASSUME StoreInv, NEW p \in Procs, OthersSame(p), Passes(p), InOrder(p)', lock = p,
           StoreTyped', UNCHANGED official, ActiveIsRegistered'
    PROVE  StoreInv'
<1>1. \A q \in Procs : InOrder(q)'
  BY OthersInOrder
<1>2. lock' \in Procs \cup {None}
  BY TypesOf DEF Passes
<1>3. TypeOK'
  BY <1>1, <1>2, TypesNext
<1>. QED BY <1>1, <1>3 DEF StoreInv

\* A command goes to a label; its staging directory and heartbeat stay.
LEMMA Advance ==
    ASSUME StoreInv, NEW p \in Procs, NEW label \in Labels, Goto(p, label),
           UNCHANGED <<stage, beat>>
    PROVE  /\ OthersSame(p) /\ proc'[p].pc = label /\ SameTask(p)
           /\ proc'[p].undo = proc[p].undo
BY GotoEffect, TypesOf DEF OthersSame

\* The labels between create_staging_dir and the end of a publication.
Staged == {"fill", "refill", "leased", "released", "leaseFailed", "lockPublish", "publish",
           "cleanup"}

\* A command ends that has no staging directory and does not hold the lock.
LEMMA Ends ==
    ASSUME StoreInv, NEW p \in Procs, Finish(p), lock' # p, UNCHANGED <<stage, beat>>,
           proc[p].pc \notin Staged
    PROVE  OthersSame(p) /\ InOrder(p)'
<1>1. /\ proc' \in [Procs -> ProcState] /\ proc'[p].pc = "idle"
      /\ \A q \in Procs : q # p => proc'[q] = proc[q]
  BY FinishEffect
<1>2. OthersSame(p)
  BY <1>1, TypesOf DEF OthersSame
<1>3. stage[p] = NoDir /\ beat[p] = "off"
  BY DEF StoreInv, InOrder, Owned, Staged
<1>. QED BY <1>1, <1>2, <1>3, NoDirShape DEF InOrder, Role, Holds, Owned, Section, Locked,
                                             Writing, Deleting, Tasks

\* The end of a section under the lock, by success or by an exception.
LEMMA Raises ==
    ASSUME StoreInv, NEW p \in Procs, Raise(p), UNCHANGED <<stage, beat>>,
           proc[p].pc \notin Staged
    PROVE  OthersSame(p) /\ InOrder(p)' /\ Passes(p) /\ lock = p
<1>1. lock = p /\ lock' = None /\ Finish(p) /\ p # None
  BY TypesOf DEF Raise, Release
<1>. QED BY <1>1, Ends DEF Passes

\* A command that does not hold the lock at its label.
LEMMA LockOf ==
    ASSUME StoreInv, NEW p \in Procs PROVE InOrder(p) /\ (lock = p <=> proc[p].pc \in Locked)
BY DEF StoreInv, InOrder, Holds

-----------------------------------------------------------------------------
(* Ingestion and saves                                                     *)

\* A command begins.
LEMMA BeginKeeps ==
    ASSUME StoreInv, NEW p \in Procs, NEW cmd \in Kinds, NEW c \in Cohorts \cup {None},
           NEW x \in Contents \cup {None}, Begin(p, cmd, c, x)
    PROVE  StoreInv'
<1>. DEFINE r == [pc |-> IF cmd \in {"ingest", "save"} THEN "look" ELSE "enter",
                  cmd |-> cmd, c |-> c, data |-> x, undo |-> None, moved |-> NoDir,
                  left |-> {}]
<1>1. /\ proc[p].pc = "idle" /\ proc' = [proc EXCEPT ![p] = r]
      /\ cmd \in OnCohort => c \in Cohorts
      /\ cmd \in {"ingest", "save"} => x # None
      /\ UNCHANGED <<catalog, files, stage, beat, lock>>
  BY CohortAssumption DEF Begin, At
<1>2. /\ r \in ProcState /\ r.pc = IF cmd \in {"ingest", "save"} THEN "look" ELSE "enter"
      /\ r.cmd = cmd /\ r.c = c /\ r.data = x /\ r.moved = NoDir
  BY NoDirShape DEF ProcState, Labels
<1>. HIDE DEF r
<1>3. /\ OthersSame(p) /\ proc'[p].cmd = cmd /\ proc'[p].c = c /\ proc'[p].data = x
      /\ proc'[p].moved = NoDir
      /\ proc'[p].pc = IF cmd \in {"ingest", "save"} THEN "look" ELSE "enter"
  BY <1>1, <1>2, TypesOf DEF OthersSame
<1>4. InOrder(p)'
  <2>1. stage[p] = NoDir /\ beat[p] = "off" /\ lock # p
    BY <1>1, LockOf DEF InOrder, Owned, Locked, Writing, Deleting, Tasks
  <2>2. Role(p)'
    BY <1>1, <1>3 DEF Role, Deleting, Tasks
  <2>3. Holds(p)' /\ Section(p)'
    BY <1>1, <1>3, <2>1 DEF Holds, Section, Locked, Writing, Deleting, Tasks
  <2>4. Owned(p)'
    BY <1>1, <2>1, NoDirShape DEF Owned
  <2>. QED BY <2>2, <2>3, <2>4 DEF InOrder
<1>. QED BY <1>1, <1>3, <1>4, QuietStep DEF Passes

\* The steps before the staging directory, which only read.
LEMMA LooksKeep ==
    ASSUME StoreInv, NEW p \in Procs, Look(p) \/ Occupied(p) \/ Inspect(p)
    PROVE  StoreInv'
<1>1. /\ proc[p].pc \in {"look", "occupied", "inspect"}
      /\ UNCHANGED <<catalog, files, stage, beat, lock>> /\ Passes(p)
  BY DEF Look, Occupied, Inspect, At, Passes
<1>2. lock # p /\ InOrder(p) /\ stage[p] = NoDir /\ beat[p] = "off"
  BY <1>1, LockOf DEF InOrder, Owned, Locked, Writing, Deleting, Tasks
<1>3. CASE Finish(p)
  <2>1. OthersSame(p) /\ InOrder(p)'
    BY <1>1, <1>2, <1>3, Ends DEF Staged
  <2>. QED BY <1>1, <2>1, QuietStep
<1>4. ASSUME OthersSame(p), proc'[p].pc \in {"occupied", "create", "inspect", "relock"},
             SameTask(p)
      PROVE  StoreInv'
  <2>1. Role(p)'
    BY <1>1, <1>2, <1>4 DEF InOrder, SameTask, Role, Deleting, Tasks
  <2>2. Holds(p)' /\ Owned(p)' /\ Section(p)'
    BY <1>1, <1>2, <1>4 DEF InOrder, Holds, Owned, Section, Registered, Locked, Writing,
                            Deleting, Tasks
  <2>3. InOrder(p)'
    BY <2>1, <2>2 DEF InOrder
  <2>. QED BY <1>1, <1>4, <2>3, QuietStep
<1>5. ASSUME NEW label \in {"occupied", "create", "inspect"}, Goto(p, label) PROVE StoreInv'
  <2>1. label \in Labels
    BY DEF Labels
  <2>2. /\ OthersSame(p) /\ proc'[p].pc = label /\ SameTask(p)
    BY <1>1, <1>5, <2>1, Advance
  <2>. QED BY <1>4, <2>2
<1>6. ASSUME NEW undo \in {"intact", "repair"},
             proc' = [proc EXCEPT ![p].pc = "relock", ![p].undo = undo]
      PROVE  StoreInv'
  <2>1. "relock" \in Labels
    BY DEF Labels
  <2>2. /\ proc' \in [Procs -> ProcState] /\ proc'[p].pc = "relock"
        /\ SameTask(p)
        /\ \A q \in Procs : q # p => proc'[q] = proc[q]
    BY <1>6, <2>1, UndoEffect
  <2>3. OthersSame(p)
    BY <1>1, <2>2, TypesOf DEF OthersSame
  <2>. QED BY <1>4, <2>2, <2>3
<1>7. CASE Look(p)
  BY <1>3, <1>5, <1>7 DEF Look
<1>8. CASE Occupied(p)
  BY <1>3, <1>5, <1>8 DEF Occupied
<1>9. CASE Inspect(p)
  <2>1. CASE Finish(p)
    BY <1>3, <2>1
  <2>2. CASE ~Finish(p)
    <3>. DEFINE undo == IF Verified(C(p), proc[p].data) THEN "intact" ELSE "repair"
    <3>1. proc' = [proc EXCEPT ![p].pc = "relock", ![p].undo = undo]
      BY <1>9, <2>2 DEF Inspect
    <3>2. undo \in {"intact", "repair"}
      OBVIOUS
    <3>. HIDE DEF undo
    <3>. QED BY <1>6, <3>1, <3>2
  <2>. QED BY <2>1, <2>2
<1>. QED BY <1>7, <1>8, <1>9

\* The lock is taken for a repair or a confirmation, and for a publication.
LEMMA TakesKeep ==
    ASSUME StoreInv, NEW p \in Procs, Relock(p) \/ LockPublish(p)
    PROVE  StoreInv'
<1>1. /\ proc[p].pc \in {"relock", "lockPublish"} /\ lock = None /\ lock' = p /\ Passes(p)
      /\ UNCHANGED <<catalog, files, stage, beat>>
  BY DEF Relock, LockPublish, At, Take, Passes
<1>2. PICK label \in {"recheck", "publish"} :
          Goto(p, label) /\ (label = "recheck" => proc[p].pc = "relock")
  BY DEF Relock, LockPublish, At
<1>3. label \in Labels
  BY DEF Labels
<1>4. /\ OthersSame(p) /\ proc'[p].pc = label /\ SameTask(p) /\ proc'[p].undo = proc[p].undo
  BY <1>1, <1>2, <1>3, Advance
<1>5. Role(p)' /\ Holds(p)' /\ Section(p)'
  BY <1>1, <1>4, LockOf DEF InOrder, SameTask, Role, Holds, Section, Registered, Locked,
                            Writing, Deleting, Tasks
<1>6. Owned(p)'
  BY <1>1, <1>2, <1>4, LockOf DEF InOrder, Owned
<1>. QED BY <1>1, <1>4, <1>5, <1>6, QuietStep DEF InOrder

\* A section that ends without having changed anything.
LEMMA EndsKeep ==
    ASSUME StoreInv, NEW p \in Procs, Confirm(p) \/ StagingDone(p) \/ OrphansDone(p)
    PROVE  StoreInv'
<1>1. /\ proc[p].pc \in {"confirm", "staging", "orphans"} /\ Raise(p)
      /\ UNCHANGED <<catalog, files, stage, beat>>
  BY DEF Confirm, StagingDone, OrphansDone, At
<1>2. OthersSame(p) /\ InOrder(p)' /\ Passes(p)
  BY <1>1, Raises DEF Staged
<1>. QED BY <1>1, <1>2, QuietStep

\* The row is looked up again under the lock.
LEMMA RecheckKeeps ==
    ASSUME StoreInv, NEW p \in Procs, Recheck(p)
    PROVE  StoreInv'
<1>1. proc[p].pc = "recheck" /\ UNCHANGED <<catalog, files, stage, beat>>
  BY DEF Recheck, At
<1>2. CASE Raise(p)
  <2>1. OthersSame(p) /\ InOrder(p)' /\ Passes(p)
    BY <1>1, <1>2, Raises DEF Staged
  <2>. QED BY <1>1, <2>1, QuietStep
<1>3. CASE ~Raise(p)
  <2>1. /\ rows[proc[p].c] = proc[p].data /\ UNCHANGED lock
        /\ \E label \in {"confirm", "mend", "restage"} : Goto(p, label)
    BY <1>3 DEF Recheck, C
  <2>1a. PICK label \in {"confirm", "mend", "restage"} : Goto(p, label)
    BY <2>1
  <2>2. label \in Labels
    BY DEF Labels
  <2>3. /\ OthersSame(p) /\ proc'[p].pc = label /\ SameTask(p)
    BY <1>1, <2>1a, <2>2, Advance
  <2>4. Role(p)' /\ Holds(p)'
    BY <1>1, <2>1, <2>3, LockOf DEF InOrder, SameTask, Role, Holds, Locked, Writing, Deleting,
                                    Tasks
  <2>4a. Section(p)'
    BY <1>1, <2>1, <2>3, LockOf DEF InOrder, Section, Registered, SameTask, catalog
  <2>5. Owned(p)'
    BY <1>1, <2>3, LockOf DEF InOrder, Owned
  <2>. QED BY <1>1, <2>1, <2>3, <2>4, <2>4a, <2>5, QuietStep DEF InOrder, Passes
<1>. QED BY <1>2, <1>3

\* The lock for deletion and maintenance, and the checks of delete_cohort.
LEMMA EnterKeeps ==
    ASSUME StoreInv, NEW p \in Procs, Enter(p)
    PROVE  StoreInv'
<1>1. /\ proc[p].pc = "enter" /\ lock = None /\ lock' = p /\ Passes(p)
      /\ UNCHANGED <<catalog, files, stage, beat>>
      /\ Goto(p, IF proc[p].cmd \in {"delete", "detach"} THEN "check" ELSE proc[p].cmd)
  BY DEF Enter, At, Take, Passes
<1>. DEFINE label == IF proc[p].cmd \in {"delete", "detach"} THEN "check" ELSE proc[p].cmd
<1>2. proc[p].cmd \in Tasks \cup {"delete", "detach"}
  BY <1>1, LockOf DEF InOrder, Role, Tasks, Kinds, OnCohort
<1>3. label \in Labels
  BY <1>2 DEF Labels, Tasks
<1>4. /\ label \in Tasks \cup {"check"}
      /\ label = "check" => proc[p].cmd \in {"delete", "detach"}
      /\ label # "check" => proc[p].cmd = label
  BY <1>2 DEF Tasks
<1>. HIDE DEF label
<1>5. /\ OthersSame(p) /\ proc'[p].pc = label /\ SameTask(p)
  <2>1. Goto(p, label)
    BY <1>1 DEF label
  <2>. QED BY <1>1, <1>3, <2>1, Advance
<1>6. Role(p)'
  BY <1>1, <1>4, <1>5, LockOf DEF InOrder, SameTask, Role, Deleting, Tasks
<1>7. Holds(p)' /\ Section(p)'
  BY <1>1, <1>4, <1>5 DEF Holds, Section, Registered, Locked, Deleting, Tasks
<1>8. Owned(p)'
  BY <1>1, <1>5, LockOf DEF InOrder, Owned
<1>. QED BY <1>1, <1>5, <1>6, <1>7, <1>8, QuietStep DEF InOrder

\* Deletion goes on only with a registered cohort that is not pinned.
LEMMA CheckKeeps ==
    ASSUME StoreInv, NEW p \in Procs, Check(p)
    PROVE  StoreInv'
<1>1. proc[p].pc = "check" /\ UNCHANGED <<catalog, files, stage, beat>>
  BY DEF Check, At
<1>2. CASE Raise(p)
  <2>1. OthersSame(p) /\ InOrder(p)' /\ Passes(p)
    BY <1>1, <1>2, Raises DEF Staged
  <2>. QED BY <1>1, <2>1, QuietStep
<1>3. CASE Deletable(C(p)) /\ Goto(p, "move") /\ UNCHANGED lock
  <2>1. "move" \in Labels
    BY DEF Labels
  <2>2. /\ OthersSame(p) /\ proc'[p].pc = "move" /\ SameTask(p)
    BY <1>1, <1>3, <2>1, Advance
  <2>3. Role(p)' /\ Holds(p)'
    BY <1>1, <1>3, <2>2, LockOf DEF InOrder, SameTask, Role, Holds, Locked, Writing, Deleting,
                                    Tasks
  <2>4. Owned(p)' /\ Section(p)'
    BY <1>1, <1>3, <2>2, LockOf DEF InOrder, Owned, Section, Registered, Deletable, C, SameTask,
                                    catalog
  <2>. QED BY <1>1, <1>3, <2>2, <2>3, <2>4, QuietStep DEF InOrder, Passes
<1>. QED BY <1>2, <1>3 DEF Check

\* The staging directory and its heartbeat thread.
LEMMA StageOpens ==
    ASSUME StoreInv, NEW p \in Procs, Create(p) \/ Restage(p)
    PROVE  StoreInv'
<1>. DEFINE new == Holding(None)
<1>1. /\ proc[p].pc \in {"create", "restage"} /\ UNCHANGED <<catalog, files, lock>>
      /\ stage' = [stage EXCEPT ![p] = new] /\ beat' = [beat EXCEPT ![p] = "on"]
  BY DEF Create, Restage, OpenStage, At
<1>2. new \in Dir /\ ~new.mark
  BY HoldingShape
<1>. HIDE DEF new
<1>3. PICK label \in {"fill", "refill"} :
          Goto(p, label) /\ (label = "refill" <=> proc[p].pc = "restage")
  BY DEF Create, Restage, At
<1>4. label \in Labels
  BY DEF Labels
<1>5. /\ proc' \in [Procs -> ProcState] /\ proc'[p].pc = label
      /\ SameTask(p)
      /\ \A q \in Procs : q # p => proc'[q] = proc[q]
  BY <1>3, <1>4, GotoEffect
<1>6. OthersSame(p) /\ stage'[p] = new /\ beat'[p] = "on"
  BY <1>1, <1>2, <1>5, TypesOf DEF OthersSame
<1>7. Role(p)' /\ Holds(p)' /\ Section(p)'
  BY <1>1, <1>3, <1>5, LockOf DEF InOrder, SameTask, Role, Holds, Section, Registered, Locked,
                                  Writing, Deleting, Tasks
<1>8. Owned(p)'
  BY <1>2, <1>5, <1>6 DEF Owned
<1>. QED BY <1>1, <1>6, <1>7, <1>8, QuietStep DEF InOrder, Passes

\* The dataset is staged, or the directory has been swept.
LEMMA FillKeeps ==
    ASSUME StoreInv, NEW p \in Procs, Fill(p)
    PROVE  StoreInv'
<1>1. proc[p].pc \in {"fill", "refill"} /\ UNCHANGED <<catalog, files, beat, lock>>
  BY DEF Fill
<1>2. PICK label \in {"leased", "released", "leaseFailed"} :
          Goto(p, label) /\ (label = "released" <=> proc[p].pc = "refill")
  BY DEF Fill, At
<1>3. label \in Labels
  BY DEF Labels
<1>4. /\ proc' \in [Procs -> ProcState] /\ proc'[p].pc = label
      /\ SameTask(p)
      /\ \A q \in Procs : q # p => proc'[q] = proc[q]
  BY <1>2, <1>3, GotoEffect
<1>5. /\ stage' \in [Procs -> Dir] /\ ~stage'[p].mark
      /\ \A q \in Procs : q # p => stage'[q] = stage[q]
      /\ stage[p] = NoDir => stage'[p] = NoDir
  <2>1. PICK r \in Dir : r = Holding(proc[p].data) /\ ~r.mark
    BY TypesOf, HoldingShape DEF ProcState
  <2>2. (stage[p] # NoDir /\ stage' = [stage EXCEPT ![p] = r]) \/ UNCHANGED stage
    BY <2>1 DEF Fill
  <2>3. ~stage[p].mark
    BY LockOf DEF InOrder, Owned
  <2>. QED BY <2>1, <2>2, <2>3, TypesOf
<1>6. OthersSame(p)
  BY <1>1, <1>4, <1>5, TypesOf DEF OthersSame
<1>7. Role(p)' /\ Holds(p)' /\ Section(p)'
  BY <1>1, <1>2, <1>4, LockOf DEF InOrder, SameTask, Role, Holds, Section, Registered, Locked,
                                  Writing, Deleting, Tasks
<1>8. Owned(p)'
  BY <1>1, <1>4, <1>5, LockOf DEF InOrder, Owned
<1>. QED BY <1>1, <1>6, <1>7, <1>8, QuietStep DEF InOrder, Passes

\* The heartbeat thread is joined.
LEMMA EndLeaseKeeps ==
    ASSUME StoreInv, NEW p \in Procs, EndLease(p)
    PROVE  StoreInv'
<1>1. /\ proc[p].pc \in {"leased", "released", "leaseFailed"}
      /\ beat' = [beat EXCEPT ![p] = "off"] /\ UNCHANGED <<catalog, files, stage, lock>>
  BY DEF EndLease
<1>2. PICK label \in {"lockPublish", "publish", "cleanup"} :
          Goto(p, label) /\ (label = "publish" <=> proc[p].pc = "released")
  BY <1>1 DEF EndLease, At
<1>3. label \in Labels
  BY DEF Labels
<1>4. /\ proc' \in [Procs -> ProcState] /\ proc'[p].pc = label
      /\ SameTask(p)
      /\ \A q \in Procs : q # p => proc'[q] = proc[q]
  BY <1>2, <1>3, GotoEffect
<1>5. OthersSame(p) /\ beat'[p] = "off"
  BY <1>1, <1>4, TypesOf DEF OthersSame
<1>6. Role(p)' /\ Holds(p)' /\ Section(p)'
  BY <1>1, <1>2, <1>4, LockOf DEF InOrder, SameTask, Role, Holds, Section, Registered, Locked,
                                  Writing, Deleting, Tasks
<1>7. Owned(p)'
  BY <1>1, <1>4, <1>5, LockOf DEF InOrder, Owned
<1>. QED BY <1>1, <1>5, <1>6, <1>7, QuietStep DEF InOrder, Passes

\* remove_staging_dir
LEMMA CleanupKeeps ==
    ASSUME StoreInv, NEW p \in Procs, Cleanup(p)
    PROVE  StoreInv'
<1>1. /\ proc[p].pc = "cleanup" /\ stage' = [stage EXCEPT ![p] = NoDir] /\ Finish(p)
      /\ UNCHANGED <<catalog, files, beat, lock>>
  BY DEF Cleanup, At
<1>2. NoDir \in Dir
  BY NoDirShape
<1>3. /\ proc' \in [Procs -> ProcState] /\ proc'[p].pc = "idle"
      /\ \A q \in Procs : q # p => proc'[q] = proc[q]
  BY <1>1, FinishEffect
<1>4. OthersSame(p) /\ stage'[p] = NoDir
  BY <1>1, <1>2, <1>3, TypesOf DEF OthersSame
<1>5. beat[p] = "off" /\ lock # p
  BY <1>1, LockOf DEF InOrder, Owned, Locked, Writing, Deleting, Tasks
<1>6. InOrder(p)'
  BY <1>1, <1>3, <1>4, <1>5, NoDirShape DEF InOrder, Role, Holds, Owned, Section, Locked,
                                            Writing, Deleting, Tasks
<1>. QED BY <1>1, <1>4, <1>6, QuietStep DEF Passes

\* The heartbeat thread and a sweep touch staging directories only.
LEMMA LeasesKeep ==
    ASSUME StoreInv, NEW p \in Procs,
           \/ HeartbeatDue(p) \/ HeartbeatWrites(p) \/ \E q \in Procs : SweepStage(q, p)
    PROVE  StoreInv'
<1>1. UNCHANGED <<catalog, files, lock, proc>>
  BY DEF HeartbeatDue, HeartbeatWrites, SweepStage
<1>2. InOrder(p) /\ stage[p] \in Dir /\ stage \in [Procs -> Dir]
  BY LockOf, TypesOf
<1>3. CASE HeartbeatDue(p)
  <2>1. OthersSame(p) /\ stage'[p] = stage[p] /\ beat[p] # "off"
    BY <1>1, <1>3, TypesOf DEF HeartbeatDue, OthersSame
  <2>2. InOrder(p)'
    BY <1>1, <1>2, <2>1 DEF InOrder, Role, Holds, Owned, Section, Registered, catalog, files
  <2>. QED BY <1>1, <2>1, <2>2, QuietStep DEF Passes
<1>4. ASSUME NEW r \in Dir, stage' = [stage EXCEPT ![p] = r],
             beat' = beat \/ beat' = [beat EXCEPT ![p] = "on"],
             beat'[p] # "off" => beat[p] # "off", ~r.mark,
             r # NoDir => stage[p] # NoDir \/ beat[p] # "off"
      PROVE  StoreInv'
  <2>1. OthersSame(p) /\ stage'[p] = r
    BY <1>1, <1>2, <1>4, TypesOf DEF OthersSame
  <2>2. Owned(p)'
    BY <1>1, <1>2, <1>4, <2>1 DEF InOrder, Owned
  <2>3. InOrder(p)'
    BY <1>1, <1>2, <2>2 DEF InOrder, Role, Holds, Section, Registered, catalog, files
  <2>. QED BY <1>1, <2>1, <2>3, QuietStep DEF Passes
<1>5. CASE HeartbeatWrites(p)
  <2>1. PICK r \in Dir : r = Holding(stage[p].data) /\ ~r.mark
    BY <1>2, DirShape, HoldingShape
  <2>2. stage' = [stage EXCEPT ![p] = r] /\ beat' = [beat EXCEPT ![p] = "on"] /\ beat[p] = "due"
    BY <1>5, <2>1 DEF HeartbeatWrites
  <2>. QED BY <1>4, <2>1, <2>2
<1>6. CASE \E q \in Procs : SweepStage(q, p)
  <2>1. PICK r \in {NoDir, Holding(None)} : stage' = [stage EXCEPT ![p] = r]
    BY <1>6 DEF SweepStage
  <2>2. r \in Dir /\ ~r.mark
    BY <2>1, NoDirShape, HoldingShape
  <2>3. stage[p] # NoDir /\ beat' = beat
    BY <1>6 DEF SweepStage
  <2>. QED BY <1>4, <2>1, <2>2, <2>3
<1>. QED BY <1>3, <1>5, <1>6

\* A command on a cohort names one.
LEMMA CohortOf ==
    ASSUME StoreInv, NEW p \in Procs, proc[p].pc \notin {"idle", "enter"} \cup Tasks
    PROVE  C(p) \in Cohorts /\ C(p) = proc[p].c
BY LockOf DEF InOrder, SameTask, Role, OnCohort, Deleting, C

\* The rebuilt dataset of an official source is renamed into its directory.
LEMMA MendKeeps ==
    ASSUME StoreInv, NEW p \in Procs, Mend(p)
    PROVE  StoreInv'
<1>1. /\ proc[p].pc = "mend" /\ Goto(p, "confirm")
      /\ UNCHANGED <<catalog, purged, stage, beat, lock>>
      /\ dir' = [dir EXCEPT ![C(p)] = With(dir[C(p)], proc[p].data)]
      /\ lost' = lost \ {C(p)}
  BY DEF Mend, At
<1>2. C(p) \in Cohorts /\ lock = p /\ "confirm" \in Labels
  BY <1>1, CohortOf, LockOf DEF Tasks, Locked, Writing, Labels
<1>3. /\ OthersSame(p) /\ proc'[p].pc = "confirm" /\ SameTask(p)
  BY <1>1, <1>2, Advance
<1>3a. With(dir[C(p)], proc[p].data) \in Dir
  BY <1>2, TypesOf, WithShape DEF StoreTyped, ProcState
<1>4. StoreTyped' /\ ActiveIsRegistered' /\ UNCHANGED official
  BY <1>1, <1>2, <1>3a, TypesOf DEF StoreTyped, StoreInv, ActiveIsRegistered, Registered,
                                    catalog
<1>5. Role(p)' /\ Holds(p)' /\ Section(p)'
  BY <1>1, <1>3, LockOf DEF InOrder, SameTask, Role, Holds, Section, Registered, Locked,
                            Writing, Deleting, Tasks
<1>6. Owned(p)'
  BY <1>1, <1>3, LockOf DEF InOrder, Owned
<1>. QED BY <1>1, <1>2, <1>3, <1>4, <1>5, <1>6, LockedStep DEF InOrder, Passes

\* publish_staging_dir
LEMMA PublishKeeps ==
    ASSUME StoreInv, NEW p \in Procs, Publish(p)
    PROVE  StoreInv'
<1>1. proc[p].pc = "publish" /\ UNCHANGED <<catalog, purged, beat>>
  BY DEF Publish, At
<1>2. C(p) \in Cohorts /\ C(p) = proc[p].c /\ lock = p /\ beat[p] = "off"
      /\ {"confirm", "register", "cleanup"} \subseteq Labels
  BY <1>1, CohortOf, LockOf DEF Tasks, Locked, Writing, Labels, InOrder, Owned
<1>3. CASE ~dir[C(p)].there /\ stage[p] # NoDir
  <2>1. PICK label \in {"confirm", "register"} : Goto(p, label)
    BY <1>3 DEF Publish, PublishRefused
  <2>2. /\ proc' \in [Procs -> ProcState] /\ proc'[p].pc = label
        /\ SameTask(p)
        /\ \A q \in Procs : q # p => proc'[q] = proc[q]
    BY <1>2, <2>1, GotoEffect
  <2>3. PICK d \in Dir : dir' = [dir EXCEPT ![C(p)] = d] /\ ~d.mark
    BY <1>3, TypesOf, LockOf DEF Publish, PublishRefused, InOrder, Owned
  <2>4. /\ stage' = [stage EXCEPT ![p] = NoDir] /\ UNCHANGED lock
        /\ lost' = lost \ {C(p)} \/ lost' = lost
    BY <1>3 DEF Publish, PublishRefused
  <2>5. NoDir \in Dir
    BY NoDirShape
  <2>6. OthersSame(p) /\ stage'[p] = NoDir
    BY <1>1, <2>2, <2>4, <2>5, TypesOf DEF OthersSame
  <2>7. StoreTyped' /\ ActiveIsRegistered' /\ UNCHANGED official
    BY <1>1, <1>2, <2>3, <2>4, TypesOf DEF StoreTyped, StoreInv, ActiveIsRegistered, Registered,
                                           catalog
  <2>8. dir'[C(p)] = d
    BY <1>2, <2>3, TypesOf DEF StoreTyped
  <2>9. Role(p)' /\ Holds(p)'
    BY <1>1, <1>2, <2>2, <2>4, LockOf DEF InOrder, SameTask, Role, Holds, Locked, Writing,
                                          Deleting, Tasks
  <2>10. Owned(p)'
    BY <1>1, <1>2, <2>6, NoDirShape DEF Owned
  <2>11. Section(p)'
    BY <1>2, <2>2, <2>3, <2>8 DEF Section, SameTask
  <2>. QED BY <1>2, <2>4, <2>6, <2>7, <2>9, <2>10, <2>11, LockedStep DEF InOrder, Passes
<1>4. CASE dir[C(p)].there \/ stage[p] = NoDir
  <2>1. Goto(p, "cleanup") /\ lock' = None /\ UNCHANGED <<catalog, files, stage, beat>>
    BY <1>1, <1>4 DEF Publish, PublishRefused, Release, files
  <2>2. /\ OthersSame(p) /\ proc'[p].pc = "cleanup" /\ SameTask(p)
    BY <1>2, <2>1, Advance
  <2>3. Role(p)' /\ Holds(p)' /\ Section(p)'
    BY <1>1, <1>2, <2>1, <2>2, LockOf, TypesOf DEF InOrder, SameTask, Role, Holds, Section,
            Registered, Locked, Writing,
                                          Deleting, Tasks
  <2>4. Owned(p)'
    BY <1>1, <2>1, <2>2, LockOf DEF InOrder, Owned
  <2>. QED BY <1>2, <2>1, <2>2, <2>3, <2>4, QuietStep DEF InOrder, Passes
<1>. QED BY <1>3, <1>4

\* register_cohort, and its failure.
LEMMA RegisterKeeps ==
    ASSUME StoreInv, NEW p \in Procs, Register(p) \/ RegisterFails(p)
    PROVE  StoreInv'
<1>1. proc[p].pc = "register" /\ Raise(p) /\ UNCHANGED <<stage, beat>>
  BY DEF Register, RegisterFails, At
<1>2. C(p) \in Cohorts
  BY <1>1, CohortOf DEF Tasks
<1>3. OthersSame(p) /\ InOrder(p)' /\ Passes(p) /\ lock = p
  BY <1>1, Raises DEF Staged
<1>4. UNCHANGED <<detached, active, official, purged, lost>>
  BY DEF Register, RegisterFails, catalog, files
<1>5. \/ /\ rows' = [rows EXCEPT ![C(p)] = proc[p].data] /\ dir' = dir
         /\ rows[C(p)] \in {None, proc[p].data}
      \/ rows' = rows /\ dir' = dir
      \/ rows' = rows /\ dir' = [dir EXCEPT ![C(p)] = NoDir]
  BY DEF Register, Registrable, RegisterFails, catalog, files
<1>5a. proc[p].data \in Contents \cup {None} /\ NoDir \in Dir
  BY TypesOf, NoDirShape DEF ProcState
<1>6. StoreTyped' /\ Registered \subseteq Registered'
  BY <1>2, <1>4, <1>5, <1>5a, TypesOf DEF StoreTyped, Registered
<1>7. ActiveIsRegistered'
  BY <1>4, <1>6 DEF StoreInv, ActiveIsRegistered
<1>. QED BY <1>3, <1>4, <1>6, <1>7, LockedStep

-----------------------------------------------------------------------------
(* Deletion                                                                *)

\* The directory is set aside.
LEMMA AsideMoves ==
    ASSUME StoreInv, NEW p \in Procs, Quarantine(p)
    PROVE  /\ proc[p].pc = "move" /\ C(p) \in Cohorts /\ C(p) = proc[p].c /\ lock = p
           /\ UNCHANGED <<catalog, lost, stage, beat, lock>>
           /\ dir[C(p)] \in Dir /\ purged[C(p)] \in SUBSET Dir
           /\ dir' = [dir EXCEPT ![C(p)] = NoDir]
           /\ purged' = [purged EXCEPT ![C(p)] = purged[C(p)] \cup ({dir[C(p)]} \ {NoDir})]
           /\ proc' = [proc EXCEPT ![p].pc = "forget", ![p].moved = dir[C(p)],
                                   ![p].left = purged[C(p)]]
<1>1. /\ proc[p].pc = "move" /\ UNCHANGED <<catalog, lost, stage, beat, lock>>
      /\ dir' = [dir EXCEPT ![C(p)] = NoDir]
      /\ purged' = [purged EXCEPT ![C(p)] = purged[C(p)] \cup ({dir[C(p)]} \ {NoDir})]
      /\ proc' = [proc EXCEPT ![p].pc = "forget", ![p].moved = dir[C(p)],
                              ![p].left = purged[C(p)]]
  BY DEF Quarantine, At
<1>2. C(p) \in Cohorts /\ C(p) = proc[p].c /\ lock = p
  BY <1>1, CohortOf, LockOf DEF Tasks, Locked, Deleting
<1>3. dir[C(p)] \in Dir /\ purged[C(p)] \in SUBSET Dir
  BY <1>2, TypesOf DEF StoreTyped
<1>. QED BY <1>1, <1>2, <1>3

\* delete: the row, the directory that was set aside and the purge directories before
\* it are what the rest of the section works on.
LEMMA QuarantineKeeps ==
    ASSUME StoreInv, NEW p \in Procs, Quarantine(p)
    PROVE  StoreInv'
<1>1. /\ proc[p].pc = "move" /\ C(p) \in Cohorts /\ C(p) = proc[p].c /\ lock = p
      /\ UNCHANGED <<catalog, lost, stage, beat, lock>>
      /\ dir' = [dir EXCEPT ![C(p)] = NoDir]
  BY AsideMoves
<1>2. PICK moved \in Dir, left \in SUBSET Dir :
          /\ purged' = [purged EXCEPT ![C(p)] = left \cup ({moved} \ {NoDir})]
          /\ proc' = [proc EXCEPT ![p].pc = "forget", ![p].moved = moved, ![p].left = left]
  <2>1. PICK moved : moved = dir[C(p)]
    OBVIOUS
  <2>2. PICK left : left = purged[C(p)]
    OBVIOUS
  <2>3. /\ moved \in Dir /\ left \in SUBSET Dir
        /\ purged' = [purged EXCEPT ![C(p)] = left \cup ({moved} \ {NoDir})]
        /\ proc' = [proc EXCEPT ![p].pc = "forget", ![p].moved = moved, ![p].left = left]
    BY <2>1, <2>2, AsideMoves
  <2>. QED BY <2>3
<1>3. "forget" \in Labels
  BY DEF Labels
<1>4. /\ proc' \in [Procs -> ProcState] /\ proc'[p].pc = "forget"
      /\ proc'[p].cmd = proc[p].cmd /\ proc'[p].c = proc[p].c /\ proc'[p].data = proc[p].data
      /\ proc'[p].moved = moved /\ proc'[p].left = left
      /\ \A q \in Procs : q # p => proc'[q] = proc[q]
  <2>. DEFINE r == [proc[p] EXCEPT !.pc = "forget", !.moved = moved, !.left = left]
  <2>1. proc[p] \in ProcState /\ proc \in [Procs -> ProcState]
    BY TypesOf
  <2>2. r \in ProcState /\ r.pc = "forget" /\ r.cmd = proc[p].cmd /\ r.c = proc[p].c
        /\ r.data = proc[p].data /\ r.moved = moved /\ r.left = left
    BY <1>3, <2>1 DEF ProcState
  <2>3. proc' = [proc EXCEPT ![p] = r]
    BY <1>2, <2>1 DEF ProcState
  <2>. HIDE DEF r
  <2>. QED BY <2>1, <2>2, <2>3
<1>5. OthersSame(p)
  BY <1>1, <1>4, TypesOf DEF OthersSame
<1>5a. left \cup ({moved} \ {NoDir}) \in SUBSET Dir /\ NoDir \in Dir
  BY <1>2, NoDirShape
<1>6. StoreTyped' /\ ActiveIsRegistered' /\ UNCHANGED official
  BY <1>1, <1>2, <1>5a, TypesOf DEF StoreTyped, StoreInv, ActiveIsRegistered, Registered,
                                    catalog
<1>7. purged'[C(p)] = left \cup ({moved} \ {NoDir})
  BY <1>1, <1>2, TypesOf DEF StoreTyped
<1>8. Section(p)'
  BY <1>1, <1>4, <1>7, LockOf DEF InOrder, Section, Registered, catalog
<1>9. Role(p)'
  BY <1>1, <1>4, LockOf DEF InOrder, Role, Deleting, Tasks
<1>10. Holds(p)' /\ Owned(p)'
  BY <1>1, <1>4, LockOf DEF InOrder, Holds, Owned, Locked, Deleting
<1>. QED BY <1>1, <1>5, <1>6, <1>8, <1>9, <1>10, LockedStep DEF InOrder, Passes

\* The .detached marker.
LEMMA MarkKeeps ==
    ASSUME StoreInv, NEW p \in Procs, Mark(p)
    PROVE  StoreInv'
<1>1. /\ proc[p].pc = "move" /\ proc[p].cmd = "detach"
      /\ UNCHANGED <<catalog, purged, lost, stage, beat>>
  BY DEF Mark, At
<1>2. C(p) \in Cohorts /\ C(p) = proc[p].c /\ lock = p /\ "forget" \in Labels
  BY <1>1, CohortOf, LockOf DEF Tasks, Locked, Deleting, Labels
<1>3. CASE HasDataset(C(p))
  <2>1. PICK undo \in {None, "unmark"} : proc' = [proc EXCEPT ![p].pc = "forget", ![p].undo = undo]
    BY <1>3 DEF Mark
  <2>2. /\ dir' = [dir EXCEPT ![C(p)] = Marked(dir[C(p)])] /\ UNCHANGED lock
        /\ Marked(dir[C(p)]) \in Dir
    BY <1>2, <1>3, TypesOf, MarkedShape DEF Mark, StoreTyped
  <2>3. /\ proc' \in [Procs -> ProcState] /\ proc'[p].pc = "forget" /\ SameTask(p)
        /\ \A q \in Procs : q # p => proc'[q] = proc[q]
    BY <1>2, <2>1, UndoEffect
  <2>4. OthersSame(p)
    BY <1>1, <2>3, TypesOf DEF OthersSame
  <2>5. StoreTyped' /\ ActiveIsRegistered' /\ UNCHANGED official
    BY <1>1, <1>2, <2>2, TypesOf DEF StoreTyped, StoreInv, ActiveIsRegistered, Registered,
                                     catalog
  <2>6. Section(p)'
    BY <1>1, <2>3, LockOf DEF InOrder, SameTask, Section, Registered, Role, catalog
  <2>7. Role(p)'
    BY <1>1, <2>3, LockOf DEF InOrder, SameTask, Role, Deleting, Tasks
  <2>8. Holds(p)' /\ Owned(p)'
    BY <1>1, <1>2, <2>2, <2>3, LockOf DEF InOrder, Holds, Owned, Locked, Deleting
  <2>. QED BY <1>2, <2>2, <2>4, <2>5, <2>6, <2>7, <2>8, LockedStep DEF InOrder, Passes
<1>4. CASE ~HasDataset(C(p))
  <2>1. Raise(p) /\ UNCHANGED <<catalog, files, stage, beat>>
    BY <1>1, <1>4 DEF Mark, files
  <2>2. OthersSame(p) /\ InOrder(p)' /\ Passes(p)
    BY <1>1, <2>1, Raises DEF Staged
  <2>. QED BY <2>1, <2>2, QuietStep
<1>. QED BY <1>3, <1>4

\* The row goes; the active cohort is pinned, so it is not the one.
LEMMA ForgetKeeps ==
    ASSUME StoreInv, NEW p \in Procs, Forget(p)
    PROVE  StoreInv'
<1>1. /\ proc[p].pc = "forget" /\ UNCHANGED <<active, official, dir, purged, stage, beat>>
      /\ rows' = [rows EXCEPT ![C(p)] = None] /\ lost' = lost \ {C(p)}
      /\ (detached' = detached \/ detached' = detached \cup {C(p)})
  BY DEF Forget, At
<1>2. /\ C(p) \in Cohorts /\ C(p) = proc[p].c /\ lock = p /\ "purge" \in Labels
      /\ C(p) \notin official
  BY <1>1, CohortOf, LockOf DEF Tasks, Locked, Deleting, Labels, InOrder, Section, Registered
<1>3. StoreTyped' /\ ActiveIsRegistered'
  <2>1. StoreTyped'
    BY <1>1, <1>2, TypesOf DEF StoreTyped
  <2>2. active # None => active \in Registered /\ active \in official
    BY TypesOf DEF StoreInv, ActiveIsRegistered, StoreTyped
  <2>3. Registered' = Registered \ {C(p)}
    BY <1>1, <1>2, TypesOf DEF StoreTyped, Registered
  <2>. QED BY <1>1, <1>2, <2>1, <2>2, <2>3 DEF ActiveIsRegistered
<1>4. CASE Raise(p)
  <2>1. OthersSame(p) /\ InOrder(p)' /\ Passes(p)
    BY <1>1, <1>4, Raises DEF Staged
  <2>. QED BY <1>1, <1>2, <1>3, <2>1, LockedStep
<1>5. CASE Goto(p, "purge") /\ UNCHANGED lock
  <2>1. OthersSame(p) /\ proc'[p].pc = "purge" /\ SameTask(p)
    BY <1>1, <1>2, <1>5, Advance
  <2>2. Role(p)'
    BY <1>1, <1>5, <2>1, LockOf DEF InOrder, SameTask, Role, Deleting, Tasks
  <2>3. Holds(p)' /\ Owned(p)'
    BY <1>1, <1>2, <1>5, <2>1, LockOf DEF InOrder, Holds, Owned, Locked, Deleting
  <2>4. Section(p)'
    BY <1>1, <1>2, <2>1, TypesOf DEF Section, Registered, SameTask, StoreTyped
  <2>. QED BY <1>1, <1>2, <1>3, <1>5, <2>1, <2>2, <2>3, <2>4, LockedStep DEF InOrder, Passes
<1>. QED BY <1>4, <1>5 DEF Forget

\* The rollback: the directory is what it was, or what was set aside.
LEMMA RollbackEffect ==
    ASSUME StoreInv, NEW p \in Procs, ForgetFails(p)
    PROVE  /\ proc[p].pc = "forget" /\ Raise(p) /\ UNCHANGED <<catalog, lost, stage, beat>>
           /\ C(p) \in Cohorts /\ C(p) = proc[p].c
           /\ dir' = [dir EXCEPT ![C(p)] = RolledBack(p)] /\ RolledBack(p) \in Dir
           /\ \/ /\ RolledBack(p).data = dir[C(p)].data
                 /\ purged' = purged
              \/ /\ dir[C(p)] = NoDir /\ RolledBack(p) = proc[p].moved
                 /\ purged[C(p)] = proc[p].left \cup {proc[p].moved}
                 /\ purged' = [purged EXCEPT ![C(p)] = proc[p].left]
<1>1. /\ proc[p].pc = "forget" /\ Raise(p) /\ UNCHANGED <<catalog, lost, stage, beat>>
      /\ dir' = [dir EXCEPT ![C(p)] = RolledBack(p)]
  BY DEF ForgetFails, At
<1>2. C(p) \in Cohorts /\ C(p) = proc[p].c
  BY <1>1, CohortOf DEF Tasks
<1>3. dir[C(p)] \in Dir /\ proc[p].moved \in Dir
  BY <1>2, TypesOf DEF StoreTyped, ProcState
<1>4. CASE MovesBack(p)
  <2>1. /\ RolledBack(p) = proc[p].moved /\ proc[p].moved # NoDir /\ dir[C(p)] = NoDir
        /\ purged' = [purged EXCEPT ![C(p)] = proc[p].left]
    BY <1>3, <1>4, DirShape DEF ForgetFails, RolledBack, MovesBack
  <2>2. purged[C(p)] = proc[p].left \cup {proc[p].moved}
    BY <1>1, <1>2, <2>1, LockOf DEF InOrder, Section
  <2>. QED BY <1>1, <1>2, <1>3, <2>1, <2>2
<1>5. CASE ~MovesBack(p)
  <2>1. RolledBack(p) \in {Unmarked(dir[C(p)]), dir[C(p)]} /\ purged' = purged
    BY <1>5 DEF ForgetFails, RolledBack
  <2>2. RolledBack(p) \in Dir /\ RolledBack(p).data = dir[C(p)].data
    BY <1>3, <2>1, MarkedShape
  <2>. QED BY <1>1, <1>2, <2>1, <2>2
<1>. QED BY <1>4, <1>5

\* The rollback keeps the store in order.
LEMMA ForgetFailsKeeps ==
    ASSUME StoreInv, NEW p \in Procs, ForgetFails(p)
    PROVE  StoreInv'
<1>1. /\ proc[p].pc = "forget" /\ Raise(p) /\ UNCHANGED <<catalog, lost, stage, beat>>
      /\ C(p) \in Cohorts /\ dir' = [dir EXCEPT ![C(p)] = RolledBack(p)]
      /\ RolledBack(p) \in Dir
      /\ purged' = purged \/ purged' = [purged EXCEPT ![C(p)] = proc[p].left]
  BY RollbackEffect
<1>2. OthersSame(p) /\ InOrder(p)' /\ Passes(p) /\ lock = p
  BY <1>1, Raises DEF Staged
<1>3. StoreTyped' /\ ActiveIsRegistered' /\ UNCHANGED official
  BY <1>1, TypesOf DEF StoreTyped, StoreInv, ActiveIsRegistered, Registered, catalog, ProcState
<1>. QED BY <1>2, <1>3, LockedStep

\* rmtree of what was set aside.
LEMMA PurgeKeeps ==
    ASSUME StoreInv, NEW p \in Procs, Purge(p)
    PROVE  StoreInv'
<1>1. /\ proc[p].pc = "purge" /\ Raise(p) /\ UNCHANGED <<catalog, dir, lost, stage, beat>>
      /\ purged' = [purged EXCEPT ![C(p)] = proc[p].left]
  BY DEF Purge, At
<1>2. OthersSame(p) /\ InOrder(p)' /\ Passes(p) /\ lock = p
  BY <1>1, Raises DEF Staged
<1>3. StoreTyped' /\ ActiveIsRegistered' /\ UNCHANGED official
  BY <1>1, TypesOf DEF StoreTyped, StoreInv, ActiveIsRegistered, Registered, catalog, ProcState
<1>. QED BY <1>2, <1>3, LockedStep

-----------------------------------------------------------------------------
(* Maintenance                                                             *)

\* A task works through the directories; the command stays where it is.
LEMMA TaskStep ==
    ASSUME StoreInv, NEW p \in Procs, proc[p].pc \in Tasks,
           UNCHANGED <<catalog, stage, beat, lock, proc>>,
           dir' \in [Cohorts -> Dir],
           purged' \in [Cohorts -> SUBSET Dir], UNCHANGED lost
    PROVE  StoreInv'
<1>1. lock = p /\ OthersSame(p) /\ Passes(p)
  BY LockOf, TypesOf DEF Locked, OthersSame, Passes
<1>2. InOrder(p)'
  BY LockOf DEF InOrder, SameTask, Role, Holds, Owned, Section, Registered, Tasks
<1>3. StoreTyped' /\ ActiveIsRegistered' /\ UNCHANGED official
  BY TypesOf DEF StoreTyped, StoreInv, ActiveIsRegistered, Registered, catalog
<1>. QED BY <1>1, <1>2, <1>3, LockedStep

\* The tasks of maintain_cohort_store that change directories.
LEMMA TasksKeep ==
    ASSUME StoreInv, NEW p \in Procs, NEW c \in Cohorts,
           \/ \E d \in purged[c] : SettlePurge(p, c, d)
           \/ CleanOrphan(p, c) \/ RemoveDetached(p, c)
    PROVE  StoreInv'
<1>1. CASE CleanOrphan(p, c) \/ RemoveDetached(p, c)
  <2>1. /\ proc[p].pc \in Tasks /\ dir' = [dir EXCEPT ![c] = NoDir]
        /\ UNCHANGED <<catalog, purged, lost, stage, beat, lock, proc>>
    BY <1>1 DEF CleanOrphan, RemoveDetached, At, Tasks
  <2>2. dir' \in [Cohorts -> Dir]
        /\ purged' \in [Cohorts -> SUBSET Dir]
    BY <2>1, TypesOf, NoDirShape DEF StoreTyped
  <2>. QED BY <2>1, <2>2, TaskStep
<1>2. ASSUME NEW d \in purged[c], SettlePurge(p, c, d) PROVE StoreInv'
  <2>1. /\ proc[p].pc \in Tasks /\ purged' = [purged EXCEPT ![c] = purged[c] \ {d}]
        /\ dir' = [dir EXCEPT ![c] = d] \/ dir' = dir
        /\ UNCHANGED <<catalog, lost, stage, beat, lock, proc>>
    BY <1>2 DEF SettlePurge, At, Tasks
  <2>2. dir' \in [Cohorts -> Dir]
        /\ purged' \in [Cohorts -> SUBSET Dir]
    <3>1. purged[c] \in SUBSET Dir /\ d \in Dir
      BY TypesOf DEF StoreTyped
    <3>2. PICK e \in SUBSET Dir : e = purged[c] \ {d}
      BY <3>1
    <3>. QED BY <2>1, <3>1, <3>2, TypesOf DEF StoreTyped
  <2>. QED BY <2>1, <2>2, TaskStep
<1>. QED BY <1>1, <1>2

\* Rows without a dataset go, the active one excepted; records of datasets that are
\* gone go with them.
LEMMA RecordsKeep ==
    ASSUME StoreInv, NEW p \in Procs, CleanMissing(p) \/ DetachedDone(p)
    PROVE  StoreInv'
<1>1. /\ proc[p].pc \in Tasks /\ Raise(p)
      /\ UNCHANGED <<active, official, dir, purged, stage, beat>>
      /\ lost' \subseteq lost /\ detached' \subseteq detached
  BY DEF CleanMissing, DetachedDone, At, Tasks, files
<1>2. /\ rows' \in [Cohorts -> Contents \cup {None}]
      /\ active \in Registered => active \in Registered'
  BY TypesOf DEF CleanMissing, DetachedDone, Missing, Registered, StoreTyped
<1>3. OthersSame(p) /\ InOrder(p)' /\ Passes(p) /\ lock = p
  BY <1>1, Raises DEF Staged, Tasks
<1>4. StoreTyped' /\ ActiveIsRegistered'
  BY <1>1, <1>2, TypesOf DEF StoreTyped, StoreInv, ActiveIsRegistered
<1>. QED BY <1>1, <1>3, <1>4, LockedStep

-----------------------------------------------------------------------------
(* Kills, and what happens without the lock                                *)

\* A kill ends the command, its heartbeat and its hold of the flock.
LEMMA DieEffect ==
    ASSUME StoreInv, NEW p \in Procs, Die(p)
    PROVE  OthersSame(p) /\ InOrder(p)' /\ Passes(p)
<1>1. /\ proc' \in [Procs -> ProcState] /\ proc'[p].pc = "idle"
      /\ \A q \in Procs : q # p => proc'[q] = proc[q]
  BY FinishEffect DEF Die
<1>2. stage' = [stage EXCEPT ![p] = NoDir] /\ beat' = [beat EXCEPT ![p] = "off"]
      /\ lock' = IF lock = p THEN None ELSE lock
  BY DEF Die
<1>3. NoDir \in Dir
  BY NoDirShape
<1>4. OthersSame(p) /\ stage'[p] = NoDir /\ beat'[p] = "off" /\ lock' # p /\ Passes(p)
  BY <1>1, <1>2, <1>3, TypesOf DEF OthersSame, Passes
<1>. QED BY <1>1, <1>4, NoDirShape DEF InOrder, Role, Holds, Owned, Section, Locked, Writing,
                                       Deleting, Tasks

\* Killed between two steps, or inside rmtree.
LEMMA KillsKeep ==
    ASSUME StoreInv, NEW p \in Procs,
           \/ Crash(p) \/ TornPurge(p)
           \/ \E c \in Cohorts : TornDir(p, c) \/ \E d \in purged[c] : TornSettle(p, c, d)
    PROVE  StoreInv'
<1>1. OthersSame(p) /\ InOrder(p)' /\ Passes(p)
  BY DieEffect DEF Crash, TornPurge, TornDir, TornSettle
<1>2. CASE Crash(p)
  BY <1>1, <1>2, QuietStep DEF Crash
<1>3. ASSUME lock = p, UNCHANGED <<catalog, lost>>, dir' \in [Cohorts -> Dir],
             purged' \in [Cohorts -> SUBSET Dir]
      PROVE  StoreInv'
  <2>1. StoreTyped' /\ ActiveIsRegistered' /\ UNCHANGED official
    BY <1>3, TypesOf DEF StoreTyped, StoreInv, ActiveIsRegistered, Registered, catalog
  <2>. QED BY <1>1, <1>3, <2>1, LockedStep
<1>4. CASE TornPurge(p)
  <2>1. /\ proc[p].pc = "purge" /\ UNCHANGED <<catalog, dir, lost>>
        /\ \E d \in Remnants(proc[p].moved) :
              purged' = [purged EXCEPT ![C(p)] = proc[p].left \cup {d}]
    BY <1>4 DEF TornPurge, At
  <2>2. lock = p
    BY <2>1, LockOf DEF Locked, Deleting
  <2>3. proc[p].moved \in Dir /\ proc[p].left \in SUBSET Dir
    BY TypesOf DEF ProcState
  <2>4. dir' \in [Cohorts -> Dir] /\ purged' \in [Cohorts -> SUBSET Dir]
    <3>1. PICK e \in SUBSET Dir : purged' = [purged EXCEPT ![C(p)] = e]
      BY <2>1, <2>3, RemnantShape
    <3>. QED BY <2>1, <3>1, TypesOf DEF StoreTyped
  <2>. QED BY <1>3, <2>1, <2>2, <2>4
<1>5. ASSUME NEW c \in Cohorts, TornDir(p, c) PROVE StoreInv'
  <2>1. /\ proc[p].pc \in {"orphans", "detached", "register"} /\ UNCHANGED <<catalog, purged, lost>>
        /\ \E d \in Remnants(dir[c]) : dir' = [dir EXCEPT ![c] = d]
    BY <1>5 DEF TornDir, At
  <2>2. lock = p
    BY <2>1, LockOf DEF Locked, Tasks, Writing
  <2>3. dir' \in [Cohorts -> Dir] /\ purged' \in [Cohorts -> SUBSET Dir]
    <3>1. PICK e \in Dir : dir' = [dir EXCEPT ![c] = e]
      BY <2>1, RemnantShape, TypesOf DEF StoreTyped
    <3>. QED BY <2>1, <3>1, TypesOf DEF StoreTyped
  <2>. QED BY <1>3, <2>1, <2>2, <2>3
<1>6. ASSUME NEW c \in Cohorts, NEW d \in purged[c], TornSettle(p, c, d) PROVE StoreInv'
  <2>1. /\ proc[p].pc = "staging" /\ UNCHANGED <<catalog, dir, lost>>
        /\ \E e \in Remnants(d) : purged' = [purged EXCEPT ![c] = (purged[c] \ {d}) \cup {e}]
    BY <1>6 DEF TornSettle, At
  <2>2. lock = p
    BY <2>1, LockOf DEF Locked, Tasks
  <2>3. dir' \in [Cohorts -> Dir] /\ purged' \in [Cohorts -> SUBSET Dir]
    <3>1. purged[c] \in SUBSET Dir /\ d \in Dir
      BY TypesOf DEF StoreTyped
    <3>2. PICK e \in SUBSET Dir : purged' = [purged EXCEPT ![c] = e]
      BY <2>1, <3>1, RemnantShape
    <3>. QED BY <2>1, <3>2, TypesOf DEF StoreTyped
  <2>. QED BY <1>3, <2>1, <2>2, <2>3
<1>. QED BY <1>2, <1>4, <1>5, <1>6

\* The pointer is swapped, or somebody removes a dataset: no command changes.
LEMMA OutsideKeeps ==
    ASSUME StoreInv, NEW c \in Cohorts, SwapActive(c) \/ Lose(c)
    PROVE  StoreInv'
<1>1. UNCHANGED <<rows, detached, official, purged, stage, beat, lock, proc>>
  BY DEF SwapActive, Lose, catalog, files
<1>2. /\ active' = active \/ (active' = c /\ c \in Registered \cap official)
      /\ lost' = lost \/ lost' = lost \cup {c}
      /\ dir' = dir \/ (\E d \in {NoDir, With(dir[c], None)} : dir' = [dir EXCEPT ![c] = d])
  BY DEF SwapActive, Lose, catalog, files
<1>3. dir' \in [Cohorts -> Dir] /\ \A x \in Cohorts : ~dir[x].mark => ~dir'[x].mark
  <2>1. dir \in [Cohorts -> Dir] /\ dir[c] \in Dir
    BY DEF StoreInv, TypeOK
  <2>2. dir' = dir \/ \E d \in Dir : (~dir[c].mark => ~d.mark) /\ dir' = [dir EXCEPT ![c] = d]
    BY <1>2, <2>1, NoDirShape, WithShape
  <2>. QED BY <2>1, <2>2
<1>4. ASSUME NEW q \in Procs PROVE InOrder(q)'
  <2>1. InOrder(q)
    BY DEF StoreInv
  <2>2. Section(q)'
    <3>1. proc[q].pc = "register" => ~dir'[proc[q].c].mark
      BY <1>3, <2>1, CohortOf DEF InOrder, Section, Tasks
    <3>. QED BY <1>1, <2>1, <3>1 DEF InOrder, Section, Registered
  <2>. QED BY <1>1, <2>1, <2>2 DEF InOrder, Role, Holds, Owned
<1>5. ActiveIsRegistered'
  BY <1>1, <1>2 DEF StoreInv, ActiveIsRegistered, Registered
<1>6. TypeOK'
  BY <1>1, <1>2, <1>3 DEF StoreInv, TypeOK, At
<1>. QED BY <1>4, <1>5, <1>6 DEF StoreInv

\* The start: an empty store.
LEMMA InitInOrder == Init => StoreInv
<1>. SUFFICES ASSUME Init PROVE StoreInv
  OBVIOUS
<1>1. IdleProc \in ProcState /\ IdleProc.pc = "idle" /\ NoDir \in Dir
  BY NoDirShape DEF IdleProc, ProcState, Labels
<1>2. TypeOK
  BY <1>1 DEF Init, TypeOK
<1>3. \A q \in Procs : InOrder(q)
  BY <1>1, CohortAssumption, NoDirShape DEF Init, InOrder, SameTask, Role, Holds, Owned,
                                            Section, Registered, Locked, Writing,
                                Deleting, Tasks
<1>. QED BY <1>2, <1>3 DEF Init, StoreInv, ActiveIsRegistered

\* Every step keeps the store in order.
LEMMA NextKeeps == StoreInv /\ [Next]_vars => StoreInv'
<1>. SUFFICES ASSUME StoreInv, [Next]_vars PROVE StoreInv'
  OBVIOUS
<1>1. ASSUME NEW p \in Procs, Step(p) PROVE StoreInv'
  <2>1. CASE \/ Look(p) \/ Occupied(p) \/ Inspect(p) \/ Relock(p) \/ Recheck(p)
             \/ Mend(p) \/ Create(p) \/ Restage(p) \/ Fill(p) \/ EndLease(p)
             \/ LockPublish(p) \/ Publish(p) \/ Cleanup(p) \/ Confirm(p)
             \/ Register(p) \/ RegisterFails(p)
    BY <2>1, LooksKeep, TakesKeep, RecheckKeeps, MendKeeps, StageOpens, FillKeeps,
       EndLeaseKeeps, PublishKeeps, CleanupKeeps, EndsKeep, RegisterKeeps
  <2>2. CASE \/ Enter(p) \/ Check(p) \/ Quarantine(p) \/ Mark(p) \/ Forget(p)
             \/ ForgetFails(p) \/ Purge(p)
    BY <2>2, EnterKeeps, CheckKeeps, QuarantineKeeps, MarkKeeps, ForgetKeeps,
       ForgetFailsKeeps, PurgeKeeps
  <2>3. CASE \/ \E c \in Cohorts : \E d \in purged[c] : SettlePurge(p, c, d)
             \/ \E c \in Cohorts : CleanOrphan(p, c) \/ RemoveDetached(p, c)
    BY <2>3, TasksKeep
  <2>4. CASE \E q \in Procs : SweepStage(p, q)
    BY <2>4, LeasesKeep
  <2>5. CASE StagingDone(p) \/ CleanMissing(p) \/ OrphansDone(p) \/ DetachedDone(p)
    BY <2>5, EndsKeep, RecordsKeep
  <2>. QED BY <1>1, <2>1, <2>2, <2>3, <2>4, <2>5 DEF Step
<1>2. CASE UNCHANGED vars
  <2>1. TypeOK' /\ ActiveIsRegistered'
    BY <1>2 DEF StoreInv, TypeOK, ActiveIsRegistered, Registered, At, vars
  <2>2. ASSUME NEW q \in Procs PROVE InOrder(q)'
    BY <1>2 DEF StoreInv, InOrder, SameTask, Role, Holds, Owned, Section, Registered, vars
  <2>. QED BY <2>1, <2>2 DEF StoreInv
<1>. QED BY <1>1, <1>2, BeginKeeps, LeasesKeep, KillsKeep, OutsideKeeps DEF Next

-----------------------------------------------------------------------------
(* What follows                                                            *)

\* Types hold in every behaviour, and who holds the publication lock is running.
THEOREM TypeCorrect == Spec => []TypeOK
<1>1. StoreInv => TypeOK
  BY DEF StoreInv
<1>. QED BY <1>1, InitInOrder, NextKeeps, PTL DEF Spec

\* The active source pointer names a registered cohort: deletion refuses pinned
\* cohorts, under the lock that a maintenance task also needs, and --clean-missing
\* spares the active one.
THEOREM ActiveIsRegisteredHolds == Spec => []ActiveIsRegistered
<1>1. StoreInv => ActiveIsRegistered
  BY DEF StoreInv
<1>. QED BY <1>1, InitInOrder, NextKeeps, PTL DEF Spec

-----------------------------------------------------------------------------
(* What a step may do to a directory                                       *)

\* The steps that change no cohort's directory.
LEMMA DirSame ==
    ASSUME NEW p \in Procs,
           \/ Look(p) \/ Occupied(p) \/ Inspect(p) \/ Relock(p) \/ Recheck(p)
           \/ Create(p) \/ Restage(p) \/ Fill(p) \/ EndLease(p) \/ LockPublish(p)
           \/ Cleanup(p) \/ Confirm(p) \/ Register(p) \/ Enter(p) \/ Check(p)
           \/ Forget(p) \/ StagingDone(p) \/ CleanMissing(p)
           \/ OrphansDone(p) \/ DetachedDone(p)
           \/ HeartbeatDue(p) \/ HeartbeatWrites(p) \/ Crash(p)
           \/ \E cmd \in Kinds, c \in Cohorts \cup {None}, x \in Contents \cup {None} :
                 Begin(p, cmd, c, x)
           \/ \E q \in Procs : SweepStage(p, q)
    PROVE  UNCHANGED <<dir, purged>>
BY DEF Look, Occupied, Inspect, Relock, Recheck, Create, Restage, OpenStage, Fill, EndLease,
       LockPublish, Cleanup, Confirm, Register, Enter, Check, Forget, StagingDone, CleanMissing,
       OrphansDone, DetachedDone, HeartbeatDue, HeartbeatWrites, Crash, Begin,
       SweepStage, files

\* The steps that do.
LEMMA DirSteps ==
    ASSUME Next
    PROVE  \/ UNCHANGED <<dir, purged>>
           \/ \E p \in Procs :
                 \/ Mend(p) \/ Publish(p) \/ RegisterFails(p) \/ Quarantine(p) \/ Mark(p)
                 \/ ForgetFails(p) \/ Purge(p) \/ TornPurge(p)
                 \/ \E c \in Cohorts :
                       \/ \E d \in purged[c] : SettlePurge(p, c, d)
                       \/ CleanOrphan(p, c) \/ RemoveDetached(p, c)
                       \/ TornDir(p, c) \/ \E d \in purged[c] : TornSettle(p, c, d)
           \/ \E c \in Cohorts : Lose(c)
<1>1. ASSUME NEW c \in Cohorts, SwapActive(c) PROVE UNCHANGED <<dir, purged>>
  BY <1>1 DEF SwapActive, files
<1>2. ASSUME NEW p \in Procs, Step(p)
      PROVE  \/ UNCHANGED <<dir, purged>>
             \/ Mend(p) \/ Publish(p) \/ RegisterFails(p) \/ Quarantine(p) \/ Mark(p)
             \/ ForgetFails(p) \/ Purge(p)
             \/ \E c \in Cohorts :
                   \/ \E d \in purged[c] : SettlePurge(p, c, d)
                   \/ CleanOrphan(p, c) \/ RemoveDetached(p, c)
  BY <1>2, DirSame DEF Step
<1>. QED BY <1>1, <1>2, DirSame DEF Next

\* A directory with a marker and without a row changes only under the lock of
\* --clean-detached.
LEMMA MarkedChanges ==
    ASSUME StoreInv, Next, NEW c \in Cohorts, c \notin Registered, dir[c].mark, dir'[c] # dir[c]
    PROVE  lock # None /\ proc[lock].cmd = "detached"
<1>1. dir \in [Cohorts -> Dir] /\ dir[c].there
  BY DirShape, NoDirShape DEF StoreInv, TypeOK
<1>2. ASSUME NEW p \in Procs, proc[p].pc = "detached"
      PROVE  lock # None /\ proc[lock].cmd = "detached"
  BY <1>2, LockOf, TypesOf DEF InOrder, Role, Tasks, Locked
<1>3. ASSUME NEW p \in Procs, Mend(p) PROVE FALSE
  <2>1. proc[p].pc = "mend" /\ \E d : dir' = [dir EXCEPT ![C(p)] = d]
    BY <1>3 DEF Mend, At
  <2>2. C(p) \in Registered
    BY <2>1, CohortOf, LockOf DEF InOrder, Role, Section, Registered, Deleting, Tasks
  <2>. QED BY <1>1, <2>1, <2>2
<1>4. ASSUME NEW p \in Procs, Publish(p) PROVE FALSE
  <2>1. dir' = dir \/ (~dir[C(p)].there /\ \E d : dir' = [dir EXCEPT ![C(p)] = d])
    BY <1>4 DEF Publish, PublishRefused
  <2>. QED BY <1>1, <2>1
<1>5. ASSUME NEW p \in Procs, RegisterFails(p) PROVE FALSE
  <2>1. proc[p].pc = "register" /\ (dir' = dir \/ dir' = [dir EXCEPT ![C(p)] = NoDir])
    BY <1>5 DEF RegisterFails, At
  <2>2. ~dir[C(p)].mark
    BY <2>1, LockOf DEF InOrder, Section, C
  <2>. QED BY <1>1, <2>1, <2>2
<1>6. ASSUME NEW p \in Procs, Quarantine(p) \/ Mark(p) \/ ForgetFails(p) PROVE FALSE
  <2>1. /\ proc[p].pc \in {"move", "forget"}
        /\ dir' = dir \/ \E d : dir' = [dir EXCEPT ![C(p)] = d]
    BY <1>6 DEF Quarantine, Mark, ForgetFails, At
  <2>2. C(p) \in Registered
    BY <2>1, LockOf DEF InOrder, Section, C
  <2>. QED BY <1>1, <2>1, <2>2
<1>7. ASSUME NEW p \in Procs, Purge(p) \/ TornPurge(p) PROVE FALSE
  BY <1>7 DEF Purge, TornPurge
<1>8. ASSUME NEW p \in Procs, NEW x \in Cohorts, NEW d \in purged[x],
             SettlePurge(p, x, d) \/ TornSettle(p, x, d)
      PROVE  FALSE
  <2>1. dir' = dir \/ (~dir[x].there /\ dir' = [dir EXCEPT ![x] = d])
    BY <1>8 DEF SettlePurge, TornSettle, Restorable
  <2>. QED BY <1>1, <2>1
<1>9. ASSUME NEW p \in Procs, NEW x \in Cohorts, CleanOrphan(p, x) PROVE FALSE
  <2>1. ~dir[x].mark /\ dir' = [dir EXCEPT ![x] = NoDir]
    BY <1>9 DEF CleanOrphan, Orphan
  <2>. QED BY <1>1, <2>1
<1>10. ASSUME NEW p \in Procs, NEW x \in Cohorts, RemoveDetached(p, x)
       PROVE  proc[p].pc = "detached"
  BY <1>10 DEF RemoveDetached, At
<1>11. ASSUME NEW p \in Procs, NEW x \in Cohorts, TornDir(p, x)
       PROVE  proc[p].pc = "detached"
  <2>1. /\ \/ proc[p].pc = "orphans" /\ ~dir[x].mark
           \/ proc[p].pc = "detached"
           \/ proc[p].pc = "register" /\ x = proc[p].c
        /\ \E d : dir' = [dir EXCEPT ![x] = d]
    BY <1>11 DEF TornDir, Orphan, At, C
  <2>2. proc[p].pc = "register" => ~dir[proc[p].c].mark
    BY LockOf DEF InOrder, Section
  <2>. QED BY <1>1, <2>1, <2>2
<1>12. ASSUME NEW x \in Cohorts, Lose(x) PROVE FALSE
  <2>1. x \in Registered /\ \E d : dir' = [dir EXCEPT ![x] = d]
    BY <1>12 DEF Lose
  <2>. QED BY <1>1, <2>1
<1>. QED BY DirSteps, <1>2, <1>3, <1>4, <1>5, <1>6, <1>7, <1>8, <1>9, <1>10, <1>11, <1>12

\* A dataset kept by delete --keep-dataset is given up by --clean-detached only: what a
\* failed registration removes was published without a marker, deletion and repair work
\* on registered cohorts, and --clean-orphans passes over marked directories.
THEOREM DetachedKeptHolds == Spec => DetachedKept
<1>1. StoreInv /\ [Next]_vars =>
          [\A c \in Cohorts \ Registered :
              dir[c].mark /\ dir'[c] # dir[c]
                 => lock # None /\ proc[lock].cmd = "detached"]_vars
  BY MarkedChanges
<1>. QED BY <1>1, InitInOrder, NextKeeps, PTL DEF Spec, DetachedKept

-----------------------------------------------------------------------------
(* Registered datasets                                                     *)

\* The directories of a cohort decide where its dataset is.
LEMMA StillOnDisk ==
    ASSUME NEW c, rows'[c] = rows[c], OnDisk(c),
           \/ dir'[c].data = rows[c]
           \/ dir'[c].data = dir[c].data /\ purged'[c] = purged[c]
           \/ dir[c].data # rows[c] /\ purged'[c] = purged[c]
    PROVE  OnDisk(c)'
BY DEF OnDisk

\* A step changes the directory and the purge directories of one cohort.
LEMMA OneCohort ==
    ASSUME StoreInv, NEW c \in Cohorts, NEW x, x # c,
           dir' = dir \/ \E d : dir' = [dir EXCEPT ![x] = d],
           purged' = purged \/ \E e : purged' = [purged EXCEPT ![x] = e]
    PROVE  dir'[c] = dir[c] /\ purged'[c] = purged[c]
BY DEF StoreInv, TypeOK

\* What every step leaves of a registered cohort's dataset.
LEMMA DatasetKept ==
    ASSUME StoreInv, Next, NEW c \in Cohorts, c \in Registered, rows'[c] = rows[c],
           c \notin lost', OnDisk(c)
    PROVE  OnDisk(c)' \/ Overridden(c)
<1>1. /\ dir \in [Cohorts -> Dir] /\ purged \in [Cohorts -> SUBSET Dir]
      /\ dir[c] \in Dir /\ rows[c] # None
      /\ dir[c].data = rows[c] => dir[c].there /\ dir[c] # NoDir
  BY DirShape, NoDirShape DEF StoreInv, TypeOK, Registered
<1>2. ASSUME NEW x, x # c,
             dir' = dir \/ \E d : dir' = [dir EXCEPT ![x] = d],
             purged' = purged \/ \E e : purged' = [purged EXCEPT ![x] = e]
      PROVE  OnDisk(c)'
  BY <1>2, OneCohort, StillOnDisk
<1>3. CASE UNCHANGED <<dir, purged>>
  BY <1>3, StillOnDisk
<1>4. ASSUME NEW p \in Procs, Mend(p) PROVE OnDisk(c)'
  <2>1. /\ proc[p].pc = "mend" /\ purged' = purged
        /\ dir' = [dir EXCEPT ![C(p)] = With(dir[C(p)], proc[p].data)]
    BY <1>4 DEF Mend, At
  <2>2. CASE c = C(p)
    <3>1. rows[c] = proc[p].data
      BY <2>1, <2>2, LockOf DEF InOrder, Section, C
    <3>2. dir'[c].data = rows[c]
      BY <1>1, <2>1, <2>2, <3>1 DEF With
    <3>. QED BY <3>2, StillOnDisk
  <2>. QED BY <1>2, <2>1, <2>2
<1>5. ASSUME NEW p \in Procs, Publish(p) PROVE OnDisk(c)'
  <2>1. /\ purged' = purged
        /\ dir' = dir \/ (~dir[C(p)].there /\ \E d : dir' = [dir EXCEPT ![C(p)] = d])
    BY <1>5 DEF Publish, PublishRefused
  <2>2. CASE c = C(p) /\ dir' # dir
    BY <1>1, <2>1, <2>2, StillOnDisk
  <2>. QED BY <1>2, <1>3, <2>1, <2>2
<1>6. ASSUME NEW p \in Procs, RegisterFails(p) PROVE OnDisk(c)'
  <2>1. /\ purged' = purged
        /\ dir' = dir \/ (C(p) \notin Registered /\ dir' = [dir EXCEPT ![C(p)] = NoDir])
    BY <1>6 DEF RegisterFails, Withdrawn
  <2>. QED BY <1>2, <1>3, <2>1
<1>7. ASSUME NEW p \in Procs, Quarantine(p) PROVE OnDisk(c)'
  <2>1. /\ dir' = [dir EXCEPT ![C(p)] = NoDir]
        /\ purged' = [purged EXCEPT ![C(p)] = purged[C(p)] \cup ({dir[C(p)]} \ {NoDir})]
    BY <1>7, AsideMoves
  <2>2. CASE c = C(p)
    <3>1. purged'[c] = purged[c] \cup ({dir[c]} \ {NoDir})
      BY <1>1, <2>1, <2>2
    <3>2. PICK d \in purged[c] \cup {dir[c]} : d.data = rows[c]
      BY DEF OnDisk
    <3>3. d \in purged'[c]
      BY <1>1, <3>1, <3>2
    <3>. QED BY <3>2, <3>3 DEF OnDisk
  <2>. QED BY <1>2, <2>1, <2>2
<1>8. ASSUME NEW p \in Procs, Mark(p) PROVE OnDisk(c)'
  <2>1. purged' = purged /\ (dir' = dir \/ dir' = [dir EXCEPT ![C(p)] = Marked(dir[C(p)])])
    BY <1>8 DEF Mark
  <2>2. dir'[c].data = dir[c].data
    BY <1>1, <2>1, MarkedShape
  <2>. QED BY <2>1, <2>2, StillOnDisk
<1>9. ASSUME NEW p \in Procs, ForgetFails(p) PROVE OnDisk(c)'
  <2>1. /\ dir' = [dir EXCEPT ![C(p)] = RolledBack(p)]
        /\ \/ /\ RolledBack(p).data = dir[C(p)].data
              /\ purged' = purged
           \/ /\ dir[C(p)] = NoDir /\ RolledBack(p) = proc[p].moved
              /\ purged[C(p)] = proc[p].left \cup {proc[p].moved}
              /\ purged' = [purged EXCEPT ![C(p)] = proc[p].left]
    BY <1>9, RollbackEffect
  <2>2. CASE c = C(p) /\ purged' = purged /\ RolledBack(p).data = dir[c].data
    <3>1. dir'[c].data = dir[c].data
      BY <1>1, <2>1, <2>2
    <3>. QED BY <2>2, <3>1, StillOnDisk
  <2>3. CASE /\ c = C(p) /\ dir[c] = NoDir /\ RolledBack(p) = proc[p].moved
             /\ purged[c] = proc[p].left \cup {proc[p].moved}
             /\ purged' = [purged EXCEPT ![c] = proc[p].left]
    <3>1. dir'[c] = proc[p].moved /\ purged'[c] = proc[p].left
      BY <1>1, <2>1, <2>3
    <3>. QED BY <1>1, <2>3, <3>1 DEF OnDisk
  <2>4. CASE c # C(p)
    BY <1>2, <2>1, <2>4
  <2>. QED BY <2>1, <2>2, <2>3, <2>4
<1>10. ASSUME NEW p \in Procs, Purge(p) \/ TornPurge(p) PROVE OnDisk(c)'
  <2>1. /\ proc[p].pc = "purge" /\ dir' = dir
        /\ \E e : purged' = [purged EXCEPT ![C(p)] = e]
    BY <1>10 DEF Purge, TornPurge, At
  <2>2. C(p) # c
    BY <2>1, LockOf DEF InOrder, Section, C
  <2>. QED BY <1>2, <2>1, <2>2
<1>11. ASSUME NEW p \in Procs, NEW x \in Cohorts, NEW d \in purged[x],
              SettlePurge(p, x, d) \/ TornSettle(p, x, d)
       PROVE  OnDisk(c)' \/ Overridden(c)
  <2>1. /\ proc[p].pc = "staging"
        /\ \E e : purged' = [purged EXCEPT ![x] = e]
        /\ \/ dir' = dir /\ ~Restorable(x)
           \/ /\ dir' = [dir EXCEPT ![x] = d] /\ Restorable(x)
              /\ purged' = [purged EXCEPT ![x] = purged[x] \ {d}]
    BY <1>11 DEF SettlePurge, TornSettle, At
  <2>2. CASE x # c
    BY <1>2, <2>1, <2>2
  <2>3. CASE x = c /\ Restorable(c)
    <3>1. dir'[c] = d /\ purged'[c] = purged[c] \ {d} /\ dir[c].data # rows[c]
      BY <1>1, <2>1, <2>3 DEF Restorable
    <3>. QED BY <3>1 DEF OnDisk
  <2>4. CASE x = c /\ ~Restorable(c)
    <3>1. dir[c].there /\ dir' = dir
      BY <2>1, <2>4 DEF Restorable
    <3>2. CASE dir[c].data = rows[c]
      BY <3>1, <3>2, StillOnDisk
    <3>3. CASE dir[c].data # rows[c]
      <4>1. lock = p /\ lock # None /\ proc[p].cmd = "staging"
        BY <2>1, LockOf, TypesOf DEF InOrder, Role, Tasks, Locked
      <4>. QED BY <3>1, <3>3, <4>1 DEF Overridden
    <3>. QED BY <3>2, <3>3
  <2>. QED BY <2>2, <2>3, <2>4
<1>12. ASSUME NEW p \in Procs, NEW x \in Cohorts,
              CleanOrphan(p, x) \/ RemoveDetached(p, x) \/ TornDir(p, x)
       PROVE  OnDisk(c)'
  <2>1. x # c /\ purged' = purged /\ \E d : dir' = [dir EXCEPT ![x] = d]
    BY <1>12 DEF CleanOrphan, Orphan, RemoveDetached, Dropped, TornDir, Withdrawn
  <2>. QED BY <1>2, <2>1
<1>13. ASSUME NEW x \in Cohorts, Lose(x) PROVE OnDisk(c)'
  <2>1. x # c /\ purged' = purged /\ \E d : dir' = [dir EXCEPT ![x] = d]
    BY <1>13 DEF Lose
  <2>. QED BY <1>2, <2>1
<1>. QED BY DirSteps, <1>3, <1>4, <1>5, <1>6, <1>7, <1>8, <1>9, <1>10, <1>11, <1>12, <1>13

\* The steps that change no row, and those that do.
LEMMA RowSteps ==
    ASSUME Next
    PROVE  \/ rows' = rows
           \/ \E p \in Procs : Register(p) \/ Forget(p) \/ CleanMissing(p)
<1>1. ASSUME NEW p \in Procs, Step(p), ~Register(p), ~Forget(p), ~CleanMissing(p)
      PROVE  rows' = rows
  BY <1>1 DEF Step, Look, Occupied, Inspect, Relock, Recheck, Mend, Create, Restage, OpenStage,
         Fill, EndLease, LockPublish, Publish, Cleanup, Confirm, RegisterFails, Enter, Check,
         Quarantine, Mark, ForgetFails, Purge, SettlePurge, SweepStage, StagingDone,
         CleanOrphan, RemoveDetached, OrphansDone, DetachedDone, catalog
<1>2. ASSUME NEW p \in Procs,
             \/ \E cmd \in Kinds, c \in Cohorts \cup {None}, x \in Contents \cup {None} :
                   Begin(p, cmd, c, x)
             \/ HeartbeatDue(p) \/ HeartbeatWrites(p) \/ Crash(p) \/ TornPurge(p)
             \/ \E c \in Cohorts : TornDir(p, c) \/ \E d \in purged[c] : TornSettle(p, c, d)
      PROVE  rows' = rows
  BY <1>2 DEF Begin, HeartbeatDue, HeartbeatWrites, Crash, TornPurge, TornDir, TornSettle,
              catalog
<1>3. ASSUME NEW c \in Cohorts, SwapActive(c) \/ Lose(c) PROVE rows' = rows
  BY <1>3 DEF SwapActive, Lose, catalog
<1>. QED BY <1>1, <1>2, <1>3 DEF Next

\* A row keeps its digest while it is there, and is added with its dataset in place.
LEMMA RowsKept ==
    ASSUME StoreInv, Next, NEW c \in Cohorts, c \in Registered'
    PROVE  \/ c \in Registered /\ rows'[c] = rows[c]
           \/ c \notin Registered /\ OnDisk(c)'
<1>1. rows \in [Cohorts -> Contents \cup {None}] /\ rows'[c] # None
  BY DEF StoreInv, TypeOK, Registered
<1>2. CASE rows' = rows
  BY <1>1, <1>2 DEF Registered
<1>3. ASSUME NEW p \in Procs, Forget(p) \/ CleanMissing(p)
      PROVE  c \in Registered /\ rows'[c] = rows[c]
  <2>1. rows'[c] = rows[c] \/ rows'[c] = None
    BY <1>1, <1>3 DEF Forget, CleanMissing
  <2>. QED BY <1>1, <2>1 DEF Registered
<1>4. ASSUME NEW p \in Procs, Register(p)
      PROVE  \/ c \in Registered /\ rows'[c] = rows[c]
             \/ c \notin Registered /\ OnDisk(c)'
  <2>1. /\ rows' = [rows EXCEPT ![C(p)] = proc[p].data] /\ dir' = dir
        /\ dir[C(p)].data = proc[p].data /\ rows[C(p)] \in {None, proc[p].data}
    BY <1>4 DEF Register, Registrable, Verified, files
  <2>2. CASE c \in Registered
    BY <1>1, <2>1, <2>2 DEF Registered
  <2>3. CASE c \notin Registered
    <3>1. c = C(p) /\ rows'[c] = proc[p].data
      BY <1>1, <2>1, <2>3 DEF Registered
    <3>. QED BY <2>1, <2>3, <3>1 DEF OnDisk
  <2>. QED BY <2>2, <2>3
<1>. QED BY RowSteps, <1>2, <1>3, <1>4

\* A cohort is registered with its dataset, and the dataset that its row names stays in
\* its directory or in a purge directory while it is registered and nobody else damages
\* it, whatever other datasets deletion, rollback, ingestion, saves and maintenance move
\* about under the same id, and wherever they are killed; but for the one step of
\* --clean-stale-staging that finds another dataset in the directory.
THEOREM RegisteredKeepsDatasetHolds == Spec => RegisteredKeepsDataset
<1>1. StoreInv /\ [Next]_vars =>
          [\A c \in Registered' \ lost' :
              (c \in Registered => OnDisk(c)) => OnDisk(c)' \/ Overridden(c)]_vars
  <2>. SUFFICES ASSUME StoreInv, Next, NEW c \in Registered' \ lost',
                       c \in Registered => OnDisk(c)
                PROVE  OnDisk(c)' \/ Overridden(c)
    OBVIOUS
  <2>1. c \in Cohorts
    BY DEF Registered
  <2>. QED BY <2>1, RowsKept, DatasetKept
<1>. QED BY <1>1, InitInOrder, NextKeeps, PTL DEF Spec, RegisteredKeepsDataset

=============================================================================
