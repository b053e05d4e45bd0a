------------------------------- MODULE RunLock -------------------------------
(***************************************************************************)
(* The run lock of the resumable pipelines: a file created with O_EXCL     *)
(* that names its owner, and the recovery of a lock whose owner died.      *)
(* Three variants of one class exist:                                      *)
(*   "acquisition"  document_acquisition/run_state/locks.py                *)
(*   "metadata"     metadata_sync/run_lock.py                              *)
(*   "inventory"    document_inventory/run_state/run_lock.py               *)
(* Every system call is one step. A process is used once: its name stands  *)
(* for its pid and for the token (uuid4) it writes into the file.          *)
(***************************************************************************)
EXTENDS Naturals, FiniteSets

CONSTANTS
    Procs,      \* processes that try to take the lock
    Hosts,      \* host names
    Variants,   \* the implementations considered
    Attested,   \* those whose operator confirms recovery to one process at a
                \* time and only of a holder that has stopped
    None        \* no file

ASSUME RunLockAssumption ==
    /\ None \notin Procs
    /\ Variants \subseteq {"acquisition", "metadata", "inventory"}
    /\ Attested \subseteq Variants

VARIABLES
    variant,    \* the implementation that runs; never changes
    host,       \* the host each process runs on; never changes
    lock,       \* process whose lock file exists, or None
    written,    \* the lock file's payload is complete
    recovery,   \* process whose .recovery file exists, or None
    pc,         \* where each process is
    confirmed,  \* the process was started with the operator's confirmation
    seen        \* owner the process read before it began recovery

vars == <<variant, host, lock, written, recovery, pc, confirmed, seen>>

Ended == {"refused", "done", "dead"}
Active(p) == pc[p] \notin Ended \cup {"init"}

\* os.kill(pid, 0) on the owner's host.
Alive(p) == pc[p] # "dead"

Init ==
    /\ variant \in Variants
    /\ host \in [Procs -> Hosts]
    /\ lock = None
    /\ written = FALSE
    /\ recovery = None
    /\ pc = [p \in Procs |-> "init"]
    /\ confirmed = [p \in Procs |-> FALSE]
    /\ seen = [p \in Procs |-> None]

Goto(p, label) == pc' = [pc EXCEPT ![p] = label]

-----------------------------------------------------------------------------
(* RunLock.__init__                                                        *)

\* What an operator who keeps the discipline has looked at before confirming.
MayConfirm ==
    /\ lock # None
    /\ ~Alive(lock)
    /\ \A q \in Procs : ~(Active(q) /\ confirmed[q])

\* The command is run, with or without --confirm-stale-lock.
Start(p, c) ==
    /\ pc[p] = "init"
    /\ (c /\ variant \in Attested) => MayConfirm
    /\ confirmed' = [confirmed EXCEPT ![p] = c]
    /\ Goto(p, "start")
    /\ UNCHANGED <<variant, host, lock, written, recovery, seen>>

\* os.open(path, O_CREAT | O_EXCL) succeeds: an empty file.
OpenExclusive(p) ==
    /\ lock = None
    /\ lock' = p
    /\ written' = FALSE

Create(p) ==
    /\ pc[p] = "start"
    /\ OpenExclusive(p)
    /\ Goto(p, "writing")
    /\ UNCHANGED <<variant, host, recovery, confirmed, seen>>

FileExists(p) ==
    /\ pc[p] = "start"
    /\ lock # None
    /\ Goto(p, "exists")
    /\ UNCHANGED <<variant, host, lock, written, recovery, confirmed, seen>>

\* The payload is written and synced; a recoverer still has its .recovery file.
WritePayload(p) ==
    /\ pc[p] \in {"writing", "rewriting"}
    /\ written' = TRUE
    /\ Goto(p, IF pc[p] = "writing" THEN "holding" ELSE "rewritten")
    /\ UNCHANGED <<variant, host, lock, recovery, confirmed, seen>>

\* The write raises and the command exits: the lock file stays behind, the
\* finally clause of a recovery still runs.
WriteFails(p) ==
    /\ pc[p] \in {"writing", "rewriting"}
    /\ recovery' = IF pc[p] = "rewriting" THEN None ELSE recovery
    /\ Goto(p, "dead")
    /\ UNCHANGED <<variant, host, lock, written, confirmed, seen>>

-----------------------------------------------------------------------------
(* _recover_existing                                                       *)

\* The lock file names an owner and its JSON is complete.
Readable == lock # None /\ written

\* Mutant of OwnerMayBeStale: the liveness test of the owner is left out.
OwnerAssumedStale(p) ==
    variant = "acquisition" => host[seen[p]] = host[p]

\* The tests on the owner that was read. Acquisition never recovers a remote
\* host's lock, metadata cannot test one, inventory tests nothing.
OwnerMayBeStale(p) ==
    CASE variant = "acquisition" -> host[seen[p]] = host[p] /\ ~Alive(seen[p])
      [] variant = "metadata"    -> ~(host[seen[p]] = host[p] /\ Alive(seen[p]))
      [] variant = "inventory"   -> TRUE

\* _acquire_after_release: metadata tries again when the file has gone.
Released(p) ==
    /\ pc[p] = "exists"
    /\ variant = "metadata"
    /\ lock = None
    /\ Goto(p, "retry")
    /\ UNCHANGED <<variant, host, lock, written, recovery, confirmed, seen>>

CreateAfterRelease(p) ==
    /\ pc[p] = "retry"
    /\ OpenExclusive(p)
    /\ Goto(p, "writing")
    /\ UNCHANGED <<variant, host, recovery, confirmed, seen>>

\* Mutant of ReadOwner: remembers the owner's host instead of its token.
ReadOwnerHost(p) ==
    /\ pc[p] = "exists"
    /\ variant # "inventory"
    /\ Readable
    /\ seen' = [seen EXCEPT ![p] = host[lock]]
    /\ Goto(p, "owner")
    /\ UNCHANGED <<variant, host, lock, written, recovery, confirmed>>

ReadOwner(p) ==
    /\ pc[p] = "exists"
    /\ variant # "inventory"
    /\ Readable
    /\ seen' = [seen EXCEPT ![p] = lock]
    /\ Goto(p, "owner")
    /\ UNCHANGED <<variant, host, lock, written, recovery, confirmed>>

\* About to test the owner; inventory does not read the file first.
Examining(p) == pc[p] = IF variant = "inventory" THEN "exists" ELSE "owner"

\* The owner passes for stale and the operator has confirmed. The pid that was
\* read is tested now, whatever the file has become since.
BeginRecovery(p) ==
    /\ Examining(p)
    /\ OwnerMayBeStale(p)
    /\ confirmed[p]
    /\ Goto(p, "recover")
    /\ UNCHANGED <<variant, host, lock, written, recovery, confirmed, seen>>

\* RunLockError on the way in: the file is unreadable, its owner is live or
\* remote, the confirmation is missing, or somebody else created the file.
Refuse(p) ==
    /\ \/ /\ pc[p] = "exists"
          /\ variant # "inventory"
          /\ ~Readable
          /\ ~(variant = "metadata" /\ lock = None)
       \/ Examining(p) /\ ~(OwnerMayBeStale(p) /\ confirmed[p])
       \/ pc[p] = "retry" /\ lock # None
    /\ Goto(p, "refused")
    /\ UNCHANGED <<variant, host, lock, written, recovery, confirmed, seen>>

\* The .recovery file, also O_EXCL, admits one recoverer.
TakeRecovery(p) ==
    /\ pc[p] = "recover"
    /\ recovery = None
    /\ recovery' = p
    /\ Goto(p, IF variant = "acquisition" THEN "reread" ELSE "unlink")
    /\ UNCHANGED <<variant, host, lock, written, confirmed, seen>>

\* Mutant of RecoveryActive: waits for the other recoverer instead of raising.
RecoveryActiveWaits(p) == FALSE

\* "stale-lock recovery is already active"
RecoveryActive(p) ==
    /\ pc[p] = "recover"
    /\ recovery # None
    /\ Goto(p, "refused")
    /\ UNCHANGED <<variant, host, lock, written, recovery, confirmed, seen>>

\* Mutant of Unchanged: acquisition does not compare the owner token again.
UnchangedUnchecked(p) == TRUE

\* The second read of the lock file names the owner of the first.
Unchanged(p) == Readable /\ lock = seen[p]

Reread(p) ==
    /\ pc[p] = "reread"
    /\ Unchanged(p)
    /\ Goto(p, "unlink")
    /\ UNCHANGED <<variant, host, lock, written, recovery, confirmed, seen>>

LockChanged(p) ==
    /\ pc[p] = "reread"
    /\ ~Unchanged(p)
    /\ recovery' = None
    /\ Goto(p, "refused")
    /\ UNCHANGED <<variant, host, lock, written, confirmed, seen>>

\* self.path.unlink: whatever file is there now.
Unlink(p) ==
    /\ pc[p] = "unlink"
    /\ lock' = None
    /\ written' = FALSE
    /\ Goto(p, "recreate")
    /\ UNCHANGED <<variant, host, recovery, confirmed, seen>>

Recreate(p) ==
    /\ pc[p] = "recreate"
    /\ OpenExclusive(p)
    /\ Goto(p, "rewriting")
    /\ UNCHANGED <<variant, host, recovery, confirmed, seen>>

\* "run lock was acquired concurrently"
AcquiredConcurrently(p) ==
    /\ pc[p] = "recreate"
    /\ lock # None
    /\ recovery' = None
    /\ Goto(p, "refused")
    /\ UNCHANGED <<variant, host, lock, written, confirmed, seen>>

\* finally: recovery_path.unlink
DropRecovery(p) ==
    /\ pc[p] = "rewritten"
    /\ recovery' = None
    /\ Goto(p, "holding")
    /\ UNCHANGED <<variant, host, lock, written, confirmed, seen>>

-----------------------------------------------------------------------------
(* RunLock.close, and the death of a process                               *)

CloseReads(p) ==
    /\ pc[p] = "holding"
    /\ Goto(p, IF Readable /\ lock = p THEN "closing" ELSE "done")
    /\ UNCHANGED <<variant, host, lock, written, recovery, confirmed, seen>>

CloseUnlinks(p) ==
    /\ pc[p] = "closing"
    /\ lock' = None
    /\ written' = FALSE
    /\ Goto(p, "done")
    /\ UNCHANGED <<variant, host, recovery, confirmed, seen>>

\* Killed, which leaves the files it created, or gone after it has finished.
Crash(p) ==
    /\ pc[p] \notin {"init", "dead"}
    /\ Goto(p, "dead")
    /\ UNCHANGED <<variant, host, lock, written, recovery, confirmed, seen>>

Step(p) ==
    \/ Create(p) \/ FileExists(p) \/ WritePayload(p)
    \/ Released(p) \/ CreateAfterRelease(p) \/ ReadOwner(p)
    \/ BeginRecovery(p) \/ Refuse(p)
    \/ TakeRecovery(p) \/ RecoveryActive(p) \/ Reread(p) \/ LockChanged(p)
    \/ Unlink(p) \/ Recreate(p) \/ AcquiredConcurrently(p) \/ DropRecovery(p)
    \/ CloseReads(p) \/ CloseUnlinks(p)

Next ==
    \E p \in Procs :
        \/ \E c \in BOOLEAN : Start(p, c)
        \/ Step(p)
        \/ WriteFails(p)
        \/ Crash(p)

Spec == Init /\ [][Next]_vars

\* A process that has been started keeps running unless it is killed.
FairSpec == Spec /\ \A p \in Procs : WF_vars(Step(p))

-----------------------------------------------------------------------------
(* Properties                                                              *)

Labels == {"init", "start", "exists", "owner", "retry", "recover", "reread", "unlink",
           "recreate", "writing", "rewriting", "rewritten", "holding",
           "closing"} \cup Ended

\* Type invariant.
TypeOK ==
    /\ variant \in Variants
    /\ host \in [Procs -> Hosts]
    /\ lock \in Procs \cup {None}
    /\ written \in BOOLEAN
    /\ recovery \in Procs \cup {None}
    /\ pc \in [Procs -> Labels]
    /\ confirmed \in [Procs -> BOOLEAN]
    /\ seen \in [Procs -> Procs \cup {None}]

\* Two processes never own the run at the same time, through crashes, takeovers
\* and concurrent recoveries ("Exclusive coordinator ownership for one metadata
\* sync run", run_lock.py).
MutualExclusion ==
    \A p, q \in Procs :
        (pc[p] \in {"holding", "closing"} /\ pc[q] \in {"holding", "closing"})
            => p = q

\* "A run lock is never taken from a live local owner" (metadata_sync/README.md):
\* a lock file that names a living process disappears only when that process
\* closes it, whoever recovers what at the time.
LiveOwnerKeepsLock ==
    [][\A p \in Procs :
          (lock = p /\ lock' # p) => (~Alive(p) \/ pc[p] = "closing")]_vars

\* An attempt never blocks on a file another process left behind: __init__ either
\* takes the lock or raises, in every state of the lock and recovery files.
EveryAttemptEnds ==
    \A p \in Procs : pc[p] = "start" ~> pc[p] \in Ended \cup {"holding"}

=============================================================================
