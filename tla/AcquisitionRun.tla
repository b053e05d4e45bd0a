---------------------------- MODULE AcquisitionRun ----------------------------
(***************************************************************************)
(* One resumable document-acquisition run: its SQLite run state (target    *)
(* and operation tables), the staging directory with the fetched bodies,   *)
(* the processing result manifests, and the commands that work on them:    *)
(* `run` (runner.execute_acquisition_run: a pool of fetching threads, one  *)
(* main thread that commits and processes) and `process`                   *)
(* (processing.run.execute_processing_run).                                *)
(*                                                                         *)
(* Each SQLite transaction and each file operation is a step. A command    *)
(* can raise or be interrupted anywhere (its finally clauses still run) or *)
(* be killed (nothing runs). The run lock is taken in one step, as module  *)
(* RunLock shows it may be.                                                *)
(***************************************************************************)
EXTENDS Naturals, FiniteSets

CONSTANTS
    Targets,      \* documents of the work order
    Ops,          \* operations requested of every target, "raw" among them
    Files,        \* names of staged bodies (uuid4)
    Commands,     \* invocations of the commands, each used once
    MaxInFlight,  \* targets handed to the thread pool at a time
    None,
    Overlap       \* TRUE: a command may be started while another one runs

VARIABLES
    target,    \* table target_state
    oper,      \* table operation_state, per target and operation
    result,    \* staging/processing/<target>.json, or None
    staged,    \* bodies in the staging directory
    lock,      \* owner of run.lock, or None
    cmd        \* state of each command

vars == <<target, oper, result, staged, lock, cmd>>

\* "absent" is not_filed, required_missing or ambiguous.
Outcomes == {"pending", "acquired", "failed", "absent", "skipped"}
Target == [outcome : Outcomes, retryable : BOOLEAN, body : Files \cup {None}]
Oper == [status : {"blocked", "pending", "succeeded", "failed"}, retryable : BOOLEAN]
Entries == {"available", "failed", "unsupported"}

\* What a fetch (acquire_target) reports back to the main thread.
Fetched ==
    [outcome : {"acquired"}, retryable : {FALSE}, body : Files]
    \cup [outcome : {"failed"}, retryable : BOOLEAN, body : {None}]
    \cup [outcome : {"absent"}, retryable : {FALSE}, body : {None}]

\* A fetch that has not reported yet.
Fetching == [outcome |-> "fetching", retryable |-> FALSE, body |-> None]

\* What an operation's execution reports: the manifest entry ("failed" stands for
\* blocked too), and whether the failure is retryable ("handler_failed:").
Executed == [entry : Entries, retryable : BOOLEAN]

ASSUME AcquisitionAssumption ==
    /\ "raw" \in Ops
    /\ None \notin Files \cup Commands \cup Targets
    /\ None \notin Fetched \cup {Fetching} \cup Executed
    /\ None \notin [Ops -> Entries]
    /\ MaxInFlight \in Nat \ {0}
    /\ Overlap \in BOOLEAN

\* What a command keeps while it runs.
CmdState ==
    [pc : {"init", "lock", "work", "leave", "cleanup", "sweep", "ended", "dead"},
     mode : {"run", "process"}, retry : BOOLEAN, todo : SUBSET Targets,
     flight : [Targets -> Fetched \cup {Fetching, None}],
     cur : Targets \cup {None}, plan : [Ops -> Executed \cup {None}], keep : SUBSET Files]

IdleCmd == [pc |-> "init", mode |-> "run", retry |-> FALSE, todo |-> {},
            flight |-> [t \in Targets |-> None], cur |-> None,
            plan |-> [o \in Ops |-> None], keep |-> {}]

\* initialize_run_state: targets the work order does not execute are skipped.
Init ==
    /\ target \in [Targets -> [outcome : {"pending", "skipped"}, retryable : {FALSE},
                               body : {None}]]
    /\ oper = [t \in Targets |-> [o \in Ops |-> [status |-> "blocked", retryable |-> FALSE]]]
    /\ result = [t \in Targets |-> None]
    /\ staged = {}
    /\ lock = None
    /\ cmd = [c \in Commands |-> IdleCmd]

-----------------------------------------------------------------------------
(* Eligibility                                                             *)

\* Mutant of EligibleTarget: a failure is fetched again whatever its cause, and
\* pending targets are left alone on a retry.
EligibleTargetRetryOnly(t, retry) ==
    IF retry THEN target[t].outcome = "failed" ELSE target[t].outcome = "pending"

EligibleTarget(t, retry) ==
    \/ target[t].outcome = "pending"
    \/ retry /\ target[t].outcome = "failed" /\ target[t].retryable

EligibleOps(t, retry) ==
    {o \in Ops : \/ oper[t][o].status = "pending"
                 \/ retry /\ oper[t][o].status = "failed" /\ oper[t][o].retryable}

\* Operations whose earlier result is to be reused by a partial retry.
Reused(t, retry) ==
    {o \in Ops : oper[t][o].status \in {"succeeded", "failed"}} \ EligibleOps(t, retry)

\* _prior_results and select_operation_execution: every reused operation needs a
\* manifest entry that is available or failed; raw must be available.
Covered(t, retry) ==
    \A o \in Reused(t, retry) :
        result[t][o] = "available" \/ (result[t][o] = "failed" /\ o # "raw")

-----------------------------------------------------------------------------
(* Start, lock, leave                                                      *)

Ended(c) == cmd[c].pc \in {"init", "ended", "dead"}

Start(c, mode, retry) ==
    /\ cmd[c].pc = "init"
    /\ Overlap \/ \A d \in Commands : Ended(d)
    /\ cmd' = [cmd EXCEPT ![c].pc = "lock", ![c].mode = mode, ![c].retry = retry]
    /\ UNCHANGED <<target, oper, result, staged, lock>>

\* RunLock, or the confirmed recovery of a dead command's lock (only `run`
\* takes --confirm-stale-lock).
TakeLock(c) ==
    /\ cmd[c].pc = "lock"
    /\ \/ lock = None
       \/ lock # None /\ cmd[lock].pc = "dead" /\ cmd[c].mode = "run"
    /\ lock' = c
    /\ cmd' = [cmd EXCEPT ![c].pc = "work", ![c].todo = Targets]
    /\ UNCHANGED <<target, oper, result, staged>>

\* Where a command goes when it has left the lock's scope: `run` enters the
\* finally clause that sweeps the staging directory.
AfterLock(c) == IF cmd[c].mode = "run" THEN "cleanup" ELSE "ended"

\* RunLockError: raised inside the same try, so the finally clause runs too.
LockRefused(c) ==
    /\ cmd[c].pc = "lock"
    /\ lock # None
    /\ cmd' = [cmd EXCEPT ![c].pc = AfterLock(c)]
    /\ UNCHANGED <<target, oper, result, staged, lock>>

\* Close of the run lock on the way out, after the last target or on an error.
Release(c) ==
    /\ cmd[c].pc = "leave"
    /\ lock' = IF lock = c THEN None ELSE lock
    /\ cmd' = [cmd EXCEPT ![c].pc = AfterLock(c)]
    /\ UNCHANGED <<target, oper, result, staged>>

\* Mutant of Referenced: the bodies of acquired targets are not kept.
ReferencedForgotten == {}

\* Mutant of Referenced: the NULL column of a target without a body is kept too.
ReferencedWithNull == {target[t].body : t \in Targets}

\* _cleanup_unreferenced_staging reads what the run state refers to (the attempts
\* of a target that is not acquired name no body here) ...
Referenced == {target[t].body : t \in Targets} \ {None}

CleanupRead(c) ==
    /\ cmd[c].pc = "cleanup"
    /\ cmd' = [cmd EXCEPT ![c].pc = "sweep", ![c].keep = Referenced]
    /\ UNCHANGED <<target, oper, result, staged, lock>>

\* ... and then removes every other file it finds.
CleanupSweep(c) ==
    /\ cmd[c].pc = "sweep"
    /\ staged' = staged \cap cmd[c].keep
    /\ cmd' = [cmd EXCEPT ![c].pc = "ended", ![c].keep = {}]
    /\ UNCHANGED <<target, oper, result, lock>>

\* An exception or KeyboardInterrupt in the main thread; what the pool still
\* fetches is no longer read.
Abort(c) ==
    /\ cmd[c].pc = "work"
    /\ cmd' = [cmd EXCEPT ![c].pc = "leave", ![c].cur = None,
                          ![c].plan = [o \in Ops |-> None]]
    /\ UNCHANGED <<target, oper, result, staged, lock>>

\* Killed.
Crash(c) ==
    /\ ~Ended(c)
    /\ cmd' = [cmd EXCEPT ![c] = [IdleCmd EXCEPT !.pc = "dead"]]
    /\ UNCHANGED <<target, oper, result, staged, lock>>

-----------------------------------------------------------------------------
(* The main loop of `run` and of `process`                                 *)

AtLoop(c) == cmd[c].pc = "work" /\ cmd[c].cur = None

InFlight(c) == {t \in Targets : cmd[c].flight[t] # None}

\* pool.submit of the next eligible target.
Submit(c, t) ==
    /\ AtLoop(c)
    /\ cmd[c].mode = "run"
    /\ t \in cmd[c].todo
    /\ Cardinality(InFlight(c)) < MaxInFlight
    /\ EligibleTarget(t, cmd[c].retry)
    /\ cmd' = [cmd EXCEPT ![c].todo = @ \ {t}, ![c].flight[t] = Fetching]
    /\ UNCHANGED <<target, oper, result, staged, lock>>

\* A target that is not fetched now is processed if it is acquired.
Visit(c, t) ==
    /\ AtLoop(c)
    /\ t \in cmd[c].todo
    /\ cmd[c].mode = "run" => ~EligibleTarget(t, cmd[c].retry)
                              /\ Cardinality(InFlight(c)) < MaxInFlight
    /\ cmd' = [cmd EXCEPT ![c].todo = @ \ {t},
                          ![c].cur = IF target[t].outcome = "acquired" THEN t ELSE None]
    /\ UNCHANGED <<target, oper, result, staged, lock>>

\* A name no file, row or pending result uses.
Fresh(f) ==
    /\ f \notin staged
    /\ \A t \in Targets : target[t].body # f
    /\ \A c \in Commands, t \in Targets :
          cmd[c].flight[t] \in Fetched => cmd[c].flight[t].body # f

\* A pool thread finishes a target: the body is a complete file in staging, or
\* the fetch failed. Threads outlive the loop (shutdown(wait=False)).
Fetch(c, t, r) ==
    /\ cmd[c].pc # "dead"
    /\ cmd[c].flight[t] = Fetching
    /\ r.body # None => Fresh(r.body)
    /\ staged' = staged \cup ({r.body} \ {None})
    /\ cmd' = [cmd EXCEPT ![c].flight[t] = r]
    /\ UNCHANGED <<target, oper, result, lock>>

\* Mutant of Readiness: operations are made ready whatever the outcome.
ReadinessAlways(t, outcome) ==
    [o \in Ops |-> IF oper[t][o].status \in {"blocked", "pending"}
                   THEN [status |-> "pending", retryable |-> FALSE] ELSE oper[t][o]]

\* refresh_operation_readiness, in the transaction of the target's update.
Readiness(t, outcome) ==
    [o \in Ops |-> IF oper[t][o].status \in {"blocked", "pending"}
                   THEN [status |-> IF outcome = "acquired" THEN "pending" ELSE "blocked",
                         retryable |-> FALSE]
                   ELSE oper[t][o]]

\* _drain_one: commit_attempts_and_update_target, then the processing of an
\* acquired target. A target that is no longer eligible makes it raise. A drain
\* takes every future that is done, so one may be committed below MaxInFlight.
CommitTarget(c, t) ==
    /\ AtLoop(c)
    /\ cmd[c].flight[t] \in Fetched
    /\ EligibleTarget(t, TRUE)
    /\ target' = [target EXCEPT ![t] = cmd[c].flight[t]]
    /\ oper' = [oper EXCEPT ![t] = Readiness(t, cmd[c].flight[t].outcome)]
    /\ cmd' = [cmd EXCEPT ![c].flight[t] = None,
                          ![c].cur = IF cmd[c].flight[t].outcome = "acquired" THEN t ELSE None]
    /\ UNCHANGED <<result, staged, lock>>

LoopDone(c) ==
    /\ AtLoop(c)
    /\ cmd[c].todo = {}
    /\ InFlight(c) = {}
    /\ cmd' = [cmd EXCEPT ![c].pc = "leave"]
    /\ UNCHANGED <<target, oper, result, staged, lock>>

-----------------------------------------------------------------------------
(* process_acquired_target. Every branch that raises is an Abort.          *)

Processing(c, t) ==
    /\ cmd[c].pc = "work"
    /\ cmd[c].cur = t
    /\ t # None
    /\ cmd[c].plan = [o \in Ops |-> None]
    /\ target[t].body \in staged

NothingEligible(c, t) ==
    /\ Processing(c, t)
    /\ EligibleOps(t, cmd[c].retry) = {}
    /\ result[t] = None => \A o \in Ops : oper[t][o].status # "succeeded"
    /\ cmd' = [cmd EXCEPT ![c].cur = None]
    /\ UNCHANGED <<target, oper, result, staged, lock>>

\* Neither ProcessingRunIntegrationError nor a coverage error.
CanExecute(t, retry) ==
    Reused(t, retry) # {} => result[t] # None /\ Covered(t, retry)

\* Mutant of Merged: the manifest of a partial retry forgets the earlier results.
MergedFresh(t, retry, x) ==
    [o \in Ops |-> IF o \in EligibleOps(t, retry) THEN x[o].entry ELSE "failed"]

\* The manifest of a partial retry carries the reused entries over.
Merged(t, retry, x) ==
    [o \in Ops |-> IF o \in EligibleOps(t, retry) THEN x[o].entry
                   ELSE IF result[t] # None THEN result[t][o] ELSE "failed"]

\* process_target succeeds and the manifest is written; the attempts that are
\* to be recorded next are in plan. raw is always available.
Execute(c, t, x) ==
    LET retry == cmd[c].retry IN
    /\ Processing(c, t)
    /\ EligibleOps(t, retry) # {}
    /\ CanExecute(t, retry)
    /\ x["raw"].entry = "available"
    /\ \A o \in Ops : x[o].retryable => x[o].entry = "failed"
    /\ result' = [result EXCEPT ![t] = Merged(t, retry, x)]
    /\ cmd' = [cmd EXCEPT ![c].plan = [o \in Ops |->
                  IF o \in EligibleOps(t, retry) THEN x[o] ELSE None]]
    /\ UNCHANGED <<target, oper, staged, lock>>

\* process_target raises: every eligible operation is to be recorded as failed
\* for good. Without a manifest for the reused ones the command aborts instead.
ExecuteRaises(c, t) ==
    LET retry == cmd[c].retry IN
    /\ Processing(c, t)
    /\ EligibleOps(t, retry) # {}
    /\ Reused(t, retry) # {} => result[t] # None
    /\ cmd' = [cmd EXCEPT ![c].plan = [o \in Ops |->
                  IF o \in EligibleOps(t, retry) THEN [entry |-> "failed", retryable |-> FALSE]
                  ELSE None]]
    /\ UNCHANGED <<target, oper, result, staged, lock>>

\* append_operation_attempt: one transaction per operation.
RecordAttempt(c, o) ==
    LET t == cmd[c].cur
        x == cmd[c].plan[o]
        last == \A q \in Ops \ {o} : cmd[c].plan[q] = None IN
    /\ cmd[c].pc = "work"
    /\ x # None
    /\ o \in EligibleOps(t, TRUE)
    /\ oper' = [oper EXCEPT ![t][o] =
                  [status |-> IF x.entry = "available" THEN "succeeded" ELSE "failed",
                   retryable |-> x.retryable]]
    /\ cmd' = [cmd EXCEPT ![c].plan[o] = None, ![c].cur = IF last THEN None ELSE t]
    /\ UNCHANGED <<target, result, staged, lock>>

-----------------------------------------------------------------------------

CommandStep(c) ==
    \/ \E mode \in {"run", "process"}, retry \in BOOLEAN : Start(c, mode, retry)
    \/ TakeLock(c) \/ LockRefused(c) \/ Release(c)
    \/ CleanupRead(c) \/ CleanupSweep(c)
    \/ Abort(c) \/ Crash(c) \/ LoopDone(c)
    \/ \E t \in Targets :
          \/ Submit(c, t) \/ Visit(c, t) \/ CommitTarget(c, t)
          \/ cmd[c].flight[t] = Fetching /\ \E r \in Fetched : Fetch(c, t, r)
          \/ NothingEligible(c, t) \/ ExecuteRaises(c, t)
          \/ Processing(c, t) /\ \E x \in [Ops -> Executed] : Execute(c, t, x)
    \/ \E o \in Ops : RecordAttempt(c, o)

Next == \E c \in Commands : CommandStep(c)

Spec == Init /\ [][Next]_vars

-----------------------------------------------------------------------------
(* Properties                                                              *)

\* Type invariant.
TypeOK ==
    /\ target \in [Targets -> Target]
    /\ oper \in [Targets -> [Ops -> Oper]]
    /\ result \in [Targets -> [Ops -> Entries] \cup {None}]
    /\ staged \subseteq Files
    /\ lock \in Commands \cup {None}
    /\ cmd \in [Commands -> CmdState]

\* "Acquired bodies remain under the shared transient root" (README.md): the
\* file that the run state names for an acquired target is on disk, whatever
\* fetches, aborts, kills and sweeps happened before.
BodiesRemain ==
    \A t \in Targets : target[t].outcome = "acquired" => target[t].body \in staged

\* An operation recorded as succeeded has its result in the manifest: the
\* manifest is written before the attempts, a retry keeps what it reuses, and no
\* crash between the two can show otherwise (_persist_processing_result,
\* "completed operations have no result manifest").
SucceededHasResult ==
    \A t \in Targets, o \in Ops :
        oper[t][o].status = "succeeded" => result[t] # None /\ result[t][o] = "available"

\* A `run` that gets through its loop leaves nothing to do: no target is pending
\* and no operation of an acquired target is (processing_complete).
LoopDoneMeansComplete ==
    [][\A c \in Commands :
          (/\ cmd[c].pc = "work" /\ cmd'[c].pc = "leave" /\ cmd[c].mode = "run"
           /\ cmd[c].todo = {} /\ cmd[c].cur = None /\ InFlight(c) = {})
          => \A t \in Targets :
                /\ target[t].outcome # "pending"
                /\ \A o \in Ops : oper[t][o].status # "pending"]_vars

\* Only acquired targets have operations to process, and a target that becomes
\* acquired has all of them (validate_operation_state).
ReadyOnlyWhenAcquired ==
    \A t \in Targets, o \in Ops :
        oper[t][o].status = "blocked" <=> target[t].outcome # "acquired"

\* "Each resumable run acquires eligible targets and then processes acquired
\* targets" (README.md), "operation retries preserve completed results"
\* (processing/README.md): whenever a command comes to process a target, what it
\* has to reuse is there.
RetryCanExecute ==
    \A c \in Commands, t \in Targets :
        (Processing(c, t) /\ EligibleOps(t, cmd[c].retry) # {})
            => CanExecute(t, cmd[c].retry)

=============================================================================
