------------------------- MODULE AcquisitionRunProofs -------------------------
(***************************************************************************)
(* What an acquisition run keeps, for any number of targets, operations,   *)
(* files and commands. The run lock alone protects the tables and the      *)
(* manifests, also while commands overlap; the staged bodies are protected *)
(* only when commands do not, since the sweep runs outside the lock.       *)
(***************************************************************************)
EXTENDS AcquisitionRun, TLAPS

\* Between RunLock's enter and exit the lock file names this command: a second
\* one gets it from nobody, or from a command that is dead.
WorkerHoldsLock == \A c \in Commands : cmd[c].pc \in {"work", "leave"} => lock = c

\* Only the loop has a target in processing, and attempts still to be recorded
\* are attempts of that target.
PlanHasTarget ==
    \A c \in Commands :
        /\ cmd[c].pc # "work" => cmd[c].cur = None
        /\ cmd[c].cur = None => \A o \in Ops : cmd[c].plan[o] = None

\* The manifest was written before the attempts: what is to be recorded as a
\* success is available in it.
PlanHasResult ==
    \A c \in Commands : \A o \in Ops :
        cmd[c].plan[o] # None /\ cmd[c].plan[o].entry = "available"
            => result[cmd[c].cur] # None /\ result[cmd[c].cur][o] = "available"

\* What is pending of t is still to be visited, being fetched or being processed,
\* and once processing has executed, every operation still pending has its attempt
\* waiting.
InSight(c, t) ==
    t \notin cmd[c].todo /\ cmd[c].flight[t] = None =>
        /\ target[t].outcome # "pending"
        /\ \A o \in Ops : oper[t][o].status = "pending" =>
              /\ cmd[c].cur = t
              /\ (\E q \in Ops : cmd[c].plan[q] # None) => cmd[c].plan[o] # None

\* A `run` in its loop has lost sight of nothing.
NothingForgotten ==
    \A c \in Commands : cmd[c].pc = "work" /\ cmd[c].mode = "run" =>
        \A t \in Targets : InSight(c, t)

\* A pool exists only from the loop on.
NoEarlyFetch ==
    \A c \in Commands : cmd[c].pc \in {"init", "lock"} =>
        \A t \in Targets : cmd[c].flight[t] = None

TableInv ==
    /\ TypeOK
    /\ WorkerHoldsLock
    /\ PlanHasTarget
    /\ PlanHasResult
    /\ NothingForgotten
    /\ SucceededHasResult
    /\ ReadyOnlyWhenAcquired

\* Without overlap one command is active at a time.
OneActive ==
    \A c, d \in Commands : ~Ended(c) /\ ~Ended(d) => c = d

\* A body that a pool thread reported to the loop is on disk.
ReportedBodyStaged ==
    \A c \in Commands, t \in Targets :
        cmd[c].pc = "work" /\ cmd[c].flight[t] \in Fetched
            /\ cmd[c].flight[t].outcome = "acquired" => cmd[c].flight[t].body \in staged

\* What the sweep is about to keep is all that the run state names.
SweepKeepsReferenced ==
    \A c \in Commands : cmd[c].pc = "sweep" => Referenced \subseteq cmd[c].keep

BodyInv ==
    /\ OneActive
    /\ NoEarlyFetch
    /\ ReportedBodyStaged
    /\ SweepKeepsReferenced
    /\ BodiesRemain

-----------------------------------------------------------------------------
(* What each step does to the command records                              *)

\* A record of this place and mode, with these targets to visit, pool, target in
\* processing, attempts to record and files to keep.
IsState(r, pc, mode, todo, flight, cur, plan, keep) ==
    /\ r \in CmdState
    /\ r.pc = pc /\ r.mode = mode /\ r.todo = todo /\ r.flight = flight
    /\ r.cur = cur /\ r.plan = plan /\ r.keep = keep

\* The step gives c such a record and leaves every other command alone.
Becomes(c, pc, mode, todo, flight, cur, plan, keep) ==
    /\ cmd' \in [Commands -> CmdState]
    /\ \A d \in Commands : d # c => cmd'[d] = cmd[d]
    /\ IsState(cmd'[c], pc, mode, todo, flight, cur, plan, keep)

\* An assignment to c's record does that.
LEMMA Assigned ==
    ASSUME TypeOK, NEW c \in Commands, NEW r, cmd' = [cmd EXCEPT ![c] = r],
           NEW pc, NEW mode, NEW todo, NEW flight, NEW cur, NEW plan, NEW keep,
           IsState(r, pc, mode, todo, flight, cur, plan, keep)
    PROVE  Becomes(c, pc, mode, todo, flight, cur, plan, keep)
BY DEF TypeOK, IsState, Becomes

\* A command starts: it is about to take the lock.
LEMMA StartEffect ==
    ASSUME TypeOK, NEW c \in Commands, NEW mode \in {"run", "process"},
           NEW retry \in BOOLEAN, Start(c, mode, retry)
    PROVE  Becomes(c, "lock", mode, cmd[c].todo, cmd[c].flight, cmd[c].cur, cmd[c].plan,
                   cmd[c].keep)
<1>. DEFINE r == [cmd[c] EXCEPT !.pc = "lock", !.mode = mode, !.retry = retry]
<1>1. cmd[c] \in CmdState
  BY DEF TypeOK
<1>2. cmd' = [cmd EXCEPT ![c] = r]
  BY <1>1 DEF TypeOK, Start, CmdState
<1>3. IsState(r, "lock", mode, cmd[c].todo, cmd[c].flight, cmd[c].cur, cmd[c].plan,
              cmd[c].keep)
  BY <1>1 DEF CmdState, IsState
<1>. HIDE DEF r
<1>. QED BY <1>2, <1>3, Assigned

\* The lock is taken: every target is to be visited.
LEMMA TakeLockEffect ==
    ASSUME TypeOK, NEW c \in Commands, TakeLock(c)
    PROVE  Becomes(c, "work", cmd[c].mode, Targets, cmd[c].flight, cmd[c].cur,
                   cmd[c].plan, cmd[c].keep)
<1>. DEFINE r == [cmd[c] EXCEPT !.pc = "work", !.todo = Targets]
<1>1. cmd[c] \in CmdState
  BY DEF TypeOK
<1>2. cmd' = [cmd EXCEPT ![c] = r]
  BY <1>1 DEF TypeOK, TakeLock, CmdState
<1>3. IsState(r, "work", cmd[c].mode, Targets, cmd[c].flight, cmd[c].cur, cmd[c].plan,
              cmd[c].keep)
  BY <1>1 DEF CmdState, IsState
<1>. HIDE DEF r
<1>. QED BY <1>2, <1>3, Assigned

\* The lock is refused.
LEMMA LockRefusedEffect ==
    ASSUME TypeOK, NEW c \in Commands, LockRefused(c)
    PROVE  Becomes(c, AfterLock(c), cmd[c].mode, cmd[c].todo, cmd[c].flight, cmd[c].cur,
                   cmd[c].plan, cmd[c].keep)
<1>. DEFINE r == [cmd[c] EXCEPT !.pc = AfterLock(c)]
<1>1. cmd[c] \in CmdState
  BY DEF TypeOK
<1>2. cmd' = [cmd EXCEPT ![c] = r]
  BY <1>1 DEF TypeOK, LockRefused, CmdState
<1>3. IsState(r, AfterLock(c), cmd[c].mode, cmd[c].todo, cmd[c].flight, cmd[c].cur,
              cmd[c].plan, cmd[c].keep)
  BY <1>1 DEF CmdState, IsState, AfterLock
<1>. HIDE DEF r
<1>. QED BY <1>2, <1>3, Assigned

\* The lock is given back.
LEMMA ReleaseEffect ==
    ASSUME TypeOK, NEW c \in Commands, Release(c)
    PROVE  Becomes(c, AfterLock(c), cmd[c].mode, cmd[c].todo, cmd[c].flight, cmd[c].cur,
                   cmd[c].plan, cmd[c].keep)
<1>. DEFINE r == [cmd[c] EXCEPT !.pc = AfterLock(c)]
<1>1. cmd[c] \in CmdState
  BY DEF TypeOK
<1>2. cmd' = [cmd EXCEPT ![c] = r]
  BY <1>1 DEF TypeOK, Release, CmdState
<1>3. IsState(r, AfterLock(c), cmd[c].mode, cmd[c].todo, cmd[c].flight, cmd[c].cur,
              cmd[c].plan, cmd[c].keep)
  BY <1>1 DEF CmdState, IsState, AfterLock
<1>. HIDE DEF r
<1>. QED BY <1>2, <1>3, Assigned

\* The cleanup notes what the run state refers to.
LEMMA CleanupReadEffect ==
    ASSUME TypeOK, NEW c \in Commands, CleanupRead(c)
    PROVE  Becomes(c, "sweep", cmd[c].mode, cmd[c].todo, cmd[c].flight, cmd[c].cur,
                   cmd[c].plan, Referenced)
<1>. DEFINE r == [cmd[c] EXCEPT !.pc = "sweep", !.keep = Referenced]
<1>1. cmd[c] \in CmdState
  BY DEF TypeOK
<1>2. cmd' = [cmd EXCEPT ![c] = r]
  BY <1>1 DEF TypeOK, CleanupRead, CmdState
<1>4. Referenced \subseteq Files
  BY DEF TypeOK, Target, Referenced
<1>3. IsState(r, "sweep", cmd[c].mode, cmd[c].todo, cmd[c].flight, cmd[c].cur,
              cmd[c].plan, Referenced)
  BY <1>1, <1>4 DEF CmdState, IsState
<1>. HIDE DEF r
<1>. QED BY <1>2, <1>3, Assigned

\* The sweep ends the command.
LEMMA CleanupSweepEffect ==
    ASSUME TypeOK, NEW c \in Commands, CleanupSweep(c)
    PROVE  Becomes(c, "ended", cmd[c].mode, cmd[c].todo, cmd[c].flight, cmd[c].cur,
                   cmd[c].plan, {})
<1>. DEFINE r == [cmd[c] EXCEPT !.pc = "ended", !.keep = {}]
<1>1. cmd[c] \in CmdState
  BY DEF TypeOK
<1>2. cmd' = [cmd EXCEPT ![c] = r]
  BY <1>1 DEF TypeOK, CleanupSweep, CmdState
<1>3. IsState(r, "ended", cmd[c].mode, cmd[c].todo, cmd[c].flight, cmd[c].cur,
              cmd[c].plan, {})
  BY <1>1 DEF CmdState, IsState
<1>. HIDE DEF r
<1>. QED BY <1>2, <1>3, Assigned

\* An exception leaves the loop; the pool goes on.
LEMMA AbortEffect ==
    ASSUME TypeOK, NEW c \in Commands, Abort(c)
    PROVE  Becomes(c, "leave", cmd[c].mode, cmd[c].todo, cmd[c].flight, None,
                   [o \in Ops |-> None], cmd[c].keep)
<1>. DEFINE r == [cmd[c] EXCEPT !.pc = "leave", !.cur = None,
                                   !.plan = [o \in Ops |-> None]]
<1>1. cmd[c] \in CmdState
  BY DEF TypeOK
<1>2. cmd' = [cmd EXCEPT ![c] = r]
  BY <1>1 DEF TypeOK, Abort, CmdState
<1>3. IsState(r, "leave", cmd[c].mode, cmd[c].todo, cmd[c].flight, None,
              [o \in Ops |-> None], cmd[c].keep)
  BY <1>1 DEF CmdState, IsState
<1>. HIDE DEF r
<1>. QED BY <1>2, <1>3, Assigned

\* A killed command is gone with all it had in memory.
LEMMA CrashEffect ==
    ASSUME TypeOK, NEW c \in Commands, Crash(c)
    PROVE  Becomes(c, "dead", "run", {}, [t \in Targets |-> None], None,
                   [o \in Ops |-> None], {})
<1>. DEFINE r == [IdleCmd EXCEPT !.pc = "dead"]
<1>1. IsState(r, "dead", "run", {}, [t \in Targets |-> None], None, [o \in Ops |-> None], {})
  BY DEF IdleCmd, CmdState, IsState
<1>2. cmd' = [cmd EXCEPT ![c] = r]
  BY DEF Crash
<1>. HIDE DEF r
<1>. QED BY <1>1, <1>2, Assigned

\* The loop is through.
LEMMA LoopDoneEffect ==
    ASSUME TypeOK, NEW c \in Commands, LoopDone(c)
    PROVE  Becomes(c, "leave", cmd[c].mode, cmd[c].todo, cmd[c].flight, cmd[c].cur,
                   cmd[c].plan, cmd[c].keep)
<1>. DEFINE r == [cmd[c] EXCEPT !.pc = "leave"]
<1>1. cmd[c] \in CmdState
  BY DEF TypeOK
<1>2. cmd' = [cmd EXCEPT ![c] = r]
  BY <1>1 DEF TypeOK, LoopDone, CmdState
<1>3. IsState(r, "leave", cmd[c].mode, cmd[c].todo, cmd[c].flight, cmd[c].cur,
              cmd[c].plan, cmd[c].keep)
  BY <1>1 DEF CmdState, IsState
<1>. HIDE DEF r
<1>. QED BY <1>2, <1>3, Assigned

\* A target goes from the loop to the pool.
LEMMA SubmitEffect ==
    ASSUME TypeOK, NEW c \in Commands, NEW t \in Targets, Submit(c, t)
    PROVE  Becomes(c, cmd[c].pc, cmd[c].mode, cmd[c].todo \ {t},
                   [cmd[c].flight EXCEPT ![t] = Fetching], cmd[c].cur, cmd[c].plan,
                   cmd[c].keep)
<1>. DEFINE r == [cmd[c] EXCEPT !.todo = @ \ {t}, !.flight[t] = Fetching]
<1>1. cmd[c] \in CmdState
  BY DEF TypeOK
<1>2. cmd' = [cmd EXCEPT ![c] = r]
  BY <1>1 DEF TypeOK, Submit, CmdState
<1>3. IsState(r, cmd[c].pc, cmd[c].mode, cmd[c].todo \ {t},
              [cmd[c].flight EXCEPT ![t] = Fetching], cmd[c].cur, cmd[c].plan,
              cmd[c].keep)
  BY <1>1 DEF CmdState, IsState
<1>. HIDE DEF r
<1>. QED BY <1>2, <1>3, Assigned

\* A target is visited, and processed if it is acquired.
LEMMA VisitEffect ==
    ASSUME TypeOK, NEW c \in Commands, NEW t \in Targets, Visit(c, t)
    PROVE  Becomes(c, cmd[c].pc, cmd[c].mode, cmd[c].todo \ {t}, cmd[c].flight,
                   IF target[t].outcome = "acquired" THEN t ELSE None, cmd[c].plan,
                   cmd[c].keep)
<1>. DEFINE r == [cmd[c] EXCEPT !.todo = @ \ {t},
                    !.cur = IF target[t].outcome = "acquired" THEN t ELSE None]
<1>1. cmd[c] \in CmdState
  BY DEF TypeOK
<1>2. cmd' = [cmd EXCEPT ![c] = r]
  BY <1>1 DEF TypeOK, Visit, CmdState
<1>3. IsState(r, cmd[c].pc, cmd[c].mode, cmd[c].todo \ {t}, cmd[c].flight,
              IF target[t].outcome = "acquired" THEN t ELSE None, cmd[c].plan,
              cmd[c].keep)
  BY <1>1 DEF CmdState, IsState
<1>. HIDE DEF r
<1>. QED BY <1>2, <1>3, Assigned

\* A pool thread reports.
LEMMA FetchEffect ==
    ASSUME TypeOK, NEW c \in Commands, NEW t \in Targets, NEW f \in Fetched, Fetch(c, t, f)
    PROVE  Becomes(c, cmd[c].pc, cmd[c].mode, cmd[c].todo,
                   [cmd[c].flight EXCEPT ![t] = f], cmd[c].cur, cmd[c].plan, cmd[c].keep)
<1>. DEFINE r == [cmd[c] EXCEPT !.flight[t] = f]
<1>1. cmd[c] \in CmdState
  BY DEF TypeOK
<1>2. cmd' = [cmd EXCEPT ![c] = r]
  BY <1>1 DEF TypeOK, Fetch, CmdState
<1>3. IsState(r, cmd[c].pc, cmd[c].mode, cmd[c].todo, [cmd[c].flight EXCEPT ![t] = f],
              cmd[c].cur, cmd[c].plan, cmd[c].keep)
  BY <1>1 DEF CmdState, IsState
<1>. HIDE DEF r
<1>. QED BY <1>2, <1>3, Assigned

\* A report is committed, and its target processed if it is acquired.
LEMMA CommitEffect ==
    ASSUME TypeOK, NEW c \in Commands, NEW t \in Targets, CommitTarget(c, t)
    PROVE  Becomes(c, cmd[c].pc, cmd[c].mode, cmd[c].todo,
                   [cmd[c].flight EXCEPT ![t] = None],
                   IF cmd[c].flight[t].outcome = "acquired" THEN t ELSE None, cmd[c].plan,
                   cmd[c].keep)
<1>. DEFINE r == [cmd[c] EXCEPT !.flight[t] = None,
                    !.cur = IF cmd[c].flight[t].outcome = "acquired" THEN t ELSE None]
<1>1. cmd[c] \in CmdState
  BY DEF TypeOK
<1>2. cmd' = [cmd EXCEPT ![c] = r]
  BY <1>1 DEF TypeOK, CommitTarget, CmdState
<1>3. IsState(r, cmd[c].pc, cmd[c].mode, cmd[c].todo, [cmd[c].flight EXCEPT ![t] = None],
              IF cmd[c].flight[t].outcome = "acquired" THEN t ELSE None, cmd[c].plan,
              cmd[c].keep)
  BY <1>1 DEF CmdState, IsState
<1>. HIDE DEF r
<1>. QED BY <1>2, <1>3, Assigned

\* The target in processing has nothing to execute.
LEMMA NothingEligibleEffect ==
    ASSUME TypeOK, NEW c \in Commands, NEW t \in Targets, NothingEligible(c, t)
    PROVE  Becomes(c, cmd[c].pc, cmd[c].mode, cmd[c].todo, cmd[c].flight, None,
                   cmd[c].plan, cmd[c].keep)
<1>. DEFINE r == [cmd[c] EXCEPT !.cur = None]
<1>1. cmd[c] \in CmdState
  BY DEF TypeOK
<1>2. cmd' = [cmd EXCEPT ![c] = r]
  BY <1>1 DEF TypeOK, NothingEligible, CmdState
<1>3. IsState(r, cmd[c].pc, cmd[c].mode, cmd[c].todo, cmd[c].flight, None, cmd[c].plan,
              cmd[c].keep)
  BY <1>1 DEF CmdState, IsState
<1>. HIDE DEF r
<1>. QED BY <1>2, <1>3, Assigned

\* The attempts that follow an execution x: one per eligible operation.
Attempts(c, t, x) ==
    [o \in Ops |-> IF o \in EligibleOps(t, cmd[c].retry) THEN x[o] ELSE None]

\* process_target raised: each of them a failure for good.
AllFailed == [o \in Ops |-> [entry |-> "failed", retryable |-> FALSE]]

\* The operations have been executed; their attempts are to be recorded.
LEMMA ExecuteEffect ==
    ASSUME TypeOK, NEW c \in Commands, NEW t \in Targets, NEW x \in [Ops -> Executed],
           Execute(c, t, x)
    PROVE  Becomes(c, cmd[c].pc, cmd[c].mode, cmd[c].todo, cmd[c].flight, cmd[c].cur,
                   Attempts(c, t, x), cmd[c].keep)
<1>. DEFINE r == [cmd[c] EXCEPT !.plan = Attempts(c, t, x)]
<1>1. cmd[c] \in CmdState
  BY DEF TypeOK
<1>2. cmd' = [cmd EXCEPT ![c] = r]
  BY <1>1 DEF TypeOK, Execute, CmdState, Attempts
<1>3. IsState(r, cmd[c].pc, cmd[c].mode, cmd[c].todo, cmd[c].flight, cmd[c].cur,
              Attempts(c, t, x), cmd[c].keep)
  BY <1>1 DEF CmdState, IsState, Attempts
<1>. HIDE DEF r
<1>. QED BY <1>2, <1>3, Assigned

\* The execution raised; failures are to be recorded.
LEMMA RaisesEffect ==
    ASSUME TypeOK, NEW c \in Commands, NEW t \in Targets, ExecuteRaises(c, t)
    PROVE  Becomes(c, cmd[c].pc, cmd[c].mode, cmd[c].todo, cmd[c].flight, cmd[c].cur,
                   Attempts(c, t, AllFailed), cmd[c].keep)
<1>. DEFINE r == [cmd[c] EXCEPT !.plan = Attempts(c, t, AllFailed)]
<1>1. cmd[c] \in CmdState
  BY DEF TypeOK
<1>2. cmd' = [cmd EXCEPT ![c] = r]
  BY <1>1 DEF TypeOK, ExecuteRaises, CmdState, Attempts, AllFailed
<1>3. IsState(r, cmd[c].pc, cmd[c].mode, cmd[c].todo, cmd[c].flight, cmd[c].cur,
              Attempts(c, t, AllFailed), cmd[c].keep)
  BY <1>1 DEF CmdState, IsState, Attempts, AllFailed, Executed, Entries
<1>. HIDE DEF r
<1>. QED BY <1>2, <1>3, Assigned

\* An attempt is recorded; with the last one the target is done.
LEMMA RecordEffect ==
    ASSUME TypeOK, NEW c \in Commands, NEW o \in Ops, RecordAttempt(c, o)
    PROVE  Becomes(c, cmd[c].pc, cmd[c].mode, cmd[c].todo, cmd[c].flight,
                   IF \A q \in Ops \ {o} : cmd[c].plan[q] = None THEN None ELSE cmd[c].cur,
                   [cmd[c].plan EXCEPT ![o] = None], cmd[c].keep)
<1>. DEFINE r == [cmd[c] EXCEPT !.plan[o] = None,
                    !.cur = IF \A q \in Ops \ {o} : cmd[c].plan[q] = None THEN None ELSE @]
<1>1. cmd[c] \in CmdState
  BY DEF TypeOK
<1>2. cmd' = [cmd EXCEPT ![c] = r]
  BY <1>1 DEF TypeOK, RecordAttempt, CmdState
<1>3. IsState(r, cmd[c].pc, cmd[c].mode, cmd[c].todo, cmd[c].flight,
              IF \A q \in Ops \ {o} : cmd[c].plan[q] = None THEN None ELSE cmd[c].cur,
              [cmd[c].plan EXCEPT ![o] = None], cmd[c].keep)
  BY <1>1 DEF CmdState, IsState
<1>. HIDE DEF r
<1>. QED BY <1>2, <1>3, Assigned

-----------------------------------------------------------------------------
(* Tables and manifests                                                    *)

\* A step that leaves both tables and the manifests alone keeps what is said
\* about them.
LEMMA TablesKept ==
    ASSUME SucceededHasResult, ReadyOnlyWhenAcquired, UNCHANGED <<target, oper, result>>
    PROVE  SucceededHasResult' /\ ReadyOnlyWhenAcquired'
BY DEF SucceededHasResult, ReadyOnlyWhenAcquired

\* The same of what another command has in sight.
LEMMA OthersInSight ==
    ASSUME NEW d \in Commands, cmd'[d] = cmd[d], UNCHANGED <<target, oper>>, NEW t \in Targets,
           InSight(d, t)
    PROVE  InSight(d, t)'
BY DEF InSight

\* A new run satisfies the inductive invariant.
LEMMA InitTables == Init => TableInv
<1>. SUFFICES ASSUME Init PROVE TableInv
  OBVIOUS
<1>1. IdleCmd \in CmdState /\ IdleCmd.pc = "init" /\ IdleCmd.cur = None
      /\ IdleCmd.plan = [o \in Ops |-> None]
  BY DEF IdleCmd, CmdState
<1>2. \A c \in Commands : cmd[c] = IdleCmd
  BY DEF Init
<1>3. TypeOK
  BY <1>1 DEF Init, TypeOK, Target, Outcomes, Oper
<1>4. WorkerHoldsLock /\ PlanHasTarget /\ PlanHasResult /\ NothingForgotten
  BY <1>1, <1>2 DEF WorkerHoldsLock, PlanHasTarget, PlanHasResult, NothingForgotten
<1>5. SucceededHasResult /\ ReadyOnlyWhenAcquired
  BY DEF Init, SucceededHasResult, ReadyOnlyWhenAcquired
<1>. QED BY <1>3, <1>4, <1>5 DEF TableInv

\* A step into a place outside the loop that changes no table and no manifest, and
\* after which no attempt is left, keeps the invariant.
LEMMA OutsideLoop ==
    ASSUME TableInv, NEW c \in Commands,
           NEW pc, NEW mode, NEW todo, NEW flight, NEW cur, NEW plan, NEW keep,
           Becomes(c, pc, mode, todo, flight, cur, plan, keep),
           pc # "work", cur = None, plan = [o \in Ops |-> None],
           UNCHANGED <<target, oper, result>>, staged' \subseteq Files,
           lock' \in Commands \cup {None}, WorkerHoldsLock'
    PROVE  TableInv'
<1>1. TypeOK'
  BY DEF TableInv, TypeOK, Becomes
<1>2. PlanHasTarget'
  BY DEF TableInv, PlanHasTarget, Becomes, IsState
<1>3. PlanHasResult'
  BY DEF TableInv, PlanHasResult, Becomes, IsState
<1>4. NothingForgotten'
  BY DEF TableInv, NothingForgotten, InSight, Becomes, IsState
<1>. QED BY <1>1, <1>2, <1>3, <1>4, TablesKept DEF TableInv

\* Start, refusal, release, sweep, interruption, kill and the end of the loop.
LEMMA LeavingKeeps ==
    ASSUME TableInv, NEW c \in Commands,
           \/ \E mode \in {"run", "process"}, retry \in BOOLEAN : Start(c, mode, retry)
           \/ LockRefused(c) \/ Release(c) \/ CleanupRead(c) \/ CleanupSweep(c)
           \/ Abort(c) \/ Crash(c) \/ LoopDone(c)
    PROVE  TableInv'
<1>. TypeOK
  BY DEF TableInv
<1>. DEFINE none == [o \in Ops |-> None]
<1>1. cmd[c].pc # "work" \/ cmd[c].cur = None => cmd[c].cur = None /\ cmd[c].plan = none
  <2>1. cmd[c].plan \in [Ops -> Executed \cup {None}]
    BY DEF TypeOK, CmdState
  <2>. QED BY <2>1 DEF TableInv, PlanHasTarget
<1>. HIDE DEF none
<1>2. ASSUME NEW mode \in {"run", "process"}, NEW retry \in BOOLEAN, Start(c, mode, retry)
      PROVE  TableInv'
  <2>1. cmd[c].pc # "work" /\ UNCHANGED <<target, oper, result, staged, lock>>
    BY <1>2 DEF Start
  <2>2. Becomes(c, "lock", mode, cmd[c].todo, cmd[c].flight, None, none, cmd[c].keep)
    BY <1>1, <1>2, <2>1, StartEffect
  <2>3. WorkerHoldsLock'
    BY <2>1, <2>2 DEF TableInv, WorkerHoldsLock, Becomes, IsState
  <2>. QED BY <2>1, <2>2, <2>3, OutsideLoop DEF TypeOK, none
<1>3. CASE LockRefused(c)
  <2>1. cmd[c].pc # "work" /\ UNCHANGED <<target, oper, result, staged, lock>>
        /\ AfterLock(c) \in {"cleanup", "ended"}
    BY <1>3 DEF LockRefused, AfterLock
  <2>2. Becomes(c, AfterLock(c), cmd[c].mode, cmd[c].todo, cmd[c].flight, None, none,
                cmd[c].keep)
    BY <1>1, <1>3, <2>1, LockRefusedEffect
  <2>3. WorkerHoldsLock'
    BY <2>1, <2>2 DEF TableInv, WorkerHoldsLock, Becomes, IsState
  <2>. QED BY <2>1, <2>2, <2>3, OutsideLoop DEF TypeOK, none
<1>4. CASE Release(c)
  <2>1. cmd[c].pc = "leave" /\ UNCHANGED <<target, oper, result, staged>>
        /\ AfterLock(c) \in {"cleanup", "ended"} /\ lock' = IF lock = c THEN None ELSE lock
    BY <1>4 DEF Release, AfterLock
  <2>2. Becomes(c, AfterLock(c), cmd[c].mode, cmd[c].todo, cmd[c].flight, None, none,
                cmd[c].keep)
    BY <1>1, <1>4, <2>1, ReleaseEffect
  <2>3. WorkerHoldsLock'
    BY <2>1, <2>2 DEF TableInv, WorkerHoldsLock, Becomes, IsState
  <2>. QED BY <2>1, <2>2, <2>3, OutsideLoop DEF TypeOK, none
<1>5. CASE CleanupRead(c)
  <2>1. cmd[c].pc # "work" /\ UNCHANGED <<target, oper, result, staged, lock>>
    BY <1>5 DEF CleanupRead
  <2>2. Becomes(c, "sweep", cmd[c].mode, cmd[c].todo, cmd[c].flight, None, none, Referenced)
    BY <1>1, <1>5, <2>1, CleanupReadEffect
  <2>3. WorkerHoldsLock'
    BY <2>1, <2>2 DEF TableInv, WorkerHoldsLock, Becomes, IsState
  <2>. QED BY <2>1, <2>2, <2>3, OutsideLoop DEF TypeOK, none
<1>6. CASE CleanupSweep(c)
  <2>1. cmd[c].pc # "work" /\ UNCHANGED <<target, oper, result, lock>> /\ staged' \subseteq staged
    BY <1>6 DEF CleanupSweep
  <2>2. Becomes(c, "ended", cmd[c].mode, cmd[c].todo, cmd[c].flight, None, none, {})
    BY <1>1, <1>6, <2>1, CleanupSweepEffect
  <2>3. WorkerHoldsLock'
    BY <2>1, <2>2 DEF TableInv, WorkerHoldsLock, Becomes, IsState
  <2>. QED BY <2>1, <2>2, <2>3, OutsideLoop DEF TypeOK, none
<1>7. CASE Abort(c)
  <2>1. cmd[c].pc = "work" /\ UNCHANGED <<target, oper, result, staged, lock>>
    BY <1>7 DEF Abort
  <2>2. Becomes(c, "leave", cmd[c].mode, cmd[c].todo, cmd[c].flight, None, none, cmd[c].keep)
    BY <1>7, AbortEffect DEF none
  <2>3. WorkerHoldsLock'
    BY <2>1, <2>2 DEF TableInv, WorkerHoldsLock, Becomes, IsState
  <2>. QED BY <2>1, <2>2, <2>3, OutsideLoop DEF TypeOK, none
<1>8. CASE Crash(c)
  <2>1. UNCHANGED <<target, oper, result, staged, lock>>
    BY <1>8 DEF Crash
  <2>2. Becomes(c, "dead", "run", {}, [t \in Targets |-> None], None, none, {})
    BY <1>8, CrashEffect DEF none
  <2>3. WorkerHoldsLock'
    BY <2>1, <2>2 DEF TableInv, WorkerHoldsLock, Becomes, IsState
  <2>. QED BY <2>1, <2>2, <2>3, OutsideLoop DEF TypeOK, none
<1>9. CASE LoopDone(c)
  <2>1. cmd[c].pc = "work" /\ cmd[c].cur = None /\ UNCHANGED <<target, oper, result, staged, lock>>
    BY <1>9 DEF LoopDone, AtLoop
  <2>2. Becomes(c, "leave", cmd[c].mode, cmd[c].todo, cmd[c].flight, None, none, cmd[c].keep)
    BY <1>1, <1>9, <2>1, LoopDoneEffect
  <2>3. WorkerHoldsLock'
    BY <2>1, <2>2 DEF TableInv, WorkerHoldsLock, Becomes, IsState
  <2>. QED BY <2>1, <2>2, <2>3, OutsideLoop DEF TypeOK, none
<1>. QED BY <1>2, <1>3, <1>4, <1>5, <1>6, <1>7, <1>8, <1>9

\* A lock that is free, or that a dead command left, is held by nobody who works.
LEMMA TakeLockKeeps == ASSUME TableInv, NEW c \in Commands, TakeLock(c) PROVE TableInv'
<1>1. cmd[c].pc = "lock" /\ lock' = c /\ UNCHANGED <<target, oper, result, staged>>
      /\ (lock = None \/ (lock # None /\ cmd[lock].pc = "dead"))
  BY DEF TakeLock
<1>2. Becomes(c, "work", cmd[c].mode, Targets, cmd[c].flight, cmd[c].cur, cmd[c].plan,
              cmd[c].keep)
  BY TakeLockEffect DEF TableInv
<1>3. TypeOK'
  BY <1>1, <1>2 DEF TableInv, TypeOK, Becomes
<1>4. WorkerHoldsLock'
  BY <1>1, <1>2, AcquisitionAssumption DEF TableInv, WorkerHoldsLock, Becomes, IsState
<1>5. PlanHasTarget'
  BY <1>1, <1>2 DEF TableInv, PlanHasTarget, Becomes, IsState
<1>6. PlanHasResult'
  BY <1>1, <1>2 DEF TableInv, PlanHasResult, Becomes, IsState
<1>7. NothingForgotten'
  BY <1>1, <1>2 DEF TableInv, NothingForgotten, InSight, Becomes, IsState
<1>. QED BY <1>1, <1>3, <1>4, <1>5, <1>6, <1>7, TablesKept DEF TableInv

\* While one command is in its loop, no other is, and none has attempts to record.
LEMMA OthersIdle ==
    ASSUME TableInv, NEW c \in Commands, cmd[c].pc = "work",
           NEW d \in Commands, d # c
    PROVE  cmd[d].pc # "work" /\ \A o \in Ops : cmd[d].plan[o] = None
BY DEF TableInv, WorkerHoldsLock, PlanHasTarget

\* pool.submit: the target is remembered by the pool.
LEMMA SubmitKeeps ==
    ASSUME TableInv, NEW c \in Commands, NEW t \in Targets, Submit(c, t)
    PROVE  TableInv'
<1>1. cmd[c].pc = "work" /\ UNCHANGED <<target, oper, result, staged, lock>>
  BY DEF Submit, AtLoop
<1>2. Becomes(c, cmd[c].pc, cmd[c].mode, cmd[c].todo \ {t},
              [cmd[c].flight EXCEPT ![t] = Fetching], cmd[c].cur, cmd[c].plan, cmd[c].keep)
  BY SubmitEffect DEF TableInv
<1>3. TypeOK'
  BY <1>1, <1>2 DEF TableInv, TypeOK, Becomes
<1>4. WorkerHoldsLock' /\ PlanHasTarget' /\ PlanHasResult'
  BY <1>1, <1>2 DEF TableInv, WorkerHoldsLock, PlanHasTarget, PlanHasResult, Becomes, IsState
<1>5. NothingForgotten'
  <2>1. cmd[c].flight \in [Targets -> Fetched \cup {Fetching, None}] /\ Fetching # None
    BY AcquisitionAssumption DEF TableInv, TypeOK, CmdState
  <2>2. \A u \in Targets : cmd'[c].flight[u] = None => u # t /\ cmd[c].flight[u] = None
    BY <1>2, <2>1 DEF Becomes, IsState
  <2>3. \A u \in Targets : u \notin cmd'[c].todo /\ u # t => u \notin cmd[c].todo
    BY <1>2 DEF Becomes, IsState
  <2>4. \A u \in Targets : InSight(c, u) => InSight(c, u)'
    BY <1>1, <1>2, <2>2, <2>3 DEF InSight, Becomes, IsState
  <2>. QED BY <1>1, <1>2, <2>4, OthersInSight DEF TableInv, NothingForgotten, Becomes, IsState
<1>. QED BY <1>1, <1>3, <1>4, <1>5, TablesKept DEF TableInv

\* A visited target is not pending, and what it has pending is processed next.
LEMMA VisitKeeps ==
    ASSUME TableInv, NEW c \in Commands, NEW t \in Targets, Visit(c, t)
    PROVE  TableInv'
<1>1. cmd[c].pc = "work" /\ cmd[c].cur = None
      /\ UNCHANGED <<target, oper, result, staged, lock>>
      /\ (cmd[c].mode = "run" => target[t].outcome # "pending")
  BY DEF Visit, AtLoop, EligibleTarget
<1>. DEFINE cur == IF target[t].outcome = "acquired" THEN t ELSE None
<1>2. Becomes(c, cmd[c].pc, cmd[c].mode, cmd[c].todo \ {t}, cmd[c].flight, cur, cmd[c].plan,
              cmd[c].keep)
  BY VisitEffect DEF TableInv
<1>3. TypeOK'
  BY <1>1, <1>2 DEF TableInv, TypeOK, Becomes
<1>4. \A o \in Ops : cmd[c].plan[o] = None
  BY <1>1 DEF TableInv, PlanHasTarget
<1>5. WorkerHoldsLock' /\ PlanHasTarget' /\ PlanHasResult'
  BY <1>1, <1>2, <1>4
     DEF TableInv, WorkerHoldsLock, PlanHasTarget, PlanHasResult, Becomes, IsState
<1>6. \A o \in Ops : oper[t][o].status = "pending" => cur = t
  BY DEF TableInv, ReadyOnlyWhenAcquired
<1>. HIDE DEF cur
<1>7. NothingForgotten'
  <2>1. cmd[c].mode = "run" => InSight(c, t)'
    BY <1>1, <1>2, <1>4, <1>6 DEF InSight, Becomes, IsState
  <2>2. ASSUME NEW u \in Targets, u # t, InSight(c, u) PROVE InSight(c, u)'
    BY <1>1, <1>2, <1>4, <2>2, AcquisitionAssumption DEF InSight, Becomes, IsState
  <2>. QED BY <1>1, <1>2, <2>1, <2>2, OthersInSight
              DEF TableInv, NothingForgotten, Becomes, IsState
<1>. QED BY <1>1, <1>3, <1>5, <1>7, TablesKept DEF TableInv

\* A report of the pool, also of one that outlived its loop.
LEMMA FetchKeeps ==
    ASSUME TableInv, NEW c \in Commands, NEW t \in Targets, NEW f \in Fetched, Fetch(c, t, f)
    PROVE  TableInv'
<1>1. cmd[c].flight[t] = Fetching /\ UNCHANGED <<target, oper, result, lock>>
      /\ staged' = staged \cup ({f.body} \ {None})
  BY DEF Fetch
<1>2. Becomes(c, cmd[c].pc, cmd[c].mode, cmd[c].todo, [cmd[c].flight EXCEPT ![t] = f],
              cmd[c].cur, cmd[c].plan, cmd[c].keep)
  BY FetchEffect DEF TableInv
<1>3. TypeOK'
  <2>1. {f.body} \ {None} \subseteq Files
    BY DEF Fetched
  <2>. QED BY <1>1, <1>2, <2>1 DEF TableInv, TypeOK, Becomes
<1>4. WorkerHoldsLock' /\ PlanHasTarget' /\ PlanHasResult'
  BY <1>1, <1>2 DEF TableInv, WorkerHoldsLock, PlanHasTarget, PlanHasResult, Becomes, IsState
<1>5. NothingForgotten'
  <2>1. cmd[c].flight \in [Targets -> Fetched \cup {Fetching, None}] /\ f # None
    BY AcquisitionAssumption DEF TableInv, TypeOK, CmdState
  <2>2. \A u \in Targets : cmd'[c].flight[u] = None => cmd[c].flight[u] = None
    BY <1>2, <2>1 DEF Becomes, IsState
  <2>3. \A u \in Targets : InSight(c, u) => InSight(c, u)'
    BY <1>1, <1>2, <2>2 DEF InSight, Becomes, IsState
  <2>. QED BY <1>1, <1>2, <2>3, OthersInSight DEF TableInv, NothingForgotten, Becomes, IsState
<1>. QED BY <1>1, <1>3, <1>4, <1>5, TablesKept DEF TableInv

\* commit_attempts_and_update_target: the target was not acquired, so all of its
\* operations are blocked; if it is now, all are pending and are processed next.
LEMMA CommitKeeps ==
    ASSUME TableInv, NEW c \in Commands, NEW t \in Targets, CommitTarget(c, t)
    PROVE  TableInv'
<1>. DEFINE f == cmd[c].flight[t]
            cur == IF f.outcome = "acquired" THEN t ELSE None
            ready == Readiness(t, f.outcome)
<1>1. /\ cmd[c].pc = "work" /\ cmd[c].cur = None /\ f \in Fetched
      /\ target[t].outcome \in {"pending", "failed"}
      /\ target' = [target EXCEPT ![t] = f] /\ oper' = [oper EXCEPT ![t] = ready]
      /\ UNCHANGED <<result, staged, lock>>
  BY DEF CommitTarget, AtLoop, EligibleTarget
<1>2. Becomes(c, cmd[c].pc, cmd[c].mode, cmd[c].todo, [cmd[c].flight EXCEPT ![t] = None],
              cur, cmd[c].plan, cmd[c].keep)
  BY CommitEffect DEF TableInv
<1>3. f \in Target /\ f.outcome \in {"acquired", "failed", "absent"}
  BY <1>1 DEF Fetched, Target, Outcomes
<1>4. \A o \in Ops : oper[t][o].status = "blocked"
  BY <1>1 DEF TableInv, ReadyOnlyWhenAcquired
<1>5. /\ ready \in [Ops -> Oper]
      /\ \A o \in Ops : ready[o].status = IF f.outcome = "acquired" THEN "pending" ELSE "blocked"
  BY <1>4 DEF Readiness, Oper
<1>. HIDE DEF ready
<1>6. TypeOK'
  BY <1>1, <1>2, <1>3, <1>5 DEF TableInv, TypeOK, Becomes
<1>7. /\ target'[t] = f /\ oper'[t] = ready
      /\ \A u \in Targets : u # t => target'[u] = target[u] /\ oper'[u] = oper[u]
  BY <1>1 DEF TableInv, TypeOK
<1>8. SucceededHasResult'
  BY <1>1, <1>5, <1>7 DEF TableInv, SucceededHasResult
<1>9. ReadyOnlyWhenAcquired'
  BY <1>5, <1>7 DEF TableInv, ReadyOnlyWhenAcquired
<1>10. \A o \in Ops : cmd[c].plan[o] = None
  BY <1>1 DEF TableInv, PlanHasTarget
<1>11. WorkerHoldsLock' /\ PlanHasTarget' /\ PlanHasResult'
  BY <1>1, <1>2, <1>10
     DEF TableInv, WorkerHoldsLock, PlanHasTarget, PlanHasResult, Becomes, IsState
<1>12. NothingForgotten'
  <2>1. \A d \in Commands : d # c => cmd'[d].pc # "work"
    BY <1>1, <1>2, OthersIdle DEF Becomes
  <2>2. cmd[c].flight \in [Targets -> Fetched \cup {Fetching, None}]
    BY DEF TableInv, TypeOK, CmdState
  <2>3. \A u \in Targets : u # t => cmd'[c].flight[u] = cmd[c].flight[u]
    BY <1>2, <2>2 DEF Becomes, IsState
  <2>4. target'[t].outcome # "pending" /\ \A o \in Ops : oper'[t][o].status = "pending" => cur = t
    BY <1>3, <1>5, <1>7
  <2>5. InSight(c, t)'
    BY <1>2, <1>10, <2>4 DEF InSight, Becomes, IsState
  <2>6. ASSUME NEW u \in Targets, u # t, InSight(c, u) PROVE InSight(c, u)'
    BY <1>1, <1>2, <1>7, <1>10, <2>3, <2>6, AcquisitionAssumption
       DEF InSight, Becomes, IsState
  <2>. QED BY <1>1, <1>2, <2>1, <2>5, <2>6
              DEF TableInv, NothingForgotten, Becomes, IsState
<1>. QED BY <1>6, <1>8, <1>9, <1>11, <1>12 DEF TableInv

\* Processing of the target c is at, with no attempt waiting.
LEMMA AtProcessing ==
    ASSUME TableInv, NEW c \in Commands, NEW t \in Targets, Processing(c, t)
    PROVE  cmd[c].pc = "work" /\ cmd[c].cur = t /\ \A o \in Ops : cmd[c].plan[o] = None
BY DEF Processing

\* A target of which nothing is eligible has nothing pending.
LEMMA NothingEligibleKeeps ==
    ASSUME TableInv, NEW c \in Commands, NEW t \in Targets, NothingEligible(c, t)
    PROVE  TableInv'
<1>1. Processing(c, t) /\ UNCHANGED <<target, oper, result, staged, lock>>
      /\ EligibleOps(t, cmd[c].retry) = {}
  BY DEF NothingEligible
<1>2. cmd[c].pc = "work" /\ cmd[c].cur = t /\ \A o \in Ops : cmd[c].plan[o] = None
  BY <1>1, AtProcessing
<1>3. Becomes(c, cmd[c].pc, cmd[c].mode, cmd[c].todo, cmd[c].flight, None, cmd[c].plan,
              cmd[c].keep)
  BY NothingEligibleEffect DEF TableInv
<1>4. TypeOK'
  BY <1>1, <1>3 DEF TableInv, TypeOK, Becomes
<1>5. WorkerHoldsLock' /\ PlanHasTarget' /\ PlanHasResult'
  BY <1>1, <1>2, <1>3
     DEF TableInv, WorkerHoldsLock, PlanHasTarget, PlanHasResult, Becomes, IsState
<1>6. \A o \in Ops : oper[t][o].status # "pending"
  BY <1>1 DEF EligibleOps
<1>7. ASSUME NEW u \in Targets, InSight(c, u) PROVE InSight(c, u)'
  BY <1>1, <1>2, <1>3, <1>6, <1>7 DEF InSight, Becomes, IsState
<1>8. NothingForgotten'
  BY <1>1, <1>3, <1>7, OthersInSight DEF TableInv, NothingForgotten, Becomes, IsState
<1>. QED BY <1>1, <1>4, <1>5, <1>8, TablesKept DEF TableInv

\* After an execution x every pending operation has an attempt that is not None.
LEMMA AttemptsCover ==
    ASSUME TableInv, NEW c \in Commands, NEW t \in Targets, NEW x \in [Ops -> Executed],
           NEW o \in Ops
    PROVE  /\ oper[t][o].status = "pending" => Attempts(c, t, x)[o] # None
           /\ Attempts(c, t, x)[o] # None =>
                 Attempts(c, t, x)[o] = x[o] /\ o \in EligibleOps(t, cmd[c].retry)
BY AcquisitionAssumption DEF Attempts, EligibleOps

\* Putting attempts into the plan keeps what the loop has in sight.
LEMMA AttemptsInSight ==
    ASSUME TableInv, NEW c \in Commands, NEW t \in Targets, NEW x \in [Ops -> Executed],
           Processing(c, t), UNCHANGED <<target, oper>>,
           Becomes(c, cmd[c].pc, cmd[c].mode, cmd[c].todo, cmd[c].flight, cmd[c].cur,
                   Attempts(c, t, x), cmd[c].keep)
    PROVE  NothingForgotten'
<1>1. cmd[c].cur = t
  BY AtProcessing
<1>2. ASSUME NEW u \in Targets, InSight(c, u) PROVE InSight(c, u)'
  BY <1>1, <1>2, AttemptsCover DEF InSight, Becomes, IsState
<1>. QED BY <1>2, OthersInSight DEF TableInv, NothingForgotten, Becomes, IsState

\* _persist_processing_result: the manifest has what the attempts will say and
\* carries over what they do not touch, so no recorded success loses its result.
LEMMA ExecuteKeeps ==
    ASSUME TableInv, NEW c \in Commands, NEW t \in Targets, NEW x \in [Ops -> Executed],
           Execute(c, t, x)
    PROVE  TableInv'
<1>. DEFINE retry == cmd[c].retry
            m == Merged(t, retry, x)
<1>1. Processing(c, t) /\ UNCHANGED <<target, oper, staged, lock>>
      /\ result' = [result EXCEPT ![t] = m]
  BY DEF Execute
<1>2. cmd[c].pc = "work" /\ cmd[c].cur = t
  BY <1>1, AtProcessing
<1>3. Becomes(c, cmd[c].pc, cmd[c].mode, cmd[c].todo, cmd[c].flight, cmd[c].cur,
              Attempts(c, t, x), cmd[c].keep)
  BY ExecuteEffect DEF TableInv
<1>4. m \in [Ops -> Entries] /\ m # None
  <2>1. m \in [Ops -> Entries]
    BY DEF TableInv, TypeOK, Merged, Executed, Entries
  <2>. QED BY <2>1, AcquisitionAssumption
<1>5. \A o \in EligibleOps(t, retry) : m[o] = x[o].entry
  BY DEF Merged, EligibleOps
<1>6. \A o \in Ops : oper[t][o].status = "succeeded" => m[o] = "available"
  BY DEF TableInv, SucceededHasResult, Merged, EligibleOps
<1>. HIDE DEF m, retry
<1>7. TypeOK'
  BY <1>1, <1>3, <1>4 DEF TableInv, TypeOK, Becomes
<1>8. result'[t] = m /\ \A u \in Targets : u # t => result'[u] = result[u]
  BY <1>1 DEF TableInv, TypeOK
<1>9. SucceededHasResult' /\ ReadyOnlyWhenAcquired'
  BY <1>1, <1>4, <1>6, <1>8 DEF TableInv, SucceededHasResult, ReadyOnlyWhenAcquired
<1>10. WorkerHoldsLock' /\ PlanHasTarget'
  BY <1>1, <1>2, <1>3, AcquisitionAssumption
     DEF TableInv, WorkerHoldsLock, PlanHasTarget, Becomes, IsState
<1>11. PlanHasResult'
  <2>1. ASSUME NEW o \in Ops, cmd'[c].plan[o] # None, cmd'[c].plan[o].entry = "available"
        PROVE  result'[t][o] = "available"
    BY <1>3, <1>5, <1>8, <2>1, AttemptsCover DEF Becomes, IsState, retry
  <2>2. \A d \in Commands : d # c => \A o \in Ops : cmd'[d].plan[o] = None
    BY <1>2, <1>3, OthersIdle DEF Becomes
  <2>3. cmd'[c].cur = t
    BY <1>2, <1>3 DEF Becomes, IsState
  <2>. QED BY <1>4, <1>8, <2>1, <2>2, <2>3 DEF PlanHasResult
<1>12. NothingForgotten'
  BY <1>1, <1>3, AttemptsInSight
<1>. QED BY <1>7, <1>9, <1>10, <1>11, <1>12 DEF TableInv

\* process_target raised: failures are to be recorded, no success.
LEMMA RaisesKeeps ==
    ASSUME TableInv, NEW c \in Commands, NEW t \in Targets, ExecuteRaises(c, t)
    PROVE  TableInv'
<1>1. Processing(c, t) /\ UNCHANGED <<target, oper, result, staged, lock>>
  BY DEF ExecuteRaises
<1>2. cmd[c].pc = "work" /\ cmd[c].cur = t
  BY <1>1, AtProcessing
<1>3. Becomes(c, cmd[c].pc, cmd[c].mode, cmd[c].todo, cmd[c].flight, cmd[c].cur,
              Attempts(c, t, AllFailed), cmd[c].keep)
  BY RaisesEffect DEF TableInv
<1>4. AllFailed \in [Ops -> Executed] /\ \A o \in Ops : AllFailed[o].entry = "failed"
  BY DEF AllFailed, Executed, Entries
<1>5. TypeOK'
  BY <1>1, <1>3 DEF TableInv, TypeOK, Becomes
<1>6. WorkerHoldsLock' /\ PlanHasTarget'
  BY <1>1, <1>2, <1>3, AcquisitionAssumption
     DEF TableInv, WorkerHoldsLock, PlanHasTarget, Becomes, IsState
<1>7. PlanHasResult'
  <2>1. \A o \in Ops : cmd'[c].plan[o] # None => cmd'[c].plan[o].entry = "failed"
    BY <1>3, <1>4, AttemptsCover DEF Becomes, IsState
  <2>. QED BY <1>1, <1>3, <2>1 DEF TableInv, PlanHasResult, Becomes
<1>8. NothingForgotten'
  BY <1>1, <1>3, <1>4, AttemptsInSight
<1>. QED BY <1>1, <1>5, <1>6, <1>7, <1>8, TablesKept DEF TableInv

\* append_operation_attempt: a success it records is in the manifest, and with
\* the last attempt nothing of the target is pending.
LEMMA RecordKeeps ==
    ASSUME TableInv, NEW c \in Commands, NEW o \in Ops, RecordAttempt(c, o)
    PROVE  TableInv'
<1>. DEFINE t == cmd[c].cur
            x == cmd[c].plan[o]
            row == [status |-> IF x.entry = "available" THEN "succeeded" ELSE "failed",
                    retryable |-> x.retryable]
            last == \A q \in Ops \ {o} : cmd[c].plan[q] = None
<1>1. /\ cmd[c].pc = "work" /\ x # None /\ UNCHANGED <<target, result, staged, lock>>
      /\ oper[t][o].status \in {"pending", "failed"}
      /\ oper' = [oper EXCEPT ![t][o] = row]
  BY DEF RecordAttempt, EligibleOps
<1>2. t \in Targets
  BY <1>1 DEF TableInv, TypeOK, CmdState, PlanHasTarget
<1>3. Becomes(c, cmd[c].pc, cmd[c].mode, cmd[c].todo, cmd[c].flight,
              IF last THEN None ELSE t, [cmd[c].plan EXCEPT ![o] = None], cmd[c].keep)
  BY RecordEffect DEF TableInv
<1>4. /\ row \in Oper /\ row.status \in {"succeeded", "failed"}
      /\ row.status = "succeeded" => result[t] # None /\ result[t][o] = "available"
  <2>1. x \in Executed
    BY <1>1 DEF TableInv, TypeOK, CmdState
  <2>2. row \in Oper /\ row.status \in {"succeeded", "failed"}
    BY <2>1 DEF Executed, Oper
  <2>. QED BY <1>1, <2>2 DEF TableInv, PlanHasResult
<1>. HIDE DEF row
<1>5. /\ oper' \in [Targets -> [Ops -> Oper]]
      /\ oper'[t][o] = row
      /\ \A u \in Targets, q \in Ops : u # t \/ q # o => oper'[u][q] = oper[u][q]
  BY <1>1, <1>2, <1>4 DEF TableInv, TypeOK
<1>6. TypeOK'
  BY <1>1, <1>3, <1>5 DEF TableInv, TypeOK, Becomes
<1>7. SucceededHasResult'
  BY <1>1, <1>4, <1>5 DEF TableInv, SucceededHasResult
<1>8. ReadyOnlyWhenAcquired'
  BY <1>1, <1>2, <1>4, <1>5 DEF TableInv, ReadyOnlyWhenAcquired
<1>9. /\ cmd'[c].plan[o] = None
      /\ \A q \in Ops : q # o => cmd'[c].plan[q] = cmd[c].plan[q]
  <2>1. cmd[c].plan \in [Ops -> Executed \cup {None}]
    BY DEF TableInv, TypeOK, CmdState
  <2>. QED BY <1>3, <2>1 DEF Becomes, IsState
<1>10. cmd'[c].cur = IF last THEN None ELSE t
  BY <1>3 DEF Becomes, IsState
<1>11. WorkerHoldsLock'
  BY <1>1, <1>3 DEF TableInv, WorkerHoldsLock, Becomes, IsState
<1>12. PlanHasTarget'
  <2>1. cmd'[c].cur = None => \A q \in Ops : cmd'[c].plan[q] = None
    <3>1. t # None
      BY <1>2, AcquisitionAssumption
    <3>. QED BY <1>9, <1>10, <3>1
  <2>2. cmd'[c].pc = "work" /\ \A d \in Commands : d # c => cmd'[d] = cmd[d]
    BY <1>1, <1>3 DEF Becomes, IsState
  <2>. QED BY <2>1, <2>2 DEF TableInv, PlanHasTarget
<1>13. PlanHasResult'
  BY <1>1, <1>3, <1>9, <1>10 DEF TableInv, PlanHasResult, Becomes
<1>14. NothingForgotten'
  <2>1. \A d \in Commands : d # c => cmd'[d].pc # "work"
    BY <1>1, <1>3, OthersIdle DEF Becomes
  <2>2. ASSUME NEW u \in Targets, InSight(c, u) PROVE InSight(c, u)'
    BY <1>1, <1>2, <1>3, <1>4, <1>5, <1>9, <1>10, <2>2 DEF InSight, Becomes, IsState
  <2>. QED BY <1>1, <1>3, <2>1, <2>2 DEF TableInv, NothingForgotten, Becomes, IsState
<1>. QED BY <1>6, <1>7, <1>8, <1>11, <1>12, <1>13, <1>14 DEF TableInv

\* Every step of every command keeps the invariant.
LEMMA NextKeepsTables == TableInv /\ [Next]_vars => TableInv'
<1>. SUFFICES ASSUME TableInv, [Next]_vars PROVE TableInv'
  OBVIOUS
<1>1. ASSUME NEW c \in Commands, CommandStep(c) PROVE TableInv'
  BY <1>1, LeavingKeeps, TakeLockKeeps, SubmitKeeps, VisitKeeps, FetchKeeps, CommitKeeps,
     NothingEligibleKeeps, ExecuteKeeps, RaisesKeeps, RecordKeeps DEF CommandStep
<1>2. CASE UNCHANGED vars
  <2>1. UNCHANGED cmd /\ \A c \in Commands, t \in Targets : InSight(c, t) => InSight(c, t)'
    BY <1>2 DEF vars, InSight
  <2>. QED BY <1>2, <2>1 DEF vars, TableInv, TypeOK, WorkerHoldsLock, PlanHasTarget,
              PlanHasResult, NothingForgotten, SucceededHasResult, ReadyOnlyWhenAcquired
<1>. QED BY <1>1, <1>2 DEF Next

\* The tables' invariant holds of every run, whether or not commands overlap.
LEMMA TablesHold == Spec => []TableInv
BY InitTables, NextKeepsTables, PTL DEF Spec

\* Every row, manifest and command record has its type in every run, however
\* many commands there are and whether or not they overlap.
THEOREM TypeCorrect == Spec => []TypeOK
<1>1. TableInv => TypeOK
  BY DEF TableInv
<1>. QED BY <1>1, TablesHold, PTL

\* A recorded success has its result in the manifest, whatever was aborted,
\* killed, retried or refused the lock in between.
THEOREM SucceededHasResultHolds == Spec => []SucceededHasResult
<1>1. TableInv => SucceededHasResult
  BY DEF TableInv
<1>. QED BY <1>1, TablesHold, PTL

\* Exactly the acquired targets have operations that are not blocked.
THEOREM ReadyOnlyWhenAcquiredHolds == Spec => []ReadyOnlyWhenAcquired
<1>1. TableInv => ReadyOnlyWhenAcquired
  BY DEF TableInv
<1>. QED BY <1>1, TablesHold, PTL

\* A `run` whose loop has nothing to visit, fetch or process any more has left no
\* pending target and no pending operation.
THEOREM LoopDoneMeansCompleteHolds == Spec => LoopDoneMeansComplete
<1>1. ASSUME TableInv, NEW c \in Commands,
             cmd[c].pc = "work", cmd[c].mode = "run", cmd[c].todo = {}, cmd[c].cur = None,
             InFlight(c) = {}, NEW t \in Targets
      PROVE  target[t].outcome # "pending" /\ \A o \in Ops : oper[t][o].status # "pending"
  <2>1. InSight(c, t) /\ cmd[c].flight[t] = None
    BY <1>1 DEF TableInv, NothingForgotten, InFlight
  <2>. QED BY <1>1, <2>1, AcquisitionAssumption DEF InSight
<1>2. TableInv /\ [Next]_vars =>
        [\A c \in Commands :
          (/\ cmd[c].pc = "work" /\ cmd'[c].pc = "leave" /\ cmd[c].mode = "run"
           /\ cmd[c].todo = {} /\ cmd[c].cur = None /\ InFlight(c) = {})
          => \A t \in Targets :
                /\ target[t].outcome # "pending"
                /\ \A o \in Ops : oper[t][o].status # "pending"]_vars
  BY <1>1
<1>. QED BY <1>2, TablesHold, PTL DEF Spec, LoopDoneMeansComplete

-----------------------------------------------------------------------------
(* Staged bodies, when commands do not overlap                             *)

\* A step that no command becomes active by, that removes no file and changes no
\* target row keeps the invariant if c's record then satisfies its part of it.
LEMMA BodiesKept ==
    ASSUME BodyInv, NEW c \in Commands,
           NEW pc, NEW mode, NEW todo, NEW flight, NEW cur, NEW plan, NEW keep,
           Becomes(c, pc, mode, todo, flight, cur, plan, keep),
           UNCHANGED target, staged \subseteq staged',
           pc = cmd[c].pc \/ ~Ended(c) \/ pc \in {"ended", "dead"},
           pc \in {"init", "lock"} => \A t \in Targets : flight[t] = None,
           pc = "work" => \A t \in Targets :
               flight[t] \in Fetched /\ flight[t].outcome = "acquired"
                   => flight[t].body \in staged',
           pc = "sweep" => Referenced \subseteq keep
    PROVE  BodyInv'
<1>1. cmd'[c].pc = pc /\ cmd'[c].flight = flight /\ cmd'[c].keep = keep
      /\ \A d \in Commands : d # c => cmd'[d] = cmd[d]
  BY DEF Becomes, IsState
<1>2. OneActive'
  BY <1>1 DEF BodyInv, OneActive, Ended
<1>3. NoEarlyFetch'
  BY <1>1 DEF BodyInv, NoEarlyFetch
<1>4. ReportedBodyStaged'
  BY <1>1 DEF BodyInv, ReportedBodyStaged
<1>5. SweepKeepsReferenced'
  BY <1>1 DEF BodyInv, SweepKeepsReferenced, Referenced
<1>6. BodiesRemain'
  BY DEF BodyInv, BodiesRemain
<1>. QED BY <1>2, <1>3, <1>4, <1>5, <1>6 DEF BodyInv

\* A new run has no file and no body to keep.
LEMMA InitBodies == Init => BodyInv
<1>. SUFFICES ASSUME Init PROVE BodyInv
  OBVIOUS
<1>1. IdleCmd.pc = "init" /\ IdleCmd.flight = [t \in Targets |-> None]
  BY DEF IdleCmd
<1>2. \A c \in Commands : cmd[c].pc = "init" /\ \A t \in Targets : cmd[c].flight[t] = None
  BY <1>1 DEF Init
<1>3. \A t \in Targets : target[t].outcome # "acquired"
  BY DEF Init
<1>. QED BY <1>2, <1>3 DEF BodyInv, OneActive, Ended, NoEarlyFetch, ReportedBodyStaged,
            SweepKeepsReferenced, BodiesRemain

\* A command starts when no other is active.
LEMMA StartKeepsBodies ==
    ASSUME Overlap = FALSE, TypeOK, BodyInv, NEW c \in Commands,
           NEW mode \in {"run", "process"}, NEW retry \in BOOLEAN, Start(c, mode, retry)
    PROVE  BodyInv'
<1>1. cmd[c].pc = "init" /\ UNCHANGED <<target, staged>> /\ \A d \in Commands : Ended(d)
  BY DEF Start
<1>2. Becomes(c, "lock", mode, cmd[c].todo, cmd[c].flight, cmd[c].cur, cmd[c].plan,
              cmd[c].keep)
  BY StartEffect
<1>3. /\ cmd'[c].pc = "lock" /\ cmd'[c].flight = cmd[c].flight
      /\ \A d \in Commands : d # c => cmd'[d] = cmd[d]
  BY <1>2 DEF Becomes, IsState
<1>4. OneActive'
  BY <1>1, <1>3 DEF OneActive, Ended
<1>5. NoEarlyFetch' /\ ReportedBodyStaged' /\ SweepKeepsReferenced' /\ BodiesRemain'
  BY <1>1, <1>3 DEF BodyInv, NoEarlyFetch, ReportedBodyStaged, SweepKeepsReferenced,
                    Referenced, BodiesRemain
<1>. QED BY <1>4, <1>5 DEF BodyInv

\* The sweep spares what it noted, and nobody has committed a body since.
LEMMA SweepKeepsBodies ==
    ASSUME TypeOK, BodyInv, NEW c \in Commands, CleanupSweep(c)
    PROVE  BodyInv'
<1>1. cmd[c].pc = "sweep" /\ UNCHANGED target /\ staged' = staged \cap cmd[c].keep
  BY DEF CleanupSweep
<1>2. Becomes(c, "ended", cmd[c].mode, cmd[c].todo, cmd[c].flight, cmd[c].cur, cmd[c].plan, {})
  BY CleanupSweepEffect
<1>3. cmd'[c].pc = "ended" /\ \A d \in Commands : d # c => cmd'[d] = cmd[d]
  BY <1>2 DEF Becomes, IsState
<1>4. \A d \in Commands : d # c => Ended(d)
  BY <1>1 DEF BodyInv, OneActive, Ended
<1>5. OneActive' /\ NoEarlyFetch' /\ ReportedBodyStaged' /\ SweepKeepsReferenced'
  BY <1>1, <1>3, <1>4 DEF BodyInv, OneActive, Ended, NoEarlyFetch, ReportedBodyStaged,
                          SweepKeepsReferenced, Referenced
<1>6. BodiesRemain'
  <2>1. \A t \in Targets : target[t].outcome = "acquired" => target[t].body \in Referenced
    BY AcquisitionAssumption DEF BodyInv, BodiesRemain, TypeOK, Referenced
  <2>. QED BY <1>1, <2>1 DEF BodyInv, BodiesRemain, SweepKeepsReferenced
<1>. QED BY <1>5, <1>6 DEF BodyInv

\* A committed body was reported to this loop, and no sweep is about to run.
LEMMA CommitKeepsBodies ==
    ASSUME TypeOK, BodyInv, NEW c \in Commands, NEW t \in Targets, CommitTarget(c, t)
    PROVE  BodyInv'
<1>. DEFINE f == cmd[c].flight[t]
            cur == IF f.outcome = "acquired" THEN t ELSE None
<1>1. cmd[c].pc = "work" /\ f \in Fetched /\ target' = [target EXCEPT ![t] = f]
      /\ UNCHANGED staged
  BY DEF CommitTarget, AtLoop
<1>2. Becomes(c, cmd[c].pc, cmd[c].mode, cmd[c].todo, [cmd[c].flight EXCEPT ![t] = None],
              cur, cmd[c].plan, cmd[c].keep)
  BY CommitEffect
<1>3. /\ cmd'[c].pc = "work" /\ cmd'[c].flight = [cmd[c].flight EXCEPT ![t] = None]
      /\ \A d \in Commands : d # c => cmd'[d] = cmd[d]
  BY <1>1, <1>2 DEF Becomes, IsState
<1>4. \A d \in Commands : d # c => Ended(d)
  BY <1>1 DEF BodyInv, OneActive, Ended
<1>5. \A u \in Targets : cmd'[c].flight[u] = IF u = t THEN None ELSE cmd[c].flight[u]
  BY <1>3 DEF TypeOK, CmdState
<1>6. OneActive' /\ NoEarlyFetch' /\ SweepKeepsReferenced'
  BY <1>1, <1>3, <1>4 DEF BodyInv, OneActive, Ended, NoEarlyFetch, SweepKeepsReferenced
<1>7. ReportedBodyStaged'
  <2>1. None \notin Fetched
    BY AcquisitionAssumption
  <2>2. \A u \in Targets : cmd'[c].flight[u] \in Fetched => cmd'[c].flight[u] = cmd[c].flight[u]
    BY <1>5, <2>1
  <2>3. \A d \in Commands : cmd'[d].pc = "work" => d = c
    BY <1>3, <1>4 DEF Ended
  <2>. QED BY <1>1, <2>2, <2>3 DEF BodyInv, ReportedBodyStaged
<1>8. BodiesRemain'
  BY <1>1 DEF BodyInv, BodiesRemain, ReportedBodyStaged, TypeOK
<1>. QED BY <1>6, <1>7, <1>8 DEF BodyInv

\* A report of a body comes after its file.
LEMMA FetchKeepsBodies ==
    ASSUME TypeOK, BodyInv, NEW c \in Commands, NEW t \in Targets, NEW f \in Fetched,
           Fetch(c, t, f)
    PROVE  BodyInv'
<1>1. cmd[c].flight[t] = Fetching /\ UNCHANGED target
      /\ staged' = staged \cup ({f.body} \ {None})
  BY DEF Fetch
<1>2. Becomes(c, cmd[c].pc, cmd[c].mode, cmd[c].todo, [cmd[c].flight EXCEPT ![t] = f],
              cmd[c].cur, cmd[c].plan, cmd[c].keep)
  BY FetchEffect
<1>3. f.outcome = "acquired" => f.body \in staged'
  <2>1. f.outcome = "acquired" => f.body \in Files
    BY DEF Fetched
  <2>. QED BY <1>1, <2>1, AcquisitionAssumption
<1>4. cmd[c].flight \in [Targets -> Fetched \cup {Fetching, None}]
  BY DEF TypeOK, CmdState
<1>5. cmd[c].pc \notin {"init", "lock"}
  BY <1>1, AcquisitionAssumption DEF BodyInv, NoEarlyFetch
<1>6. cmd[c].pc = "work" => \A u \in Targets :
         [cmd[c].flight EXCEPT ![t] = f][u] \in Fetched
           /\ [cmd[c].flight EXCEPT ![t] = f][u].outcome = "acquired"
         => [cmd[c].flight EXCEPT ![t] = f][u].body \in staged'
  BY <1>1, <1>3, <1>4 DEF BodyInv, ReportedBodyStaged
<1>7. cmd[c].pc = "sweep" => Referenced \subseteq cmd[c].keep
  BY DEF BodyInv, SweepKeepsReferenced
<1>. QED BY <1>1, <1>2, <1>5, <1>6, <1>7, BodiesKept

\* The other steps touch neither files nor target rows.
LEMMA OtherStepsKeepBodies ==
    ASSUME TypeOK, BodyInv, NEW c \in Commands,
           \/ TakeLock(c) \/ LockRefused(c) \/ Release(c) \/ CleanupRead(c)
           \/ Abort(c) \/ Crash(c) \/ LoopDone(c)
           \/ \E t \in Targets :
                 \/ Submit(c, t) \/ Visit(c, t)
                 \/ NothingEligible(c, t) \/ ExecuteRaises(c, t)
                 \/ \E x \in [Ops -> Executed] : Execute(c, t, x)
           \/ \E o \in Ops : RecordAttempt(c, o)
    PROVE  BodyInv'
<1>1. /\ cmd[c].pc \in {"init", "lock"} => \A t \in Targets : cmd[c].flight[t] = None
      /\ cmd[c].pc = "work" => \A t \in Targets :
            cmd[c].flight[t] \in Fetched /\ cmd[c].flight[t].outcome = "acquired"
               => cmd[c].flight[t].body \in staged
      /\ cmd[c].pc = "sweep" => Referenced \subseteq cmd[c].keep
  BY DEF BodyInv, NoEarlyFetch, ReportedBodyStaged, SweepKeepsReferenced
<1>2. CASE TakeLock(c)
  <2>1. cmd[c].pc = "lock" /\ UNCHANGED <<target, staged>>
    BY <1>2 DEF TakeLock
  <2>2. \A t \in Targets : cmd[c].flight[t] \notin Fetched
    BY <1>1, <2>1, AcquisitionAssumption
  <2>. QED BY <1>2, <2>1, <2>2, TakeLockEffect, BodiesKept DEF Ended
<1>3. CASE LockRefused(c)
  <2>1. cmd[c].pc = "lock" /\ UNCHANGED <<target, staged>> /\ AfterLock(c) \in {"cleanup", "ended"}
    BY <1>3 DEF LockRefused, AfterLock
  <2>2. Becomes(c, AfterLock(c), cmd[c].mode, cmd[c].todo, cmd[c].flight, cmd[c].cur, cmd[c].plan,
                cmd[c].keep)
    BY <1>3, LockRefusedEffect
  <2>. QED BY <2>1, <2>2, BodiesKept DEF Ended
<1>4. CASE Release(c)
  <2>1. cmd[c].pc = "leave" /\ UNCHANGED <<target, staged>> /\ AfterLock(c) \in {"cleanup", "ended"}
    BY <1>4 DEF Release, AfterLock
  <2>2. Becomes(c, AfterLock(c), cmd[c].mode, cmd[c].todo, cmd[c].flight, cmd[c].cur, cmd[c].plan,
                cmd[c].keep)
    BY <1>4, ReleaseEffect
  <2>. QED BY <2>1, <2>2, BodiesKept DEF Ended
<1>5. CASE CleanupRead(c)
  <2>1. cmd[c].pc = "cleanup" /\ UNCHANGED <<target, staged>>
    BY <1>5 DEF CleanupRead
  <2>2. Becomes(c, "sweep", cmd[c].mode, cmd[c].todo, cmd[c].flight, cmd[c].cur, cmd[c].plan,
                Referenced)
    BY <1>5, CleanupReadEffect
  <2>. QED BY <2>1, <2>2, BodiesKept DEF Ended
<1>6. CASE Abort(c)
  <2>1. cmd[c].pc = "work" /\ UNCHANGED <<target, staged>>
    BY <1>6 DEF Abort
  <2>2. Becomes(c, "leave", cmd[c].mode, cmd[c].todo, cmd[c].flight, None, [o \in Ops |-> None],
                cmd[c].keep)
    BY <1>6, AbortEffect
  <2>. QED BY <2>1, <2>2, BodiesKept DEF Ended
<1>7. CASE Crash(c)
  <2>1. UNCHANGED <<target, staged>>
    BY <1>7 DEF Crash
  <2>2. Becomes(c, "dead", "run", {}, [t \in Targets |-> None], None, [o \in Ops |-> None], {})
    BY <1>7, CrashEffect
  <2>. QED BY <2>1, <2>2, BodiesKept DEF Ended
<1>8. CASE LoopDone(c)
  <2>1. cmd[c].pc = "work" /\ UNCHANGED <<target, staged>>
    BY <1>8 DEF LoopDone, AtLoop
  <2>2. Becomes(c, "leave", cmd[c].mode, cmd[c].todo, cmd[c].flight, cmd[c].cur, cmd[c].plan,
                cmd[c].keep)
    BY <1>8, LoopDoneEffect
  <2>. QED BY <2>1, <2>2, BodiesKept DEF Ended
<1>9. ASSUME NEW t \in Targets, Submit(c, t) PROVE BodyInv'
  <2>1. cmd[c].pc = "work" /\ UNCHANGED <<target, staged>>
    BY <1>9 DEF Submit, AtLoop
  <2>2. Fetching \notin Fetched
    BY DEF Fetching, Fetched
  <2>3. cmd[c].flight \in [Targets -> Fetched \cup {Fetching, None}]
    BY DEF TypeOK, CmdState
  <2>. DEFINE flight == [cmd[c].flight EXCEPT ![t] = Fetching]
  <2>4. \A u \in Targets : flight[u] \in Fetched => flight[u] = cmd[c].flight[u]
    BY <2>2, <2>3
  <2>5. Becomes(c, cmd[c].pc, cmd[c].mode, cmd[c].todo \ {t}, flight, cmd[c].cur, cmd[c].plan,
                cmd[c].keep)
    BY <1>9, SubmitEffect
  <2>. HIDE DEF flight
  <2>. QED BY <1>1, <2>1, <2>4, <2>5, BodiesKept
<1>10. ASSUME NEW t \in Targets, Visit(c, t) PROVE BodyInv'
  BY <1>1, <1>10, VisitEffect, BodiesKept DEF Visit, AtLoop
<1>11. ASSUME NEW t \in Targets, NothingEligible(c, t) PROVE BodyInv'
  BY <1>1, <1>11, NothingEligibleEffect, BodiesKept DEF NothingEligible, Processing
<1>12. ASSUME NEW t \in Targets, ExecuteRaises(c, t) PROVE BodyInv'
  BY <1>1, <1>12, RaisesEffect, BodiesKept DEF ExecuteRaises, Processing
<1>13. ASSUME NEW t \in Targets, NEW x \in [Ops -> Executed], Execute(c, t, x) PROVE BodyInv'
  <2>1. cmd[c].pc = "work" /\ UNCHANGED <<target, staged>>
    BY <1>13 DEF Execute, Processing
  <2>2. Becomes(c, cmd[c].pc, cmd[c].mode, cmd[c].todo, cmd[c].flight, cmd[c].cur,
                Attempts(c, t, x), cmd[c].keep)
    BY <1>13, ExecuteEffect
  <2>. QED BY <1>1, <2>1, <2>2, BodiesKept
<1>14. ASSUME NEW o \in Ops, RecordAttempt(c, o) PROVE BodyInv'
  BY <1>1, <1>14, RecordEffect, BodiesKept DEF RecordAttempt
<1>. QED BY <1>2, <1>3, <1>4, <1>5, <1>6, <1>7, <1>8, <1>9, <1>10, <1>11, <1>12, <1>13, <1>14

\* Every step keeps the bodies' invariant when commands do not overlap.
LEMMA NextKeepsBodies ==
    ASSUME Overlap = FALSE PROVE TypeOK /\ BodyInv /\ [Next]_vars => BodyInv'
<1>. SUFFICES ASSUME TypeOK, BodyInv, [Next]_vars PROVE BodyInv'
  OBVIOUS
<1>1. ASSUME NEW c \in Commands, CommandStep(c) PROVE BodyInv'
  BY <1>1, StartKeepsBodies, SweepKeepsBodies, CommitKeepsBodies, FetchKeepsBodies,
     OtherStepsKeepBodies DEF CommandStep
<1>2. CASE UNCHANGED vars
  BY <1>2 DEF vars, BodyInv, OneActive, Ended, NoEarlyFetch, ReportedBodyStaged,
              SweepKeepsReferenced, Referenced, BodiesRemain
<1>. QED BY <1>1, <1>2 DEF Next

\* The body of every acquired target is on disk, whatever fetches, aborts, kills
\* and sweeps happened, as long as no two commands overlap: the sweep itself runs
\* outside the run lock, so the lock cannot replace that assumption.
THEOREM BodiesRemainHolds == ASSUME Overlap = FALSE PROVE Spec => []BodiesRemain
<1>1. Init => BodyInv
  BY InitBodies
<1>2. TypeOK /\ BodyInv /\ [Next]_vars => BodyInv'
  BY NextKeepsBodies
<1>3. BodyInv => BodiesRemain
  BY DEF BodyInv
<1>. QED BY <1>1, <1>2, <1>3, TypeCorrect, PTL DEF Spec
=============================================================================
