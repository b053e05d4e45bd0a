---------------------------- MODULE RunLockProofs ----------------------------
(***************************************************************************)
(* Proofs about the run lock: type correctness and mutual exclusion for    *)
(* any number of processes and hosts.                                      *)
(***************************************************************************)
EXTENDS RunLock, TLAPS

\* Every implementation but acquisition's relies on the operator's discipline.
Disciplined == Variants \subseteq Attested \cup {"acquisition"}

Owning == {"writing", "rewriting", "rewritten", "holding", "closing"}
Recovering == {"reread", "unlink", "recreate", "rewriting", "rewritten"}

\* The lock file names every process that believes it created it.
OwnerIsNamed == \A p \in Procs : pc[p] \in Owning => lock = p

\* One process at a time is behind the .recovery file.
OneRecoverer == \A p \in Procs : pc[p] \in Recovering => recovery = p

\* Acquisition: the owner read first is dead, and the second read proves that
\* the lock is still that owner's.
SeenIsDead ==
    variant = "acquisition" =>
        \A p \in Procs :
            /\ pc[p] \in {"recover", "reread", "unlink"} =>
                  seen[p] \in Procs /\ pc[seen[p]] = "dead"
            /\ pc[p] = "owner" => seen[p] \in Procs
            /\ pc[p] = "unlink" => lock = seen[p]

\* Attested variants: one confirmed process at a time, and until it unlinks
\* the lock file the dead owner's lock stays.
AttestedIsDead ==
    variant \in Attested =>
        /\ \A p \in Procs :
              /\ pc[p] \in {"recover", "reread", "unlink"} => confirmed[p]
              /\ (confirmed[p] /\ pc[p] \in {"start", "exists", "owner", "recover",
                                            "reread", "unlink"})
                    => lock \in Procs /\ pc[lock] = "dead"
        /\ \A p, q \in Procs :
              (confirmed[p] /\ confirmed[q] /\ Active(p) /\ Active(q)) => p = q

Protected == OwnerIsNamed /\ OneRecoverer /\ SeenIsDead /\ AttestedIsDead

IInv == TypeOK /\ Protected

-----------------------------------------------------------------------------

\* The initial state is typed.
LEMMA InitTyped == Init => TypeOK
  BY DEF Init, TypeOK, Labels

\* Every step of every process keeps the state typed.
LEMMA StepTyped == TypeOK /\ [Next]_vars => TypeOK'
<1> SUFFICES ASSUME TypeOK, [Next]_vars PROVE TypeOK'
  OBVIOUS
<1> USE DEF TypeOK, Labels, Ended, Goto
<1>1. CASE UNCHANGED vars
  BY <1>1 DEF vars
<1>2. ASSUME NEW p \in Procs, NEW c \in BOOLEAN, Start(p, c) PROVE TypeOK'
  BY <1>2 DEF Start
<1>3. ASSUME NEW p \in Procs, Step(p) PROVE TypeOK'
  <2>1. CASE Create(p)
    BY <2>1 DEF Create, OpenExclusive
  <2>2. CASE FileExists(p)
    BY <2>2 DEF FileExists
  <2>3. CASE WritePayload(p)
    BY <2>3 DEF WritePayload
  <2>4. CASE Released(p)
    BY <2>4 DEF Released
  <2>5. CASE CreateAfterRelease(p)
    BY <2>5 DEF CreateAfterRelease, OpenExclusive
  <2>6. CASE ReadOwner(p)
    BY <2>6 DEF ReadOwner
  <2>7. CASE Refuse(p)
    BY <2>7 DEF Refuse
  <2>18. CASE BeginRecovery(p)
    BY <2>18 DEF BeginRecovery
  <2>8. CASE TakeRecovery(p)
    BY <2>8 DEF TakeRecovery
  <2>9. CASE RecoveryActive(p)
    BY <2>9 DEF RecoveryActive
  <2>10. CASE Reread(p)
    BY <2>10 DEF Reread
  <2>11. CASE LockChanged(p)
    BY <2>11 DEF LockChanged
  <2>12. CASE Unlink(p)
    BY <2>12 DEF Unlink
  <2>13. CASE Recreate(p)
    BY <2>13 DEF Recreate, OpenExclusive
  <2>14. CASE AcquiredConcurrently(p)
    BY <2>14 DEF AcquiredConcurrently
  <2>15. CASE DropRecovery(p)
    BY <2>15 DEF DropRecovery
  <2>16. CASE CloseReads(p)
    BY <2>16 DEF CloseReads
  <2>17. CASE CloseUnlinks(p)
    BY <2>17 DEF CloseUnlinks
  <2> QED
    BY <1>3, <2>1, <2>2, <2>3, <2>4, <2>5, <2>6, <2>7, <2>8, <2>9, <2>10,
       <2>11, <2>12, <2>13, <2>14, <2>15, <2>16, <2>17, <2>18
       DEF Step
<1>4. ASSUME NEW p \in Procs, WriteFails(p) PROVE TypeOK'
  BY <1>4 DEF WriteFails
<1>5. ASSUME NEW p \in Procs, Crash(p) PROVE TypeOK'
  BY <1>5 DEF Crash
<1> QED
  BY <1>1, <1>2, <1>3, <1>4, <1>5 DEF Next

\* The variables of the lock (RunLock.__init__, _recover_existing, close) keep
\* their types, for every number of processes and hosts.
THEOREM TypeCorrect == Spec => []TypeOK
  BY InitTyped, StepTyped, PTL DEF Spec

-----------------------------------------------------------------------------

\* The strengthening is inductive: no step of any process takes the lock file
\* from under a process that believes it owns it.
LEMMA StepProtected ==
  ASSUME Disciplined, TypeOK, Protected, [Next]_vars
  PROVE  Protected'
<1> USE RunLockAssumption DEF TypeOK, Protected, Goto
<1> USE DEF OwnerIsNamed, OneRecoverer, SeenIsDead, AttestedIsDead, Active, Alive,
            Owning, Recovering, Ended
<1>1. CASE UNCHANGED vars
  BY <1>1 DEF vars
<1>2. ASSUME NEW p \in Procs, NEW c \in BOOLEAN, Start(p, c) PROVE Protected'
  BY <1>2 DEF Start, MayConfirm
<1>3. ASSUME NEW p \in Procs, Step(p) PROVE Protected'
  <2>1. CASE Create(p)
    BY <2>1 DEF Create, OpenExclusive
  <2>2. CASE FileExists(p)
    BY <2>2 DEF FileExists
  <2>3. CASE WritePayload(p)
    BY <2>3 DEF WritePayload
  <2>4. CASE Released(p)
    BY <2>4 DEF Released
  <2>5. CASE CreateAfterRelease(p)
    BY <2>5 DEF CreateAfterRelease, OpenExclusive
  <2>6. CASE ReadOwner(p)
    BY <2>6 DEF ReadOwner, Readable
  <2>7. CASE Refuse(p)
    <3>1. pc[p] \in {"exists", "owner", "retry"} /\ pc' = [pc EXCEPT ![p] = "refused"]
      BY <2>7 DEF Refuse, Examining
    <3>2. UNCHANGED <<variant, lock, recovery, confirmed, seen>>
      BY <2>7 DEF Refuse
    <3> QED
      BY <3>1, <3>2
  <2>18. CASE BeginRecovery(p)
    BY <2>18 DEF BeginRecovery, Examining, OwnerMayBeStale
  <2>8. CASE TakeRecovery(p)
    BY <2>8 DEF TakeRecovery
  <2>9. CASE RecoveryActive(p)
    BY <2>9 DEF RecoveryActive
  <2>10. CASE Reread(p)
    BY <2>10 DEF Reread, Unchanged, Readable
  <2>11. CASE LockChanged(p)
    BY <2>11 DEF LockChanged
  <2>12. CASE Unlink(p)
    BY <2>12 DEF Unlink, Disciplined
  <2>13. CASE Recreate(p)
    BY <2>13 DEF Recreate, OpenExclusive
  <2>14. CASE AcquiredConcurrently(p)
    BY <2>14 DEF AcquiredConcurrently
  <2>15. CASE DropRecovery(p)
    BY <2>15 DEF DropRecovery
  <2>16. CASE CloseReads(p)
    BY <2>16 DEF CloseReads
  <2>17. CASE CloseUnlinks(p)
    BY <2>17 DEF CloseUnlinks
  <2> QED
    BY <1>3, <2>1, <2>2, <2>3, <2>4, <2>5, <2>6, <2>7, <2>8, <2>9, <2>10,
       <2>11, <2>12, <2>13, <2>14, <2>15, <2>16, <2>17, <2>18
       DEF Step
<1>4. ASSUME NEW p \in Procs, WriteFails(p) PROVE Protected'
  BY <1>4 DEF WriteFails
<1>5. ASSUME NEW p \in Procs, Crash(p) PROVE Protected'
  BY <1>5 DEF Crash
<1> QED
  BY <1>1, <1>2, <1>3, <1>4, <1>5 DEF Next

\* IInv holds in every reachable state.
LEMMA IInvHolds == ASSUME Disciplined PROVE Spec => []IInv
<1>1. Init => IInv
  <2> SUFFICES ASSUME Init PROVE Protected
    BY InitTyped DEF IInv
  <2> QED
    BY DEF Init, Protected, OwnerIsNamed, OneRecoverer, SeenIsDead, AttestedIsDead,
           Owning, Recovering, Active, Ended
<1>2. IInv /\ [Next]_vars => IInv'
  BY StepTyped, StepProtected DEF IInv
<1> QED
  BY <1>1, <1>2, PTL DEF Spec

\* No two processes own a run at the same time: unconditionally for the lock of
\* document_acquisition, and for the other two when the operator confirms to one
\* process at a time a holder that has stopped.
THEOREM MutexHolds == ASSUME Disciplined PROVE Spec => []MutualExclusion
<1>1. IInv => MutualExclusion
  BY DEF IInv, TypeOK, Protected, OwnerIsNamed, Owning, MutualExclusion
<1> QED
  BY <1>1, IInvHolds, PTL

\* A lock file that names a living process disappears only when that process
\* closes it, under the same discipline.
THEOREM LiveOwnerHolds == ASSUME Disciplined PROVE Spec => LiveOwnerKeepsLock
<1> DEFINE Keeps == \A p \in Procs :
                       (lock = p /\ lock' # p) => (~Alive(p) \/ pc[p] = "closing")
<1>1. ASSUME IInv, [Next]_vars PROVE [Keeps]_vars
  <2> USE RunLockAssumption DEF IInv, TypeOK, Alive
  <2>1. CASE UNCHANGED vars
    BY <2>1
  <2>2. ASSUME NEW q \in Procs, NEW c \in BOOLEAN, Start(q, c) PROVE Keeps
    BY <2>2 DEF Start
  <2>3. ASSUME NEW q \in Procs, Step(q) PROVE Keeps
    <3>1. CASE Unlink(q)
      BY <1>1, <3>1 DEF Unlink, Disciplined, Protected, SeenIsDead, AttestedIsDead
    <3>2. CASE CloseUnlinks(q)
      BY <1>1, <3>2 DEF CloseUnlinks, Protected, OwnerIsNamed, Owning
    <3>3. CASE Create(q) \/ CreateAfterRelease(q) \/ Recreate(q)
      BY <3>3 DEF Create, CreateAfterRelease, Recreate, OpenExclusive
    <3> QED
      BY <2>3, <3>1, <3>2, <3>3
         DEF Step, FileExists, WritePayload, Released, ReadOwner, BeginRecovery, Refuse,
             TakeRecovery, RecoveryActive, Reread, LockChanged, AcquiredConcurrently, DropRecovery,
             CloseReads
  <2>4. ASSUME NEW q \in Procs, WriteFails(q) \/ Crash(q) PROVE Keeps
    BY <2>4 DEF WriteFails, Crash
  <2> QED
    BY <1>1, <2>1, <2>2, <2>3, <2>4 DEF Next
<1> QED
  BY <1>1, IInvHolds, PTL DEF Spec, LiveOwnerKeepsLock

=============================================================================
