--------------------- MODULE AcquisitionPublicationProofs ---------------------
(***************************************************************************)
(* A receipt of a publication without --allow-errors is final, for any     *)
(* number of targets and of commands that run beside it, although publish  *)
(* takes no lock and reads the two tables in two statements.               *)
(***************************************************************************)
EXTENDS AcquisitionPublication, AcquisitionRunProofs

\* No target can be fetched again, and the bodies of the acquired ones are these.
TargetsSettled(want) ==
    \A t \in Targets :
        /\ target[t].outcome \notin {"pending", "failed"}
        /\ target[t].outcome = "acquired" => target[t].body \in want

\* No operation can be processed again.
OpsSettled == \A t \in Targets, o \in Ops : oper[t][o].status \in {"blocked", "succeeded"}

\* A publishing command and its receipt have the shape the steps give them.
PublicationTyped ==
    /\ pub \in [pc : {"idle", "ops", "assemble", "published"}, allow : BOOLEAN,
                want : SUBSET Files, blind : BOOLEAN]
    /\ receipt \in [pc : {"none", "published"}, allow : BOOLEAN, want : SUBSET Files,
                    blind : BOOLEAN]
    /\ receipt # NoReceipt => receipt.pc = "published"
    /\ pub # NoPub => pub.pc # "idle"

\* What a publication has read so far is settled, before its receipt is written.
ReadIsSettled ==
    pub # NoPub /\ ~pub.allow =>
        /\ TargetsSettled(pub.want)
        /\ pub.pc \in {"assemble", "published"} /\ ~pub.blind => OpsSettled

\* A target becomes acquired only together with a body.
AcquiredNamesBody ==
    \A t \in Targets : target[t].outcome = "acquired" => target[t].body \in Files

PublicationInv == PublicationTyped /\ ReadIsSettled /\ ReceiptIsFinal /\ AcquiredNamesBody

\* A receipt speaks of settled targets and operations.
LEMMA ReceiptSettled ==
    ReceiptIsFinal <=>
        (receipt # NoReceipt /\ ~receipt.allow =>
            TargetsSettled(receipt.want) /\ (receipt.blind \/ OpsSettled))
BY DEF ReceiptIsFinal, TargetsSettled, OpsSettled

\* Target rows change by the commit of a fetch, operation rows by that or by an
\* attempt that is recorded, and by nothing else.
LEMMA TablesChange ==
    ASSUME [Next]_vars
    PROVE  \/ UNCHANGED <<target, oper>>
           \/ \E c \in Commands, t \in Targets : CommitTarget(c, t)
           \/ UNCHANGED target /\ \E c \in Commands, o \in Ops : RecordAttempt(c, o)
<1>1. ASSUME NEW c \in Commands,
             \/ \E mode \in {"run", "process"}, retry \in BOOLEAN : Start(c, mode, retry)
             \/ TakeLock(c) \/ LockRefused(c) \/ Release(c)
             \/ CleanupRead(c) \/ CleanupSweep(c)
             \/ Abort(c) \/ Crash(c) \/ LoopDone(c)
      PROVE  UNCHANGED <<target, oper>>
  BY <1>1 DEF Start, TakeLock, LockRefused, Release, CleanupRead, CleanupSweep, Abort, Crash,
              LoopDone
<1>2. ASSUME NEW c \in Commands, NEW t \in Targets,
             \/ Submit(c, t) \/ Visit(c, t) \/ \E r \in Fetched : Fetch(c, t, r)
             \/ NothingEligible(c, t) \/ ExecuteRaises(c, t)
             \/ \E x \in [Ops -> Executed] : Execute(c, t, x)
      PROVE  UNCHANGED <<target, oper>>
  BY <1>2 DEF Submit, Visit, Fetch, NothingEligible, Execute, ExecuteRaises
<1>3. ASSUME NEW c \in Commands, NEW o \in Ops, RecordAttempt(c, o)
      PROVE  UNCHANGED target
  BY <1>3 DEF RecordAttempt
<1>4. CASE UNCHANGED vars
  BY <1>4 DEF vars
<1>. QED BY <1>1, <1>2, <1>3, <1>4 DEF Next, CommandStep

\* The writers' own eligibility checks keep them off what is settled: a commit
\* needs a pending or failed target, an attempt a pending or failed operation.
LEMMA SettledStays ==
    ASSUME TableInv, [Next]_vars, NEW want, TargetsSettled(want)
    PROVE  TargetsSettled(want)' /\ (OpsSettled => OpsSettled')
<1>1. ASSUME NEW c \in Commands, NEW t \in Targets, CommitTarget(c, t) PROVE FALSE
  BY <1>1 DEF CommitTarget, EligibleTarget, TargetsSettled
<1>2. ASSUME OpsSettled, NEW c \in Commands, NEW o \in Ops, RecordAttempt(c, o) PROVE FALSE
  <2>1. cmd[c].cur \in Targets
    BY <1>2 DEF TableInv, TypeOK, CmdState, PlanHasTarget, RecordAttempt
  <2>. QED BY <1>2, <2>1 DEF RecordAttempt, EligibleOps, OpsSettled
<1>. QED BY <1>1, <1>2, TablesChange DEF TargetsSettled, OpsSettled

\* Before the first publication there is no receipt.
LEMMA InitPublication == PInit => PublicationInv
<1>1. PInit => ReadIsSettled /\ ReceiptIsFinal
  BY DEF PInit, ReadIsSettled, ReceiptIsFinal
<1>3. PInit => PublicationTyped
  BY DEF PInit, PublicationTyped, NoPub, NoReceipt
<1>2. PInit => AcquiredNamesBody
  BY DEF PInit, Init, AcquiredNamesBody
<1>. QED BY <1>1, <1>2, <1>3 DEF PublicationInv

\* The commands of the run cannot take back what publish has read.
LEMMA RunKeepsPublication ==
    ASSUME TableInv, PublicationInv, [Next]_vars, UNCHANGED pvars
    PROVE  PublicationInv'
<1>1. PublicationTyped'
  BY DEF PublicationInv, PublicationTyped, pvars
<1>2. ReadIsSettled'
  <2>. SUFFICES ASSUME pub # NoPub, ~pub.allow
                PROVE  /\ TargetsSettled(pub.want)'
                       /\ pub.pc \in {"assemble", "published"} /\ ~pub.blind => OpsSettled'
    BY DEF ReadIsSettled, pvars
  <2>1. /\ TargetsSettled(pub.want)
        /\ pub.pc \in {"assemble", "published"} /\ ~pub.blind => OpsSettled
    BY DEF PublicationInv, ReadIsSettled
  <2>2. pub' = pub
    BY DEF pvars
  <2>. QED BY <2>1, <2>2, SettledStays DEF TargetsSettled
<1>3. ReceiptIsFinal'
  <2>. SUFFICES ASSUME receipt # NoReceipt, ~receipt.allow
                PROVE  TargetsSettled(receipt.want)' /\ (receipt.blind \/ OpsSettled')
    BY ReceiptSettled DEF pvars, ReceiptIsFinal, TargetsSettled, OpsSettled
  <2>1. TargetsSettled(receipt.want) /\ (receipt.blind \/ OpsSettled)
    BY ReceiptSettled DEF PublicationInv
  <2>2. receipt' = receipt
    BY DEF pvars
  <2>. QED BY <2>1, <2>2, SettledStays DEF TargetsSettled
<1>4. AcquiredNamesBody'
  <2>1. ASSUME NEW c \in Commands, NEW t \in Targets, CommitTarget(c, t)
        PROVE  AcquiredNamesBody'
    <3>1. cmd[c].flight[t].outcome = "acquired" => cmd[c].flight[t].body \in Files
      BY <2>1 DEF CommitTarget, Fetched
    <3>. QED BY <2>1, <3>1 DEF CommitTarget, PublicationInv, AcquiredNamesBody, TableInv, TypeOK
  <2>. QED BY <2>1, TablesChange DEF PublicationInv, AcquiredNamesBody
<1>. QED BY <1>1, <1>2, <1>3, <1>4 DEF PublicationInv

\* publish itself writes a receipt only of what it found settled.
LEMMA PublishingKeepsPublication ==
    ASSUME TableInv, PublicationInv, Publishing
    PROVE  PublicationInv'
<1>1. UNCHANGED vars
  BY DEF Publishing, LoadTargets, LoadOps, LoadOpsFails, Assemble, WriteReceipt, PublishEnds,
         run, vars
<1>2. AcquiredNamesBody'
  BY <1>1 DEF vars, PublicationInv, AcquiredNamesBody
<1>3. UNCHANGED receipt => ReceiptIsFinal'
  BY <1>1 DEF vars, PublicationInv, ReceiptIsFinal
<1>4. ASSUME NEW allow \in BOOLEAN, LoadTargets(allow) PROVE PublicationInv'
  <2>1. Referenced \subseteq Files /\ (~allow => TargetsSettled(Referenced))
    <3>1. Referenced \subseteq Files
      BY DEF Referenced, TableInv, TypeOK, Target
    <3>2. \A t \in Targets : target[t].outcome = "acquired" => target[t].body \in Referenced
      BY AcquisitionAssumption DEF PublicationInv, AcquiredNamesBody, Referenced
    <3>. QED BY <1>4, <3>1, <3>2 DEF LoadTargets, TargetsTerminal, TargetsSettled
  <2>2. pub' = [pc |-> "ops", allow |-> allow, want |-> Referenced,
                 blind |-> FALSE] /\ UNCHANGED receipt
    BY <1>4 DEF LoadTargets
  <2>3. PublicationTyped'
    BY <2>1, <2>2 DEF PublicationInv, PublicationTyped, NoPub
  <2>4. ReadIsSettled'
    BY <1>1, <2>1, <2>2 DEF vars, ReadIsSettled, TargetsSettled
  <2>. QED BY <1>2, <1>3, <2>2, <2>3, <2>4 DEF PublicationInv
<1>5. ASSUME UNCHANGED receipt, pub' = NoPub PROVE PublicationInv'
  BY <1>2, <1>3, <1>5 DEF PublicationInv, PublicationTyped, ReadIsSettled, NoPub
<1>6. ASSUME NEW pc \in {"assemble", "published"}, NEW blind \in BOOLEAN, pub # NoPub,
             pub' = [pub EXCEPT !.pc = pc, !.blind = blind],
             UNCHANGED receipt, ~pub.allow => blind \/ OpsSettled
      PROVE  PublicationInv'
  <2>1. /\ PublicationTyped' /\ pub'.want = pub.want /\ pub'.allow = pub.allow
        /\ pub'.blind = blind
    BY <1>6 DEF PublicationInv, PublicationTyped, NoPub
  <2>2. ~pub.allow => TargetsSettled(pub.want)' /\ (blind \/ OpsSettled')
    <3>1. ~pub.allow => TargetsSettled(pub.want) /\ (blind \/ OpsSettled)
      BY <1>6 DEF PublicationInv, ReadIsSettled
    <3>. QED BY <1>1, <3>1, <2>1 DEF vars, TargetsSettled, OpsSettled
  <2>3. ReadIsSettled'
    BY <2>1, <2>2 DEF ReadIsSettled, TargetsSettled
  <2>. QED BY <1>2, <1>3, <1>6, <2>1, <2>3 DEF PublicationInv
<1>7. CASE LoadOps
  <2>1. OpsTerminal(pub.allow) => (~pub.allow => OpsSettled)
    BY DEF OpsTerminal, OpsSettled, TableInv, TypeOK, Oper
  <2>2. pub # NoPub /\ UNCHANGED receipt /\ pub.blind \in BOOLEAN
    BY <1>7 DEF LoadOps, NoPub, PublicationInv, PublicationTyped
  <2>3. CASE pub' = NoPub
    BY <1>5, <2>2, <2>3
  <2>4. CASE OpsTerminal(pub.allow) /\ pub' = [pub EXCEPT !.pc = "assemble"]
    <3>1. pub' = [pub EXCEPT !.pc = "assemble", !.blind = pub.blind]
      BY <2>4 DEF PublicationInv, PublicationTyped
    <3>. QED BY <1>6, <2>1, <2>2, <2>4, <3>1
  <2>. QED BY <1>7, <2>3, <2>4 DEF LoadOps
<1>11. CASE LoadOpsFails
  <2>1. pub # NoPub /\ UNCHANGED receipt
    BY <1>11 DEF LoadOpsFails, NoPub
  <2>. QED BY <1>6, <1>11, <2>1 DEF LoadOpsFails
<1>8. CASE Assemble
  <2>1. pub # NoPub /\ pub.pc = "assemble" /\ UNCHANGED receipt /\ pub.blind \in BOOLEAN
    BY <1>8 DEF Assemble, NoPub, PublicationInv, PublicationTyped
  <2>2. ~pub.allow => pub.blind \/ OpsSettled
    BY <2>1 DEF PublicationInv, ReadIsSettled
  <2>3. CASE pub' = NoPub
    BY <1>5, <2>1, <2>3
  <2>4. CASE pub' = [pub EXCEPT !.pc = "published"]
    <3>1. pub' = [pub EXCEPT !.pc = "published", !.blind = pub.blind]
      BY <2>4 DEF PublicationInv, PublicationTyped
    <3>. QED BY <1>6, <2>1, <2>2, <3>1
  <2>. QED BY <1>8, <2>3, <2>4 DEF Assemble
<1>9. CASE WriteReceipt
  <2>1. pub.pc = "published" /\ receipt' = pub /\ pub' = NoPub /\ pub # NoPub
    BY <1>9 DEF WriteReceipt, NoPub
  <2>2. ~pub.allow => TargetsSettled(pub.want) /\ (pub.blind \/ OpsSettled)
    BY <2>1 DEF PublicationInv, ReadIsSettled
  <2>3. ReceiptIsFinal'
    BY <1>1, <2>1, <2>2 DEF ReceiptIsFinal, TargetsSettled, OpsSettled, vars
  <2>4. PublicationTyped' /\ ReadIsSettled'
    BY <2>1 DEF PublicationInv, PublicationTyped, ReadIsSettled, NoPub, NoReceipt
  <2>. QED BY <1>2, <2>3, <2>4 DEF PublicationInv
<1>10. CASE PublishEnds
  BY <1>5, <1>10 DEF PublishEnds
<1>. QED BY <1>4, <1>7, <1>8, <1>9, <1>10, <1>11 DEF Publishing

\* publish only reads what the run keeps, so the invariants of the run's tables
\* hold beside it too.
LEMMA RunUndisturbed == PSpec => Spec
<1>1. PInit => Init
  BY DEF PInit
<1>2. [PNext]_<<run, pvars>> => [Next]_vars
  BY DEF PNext, run, pvars, vars, Publishing, LoadTargets, LoadOps, LoadOpsFails, Assemble,
         WriteReceipt, PublishEnds
<1>. QED BY <1>1, <1>2, PTL DEF PSpec, Spec

\* A receipt written without --allow-errors binds every later command of the run,
\* overlapping or not: no target can change any more, every acquired body is in
\* the snapshot it names, and no operation can change either unless the operation
\* rows could not be read (writer.py then takes them for none).
THEOREM ReceiptIsFinalHolds == PSpec => []ReceiptIsFinal
<1>1. TableInv /\ PublicationInv /\ [PNext]_<<run, pvars>> => PublicationInv'
  <2>. SUFFICES ASSUME TableInv, PublicationInv, [PNext]_<<run, pvars>>
                PROVE  PublicationInv'
    OBVIOUS
  <2>1. CASE Publishing
    BY <2>1, PublishingKeepsPublication
  <2>2. CASE [Next]_vars /\ UNCHANGED pvars
    BY <2>2, RunKeepsPublication
  <2>. QED BY <2>1, <2>2 DEF PNext, run, vars
<1>2. PublicationInv => ReceiptIsFinal
  BY DEF PublicationInv
<1>. QED BY <1>1, <1>2, InitPublication, RunUndisturbed, TablesHold, PTL DEF PSpec
=============================================================================
