------------------------ MODULE AcquisitionPublication ------------------------
(***************************************************************************)
(* `publish` (snapshot.writer.publish_acquisition_run) of the run modelled *)
(* in AcquisitionRun. It takes no run lock, so it reads the tables and the *)
(* staged bodies while a `run` may be changing them. The snapshot it       *)
(* installs is SnapshotDag's subject; here a snapshot is the bodies in it. *)
(***************************************************************************)
EXTENDS AcquisitionRun

VARIABLES
    pub,     \* the publishing command: where it is, --allow-errors, bodies read,
             \* and whether the operation rows were read blindly
    receipt  \* publication_receipt.json and what its snapshot holds

pvars == <<pub, receipt>>
run == <<target, oper, result, staged, lock, cmd>>

NoPub == [pc |-> "idle", allow |-> FALSE, want |-> {}, blind |-> FALSE]
NoReceipt == [pc |-> "none", allow |-> FALSE, want |-> {}, blind |-> FALSE]

PInit == Init /\ pub = NoPub /\ receipt = NoReceipt

\* _validate_run_terminality, of the rows read first ("absent" also stands for
\* required_missing and ambiguous, which are refused like "failed": the command
\* then ends as in PublishEnds) ...
TargetsTerminal(allow) ==
    \A t \in Targets : target[t].outcome # "pending"
                       /\ (allow \/ target[t].outcome # "failed")

\* Mutant of OpsTerminal: operations that were not processed yet are let through.
OpsTerminalUnchecked(allow) ==
    \A t \in Targets, o \in Ops : allow \/ oper[t][o].status # "failed"

\* ... and of those read after them.
OpsTerminal(allow) ==
    \A t \in Targets, o \in Ops : oper[t][o].status # "pending"
                                  /\ (allow \/ oper[t][o].status # "failed")

\* No receipt yet: _load_run_db selects the target rows; a row that is not
\* terminal ends the command later, with nothing changed. So does a statement
\* that fails: the targets of the work order then have no state.
LoadTargets(allow) ==
    /\ pub = NoPub
    /\ receipt = NoReceipt
    /\ TargetsTerminal(allow)
    /\ pub' = [pc |-> "ops", allow |-> allow, want |-> Referenced, blind |-> FALSE]
    /\ UNCHANGED <<run, receipt>>

\* The operation rows, in a statement of their own.
LoadOps ==
    /\ pub.pc = "ops"
    /\ pub' = IF OpsTerminal(pub.allow) THEN [pub EXCEPT !.pc = "assemble"] ELSE NoPub
    /\ UNCHANGED <<run, receipt>>

\* That statement raises sqlite3.OperationalError (the run holds the database for
\* longer than the default timeout, or the read fails): the operations count as
\* none, and no row is left that _validate_run_terminality could refuse.
LoadOpsFails ==
    /\ pub.pc = "ops"
    /\ pub' = [pub EXCEPT !.pc = "assemble", !.blind = TRUE]
    /\ UNCHANGED <<run, receipt>>

\* _collect_payload_bytes and _validate_referential_integrity, a body that is
\* not on disk refuses the publication; then publish_node installs the snapshot.
Assemble ==
    /\ pub.pc = "assemble"
    /\ pub' = IF pub.want \subseteq staged THEN [pub EXCEPT !.pc = "published"] ELSE NoPub
    /\ UNCHANGED <<run, receipt>>

WriteReceipt ==
    /\ pub.pc = "published"
    /\ receipt' = pub
    /\ pub' = NoPub
    /\ UNCHANGED run

\* Killed, or refused as stale by publish_node. Without a receipt the next
\* command starts from the beginning and installs another snapshot.
PublishEnds ==
    /\ pub # NoPub
    /\ pub' = NoPub
    /\ UNCHANGED <<run, receipt>>

Publishing ==
    \/ \E allow \in BOOLEAN : LoadTargets(allow)
    \/ LoadOps \/ LoadOpsFails \/ Assemble \/ WriteReceipt \/ PublishEnds

PNext == (Next /\ UNCHANGED pvars) \/ Publishing

PSpec == PInit /\ [][PNext]_<<run, pvars>>

-----------------------------------------------------------------------------

\* What a receipt promises for good, without --allow-errors: although publish
\* takes no run lock, every target is as it read it for every later command, and
\* every acquired body is in the snapshot, which is what lets
\* cleanup_transient_run remove the staging tree on the receipt's word. The
\* operations are final too, unless their rows could not be read: then the
\* receipt says nothing of them, and they may be pending or have failed.
ReceiptIsFinal ==
    receipt # NoReceipt /\ ~receipt.allow =>
        \A t \in Targets :
            /\ target[t].outcome \notin {"pending", "failed"}
            /\ target[t].outcome = "acquired" => target[t].body \in receipt.want
            /\ receipt.blind \/ \A o \in Ops : oper[t][o].status \in {"blocked", "succeeded"}
=============================================================================
