-------------------------- MODULE SnapshotRepository --------------------------
(***************************************************************************)
(* What a snapshot store promises to the pipelines that use it, without    *)
(* its lock files, directories and transactions: names point at published  *)
(* snapshots, a publication replaces the tip its publisher looked at or    *)
(* fails, and what a name keeps can be read until some publisher writes    *)
(* over files in place. SnapshotDag implements it.                         *)
(***************************************************************************)
CONSTANTS Snapshots, Pointers, Publishers, None

VARIABLES
    published,  \* snapshots that can be named
    readable,   \* those whose whole lineage can be read
    ref,        \* what each name points at
    attempt,    \* what each publisher is about to publish, and the tip it saw
    writing     \* publishers that write over files in place

vars == <<published, readable, ref, attempt, writing>>

Idle == [snap |-> None, name |-> None, expected |-> None]
Kept == {ref[n] : n \in Pointers} \ {None}

Init ==
    /\ published = {}
    /\ readable = {}
    /\ ref = [n \in Pointers |-> None]
    /\ attempt = [p \in Publishers |-> Idle]
    /\ writing = {}

\* A publisher looks at the tip and prepares a snapshot to go on top of it; one
\* that wrote in place is done with that.
Begin(p, n, s) ==
    /\ attempt[p] = Idle
    /\ attempt' = [attempt EXCEPT ![p] = [snap |-> s, name |-> n, expected |-> ref[n]]]
    /\ writing' = writing \ {p}
    /\ readable \subseteq readable'
    /\ readable' \subseteq published
    /\ UNCHANGED <<published, ref>>

\* A publisher starts to write over files in place: whoever shares them is
\* unreadable from now on.
Overwrite(p) ==
    /\ p \notin writing
    /\ writing' = writing \cup {p}
    /\ readable' \subseteq readable
    /\ UNCHANGED <<published, ref, attempt>>

\* It has written them all.
Written(p) ==
    /\ p \in writing
    /\ writing' = writing \ {p}
    /\ readable \subseteq readable'
    /\ readable' \subseteq published
    /\ UNCHANGED <<published, ref, attempt>>

\* The name still points at the tip that was looked at: it moves to the new
\* snapshot, and everything that could be read still can.
Publish(p) ==
    /\ attempt[p] # Idle
    /\ ref[attempt[p].name] = attempt[p].expected
    /\ ref' = [ref EXCEPT ![attempt[p].name] = attempt[p].snap]
    /\ published' = published \cup {attempt[p].snap}
    /\ readable \subseteq readable'
    /\ readable' \subseteq published'
    /\ attempt' = [attempt EXCEPT ![p] = Idle]
    /\ UNCHANGED writing

\* Refused, or killed: nothing that is published changes.
Abandon(p) ==
    /\ attempt' = [attempt EXCEPT ![p] = Idle]
    /\ writing' = writing \ {p}
    /\ UNCHANGED <<published, readable, ref>>

\* An operator points a name at something published, or unsets it.
Point(n, s) ==
    /\ s \in published \cup {None}
    /\ ref' = [ref EXCEPT ![n] = s]
    /\ UNCHANGED <<published, readable, attempt, writing>>

\* Files come and go: unnamed snapshots may disappear, others become readable;
\* what a name keeps and could be read can still be read.
Housekeep ==
    /\ published' \subseteq published
    /\ Kept \subseteq published'
    /\ (readable \cap Kept) \subseteq readable'
    /\ readable' \subseteq published'
    /\ UNCHANGED <<ref, attempt, writing>>

Next ==
    \/ \E p \in Publishers :
          \/ \E n \in Pointers, s \in Snapshots : Begin(p, n, s)
          \/ Overwrite(p)
          \/ Written(p)
          \/ Publish(p)
          \/ Abandon(p)
    \/ \E n \in Pointers, s \in Snapshots \cup {None} : Point(n, s)
    \/ Housekeep

Spec == Init /\ [][Next]_vars
=============================================================================
