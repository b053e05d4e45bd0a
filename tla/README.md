# Verification of edgar_sec

`edgar_sec` acquires SEC filings in resumable runs and publishes what it derives
as immutable snapshots. Its engine (filing parsers, tables, XBRL) is pure; what
can go wrong in ways a test hardly reaches is in `infra/` and `pipelines/`:
processes that share files, SQLite databases and lock files, and that may be
killed at any point. This project models those protocols in TLA+, checks them
with TLC on small instances and proves their safety with TLAPS.

## The system

| Component | State | Operations | Interacts with |
|---|---|---|---|
| Snapshot DAG (`infra/storage/dag`) | SQLite catalog of nodes, branches, tags; one directory per snapshot; two lock files | `publish_node`, `checkout_tip`, branch/tag create and delete, `compact_lineage`, `gc` | every pipeline publishes through it, every reader walks lineages |
| Snapshot writers (inventory, acquisition, metadata, filing catalog, XBRL review) | staging directory, expected tip | stage, publish | snapshot DAG |
| Run locks (three variants) | lock file, `.recovery` file | take, recover a dead owner's, close | every run takes one |
| Acquisition run (`document_acquisition`) | run-state tables, staged bodies, result manifests | `run`, `process`, sweep | run lock, SEC broker, engine handlers |
| Acquisition publication and cleanup | publication receipt, staging tree | publish, cleanup, discard | snapshot DAG, run lock |
| Metadata sync, document inventory | chunk checkpoints, run lock | plan, work, merge, resume | broker, snapshot DAG |
| SEC HTTP and broker | slot clock, interval, connections | acquire a slot, throttle, fetch | workers |
| Cohort store | catalog, leases, staging | ingest, publish, delete, maintain | pipelines |
| Engine, domain, foundation, apps, tools | none that is shared, but for `engine/selection/snapshot_build.py`, which publishes to a DAG of its own without lock and comparison | pure functions, menus, generators | — |

What makes the parts correct, and is hard to test:

* **Snapshot DAG**: a name always resolves to a recorded snapshot with its files;
  a publication never overwrites another; collection never damages what a name
  keeps. Hard: publishers, operators and gc interleave; any of them may be
  killed between a file operation and a transaction, or in the middle of a copy
  or an `rmtree`; ids are published again, sometimes with other parts.
* **Run locks**: one owner; a live owner is never displaced; an attempt ends.
  Hard: concurrent recoveries, half-written files, processes that exit between a
  read and a test.
* **Acquisition run**: the tables, the bodies and the manifests agree after any
  interruption; a resumed run finishes what is left; what is published is the
  final state of the run. Hard: pool threads outlive the loop, the sweep runs
  outside the lock, one transaction per attempt, `publish` reads without the lock.
* **Cohort store**: a registered cohort keeps its dataset through deletion,
  rollback, kills and maintenance; kept datasets are spared; the lock is given
  back. Hard: one id names several datasets, leases are judged from another host,
  a heartbeat thread needs the lock its process holds, deletions take two steps.
* **SEC client and broker**: requests are paced whatever the throttling, end, and
  get their own answer; failures stay within their budget. Hard: slots reserved
  before a 429 arrives, a retry while the first request is still being served.

`PROJECT.json` lists the hazards with their lines, and the properties for each.

## Modules

`SnapshotDag` — `row`: the catalog's manifests; `disk`: what is in each id's
directory (nothing, a complete content, or a torn or mixed state); `ref`: branches
and tags; `locks`: holders of `catalog.sqlite` (locked by `publish_node`) and
`.publication.lock` (locked by `purge_unreferenced`); `pub`, `op`, `gc`: where each
process is. A manifest has parent, pin, parts (directory and content) and a stamp,
its `created_at`: an id published again has another `manifest_sha256`. Publishers
are the pipelines' own: `StageDelta` (inventory, acquisition, XBRL review),
`StageCatalog` (filing catalog, whose directory must not exist), `StageCompact` and
`StageImport` stage a directory; `StartMerge` and `PlanAugment`, `StartCopy`,
`FinishCopy` copy parts into the snapshot's directory in place, whether or not that
id is published, and augmentation also lists the parts of its base, which need not
be the tip. All then go through `AcquireLock`, `CompareTip` or `StaleParent`,
`MoveDir`, which takes a directory that is already there as it is, and `Commit` or
`CommitRefused` (the recorded parts differ). Operators' commands are two
transactions (`CheckSnapshot`, `WriteRef`) or one (`DeleteRef`). gc is
`analyze_retention` without the lock, then `purge_unreferenced`: lock, second
analysis, `Removable`, and per snapshot `GcRemoveStart`, `GcRemoveEnd` and
`GcDeleteRow`; a kill inside `rmtree`, a copy or a move across file systems
(`CrashMove`) leaves a torn directory. `Lineage` is the least set closed under the
recursive query, written without recursion so that it can be proved about. The
parts of a directory are abstracted to one content; `PinField` is the digest a
store's publishers put in a parent link.

`RunLock` — the lock file's owner, whether its payload is complete, the
`.recovery` file, and the program counter of each process; `variant` selects the
implementation. Each system call is a step, including the gap between reading
an owner and testing its pid. A process may fail to write, be killed, or exit.

`AcquisitionRun` — target and operation tables, result manifests, staged bodies,
the run lock (taken in one step, which `RunLock` justifies) and commands. `Fetch`
is a whole `acquire_target`, with the reports it can give; `CommitTarget` is the
transaction that stores it and refreshes readiness; `Execute`, `ExecuteRaises`
and `RecordAttempt` are `process_acquired_target`. `Abort` is an exception or
interrupt, whose `finally` clauses run; `Crash` runs nothing.

`AcquisitionPublication` extends it with `publish_acquisition_run`: the target
rows (`LoadTargets`), the operation rows (`LoadOps`, or `LoadOpsFails` when the
statement raises and the rows count as none), the payloads and the installed
snapshot (`Assemble`) and the receipt (`WriteReceipt`), interleaved with
whatever the commands do. A snapshot is the set of bodies in it.

`SnapshotRepository` — what a snapshot store promises, without locks, directories
and transactions: names, published and readable snapshots, publication attempts,
and publishers that write over files in place (`Overwrite`, `Written`).
`SnapshotDagRefinement` maps `SnapshotDag` to it: rows are published, a snapshot
whose lineage resolves with its parts on disk as recorded is readable, an attempt
is what a publisher is about to publish together with the tip it has read.

`CohortStore` — the tables (`rows`, with the registered digest, `detached`,
`active`), cohort directories (their dataset, if any, and the `.detached` marker),
`.stage-purge-` directories, staging directories, heartbeat threads and the `flock`.
A generic id hashes the CIKs only, so one id may be ingested with several datasets
(`Contents`), and a purge directory may hold another one than the row names. Purge
directories with the same contents count as one. A lease may look expired to another
host at any time, since a process may wait for the lock or be suspended for hours;
on its own host a live process is never taken for dead. `_publish_query` is `Look` to `Cleanup`, with the repair of an
official source as `Relock`, `Recheck`, `Mend` or `Restage`; `CohortWorkspace.save` shares
its steps; `delete_cohort` is `Check` to `Purge`; maintenance has one action per
directory it treats. Sections that hold the lock are still several steps: a kill
may hit between them and readers do not take the lock.

`RateLimiter` — `_interval`, `_next_slot`, `_cool_until` and `_last_throttle` as
what remains of them in ticks, and the retry loop of `get_bytes` in threads that
sleep outside the limiter's lock and may oversleep. `held`, the end of the latest
cool-off signalled so far, is kept for the property only. The recovery of a tenth
of the excess is any smaller interval, the factor 1.5 is rounded up to a tick.

`SecBroker` — calls of `SecBrokerClient`, one socket per worker with requests and
answers on their way, a broker thread per connection, the semaphore, the response
cache and the failure ledger; a refused connect costs an attempt. The requests of
one `get_bytes` are a single step with its outcome (`Succeeds`, `Fails`): their pacing is `RateLimiter`'s subject.

Theorems are in a module of their own per component: `SnapshotDagProofs`,
`SnapshotDagRefinementProofs`, `RunLockProofs`, `AcquisitionRunProofs`,
`AcquisitionPublicationProofs`, `CohortStoreProofs`, `RateLimiterProofs`,
`SecBrokerProofs`. The `MC` modules only add symmetry sets and constants.

## Runs

| Run | Instance | Shows |
|---|---|---|
| `dag` | 2 ids, 2 contents, 3 publications, 1 branch, 1 tag, 2 publishers | what names keep is damaged by copies in place only, commits are compare-and-swap and install intact tips, and the store implements `SnapshotRepository`, when operators run apart |
| `dag_gc_race` | 3 ids, 2 branches, operators not kept apart | gc deletes the row a branch has just been moved to |
| `dag_torn_purge` | 3 ids, 2 branches | a checkout accepts a snapshot whose files gc has removed |
| `dag_pin` | 3 ids, `logical_fingerprint` pins | the second publication yields a tip that does not resolve |
| `run_lock` | 3 processes, 2 hosts, all variants | mutual exclusion, live owners kept, attempts end |
| `run_lock_displaced` | metadata variant, undisciplined operators | a live owner's lock is unlinked |
| `acquisition` | 2 targets, 2 operations, 2 files, 2 commands one after the other, a publisher at any time, failing reads | bodies, manifests, tables agree; a finished loop is complete; a receipt without `--allow-errors` is final |
| `acquisition_sweep` | 1 target, 2 overlapping commands | a refused command sweeps a live one's body |
| `acquisition_reuse` | 1 target, 2 operations | a kill while a failure is recorded blocks the target for good |
| `cohort` | 1 cohort, official or not, 2 datasets, a process with all 8 commands beside one that ingests, on 2 hosts | registered datasets stay on disk, kept datasets are spared, pointer valid, lock given back |
| `rate_limiter` | 3 threads, interval 1 to 5 ticks, Retry-After beyond the caps, 1 retry | slots apart and outside cool-offs, requests end |
| `sec_broker` | 1 worker, 3 connections, 2 permits, budget of 1 failure, 1 URL | no call gets another call's answer; the ledger's overshoot is bounded |

Bounds. Two ids give a checkpoint and a delta on it, a shared directory with its
owner and its user, and, with two contents and three publications
(`MaxPublications`), an id that is published again with the same or other parts
over a torn, mixed or complete directory; two publishers give every race of the
compare-and-swap. The violation runs have a third id and one
content. Three processes give an owner that dies, a recoverer and a second recoverer
or newcomer; processes are used once. Two commands give an
interrupted run and its resumption; two file names let an orphaned body coexist
with a committed one, or both targets have theirs. Cohorts share only the lock, so
one cohort and two processes give the races on a directory; only ingestion and save
work outside the lock, hence one process with every command beside an ingestion.
Processes on two hosts can do all that processes on one can, and sweep each other's
stages. `MaxPurged` = 2 purge directories with different contents let maintenance
choose the wrong one. Three threads give two reserved slots and a 429 between them; a probe confirmed that a
later throttle does shorten `_cool_until` in this instance. One worker with three
connections has two abandoned requests still being served while it sends a third.
Snapshot ids, processes, targets, files and
commands are interchangeable, hence the symmetry sets; `run_lock`,
`cohort` and `rate_limiter` check liveness and use none. Deadlock is checked except where the system may
stop: run locks and acquisition end when every process or command has been used.

`Apart` in `dag` is an assumption, not something the code enforces: with `"pointer"`
operators run checkout, branch and tag, with `"purge"` the locked half of gc, while
nothing else uses the store. `dag_gc_race` drops both; without `"pointer"` alone
`CommitIsCAS` is violated. `Overlap = FALSE` in `acquisition` likewise says a
command is started when no other one runs; the lock alone does not give this, as
`acquisition_sweep` shows.

Fairness is weak fairness of a process's own steps, everywhere: in `run_lock` a
process that was started and is not killed keeps running, and no step waits for
another process; in `cohort` likewise, and a heartbeat thread that is due gets the
lock once it is free for good (waiting for a busy `flock` is not assumed fair); in
`rate_limiter` time passes, threads are scheduled, and a request that was sent has
an answer or times out, as `timeout_s` guarantees. `sec_broker` and the others
check safety only.

Five properties name a case in which the code does go wrong, and promise the rest.
TLC finds each of them violated when its case is not named:

* `RootsStayIntact` and `SnapshotRepository` (`Copying`, `Overwrite`): a merge or an
  augmentation under an id that is in use copies over the parts of that snapshot
  (`merger.py:388`); until the copy is done, or for good after a kill, it is damaged.
* `CommitInstallsIntactTip` (`BuiltWell`): a directory that a killed `rmtree`, copy or
  move left under the same id is taken as it is (`publication.py:111`) and becomes
  the tip; nor does a commit mend a parent that was damaged before.
* `ReceiptIsFinal` (`blind`): when the operation rows cannot be read, none is checked
  (`writer.py:119`), and the receipt says nothing of them. It also is about
  publications without `--allow-errors`; with it, what a later `run --retry-failures`
  acquires is in no snapshot and the receipt refuses another publication.
* `RegisteredKeepsDataset` (`Overridden`): a purge directory is removed when the
  cohort's directory is there, whatever is in it (`maintenance.py:446`), so the
  registered dataset is lost after an older or torn one was put back first, or a
  late publication of another dataset has taken the place of a killed deletion.
* `LockReleased` (`JoinsItself`): the repair of an official source joins its
  heartbeat thread while it holds the lock the thread asks for after 30 s
  (`ingestion.py:331`, `paths.py:279`), and waits for itself for ever.

`BudgetHolds` is about one broker. Each acquisition or inventory command starts a
broker of its own and metadata sync uses `SecHttpClient` directly; on one `cache_root`
they share the ledger, and each adds its own overshoot.

## Findings

1. gc and publishers lock different files (`retention.py:148`, `publication.py:101`).
2. gc removes a directory before its row; `has_snapshot` looks at the row only.
3. Acquisition and XBRL review pin `logical_fingerprint` where the lineage walk
   compares `manifest_sha256`; the second publication of such a store cannot be
   walked.
4. The metadata (and inventory) lock recovery does not compare the owner again.
5. The staging sweep of `run` is in a `finally` clause outside the lock.
6. A failed pass is recorded operation by operation without a manifest; killed in
   between, or with an "unsupported" sibling, the rest can never be executed.

## Proofs

`SnapshotDagProofs`: `TypeCorrect` from the constants' assumption alone; its
invariant (`TypeInv`) adds that a publisher has an id and a manifest (`Named`).
`CommitIsCAS` assumes `"pointer" \in Apart`: a publisher past the lock holds it
(`LockHeld`), and past the comparison the tip is still the expected one
(`CasInv`: `PointerAlone`, `TipUnmoved`); gc may run beside it. The other theorems
assume `"purge" \in Apart`. Their invariant (`SafeInv`) says that names and what an
operator has checked are recorded (`RefsRecorded`, `CheckedRecorded`), that a purge
runs alone (`PurgeAlone`), that what gc still has to remove lies outside every root's
lineage and holds no part of a snapshot that stays (`PurgeIsSafe`), and of every
publisher that a directory it copies into is not complete, that one in place is
there, and that the parent of its delta is recorded and pinned as recorded
(`BuildsOn`). `RootsStayIntact` then needs that a lineage is the least closed set,
that it does not change when nodes are added or removed outside it, that a recorded
row is never rewritten, that `Removable` protects every part of what stays, and that
a publisher changes a complete directory only by starting to copy into it
(`DiskStep`). `CommitInstallsIntactTip` also assumes `manifest_sha256` pins.

`RunLockProofs`: mutual exclusion and `LiveOwnerKeepsLock` need that the lock file
names every process that believes it created it (`OwnerIsNamed`), that one
process at a time is behind `.recovery`, and that what it will unlink belongs to
a dead process: for the acquisition lock because the second read names the owner
that was tested, for the other two because the operator confirmed a dead
owner to one process at a time (`Disciplined`, `Attested`).

`RateLimiterProofs`: for any number of threads, any bounds and any Retry-After
values. `SlotsApart` is not inductive: a new slot has to lie behind all that are
still ahead. The invariant adds that `_next_slot` is at least the minimum interval
behind every pending slot (`SlotBehindPending`); `SlotsAfterCoolOff` needs
that every cool-off signalled so far ends before `_next_slot` or `_cool_until`
(`CoolOffHeld`), which holds because a later throttle finds an interval no smaller
than the earlier delay. Backoff times are a constant function, since the provers
have no exponentials.

`SnapshotDagRefinementProofs`: `SnapshotDag` implements `SnapshotRepository`, with both
kinds of commands apart, from `TypeInv`, `SafeInv` and `CasInv`. Step by step: staging,
and a copy that reads the tip when it ends, is `Begin`; the first write of a copy is
`Overwrite`, its end otherwise `Written`; taking the lock and comparing are invisible;
a stale parent, a refused row and a kill are `Abandon`; the commit is `Publish`, where
`TipUnmoved` gives the compare-and-swap; moving a directory in place and every step of
gc are `Housekeep`, because what the roots keep stays readable; operator commands are
`Point`, or invisible when a tag was taken meanwhile.

`AcquisitionRunProofs`: for any numbers of targets, operations, files and commands.
What the tables say holds whether commands overlap or not, from the run lock
alone (`TableInv`): the command in the loop holds the lock (`WorkerHoldsLock`), the
attempts it still has to record are those of the target it processes and their
successes are in the manifest already (`PlanHasTarget`, `PlanHasResult`), and what
is pending is still to be visited, being fetched or being processed
(`NothingForgotten`). `SucceededHasResult` and `LoopDoneMeansComplete` are not
inductive without the last three, since a target is recorded operation by
operation after its manifest was written. `BodiesRemain` assumes
`Overlap = FALSE`, which the code does not enforce: the sweep is outside the lock, so
its proof needs that one command is active (`OneActive`), that a reported body is
on disk until it is committed, and that what the sweep keeps is all the tables name
(`SweepKeepsReferenced`). `acquisition_sweep` shows that the assumption cannot be
dropped.

`AcquisitionPublicationProofs`: the publishing steps leave the run's variables alone, so
the invariant above carries over. `ReceiptIsFinal` needs that what was
read stays true while the rest is read (`ReadIsSettled`): a target that is neither
pending nor failed and an operation that has succeeded or is blocked are never
eligible again, whatever the commands' options; of operations that were not read it
claims nothing. No assumption on overlap.

`CohortStoreProofs`: for any numbers of cohorts, datasets, processes and hosts, without
further assumptions. The invariant (`StoreInv`) says of every process that its label
belongs to its command (`Role`), that it holds the publication lock exactly in the
sections under it (`Holds`), that staging directory and heartbeat exist only
between their creation and their end (`Owned`), and what a section has established
and still relies on (`Section`): the row that is being repaired is still the one that
was compared, the row that is being deleted is there and not official, the directory
that was set aside is still set aside, the row is gone before the purge, a directory
about to be registered has no marker. `ActiveIsRegistered` needs `Section`, because a
deletion checks and deletes in different steps while the pointer is set without the
lock. `RegisteredKeepsDataset` needs it where a deletion is rolled back, a dataset
repaired or a row added, and `DetachedKept` where a registration is withdrawn. Both
action properties follow step by step: for the steps under the lock from `Holds`,
which excludes any other writer, for the steps of readers and heartbeats because
they touch neither.

`SecBrokerProofs`: for any numbers of workers, connections and URLs, the connections
finite. `AnswerIsOurs` holds although `fetch` compares no request ids, because a
connection carries one request at a time: no two workers share one (`OwnSocket`),
what is on a worker's connection is its own call, which is in the request queue,
with the thread or answered, and nowhere twice (`OwnTraffic`), and a worker that times
out leaves its socket for good (`Abandoned`). `BudgetHolds` is not inductive: several
fetches of one URL may pass the preflight check before the first of them fails.
The invariant counts each fetch under way as a failure (`BudgetReserved`): a fetch that
passes the check saw fewer runs than the budget, and the semaphore
(`SemaphoreHeld`) admits at most `MaxConnections` at a time.

The invariants are defined in the proof modules; the constants' assumptions are in
the modules that declare them and are evaluated by the runs.

Only model-checked: liveness (`EveryAttemptEnds`, `LockReleased`, `RequestsEnd`), which
is beyond TLAPS; `RefsRecorded`, which is a part of `SafeInv` and has no theorem of its
own, since the assumption it needs leaves out the collections that break it; and the
counterexamples of the runs that expect a violation.

## Not modelled

Content of filings and everything in `engine/`, `domain/`, `foundation/`, `tools/`,
which is by far the largest part of the repository: pure functions over text and
tables whose correctness is about document content. Menus and viewers; the rows
the writers compute; `record_node` of filing catalogs that are not durable; the run
locks of merge and augment (the model lets them overlap, which is more than the
code allows on one host); import manifests with more than one foreign directory; the
DAG writer of `engine/selection/snapshot_build.py`; the SEC requests inside an acquisition's fetch; body
consumption receipts; `cleanup_transient_run`, which no command calls; streamed
files of the broker and `stream_to_file`, which parses Retry-After with a plain
`float` (a NaN is accepted there) where `RateLimiter` models `get_bytes`; several brokers
on one ledger; names, tags, aliases and family indices of cohorts; chunk
checkpoints of metadata sync and the inventory coordinator; pids that are used
again; loss of data a file system has acknowledged.

## Plan

1. Chunk checkpoints of metadata sync and the inventory coordinator: a module, its
   run and its theorems.
2. Theorems about what remains true without the operator's discipline: which parts
   of `SnapshotDag`'s invariants survive an empty `Apart`, beyond `TypeCorrect` and the
   publishers' lock.
