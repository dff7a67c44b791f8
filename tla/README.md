# A verification of the BCK backup system

BCK is a backup system in Rust: a daemon (`bckd`) with a REST and a gRPC API, a
library (`core`) with everything the daemon does, an agent, a CLI and a web UI.
This directory models what keeps the backups (how a run writes its snapshot, how
snapshots are deleted, moved to other tiers, read and restored), what starts and
stops work (job runs, the scheduler, leadership, agents, recoveries, failovers),
and the services around it (keys, tape, cloud, Microsoft 365, tenants, sessions,
the inventory, the protocols that export a disk).

TLC checks the models on small instances; TLAPS proves the most important
properties for every value of the constants. `PROJECT.json` lists the
components, the runs, the line each definition is translated from, the hazards
of the code with the properties that watch them, and plausible bugs that each
property catches (the `Mutant...` operators).

```
tlc -workers 2 -config SnapshotStore.cfg MCSnapshotStore     # a run
tlapm SnapshotStoreProofs.tla                                # the proofs
```

## 1. The system

| component | state it keeps | operations | talks to | what is hard |
|---|---|---|---|---|
| **JobManager** `core/job` | maps `runtimes`, `handles`, `cancels`; tables `backup_jobs`, `job_sessions` | `start_job`, `cancel_job`, `delete_job`, `update_job`, `reconcile_startup`; the spawned `run_backup` | scheduler, queue, REST, gRPC call it under one mutex; runs work without it | a run that ends between two awaits of a cancel; callers that go away; abort after 10 s; restart |
| **VM images** `core/backup/vm`, `restore`, `explorer` | the manifest of a VM's disks | read changed blocks or whole disks; restore, download, export | hypervisor, pipeline | gaps, order of disks, four readers that place blocks each in its own way |
| **Pipeline, block index** `core/pipeline`, `dedup`, `index` | `index.db`: block refcounts, manifests, snapshot rows | look up, write, record, save manifest, release | every run, retention, SOBR, restore | two databases and a file store without a common transaction |
| **Snapshots, retention, GC** `core/job`, `routes/snapshots` | table `snapshots`, `repositories.used_bytes` | insert, `apply_retention`, `delete_snapshot_with_gc`, DELETE route | index, storage, legal holds | deletion from REST and from a run at the same time, stops in the middle |
| **Storage backends** `core/storage` | files, or objects of S3, GCS, Azure | write, read, delete | pipeline, GC, SOBR, restore | machine failures between write, sync and rename; writers of one id; lost answers |
| **Chunker** `core/chunker` | a buffer per file | boundary search, streaming reader | pipeline | cuts that must not depend on the reads; limits |
| **Encryption keys** `core/encrypt` | key file, `repo_deks` | load, create, wrap; a data key per repository | pipeline, every reader | loads that race, each reader choosing its own key |
| **Legal holds** `core/db` | table `legal_holds` | place, release, consult | DELETE route | hold read before the mutex is waited for; query that fails open |
| **HA leadership** `core/ha`, `bckd/main` | row `leader_lock`, flag `is_leader` | heartbeat every 15 s, TTL 45 s | the queue drain, job creation, restores and the managers' snapshots read the flag | skewed clocks, late heartbeats, restarts |
| **Durable queue** `core/db`, `bckd/main` | table `job_queue` | enqueue, claim, start, finish | drained once a minute by the node that believes it leads | claim in several statements, results dropped, crash after the claim |
| **Scheduler** `core/scheduler` | in-memory table of jobs with `next_run` | tick every 15 s, start, add, update, remove | JobManager; the job routes and the VM backup route | edits between collection and start; several daemons |
| **Restore engine, tracker, explorer** `core/restore` | restore sessions, target files | restore, download | manifests, blocks, agents | blocks that go or rot meanwhile; two restores of one file; what a failure leaves |
| **Restore portal** `restore/requests` | requests `Pending → Approved / Rejected / Cancelled`, `Approved → Completed` | submit, approve, reject, cancel, complete | persisted with the managers | whole list written once a minute by whoever thinks it leads |
| **Instant recovery, SureBackup** `restore/instant`, `restore/surebackup` | registry, tokens, tracker, verifications | start (NFS, iSCSI, VM), migrate, stop; verify | hypervisor | token registered after the task is spawned; two ids for one session; ports |
| **Disk export protocols** `restore/instant/iscsi`, `nfs` | connections | login, capacity, read; mount, lookup, read | the recovered host | lengths and padding, limits, numbers that wrap |
| **SOBR** `core/sobr` | tiers, policies, seals; placements of one execution | move, archive, seal, retain | the same index as the pipeline | releases references of backups that go on existing; executions overlap and rewrite seal lists without a lock; a list that cannot be read is empty |
| **CDP** `core/cdp` | sessions, journal, bounded channel of 1024 | start, stop, watch, journal | file events | events dropped at the limit or by an error of `notify`; a watcher that outlives its loop; a restart forgets what is in memory |
| **DR** `core/dr` | plans, one shared status | failover, failback, test | hypervisors | plans not excluded from each other |
| **Persisted managers** `core/db`, `bckd/main` | JSON snapshot of each manager | write every 60 s on the leader, hydrate at boot | portal, DR, SOBR, ... | what happened since the last write is lost |
| **Agents, gRPC** `core/api`, `routes/agents`, `agent` | agent rows, task rows | register, heartbeat, poll, run, report | operators' routes | reports lost or late, restarts under a new id; the shipped agent does not use the token it is issued |
| **Tape** `core/tape` | drives, pool, files of virtual tapes | format, load, write, read, retain | | append and format without a lock, reserved index; a format that stops half-way |
| **Cloud** `core/cloud` | accounts, record of restores | register, submit | providers | resource created before it is recorded; errors told apart by their words |
| **Microsoft 365** `core/m365` | registrations, jobs | register, start, walk | Graph | listings that users change; whose registration |
| **Inventory** `db/hypervisor`, `routes/hypervisors` | rows of hypervisors and VMs, backup mark | add, test, discover, delete, mark | connectors, VM jobs | answers written out of order |
| **Tenants** `enterprise/multitenant` | rows behind a cache per daemon | create, set, delete | routes | stale caches, whole rows written back |
| **Sessions, SSO** `core/auth`, `enterprise/sso` | revoked tokens in memory and table, failed logins, pending flows | login, logout, authorize, callback | every route | memory that is bounded and lost; attempts that overlap |
| compression, throttle, stream; ransomware, validation, scanner | none shared | transformations and checks | pipeline | unit tests reach them |
| audit, events, reports, dashboard | rows | append, query | routes | no protocol between actors |
| CLI, web UI | none | clients of the REST API | | |

What makes each modelled component correct:

* *pipeline, index, snapshots*: what the API lists can be restored; whatever is
  interrupted, a listed snapshot has its manifest, a block the index knows is
  in the repository, and what is left behind is explained by something that was
  stopped;
* *VM images, restore, chunker, keys, storage*: every reader of a backup makes
  the same of it; what a restore calls completed is what was backed up; a block
  is whole or absent; the key stays the same;
* *JobManager*: a job has one run at a time; a session that says running has
  somebody who will end it; a job refuses a start only while it is busy; a
  cancel reaches the run; a reported outcome is final; the hypervisor snapshot
  is removed;
* *HA, queue*: who leads on recent information owns the lock; an entry of one
  drain is started once and does not get stuck (two drains that have selected it
  both start it: `queue_double_fires`);
* *scheduler*: a slot is fired once; an edit is honoured at once; what is due is
  fired;
* *agents*: a task runs twice only when a report of it was lost or late (that it is
  answered at all cannot be claimed, see the disagreements of section 4);
* *portal, DR, recovery*: what a caller was told stands; a failover that was
  committed over a connector has its VMs on; a stop leaves no server, no migration, no VM behind;
* *SOBR, CDP, tape, cloud, M365*: data that is moved, journalled, written or
  created is there, or one of a few named circumstances has occurred;
* *inventory, tenants, sessions*: what is cached or remembered agrees with the
  rows; an answer does not undo a newer one; what was revoked stays revoked.

## 2. The plan

Written, in this order:

1. `SnapshotStore` with `SnapshotCatalog` (the abstract promise): the data.
2. `JobManager`: the control of the runs that write and delete the data.
3. `Cluster`: leadership and the queue, which call `start_job`.
4. `Scheduler`: the other caller of `start_job`, with all routes that write jobs.
5. `SnapshotStoreProofs`, `ClusterProofs`, `JobManagerProofs`: their safety.
6. The readers and movers of the data: `VmImage`, `FileRestore`, `TierPolicy`,
   `Cdp`, `KeyEnvelope`, `Chunker`, `BlockStore` with `AtomicBlocks` (the abstract
   promise), `Tape`, `CloudRestore`, `M365Backup`, `DiskWire`; `MCServices`.
7. The control plane: `RestorePortal`, `DrFailover`, `Tenants`, `Inventory`, `Sessions`,
   `Agents`; `MCControl`. `InstantRecovery`, with `TierPolicy` in `MCLongCalls`: the two
   services in which several requests are long at work beside one another.
8. `MCLive`: the scheduler and the JobManager, whose liveness counts.
9. `ServicesProofs`, `StorageProofs`, `ControlProofs`: the safety of the readers and
   movers of the data and of the control plane, service by service.
10. `ControlPlaneProofs`, `ServicePlaneProofs`: the scheduler's safety, and that the two
    compositions are sound because their parts are.

What would come next:

* `Retention`: the GFS selection of `apply_retention` as operators, against a
  reference definition over bounded dates; `SnapshotStore` then takes it as an
  instance of its open choice.
* `TierPolicy` and `FileRestore` as further actors of the very stores of
  `SnapshotStore`. Each now has its own copy of blocks and references, because
  their product with the store's is beyond a run's time.
* Proofs: the store and the jobs as one composition. Every safety property of a
  passing run is the statement of a theorem (section 5).

No module that is proved about declares or reaches a RECURSIVE operator.

## 3. The modules

### SnapshotStore

Actors are runs (`Run`) and callers of `DELETE /snapshots/{id}` (`Client`). One
action is one statement of one store, or one call that is atomic in the code, so
every interleaving of the pipeline, of retention in the task of a run and of REST
deletions is a behaviour. `pc` says what a task does next:

```
chunk -> write -> record -> ... -> save -> index -> row -> used     the run
  retain -> prune -> gcrow -> gcrefs -> gcindex -> gcphys -> prune   its retention
idle -> wait -> gcrow -> gcrefs -> gcindex -> gcphys -> idle         a REST caller
```

| code | model |
|---|---|
| `blocks`, `manifests`, `snapshots` of `index.db` | `refs`, `saved` with `content`, `indexed` |
| `snapshots`, `used_bytes`, `legal_holds` of the application database | `rows`, `parent`, `created`; `used`; `held` |
| files of the repository | `stored` |
| `process_bytes`, `write_block`, `add_block` | `LookUp`, `WriteBlock`, `RecordBlock` |
| `save_manifest`, `add_snapshot`, `insert_snapshot`, `update_repo_used` | `SaveManifest`, `AddToIndex`, `InsertRow`, `UpdateRepoUsed` |
| `apply_retention` | `SelectPrune`, `PruneNext` |
| `delete_snapshot_with_gc` | `DeleteRow`, `ReleaseRef`, `DeleteManifest`, `DeleteIndexRow`, `DeleteBlock`, `EndDelete` |
| the JobManager mutex, which the DELETE route holds while it deletes and a start needs | `lock` |
| an error through `?`, `abort()`, a dropped request | `Stop` |
| the daemon dies | `Crash` |

Abstractions: a block is its identity (the SHA-256 of the plaintext), sizes are
counted in blocks. `created_at` has a resolution of one second in the code; here
two snapshots never share one. Which snapshots the GFS windows keep is left
open: any set that holds the newest. A snapshot has one hold or none. SOBR, which
works on the same index, is `TierPolicy`'s.

`users`, `released` and `debris` are history variables: the properties use them
to say *why* something may be missing or left over.

`SnapshotCatalog` is what a reader of the API is promised: a set of snapshots
with a content from `Source`; a snapshot appears whole, never changes, and
disappears in one step. `SnapshotStore` implements it with
`catalog <- [s \in rows |-> ManifestRefs(s)]`: the manifest is not a part of the
mapping's domain, it is what a restore would load for a listed snapshot, so the
refinement fails if any order of the statements lets a row be seen with a partial
or deleted manifest.

### JobManager

The three maps of the code, the session table, the phase of each spawned run and
the request that holds the mutex (`op`). A request is cut at every await; a run
does not take the mutex and interleaves with all of them. `CallerGone` drops a
request at an await (axum and tonic drop the handler's future), `Crash`, `Boot`
and `ReconcileStartup` are the daemon's life: `main` spawns the queue drain before
it calls `reconcile_startup`, so the model lets a start come before it, also on
the first boot.

`finish_runtime` is three actions, one per lock. `Die` is an aborted task that is
dropped at its next await; the call it had sent may still take effect. The
errors the code drops (the report of a run, the restart's UPDATE) and those it
returns in the middle (INSERT of the session, UPDATE of the cancel) are
disjuncts of their actions, bounded by `MaxFaults`. What a run does to the
repository is `SnapshotStore`'s; here it succeeds or fails.

History: `tried`, `unreachable` (a run whose map entries were taken by something
else than its own end or a completed cancel) and `stuck` (a job with a start, a
cancel or a status update that was cut short).

### Cluster

`leader_lock`, `is_leader`, and the queue. A heartbeat is cut in three: the clock
is read, the upsert runs, the flag is written; anything may happen in between.
Each node's clock is ahead of the common time by `Skew[n]`. A heartbeat counts as
lost when the statement fails, whether or not it had taken effect. A restarted
daemon has a new node id, so its old lock belongs to `Gone`. The claim of the
queue is a SELECT and one UPDATE per entry, as in the code, and an UPDATE that
fails is dropped (`unsaved`). Not in the model: the branch of `heartbeat` that
takes a missing table for leadership (a database that has not been migrated),
`LIMIT 20` and `run_at` of the queue. Nothing in the repository calls
`queue_enqueue`; `Enqueue` is the interface it offers.

### Scheduler

Several daemons with a table each over one database; the tick collects, then
fires one by one; each start waits in a task for a worker permit and the mutex
(`pending`, which holds a job once even if two starts of it wait). `CreateJob`,
PUT and DELETE change the row first and the table afterwards, without a lock in
between, and a caller that goes away in between (`DropRequest`) leaves the table
as it was. `StartVmBackup` is the hypervisor route that stores a schedule in the
row and adds no entry to the table, so the job is not scheduled before the next
boot. `Later` are the jobs that do not exist at first. All jobs have the same cron
expression. `stop` is called when the process ends.

### The services of the data (composed in `MCServices`, `TierPolicy` in `MCLongCalls`)

| module | what it models | what it abstracts |
|---|---|---|
| `VmImage` | a VM job's reads of each disk (`ReadDisk`: changed ranges or all of it, cut into chunks), the manifest (`SaveSnapshot`), a guest that goes on writing; the readers as operators: `Restored` (stream_restore, which orders the blocks of a file by offset and has one for each offset), `Extracted` (extract_file_range), `ReadBacked` (the NFS export), `LunRead` (the flat LUN with its cursor and its bases) | a disk is a few cells, and is listed once (`DiskAssumption`) |
| `FileRestore` | restores over REST (`vm`, `files`, with or without overwrite), over gRPC, and downloads, block by block: look whether the file exists, create, truncate, read, decode, check, write; blocks that disappear, rot or are mismarked; restart. Whether a block decodes is a question of the block (`Encrypted`), not of its snapshot, since a duplicate keeps the encoding it was first written in | a manifest is the blocks of each file by offset |
| `Chunker` | `find_chunk_boundary` with its rolling hash (a recursive function), `chunk_data`, and the reader that cuts as it reads | the hash modulo 16 instead of 2^64 |
| `KeyEnvelope` | `load_key` cut at the creation, the filling and the migration of the file; repository keys; a run's key from its start on; the three ways a reader chooses its key | a key is a number; ciphers decode with the right one |
| `BlockStore` | a local write as temporary file, data, sync, rename, with machine failures that keep any unsynced part; objects of S3, GCS and Azure with lost answers; deletes | a write's call stands for its bytes |
| `AtomicBlocks` | the promise of a backend: an id holds one write or nothing, whole | |
| `TierPolicy` | any number of executions of lifecycle policies at once: look a seal up, move, archive, seal, retain, each with the placements only its engine knows; the seal list as what `seal_backup` reads and, later, writes back; lists that cannot be read; an abort anywhere | a backup is a set of blocks, its age in days |
| `Cdp` | watcher with the events it drops (no room, an error of `notify`, an event of another kind), bounded channel, loop, journal table and file, checkpoint, stop, and a restart of the daemon at any point (`DaemonRestart`) | a change is a number |
| `Tape` | drives, pool, `format` cut at the truncation, the empty index and the entry in the pool (`FormatBegins`, `FormatFills`, `FormatRegisters`; it may fail or be left by its caller at each), and `append_file` cut at its reads and its write | a file has length 1; the reserved index holds `IndexMax` entries |
| `CloudRestore` | accounts, `submit` with what each of three connectors looks for, the provider's answer or its loss, an error whose text reads like missing credentials, restart | the provider is external: it creates, or not, and answers, or not |
| `M365Backup` | registrations, jobs, and the walk of mailboxes and drives while users move files; any request may fail | Graph is external |
| `DiskWire` | connections of the iSCSI target as a stream of PDUs (length, padding) and of the NFS server as records; reads at every boundary | bytes of an answer are what a client learns from it |

### The control plane (composed in `MCControl`, `InstantRecovery` in `MCLongCalls`)

| module | what it models | what it abstracts |
|---|---|---|
| `RestorePortal` | each daemon's list of requests, copies of it on their way to the one row, crash, and a boot that hydrates the row or, if it cannot be read or parsed, begins with nothing (`PortalBoot`); submit, approve, reject, cancel, complete with the policy of tenants and approvers | a request is its status |
| `InstantRecovery` | tracker, registry, server tasks that fail to bind or to accept for any reason, migration tasks, the VM on the hypervisor, whose answers may be lost, stop in its steps, the shutdown's drain, the SureBackup driver | what is exported is `VmImage`'s and `DiskWire`'s |
| `DrFailover` | the three operations VM by VM over one connector, or none, from any state of the VMs, and one status | a VM is on or off |
| `Tenants` | load, install, change, save and erase, cut at every await, on several daemons | a tenant is its status and quota |
| `Inventory` | every route as: read the row, ask the hypervisor, write; a VM job's mark | a VM is a version number |
| `Sessions` | logins of both kinds, tokens, logouts in memory and table, the bounded memory, the cleanup, SSO flows | one user name; verification of a signature is a yes or no |
| `Agents` | heartbeat, poll with its limit, run, report, loss, lateness and death | a task is its kind and its verdict |

Each of these modules starts from its code's own initial state and states its
own type invariant and its properties. They share no state with each other: the
code couples them only through calls whose effect is in the module of the
callee. `MCServices` and `MCControl` therefore hold them side by side with a
`focus` that names the one that moves: a run of them is the union, not the
product, of the instances; `MCLongCalls` and `MCLive` do the same with two each.
`MCLive` takes `JobManager` by INSTANCE, for both of its parts have jobs and a record
of what was fired. `Sessions` has three foci (logins, tokens, flows),
which do not touch each other's state either.

Where a property excepts a circumstance, a history variable says that it has
occurred (`unsettled`, `drift`, `raced`, `exposed`, ...). These are the known
weaknesses of the code, named one by one: the property shows that there are no
others.

## 4. The runs

| run | asks | states | bounds |
|---|---|---|---|
| `snapshot_store` | do the stores stay consistent and implement the catalog? | 1.4 M | 2 runs, a VM job and a file job in two repositories, 2 blocks, contents `<<b1,b1>>` and `<<b1,b2>>`, one REST caller, one holdable snapshot, capacity of 2 blocks in one repository |
| `job_manager` | do runs exclude each other, are sessions owned, do cancels reach? | 2.0 M | 2 runs of a VM job, 2 faults |
| `cluster` | is leadership safe, is each start of an entry explained? | 3.7 M | 2 daemons, skew 1, TTL 1, 1 entry, time to 2 |
| `services` | is what is read, recorded, cut, encrypted, written and exported accounted for? | 1.04 M | see below |
| `control` | do slots, verdicts, sessions, caches and rows stay as the callers were told? | 0.87 M | 2 daemons, 2 or 3 calls at a time, 1 agent with 2 tasks, polls of 1 and 2 losses, see below |
| `long_calls` | do recoveries leave nothing behind, do policies lose nothing, however requests overlap? | 2.6 M | 2 requests of the restore plane; 2 executions of 2 policies over 2 backups, a day |
| `live` | does what is due fire, does every session end? | 0.22 M | 1 daemon, 1 caller, 2 jobs in the same slot, time to 3; 2 runs of a file job, 1 fault |

Why the bounds are enough. Every property of the stores relates a run or a
snapshot to one other that shares a block, and to deletions: two runs, one more
deleter and a block used twice in one content and once in another give every
such pair in every order; the second repository gives the case of a block that
is indexed from elsewhere. In `JobManager` a run is disturbed by the next run of
its job and by one request at a time (there is one mutex), and every entry of
the maps is keyed by the job; the instance takes a VM job, whose run goes through
every phase a file job's goes through and more, and two faults, so that a second
failure, lost caller or crash can meet what the first one left. An instance with
a VM job, a file job and one fault (5.6 million states) gives the same verdict;
it is left out because it takes three times as long. In `Cluster`
a take-over needs one rival and a time beyond TTL plus skew. In `Scheduler` a
second slot must come while the first is being handled, and the job may be one
that is created meanwhile; for liveness the other jobs of the same tick matter,
and a caller who edits them between its two passes: further daemons and callers only
repeat that (with two callers the instance has 0.52 million states and the same
verdict).

In `services`: a VM of two disks of 3 cells read in chunks of 2, so that a disk
has a full and a partial chunk, gaps before, between and after, and a disk before
it in the LUN; 4 changes for a channel of 2, so that it overflows, drains and is
found full or not empty by a stop or a restart; two loaders of the key and a second key that a race
could make; three writers and a format of a tape whose index
holds two; two restores of files that share a block and a path, one of the two
blocks encrypted; files of 0, 2, 6 and 10 bytes for chunks of 3 to 6
read by 1 to 4, so that each boundary case of the code is met (below the minimum,
exactly the maximum, beyond it); disks of 0 and 3 bytes with sectors of 2 in an
address space of 8, so that the last sector is partial, absent, and addresses
wrap; two connections for one socket. In `control`: two daemons and two or three
calls meet in every order, one call between two steps of another; three starts
and two copies of the portal's list; a clock of two ticks against tokens that
live for one or two; one revoked token that fits the memory and one more.

In `long_calls`: two requests meet in every pair of kinds, at every pair of their
steps; two backups that share one of their blocks, two executions, and two policies
of which one seals what it later deletes and the other moves and deletes, so that
an execution finds a backup moved, sealed or gone under its hands, and a seal is
written by one while the other has read the list. The requests of each kind are
alike, so the run uses their symmetry; it checks no liveness.

Bounds are named: `MaxFaults`, `MaxTime`, `Holdable`, the cardinality of `Run`,
in `Cluster` one failing UPDATE per entry (`NotSaved`), and in the services
`GuestWrites`, `LastDay`, `TierRuns`, `Changes`, `KeysMade`, `Damage`, `Registrations`,
`Moves`, `FormatCall`, `WireCalls`, `PortalBoots`, `PortalCopies`, `Versions`, `LastTick`,
`SessFaults`, `Losses`. `CHECK_DEADLOCK` is off because each instance stops when
its runs, calls or its time are used up.

What the properties say, beyond the comments beside them:

* `RowHasManifest`, `RefinesCatalog`: creation writes the row last and deletion
  removes it first, and no interleaving of the two breaks that.
* `LossExplained` (`UnsharedRestorable`, `LossNeedsRelease`): a block that only one
  snapshot uses is there as long as the snapshot is listed; a block that is
  missing was released by a deletion or indexed by a run into another
  repository. A stop between `write_block` and `record_block` never makes a later
  run trust a missing block.
* `LeaksExplained` (`RefcountsExplained`, `BytesExplained`): nothing is leaked
  without an interruption.
* `ExclusiveRun`, `RunsAccounted` (`RunningSessionOwned`, `CancelReaches`),
  `NothingLeftBehind` (`RefusalExplained`, `LeakExplained`): each names the
  circumstances under which the code does not keep the simple form of the claim,
  and shows that there are no others.
* `OutcomeFinal`: the cancel's UPDATE, the run's own report and the restart meet
  in every order without rewriting an outcome.
* `FreshLeaderOwnsLock`: for every delay inside a heartbeat.
* `EntriesSound` (`EntryStartedOnce`, `RunningEntryHeld`), `FinishedStays`: the
  claim's two statements and the dropped errors are the only ways to a second
  start or a stuck entry. A second start by a rival drain is what the comments of
  `queue_claim_due` exclude: `queue_double_fires` shows it.
* `OnlyDueSpawned`, `TableSound` (`SlotOncePerNode`, `EntryMatchesRow`): edits
  between the tick's two passes, at each of their own steps.
* `ImageReadable`: a disk that was read whole is the frozen disk to a restore, a
  download, joined from two ranges or not, and an export (`ReadersAgree`); an export
  of any disk never moves a cell (`ExportInPlace`); in the LUN a file is at its place
  if every file before it is a single block (`LunInPlace`).
* `RestoreSound`: a completed restore is the snapshot's file even if blocks went,
  rotted or were mismarked meanwhile; what a failed one leaves is known.
* `KeepsPromise`: `BlockStore` implements `AtomicBlocks`, and what was answered is
  there.
* `ChunkingSound`: the streaming reader cuts where `chunk_data` does, however the file
  comes in, and the chunks tile it, each of a size it may have.
* `KeysSound`: the key never changes, and an undecodable block has one of three
  reasons.
* `TiersSound` (`MoveKeepsBlocks`, `SealLossExplained`): a move by itself loses no block;
  a backup that was sealed where new backups are written and is deleted was taken
  for unsealed because the list could not be read, was written off the list by
  another execution, or was sealed too late for one that had judged it.
* `ChangesAccounted`: a change is in the journal, once and in order, or was lost for
  one of six reasons: nothing watched, `notify` did not report it, no room, the row was
  refused, the loop had ended, a restart.
* `TapeSound`, `CloudAccounted`, `M365Sound`: nothing is lost, except as named in each.
* `WireSound`: the answers of a connection are those to its calls as long as no
  padding came before, and a read has the disk's bytes at every boundary.
* `SubmitDurable`, `VerdictStands`, `RecoverySound`, `CommittedRuns`,
  `TenantsSound`, `InventorySound`, `SessionsSound`: what a caller was told,
  against restarts, rows that cannot be read, other daemons and overlapping calls.
  `CommittedRuns` speaks of failovers over a connector; without one there is nothing
  to say (see the disagreements below).
* `RepeatExplained`: a task runs more than once only after a loss.

### Where the code does not do what it says

Each of these runs ends in a counterexample; the property is a sentence of the
repository.

| run | the sentence | what happens |
|---|---|---|
| `shared_block_lost` | `job/mod.rs`: delete physical blocks that are no longer referenced by any snapshot | a deduplicated block has refcount 1 however many snapshots share it, so pruning the first snapshot deletes a block of the second |
| `held_pruned` | `db/mod.rs`: held snapshots skip retention/GC until released | only the DELETE route consults the holds, retention does not |
| `standby_fires` | `ha.rs`: the leader runs the scheduler and the queue drain | every daemon runs the scheduler |
| `queue_double_fires` | `db/mod.rs`: claim via status transition so two schedulers cannot double-fire; `docs/OPERATIONS.md`: claim-due atomically | the claim returns what its SELECT found whether or not its UPDATE changed the row, so two drains that select an entry both start it |
| `vm_full_snapshot` | `backup/vm.rs`: CBT changed blocks when the hypervisor exposes a change id, otherwise the whole disk, for a snapshot that is recorded as Full | the change id is taken at the moment of the snapshot, so nothing has changed since, and the snapshot lacks what the guest had written to a tracked disk before |

### Disagreements that no run shows

They came up while the models were written. Each is in the steps of its module, or
left out of it, and no property claims the opposite. (TLC has refuted the quoted
sentences of the first five, and that of the agents; they are not kept as runs where
a property that does hold names the same circumstance.)

* *Runs*: `backup/vm.rs:112` says "Always try to remove the hypervisor snapshot, even on
  error or cancellation"; a cancel aborts a run that reads a disk for longer than the
  grace period, and the snapshot stays (`LeakExplained` names the abort).
* *SOBR*: `sobr/tier.rs:130` says that a seal "records it as immutable so cleanup skips
  it"; a list that cannot be read is an empty one (`sobr/tier.rs:163`), so a sealed
  backup is deleted, and of two executions that seal at once one takes the other's seal
  off the list (`SealLossExplained`).
* *CDP*: `cdp/mod.rs:145` says "RPO is now bounded by the checkpoint interval"; a checkpoint
  does not empty the channel, so a restart may lose a change from before it
  (`stranded`), and `cdp/mod.rs:130` speaks of closing a silent loss that errors of
  `notify` and its other events still are (`unreported`).
* *DR*: `dr/failover.rs:8` says that DR "still works without external wiring"; without a
  connector every step answers Ok and the route `failover_committed`, whatever the
  VMs' state.
* *Cloud*: `cloud/restore.rs:3` says that "Planned" is a simulation for lack of
  credentials; a provider's error whose text has one of the words
  `is_missing_credentials` looks for is recorded so too, though the resource exists
  (`CloudAccounted` names the hint).
* *Restores*: `DELETE /instant-recovery` looks a session up under an id the caller
  never gets, so it stops nothing (`StopRoute`); instant recovery decodes with the
  application key, never with the repository's; gRPC restores pass no key, so a
  restore of an encrypted snapshot fails after the target has been truncated; a
  retry without overwrite skips the partial file; `extract_file` does not check
  the hashes of the blocks.
* *Disk export*: the CDB is read from the data segment, the length from bytes 4
  to 6, padding is not skipped although answers are padded; NFS reads no
  credentials, the handle that MNT returns matches no file, READ always says
  eof, an error reads as an empty success, reads past the end return zeros.
* *Agents*: `routes/agents.rs:128` says that the agent fetches its tasks from the gated
  `/tasks/pending`; the shipped agent ignores the token it is given
  (`agent/main.rs:152`), goes on with its `--server-token` and is refused there
  (`agent_auth.rs:38`), so that none of its tasks is ever answered. `Adopting` are agents
  that use the token: what the model says of polls, runs and reports is of them. A late
  report overwrites the outcome of a newer one.
* *SOBR, tape, cloud, M365*: a tier move deletes shared blocks at the source; appends
  to one tape lose each other's data, and a format that is refused has already
  erased; the Azure client secret never decrypts, and an Azure restore copies the
  live disk; deleting a missing block is an error on Azure only; nested mail
  folders are not backed up; an M365 job that gRPC starts has no key.
* *Inventory, scheduler*: GET vms always says unprotected; a hypervisor with
  discovered VMs cannot be deleted, and VM rows never are; a VM backup that is
  started with a schedule has no scheduler entry until the next boot; an edit
  whose caller leaves before the table is updated leaves a stale entry; gRPC
  `start_job` registers a job each time and leaves it when the start fails.
* *Retention*: every VM snapshot is the parent of the next, so retention of a VM
  job stops at the foreign key (`DeleteRow`); `used_bytes` only grows.
* *Tenants, sessions*: a daemon's cache of tenants goes stale, and a deleted tenant
  can come back; a logged-out token is accepted in the 60 s of leeway after its
  expiry; an error of the database reads as "not revoked"; an SSO login issues no
  token of its own, its provider is not compared with the flow's, and flows that
  are never redeemed stay.
* *Chunker*: the window's oldest byte leaves the hash one step late, so boundaries do
  not resynchronise after an insertion.

### Fairness

* `JobManager`: weak fairness of the request that holds the mutex, of each run's
  steps, of the restart and of `reconcile_startup`. Tokio schedules a task that
  is ready, database and hypervisor calls return or fail, and a service manager
  starts a daemon that died. Strong fairness of the step after which a VM run has
  no further disk: a VM has finitely many. No fairness of requests, faults or
  crashes. `live` uses a file job, for which that last conjunct is
  vacuous; the same instance with a VM job (0.7 million states) holds too and is left
  out for its running time. In `MCLive` each conjunct is that of the part in focus.
* `Scheduler`: weak fairness of the loop's own steps; none of ticks, edits,
  starts, boots or crashes. `DueFires` also counts a job that is edited,
  deleted, or whose daemon dies.
* The other modules state no fairness and no liveness: their operations answer
  within one call, or end with the process.

## 5. The proofs

### SnapshotStoreProofs

For any sets of runs, callers, jobs, repositories and blocks, any capacities and
sources. Assumptions: those `SnapshotStore` states of its constants (runs are
positive numbers and not callers, VM jobs are jobs, every job has a repository,
sources are sequences of blocks).

* `TypeCorrect`: `Spec => []TypeOK`. A refcount is a natural number in every
  interleaving of releases. The strengthening (`StepsOK`): a run has a block left
  whenever it works on one, and a REST caller is never in the middle of a backup.
* `StoreInvariant`, `ListedIsComplete`: `RowHasManifest` is not inductive: nothing
  in it says that a deletion's target is not listed any more, nor that it will
  not be listed again. `StoreInv` adds that
  a listed, targeted or selected snapshot is a run past collecting
  (`PastCollecting`), that the row of a deletion's target is gone once its
  references are being released (`Withdrawn`), that a run has written its
  manifest and index row when it comes to its row (`Written`), and that what it
  collected and what is left make a content of `Source` (`Whole`).
* `Refinement`: `Spec => RefinesCatalog`. Initial states map to initial states;
  `InsertRow` publishes, `DeleteRow` withdraws, and every other step leaves the
  mapped catalog unchanged, because `saved` and `content` of a listed snapshot do
  not change (from `StoreInv`).

### What is lost and what is left, in SnapshotStoreProofs

On top of `StoreInv`, with the same assumptions.

* `LossInvariant`, `LossesExplained`: `Spec => []LossExplained`. A listed snapshot's
  block can only be lost through something a task has in its hands, so `HandsInv`
  says what that is: a run works on the last block of its list (`AtHead`), a
  deletion has still to release an end of its target's manifest (`Suffix`), and what
  it will delete are released blocks of its target (`Orphaned`). Then a block with
  one user stays until that user's row is gone (`Alone`), because no other target
  contains it; and a block that nobody released, used from one repository, is there
  unless its one user has yet to write it (`Kept`), which is why a run may skip a
  block with a refcount.
* `LeakInvariant`, `LeaksAreExplained`: `Spec => []LeaksExplained`. Why a refcount does
  not stay is a matter of counting: a release takes one reference, and its manifest
  has one entry for it. `Counted`: a refcount is at most the number of entries that
  a saved manifest or a collecting run has and no deletion has released yet
  (`ManifestRead`: it begins with all of them). Every step that takes an entry away
  takes a reference with it, or leaves the block to `debris`. It is an inequality,
  not an equation: a block that is skipped adds an entry and no reference.
  `BytesExplained` is inductive given `HandsInv`: a reference that is released
  passes the block to the orphans of a deletion, which deletes it from the
  repository of its users.

### ClusterProofs

For any set of daemons, any skew, any TTL.

* `TypeCorrect`: `Spec => []TypeOK`.
* `LockInvariant`, `LeaderOwnsLock`: `FreshLeaderOwnsLock` is not inductive,
  because the flag is written from a result that may be long over. `LockInv` ties
  the result in hand (`ResultHeld`) to the lock row as it ties the flag
  (`FlagHeld`), and the row's heartbeat to the stamp it rests on. The step that
  matters is a rival's upsert: it takes an expired row only, and a stamp that
  counts as fresh cannot be expired for any clock of the cluster (`NoTakeover`).
* `SplitBrain`: of two nodes that both believe they lead, one goes by a round older
  than TTL, as measured by the fastest clock, or has completed none since it
  booted. This is the bound `ha.rs` states.

### ServicesProofs

For any values of the constants of the five modules, under their named assumptions.
`TierAssumption`: the backups are a finite set, and no day reaches the age of a rule
that is not given. `CdpAssumption`: the channel holds one event at least.
`M365Assumption`: users, folders and files are different things, the folders form
trees that end at users, and no tenant has the name of one of the two callers that
have none. `KeyAssumption` and `CloudAssumption` are types.

* `KeyInvariant`, `KeysStaySound`: `KeySpec => []KeysSound`. That at most one key
  was ever returned is not inductive: it says nothing of the loads that are under
  way. The file decides (`FileDecides`): while it is absent or empty nobody has
  returned or migrates, and once it is filled, every key in hands, returned or
  about to be written is its key. Only one load may be about to fill it
  (`OneFiller`), because the file was created with `create_new`. For
  `UndecodedExplained` the strengthening says with what a run may encrypt and a
  block be encrypted (`EncodedExplained`).
* `TierInvariant`, `PoliciesStaySound`: `TierSpec => []TiersSound`, for any number of
  executions. Nothing in the property says why a release may come: what a move has
  copied of its backup is on a tier beyond the one it releases from, or another
  backup that shares the block has released it (`Ahead`), whatever other executions
  erase. For the seals (`SealsHold`): a backup on the list is there and no execution
  has judged it unsealed, or it is on record as unread, overwritten or overtaken;
  what was ever on the list is on it or was overwritten.
* `CloudInvariant`, `CloudStaysAccounted`: `CloudSpec => []CloudAccounted`. `AskedOf`
  says of each place a call can be at whether the provider may have created its
  resource, and with whose keys it was asked.
* `CdpInvariant`, `ChangesStayAccounted`: `CdpSpec => []ChangesAccounted`. That a
  change is in the journal once, and in order, follows from the order along the
  whole way (`CdpOrder`): what is in the channel is newer than what is in the
  loop's hands, and that is newer than what the loop is done with. A restart may
  come anywhere on that way; what it finds there is `stranded`, and a session that
  was not started has nothing to lose (`CdpStarted`).
* `M365Invariant`, `M365StaysSound`: `M365Spec => []M365Sound`. A walk forgets what it
  has seen, so the invariant speaks of what is left of it: a file of a drive is
  copied or listed, or every line of folders from it to its user meets something
  that is still to be walked (`DriveAt`); a message likewise, two levels deep
  (`MailAt`). A part that ends without a failure has nothing left (`PartsWhole`).

### StorageProofs

For any values of the constants. `BlockStore` needs no assumption; `RestoreAssumption`:
the files of a snapshot are sequences of at least one block (a manifest lists blocks, so
a file without one is not in it), and no block has the name of a mark for what is none.
`TapeAssumption`: types, and that a medium holds one file at least.

* `BlockInvariant`: everything in place and everything the disk has of it is whole
  and synced (`AllSynced`), because the file is synced before the rename; an
  object store has no second state to fall back to (`ObjectsLast`).
* `PromiseKept`: `BlockSpec => KeepsPromise`. A rename or a stored object is the
  abstract `Put`, a deletion `Remove`, the journal `Settle`, a failure of the machine
  `MachineFails`; every other step shows nothing to a reader. That an acknowledged
  write is there needs two facts more: an answered call is over (`CallsSound`),
  and only a call that has taken up the same id disturbs it (`Undisturbed`, which
  is `WriteKept` for the calls that have begun so far).
* `RestoreInvariant`, `RestoresStaySound`: `RestoreSpec => []RestoreSound`, for any set of
  encrypted blocks. A file on which restores have not mingled has one writer at most, and
  holds as many blocks as that one has written (`PrefixAt`); without a writer it is whole,
  the user's own or was cut off (`RestsAt`); a restore that had its file to itself writes
  it, or has left the snapshot's content and nobody has opened it since (`OpenedAt`). That
  a restore looks for the file and creates it in two steps is why another may be at it by
  then, which mingles the two. What a download has is as long as its count (`DownloadAt`).
* `TapeInvariant`, `TapesStaySound`: `TapeSpec => []TapeSound`. An append rewrites the
  whole tape from what it read, so that what is on the tape is not enough: while
  the file is open and empty, everything acknowledged is in the hands of the write
  that opened it (`WriteAt`), otherwise in index and data, entry by entry at the
  same place (`TapeAt`, `Aligned`, `HasWritten`); on a tape that is settled one write at
  most is at work. The medium of a write that waits is in the pool and in use
  (`MediumHeld`), so it keeps the room it was chosen for (`RoomLeft`). A format erases
  first and may fail, be refused or be left by its caller afterwards: on a tape that is
  settled it is alone, and the tape empty, from its first step to its last (`FormatAt`),
  and whatever it leaves half-done, or meets on the tape, unsettles it.

The attempt to prove `TapeSound` corrected it. The property used to except a format
only when it was refused. That is not enough: `format_media`
(src/core/src/tape/mod.rs:118) takes no lock and does not look for a write, so a
format of the device under a barcode that is not in the pool, between the write of
the bytes and the update of the pool, is accepted, and the file that it has erased is
acknowledged afterwards.

Of exports, images and chunks:

* `WireInvariant`, `AnswersStaySound`: `WireSpec => [](WireTypeOK /\ WireSound)`. What an
  answer is to depends on the whole stream that is still to be read. `StreamPlaced`
  names, for every element of it, the call it is or pads: the places grow by one from
  call to call, begin with the call after the last one that was answered and end with
  the last that was sent. Padding comes to the front only behind the call it pads,
  which has been answered by then and was unaligned: that is what an astray
  connection has on record.
* `ImageInvariant`, `ExportStaysInPlace`: `VmSpec => [](VmTypeOK /\ ExportInPlace)`, for any
  disks (also one that is listed twice), any size of a read and any writes of the
  guest. Every block of the manifest holds what was frozen at its own place
  (`FrozenBlock`), whatever the hypervisor has named as changed; an export that copies
  a block to its place then reads the frozen cell or a hole.
* `ImageStaysReadable`: `VmSpec => [](VmTypeOK /\ ImageReadable)`, all of what the run checks
  of an image. It needs `DiskAssumption`, that the labels of a VM's disks differ: the
  code names a file `disks/<label>` (src/core/src/backup/vm.rs:86) and does not look
  whether two have the same. That `FrozenBlock` holds is not enough for it: nothing may
  be missing either. `ImageInv` adds that a disk without change tracking that has been
  read has exactly the blocks at the multiples of `READ_CHUNK`, and one still to be read
  has none. What a reader joins from such blocks is then a slice of the frozen disk, one
  block behind the other (`SliceJoin`, `JoinIs`), clipped at both ends for a range
  (`PartIs`, `ExtractedIs`). The LUN's reader adds up a file's size once per block
  and its base once per file; behind files of one block both sums are the same
  (`SumsSame`), and the first file that reaches beyond the offset is the right one
  (`SearchEnds`).
* `BoundaryWithin`: wherever `find_chunk_boundary` cuts, and whatever the hash, the chunk is
  not empty, ends inside the data, is within the largest size, and is smaller than
  the smallest only at the end of the data.
* `ChunkingStaysSound`: `ChunkSpec => [](ChunkTypeOK /\ ChunkingSound)`, for every file, any
  limits and modulus that `ChunkerAssumption` allows, and any sequence of reads: the
  comment of `chunk_reader` ("the chunk sequence is identical to chunking the full
  buffer at once", src/core/src/chunker/mod.rs:44) is true. The reader searches in a
  buffer that begins where it cut last and ends where its last read did; `chunk_data`
  searches in the whole. `HashShift` says that the rolling hash at a position is made of
  the bytes from the one before the window on, which is inside the chunk since the
  window is shorter than the smallest chunk: so it is the same in both.
  `BoundaryShift` says as much of the boundary, if the buffer holds all that the search
  may look at, which is why the loop waits for `max` bytes (the mutant of `CutFull` does
  not). So each loop cuts a part of the chunks of the whole (`CutsTo`, `LoopCuts`), and
  `ChunkInv` says that what was cut and what `chunk_data` finds from there on are the
  chunks of the file.

No induction principle of the library can be used (each takes an operator). Its place
is taken by sets: `LeastNumber`, from the well-foundedness of `<`, gives the least
number outside a set, and `UpTo` and `DownTo` the two directions of induction for any
set of numbers. A recursive function is defined by a CHOOSE, so that a proof about
it must first show that such a function exists: `Ascent` and `Descent` do, for a value
that is made of the one before or of a later one, and the lemmas `HashRule`,
`ChunksFromRule`, `LoopIs`, `JoinExists`, `CursorIs` and `BaseIs` are the definitions of
hash, chunks, loops, joins and sums, proved to hold.

### The queue of Cluster

Also in `ClusterProofs`, for any daemons and entries.

* `QueueInvariant`, `EntriesHandled`: `Spec => []EntriesSound`. That an entry was
  started at most once is not inductive: it says nothing of the drain that has the
  entry in its list. For an entry without a rival and without an update that was not
  saved (`Calm`), the status tells which lists it can be in (`ListedAs`) and one
  drain at most has it (`SelectedOnce`); a drain that works on one entry at a time
  (`OneAtATime`) and a daemon that takes its lists with it (`DownEmpty`,
  `HeldOrDropped`) account for every entry that stays running.
* `StaysFinished`: `Spec => FinishedStays`, for the claim is conditional on the
  status in the same statement.

### JobManagerProofs

For any sets of jobs and runs and any number of faults. Assumptions: those of
`JobManager` (runs are positive numbers, VM jobs are jobs).

* `JobInvariant`, with `TypeCorrect`, `OneRunPerJob`, `RunsAreAccounted`: nothing in
  the four properties says where a run can still be found. `Tracked` does: a run at
  work is the one in the handle map of its job, or the request in progress has it
  in hand, unless it was aborted or lost. With it a start that finds the runtime
  free finds no run at work (`Sole`), so there is never a second one (`OneSteady`);
  a session that is running has someone who will end it (`Owned`), and a runtime
  that is running stands for a run or a request (`Refused`).
* `NothingIsLeft`: from the same invariant, and `Snapped`: a snapshot is that of a VM
  run that will ask for its removal, has asked, or was cut off.
* `OutcomesFinal`: `Spec => OutcomeFinal`, from `Reported`: a session with an outcome
  before its run has reported was failed by a restart that had lost the run.

### ControlProofs

For any number of daemons, calls, requests, sessions, VMs, plans, hypervisors, agents,
tokens and tenants, under the assumptions the seven modules state of their constants.

* `PortalInvariant`, `SubmitStaysDurable`, `VerdictsStand`: `SubmitDurable` and
  `VerdictStands`. The row is written from copies that were taken earlier, so what
  was promised must be in every copy on its way and in every list a copy can be
  taken from (`PromisedKnown`); a daemon that boots on a row it cannot read begins
  with nothing, which exposes the requests it then misses. A verdict stands because one daemon alone has a
  request that no restart has thrown back, with the status its callers know
  (`VerdictsHeld`).
* `RecInvariant`, `RecoveryStaysSound`: `RecSpec => []RecoverySound`. `SessionOrder` says
  which stations of a session's task, its registry entry, its server and its stop
  exclude each other; `TokenHeld` that a migration that reads has stored its token
  unless a stop has taken it; `LabHeld` that nobody but the driver stops a lab. A server
  that fails though its port was free is `faulty`, a VM whose registration was not
  answered `abandoned`: the property names both, and nothing else.
* `DrInvariant`, `CommittedFailoverRuns`: `DrSpec => CommittedRuns`, from any state of the
  VMs. With a connector, of the stops of the
  walk the heartbeat wait has passed, each VM is on or was shut down by another
  operation since (`PolledRun`); the walk of a failover comes by every VM of its
  plan, whatever the order list leaves out or names twice (`DrAllWalked`). The
  model's walk is by position in the concatenation of both lists, where a filter
  of sequences would have been out of the prover's reach.
* `InvInvariant`, `InventoryStaysSound`: `InvSpec => []InventorySound`. Until two answers
  of a hypervisor have been on their way at once, one call at most holds an answer
  it has not written, and it is the newest (`StatusInOrder`, `RowsInOrder`); a backup
  has marked its row, found none, or is about to (`BackupsMark`).
* `AgentInvariant`, `RepeatsStayExplained`: `AgentSpec => []RepeatExplained`. A task all of
  whose reports were answered waits, or was run once and is either no longer pending
  or what its agent awaits an answer for (`HeardAt`); it is then not in what was
  polled, so that no second run can begin.
* `SessInvariant`, `SessionsStaySound`: `SessSpec => []SessionsSound`. Three invariants
  that share the clock and the record of requests; of each action one lemma says
  what it leaves of the other two (`LoginsStay`, `TokensStay`, `FlowsStay`; a
  restart is such a step for all three). `LoginAt`: a login that is not raced is alone
  on its daemon and found fewer failures than the limit, so its own is within it.
  `RowsLast` and `Recorded`: a row lasts as long as its token, so a logout is in the
  table until the token has expired, however the memories are bounded and lost.
  `FlowsApart`: a flow is kept by one daemon and redeemed by nobody, or kept by
  none.
* `TenantInvariant`, `TenantsStaySound`: `TenantSpec => []TenantsSound`. That the cache
  agrees when nobody writes says nothing of what the last writer will leave.
  `AgreesAt` does: a write that is alone with its tenant has in the cache what it will
  put in the row, and the entry of a create finds none before it. `Unborn`: a tenant
  whose create has not reached the table is in no cache, no row and nothing that was
  loaded, so that its create is alone; `ClosedAt`: after a deletion that left no
  copy there is no call that could write or enter it.

Where the code filters a vector (the failed logins of a name, the tenants of a cache by
id, the pending tasks of an agent) the last three modules have a set, with the time or
the place that orders it, or a function of the id: what a filter of a sequence keeps
is an induction over data and beyond the prover.

### ControlPlaneProofs

For any sets of daemons, callers and jobs, any period and any time. Assumptions:
those of `Scheduler` (no daemon is `NoNode`, the period is positive).

* `SchedulerInvariant`, `TableIsSound`: that a slot was started once is not
  inductive, for it says nothing of the entry the next start is read from. `Past`
  does: what was started lies before the entry's next run, which needs that the
  next slot is strictly after the time (`NextSlotLater`). That an entry agrees with
  its row says nothing of the requests in between. `EntrySettled` does: for a pair of
  daemon and job without a crossing on record, one request at most will still
  change the entry, and it knows what the row says; without one they agree.
* `DueWhenSpawned`: `Spec => OnlyDueSpawned`.
* `ControlImplements`, `ControlTypeCorrect`, `ControlStaysSound`: every behaviour of
  `MCControl` is one of each of its seven parts, agents included (`ControlStarts`, `ControlMoves`: a step
  is a step or a stutter of every part), so that `ControlSpec` keeps every property the
  run `control` checks, for all constants: the invariants, and the action properties
  of scheduler, portal and failover. Recoveries and policies, which `MCLongCalls` holds,
  have theorems of their own.

### ServicePlaneProofs

* `ServicesImplement`, `ServicesStayTyped`, `ServicesStaySound`: the same for the ten
  services of `MCServices`: `ServicesSpec` keeps every property the run `services` checks,
  for all constants, the types of all services included, by what `ServicesProofs` and
  `StorageProofs` prove of each. It inherits the assumptions of all of them.

### Only model-checked

* Liveness (`SessionEnds`, `DueFires`) and anything with ENABLED are beyond
  the prover and stay with TLC.

The inductive invariants were checked by TLC on the instances of the runs before
they were proved (`TapeInv` also with two media and three writes, 1.5 million states).

## 6. Not modelled

The components without a module (the reasons are in `PROJECT.json`): compression,
throttle and stream; audit, events, reports and the dashboard; the ransomware
check, validation and the scanner; the proxy balancer, snapshot manager and
simulator, which only tests use; CLI and web UI.

Within the modelled components: `reconcile_index`, which nothing calls; the
shutdown of `bckd` as far as runs go (for a run it is a crash); edits of jobs that
only write a row, except as `Scheduler` needs them; the GFS windows of retention;
which paths a restore may write to; SOBR's lists of tiers and policies and DR's
plans and sites, whose saved rows are written as the portal's is; the tape robot
and the CDP replicator, which nothing uses; the paging of Graph's listings and
the hypervisors' own protocols; the external key services; user administration;
which rows each listing route may show to whom.
