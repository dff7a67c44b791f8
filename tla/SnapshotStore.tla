--------------------------- MODULE SnapshotStore ---------------------------
(***************************************************************************)
(* The data plane of a backup job: the deduplicating pipeline, the block   *)
(* index (index.db), the snapshots table of the application database, the  *)
(* blocks in the repositories, and everything that deletes from them: the  *)
(* retention pass that ends a run and DELETE /snapshots/{id}.              *)
(*                                                                         *)
(* The three stores are written by separate statements, so one action is   *)
(* one statement (or one call that is atomic in the code), and every task  *)
(* can be stopped between two of them by an error, by abort() or by a      *)
(* crash of the daemon.                                                    *)
(*                                                                         *)
(* A run is identified by its session: run r creates at most one snapshot, *)
(* which is named r too.  Dates are abstracted to the order of creation;   *)
(* which snapshots the GFS windows keep is left open (any set that holds   *)
(* the newest), so whatever holds here holds for every retention_config.   *)
(***************************************************************************)
EXTENDS Integers, Sequences

CONSTANTS
    Run,        \* identifiers of the runs (sessions); a set of positive numbers
    Client,     \* REST callers of DELETE /snapshots/{id}
    Job,        \* rows of backup_jobs
    VmJob,      \* those with job_type = "vm"
    Repo,       \* rows of repositories
    RepoOf,     \* the repository_id of each job
    Capacity,   \* the capacity_bytes of each repository; <= 0 is unlimited
    Block,      \* block identities (SHA-256 of the plaintext)
    Source,     \* what a run may find at its source: sequences of blocks
    Holdable,   \* bound: the snapshots legal holds are placed on in a check
    HoldQueryFails, \* whether the query for legal holds may fail
    NoJob, NoClient

ASSUME RunAssumption == Run \subseteq Nat \ {0}
ASSUME ClientAssumption == Client \cap Run = {} /\ NoClient \notin Client
ASSUME JobAssumption == VmJob \subseteq Job /\ NoJob \notin Job
ASSUME RepoAssumption == RepoOf \in [Job -> Repo] /\ Capacity \in [Repo -> Int]
ASSUME SourceAssumption == Source \subseteq Seq(Block) /\ HoldQueryFails \in BOOLEAN

VARIABLES
    refs,       \* index.db blocks: refcount per block, 0 when there is no row
    saved,      \* index.db manifests: the snapshots that have a manifest row
    indexed,    \* index.db snapshots: the snapshots that have an index row
    content,    \* the block list of a run: its Vec<FileBlock>, then its manifest
    rows,       \* the snapshots table of the application database
    parent,     \* snapshots.parent_id, 0 for NULL
    created,    \* snapshots.created_at as a logical time, 0 before it is set
    clock,      \* the logical time of the next snapshot
    stored,     \* the blocks present in each repository
    used,       \* repositories.used_bytes, in blocks
    held,       \* snapshots with an unreleased legal hold
    jobOf,      \* the job a run belongs to
    pc,         \* what each task does next
    todo,       \* blocks left to back up, or references left to release
    target,     \* the snapshot a task is deleting
    orphans,    \* blocks whose last reference the task released
    prune,      \* snapshots retention has still to delete
    fresh,      \* stats.compressed_bytes of a run, in blocks
    lock        \* the REST caller that holds the JobManager mutex

(***************************************************************************)
(* History variables: no action reads them.                                *)
(***************************************************************************)
VARIABLES
    users,      \* the runs whose block list ever held the block
    released,   \* blocks some deletion has released a reference of
    debris      \* blocks a stopped task may have left behind

indexVars == <<refs, saved, indexed>>
dbVars == <<rows, parent, used, held>>
runVars == <<content, created, clock, jobOf, fresh>>
taskVars == <<pc, todo, target, orphans, prune, lock>>
history == <<users, released, debris>>
vars == <<indexVars, dbVars, runVars, taskVars, history, stored>>

Actor == Run \cup Client
Blocks(s) == {content[s][i] : i \in 1..Len(content[s])}
BlocksIn(seq) == {seq[i] : i \in 1..Len(seq)}
RepoOfRun(r) == RepoOf[jobOf[r]]
JobRows(j) == {s \in rows : jobOf[s] = j}
IsNewest(s, S) == s \in S /\ \A q \in S : created[q] <= created[s]

Collecting == {"chunk", "write", "record", "save", "index", "row"}
Deleting == {"gcrow", "gcrefs", "gcindex", "gcphys"}
PC == Collecting \cup Deleting
        \cup {"new", "used", "retain", "prune", "done", "idle", "wait"}

Init ==
    /\ refs = [b \in Block |-> 0]
    /\ saved = {} /\ indexed = {} /\ rows = {} /\ held = {}
    /\ content = [r \in Run |-> <<>>]
    /\ parent = [r \in Run |-> 0]
    /\ created = [r \in Run |-> 0]
    /\ clock = 1
    /\ stored = [p \in Repo |-> {}]
    /\ used = [p \in Repo |-> 0]
    /\ jobOf = [r \in Run |-> NoJob]
    /\ pc = [a \in Actor |-> IF a \in Run THEN "new" ELSE "idle"]
    /\ todo = [a \in Actor |-> <<>>]
    /\ target = [a \in Actor |-> 0]
    /\ orphans = [a \in Actor |-> <<>>]
    /\ prune = [a \in Actor |-> {}]
    /\ fresh = [r \in Run |-> 0]
    /\ lock = NoClient
    /\ users = [b \in Block |-> {}]
    /\ released = {} /\ debris = {}

-----------------------------------------------------------------------------
(***************************************************************************)
(* A backup run.                                                           *)
(***************************************************************************)

\* start_job, under the JobManager mutex: a job that is still backing up is
\* refused; a run that is only applying retention no longer counts as running.
StartRun(r, j, src) ==
    /\ pc[r] = "new"
    /\ \A q \in Run : q < r => pc[q] # "new"     \* sessions are numbered as they start
    /\ lock = NoClient
    /\ \A q \in Run : jobOf[q] = j => pc[q] \notin Collecting \cup {"used"}
    /\ jobOf' = [jobOf EXCEPT ![r] = j]
    /\ todo' = [todo EXCEPT ![r] = src]
    /\ pc' = [pc EXCEPT ![r] = IF src = <<>> THEN "save" ELSE "chunk"]
    /\ UNCHANGED <<indexVars, dbVars, history, stored, content, created, clock,
                   fresh, target, orphans, prune, lock>>

\* Mutant: the row is inserted without the manifest being saved first.
MutantRowFirst(r) == IF Tail(todo[r]) = <<>> THEN "row" ELSE "chunk"

\* What the pipeline does next once the first block of the list is dealt with.
NextChunk(r) == IF Tail(todo[r]) = <<>> THEN "save" ELSE "chunk"

\* Mutant: a duplicate block is skipped before it is pushed to the manifest.
MutantSkipDuplicate(r) ==
    LET b == Head(todo[r]) IN
    /\ pc[r] = "chunk"
    /\ IF refs[b] > 0
         THEN /\ todo' = [todo EXCEPT ![r] = Tail(@)]
              /\ pc' = [pc EXCEPT ![r] = NextChunk(r)]
              /\ UNCHANGED <<content, users>>
         ELSE /\ content' = [content EXCEPT ![r] = Append(@, b)]
              /\ users' = [users EXCEPT ![b] = @ \cup {r}]
              /\ pc' = [pc EXCEPT ![r] = "write"]
              /\ UNCHANGED todo
    /\ UNCHANGED <<indexVars, dbVars, stored, created, clock, jobOf, fresh,
                   target, orphans, prune, lock, released, debris>>

\* process_block looks the block up, the manifest entry is pushed either way;
\* a block that has an index row is skipped and its refcount is left alone.
LookUp(r) ==
    LET b == Head(todo[r]) IN
    /\ pc[r] = "chunk"
    /\ content' = [content EXCEPT ![r] = Append(@, b)]
    /\ users' = [users EXCEPT ![b] = @ \cup {r}]
    /\ IF refs[b] > 0
         THEN /\ todo' = [todo EXCEPT ![r] = Tail(@)]
              /\ pc' = [pc EXCEPT ![r] = NextChunk(r)]
         ELSE /\ pc' = [pc EXCEPT ![r] = "write"]
              /\ UNCHANGED todo
    /\ UNCHANGED <<indexVars, dbVars, stored, created, clock, jobOf, fresh,
                   target, orphans, prune, lock, released, debris>>

\* Mutant: an error of write_block is swallowed and the block recorded anyway.
MutantSwallowWriteError(r) ==
    /\ pc[r] = "write"
    /\ fresh' = [fresh EXCEPT ![r] = @ + 1]
    /\ pc' = [pc EXCEPT ![r] = "record"]
    /\ UNCHANGED <<indexVars, dbVars, history, stored, content, created, clock, jobOf,
                   todo, target, orphans, prune, lock>>

\* storage.write_block: temporary file, fsync, rename.
WriteBlock(r) ==
    /\ pc[r] = "write"
    /\ stored' = [stored EXCEPT ![RepoOfRun(r)] = @ \cup {Head(todo[r])}]
    /\ fresh' = [fresh EXCEPT ![r] = @ + 1]
    /\ pc' = [pc EXCEPT ![r] = "record"]
    /\ UNCHANGED <<indexVars, dbVars, history, content, created, clock, jobOf,
                   todo, target, orphans, prune, lock>>

\* record_block -> add_block: INSERT with refcount 1, or refcount + 1.
RecordBlock(r) ==
    /\ pc[r] = "record"
    /\ refs' = [refs EXCEPT ![Head(todo[r])] = @ + 1]
    /\ todo' = [todo EXCEPT ![r] = Tail(@)]
    /\ pc' = [pc EXCEPT ![r] = NextChunk(r)]
    /\ UNCHANGED <<saved, indexed, dbVars, history, stored, runVars,
                   target, orphans, prune, lock>>

\* created_at is taken and the manifest written once the pipeline is through.
SaveManifest(r) ==
    /\ pc[r] = "save"
    /\ saved' = saved \cup {r}
    /\ created' = [created EXCEPT ![r] = clock]
    /\ clock' = clock + 1
    /\ pc' = [pc EXCEPT ![r] = "index"]
    /\ UNCHANGED <<refs, indexed, dbVars, history, stored, content, jobOf, fresh,
                   todo, target, orphans, prune, lock>>

\* A VM run chains itself to the newest snapshot of its job (load_job_snapshots),
\* a file run has no parent; then index.add_snapshot.
AddToIndex(r) ==
    LET siblings == JobRows(jobOf[r]) IN
    /\ pc[r] = "index"
    /\ \E p \in Run \cup {0} :
            /\ IF jobOf[r] \in VmJob /\ siblings # {} THEN IsNewest(p, siblings) ELSE p = 0
            /\ parent' = [parent EXCEPT ![r] = p]
    /\ indexed' = indexed \cup {r}
    /\ pc' = [pc EXCEPT ![r] = "row"]
    /\ UNCHANGED <<refs, saved, rows, used, held, history, stored, runVars,
                   todo, target, orphans, prune, lock>>

\* insert_snapshot: refused by the foreign key when the parent has been
\* deleted since it was read, which fails the run.
InsertRow(r) ==
    /\ pc[r] = "row"
    /\ IF parent[r] = 0 \/ parent[r] \in rows
         THEN /\ rows' = rows \cup {r}
              /\ pc' = [pc EXCEPT ![r] = "used"]
         ELSE /\ pc' = [pc EXCEPT ![r] = "done"]
              /\ UNCHANGED rows
    /\ UNCHANGED <<indexVars, parent, used, held, history, stored, runVars,
                   todo, target, orphans, prune, lock>>

\* update_repo_used: one conditional UPDATE.  When the bytes do not fit the
\* run fails, but its blocks, its manifest and its row stay.
UpdateRepoUsed(r) ==
    LET p == RepoOfRun(r)
        fits == Capacity[p] <= 0 \/ used[p] + fresh[r] <= Capacity[p] IN
    /\ pc[r] = "used"
    /\ used' = [used EXCEPT ![p] = IF fits THEN @ + fresh[r] ELSE @]
    /\ pc' = [pc EXCEPT ![r] = IF fits THEN "retain" ELSE "done"]
    /\ UNCHANGED <<indexVars, rows, parent, held, history, stored, runVars,
                   todo, target, orphans, prune, lock>>

\* apply_retention: the GFS windows keep some set of the job's snapshots that
\* includes the newest; a single snapshot is never touched.
SelectPrune(r, keep) ==
    LET mine == JobRows(jobOf[r]) IN
    /\ pc[r] = "retain"
    /\ keep \subseteq mine
    /\ \A s \in mine : IsNewest(s, mine) => s \in keep
    /\ prune' = [prune EXCEPT ![r] = mine \ keep]
    /\ pc' = [pc EXCEPT ![r] = "prune"]
    /\ UNCHANGED <<indexVars, dbVars, history, stored, runVars,
                   todo, target, orphans, lock>>

-----------------------------------------------------------------------------
(***************************************************************************)
(* delete_snapshot_with_gc, shared by retention and by the REST route.     *)
(***************************************************************************)

\* The references a deletion of s releases: one per manifest entry, none when
\* the manifest is gone already.
ManifestRefs(s) == IF s \in saved THEN content[s] ELSE <<>>

\* Retention takes the next snapshot, newest first, and reads its manifest.
PruneNext(r) ==
    /\ pc[r] = "prune"
    /\ IF prune[r] = {}
         THEN /\ pc' = [pc EXCEPT ![r] = "done"]
              /\ UNCHANGED <<target, todo, prune>>
         ELSE \E s \in Run :
              /\ IsNewest(s, prune[r])
              /\ target' = [target EXCEPT ![r] = s]
              /\ todo' = [todo EXCEPT ![r] = ManifestRefs(s)]
              /\ prune' = [prune EXCEPT ![r] = @ \ {s}]
              /\ pc' = [pc EXCEPT ![r] = "gcrow"]
    /\ UNCHANGED <<indexVars, dbVars, history, stored, runVars, orphans, lock>>

\* DELETE /snapshots/{id}: the row must exist and must not be held, and a query
\* for holds that fails reads as no hold; then the caller queues for the
\* JobManager mutex.
RequestDelete(c, s) ==
    /\ pc[c] = "idle"
    /\ s \in rows
    /\ s \notin held \/ HoldQueryFails
    /\ target' = [target EXCEPT ![c] = s]
    /\ pc' = [pc EXCEPT ![c] = "wait"]
    /\ UNCHANGED <<indexVars, dbVars, history, stored, runVars,
                   todo, orphans, prune, lock>>

\* The mutex is granted and the manifest read.
BeginDelete(c) ==
    /\ pc[c] = "wait"
    /\ lock = NoClient
    /\ lock' = c
    /\ todo' = [todo EXCEPT ![c] = ManifestRefs(target[c])]
    /\ pc' = [pc EXCEPT ![c] = "gcrow"]
    /\ UNCHANGED <<indexVars, dbVars, history, stored, runVars,
                   target, orphans, prune>>

\* Where a task goes when its work ends early.
Halted(a) == IF a \in Run THEN "done" ELSE "idle"
Unlocked(a) == IF lock = a THEN NoClient ELSE lock

\* Mutant: the error of the DELETE is ignored and the blocks are released.
MutantIgnoreDeleteError(a) ==
    LET s == target[a] IN
    /\ pc[a] = "gcrow"
    /\ rows' = IF \E q \in rows : parent[q] = s THEN rows ELSE rows \ {s}
    /\ pc' = [pc EXCEPT ![a] = "gcrefs"]
    /\ UNCHANGED <<indexVars, parent, used, held, history, stored, runVars,
                   todo, prune, lock, target, orphans>>

\* The row goes first.  A snapshot that is some row's parent cannot be deleted
\* (foreign key): the error ends the request, or the whole retention pass.
DeleteRow(a) ==
    LET s == target[a] IN
    /\ pc[a] = "gcrow"
    /\ IF \E q \in rows : parent[q] = s
         THEN /\ pc' = [pc EXCEPT ![a] = Halted(a)]
              /\ todo' = [todo EXCEPT ![a] = <<>>]
              /\ target' = [target EXCEPT ![a] = 0]
              /\ prune' = [prune EXCEPT ![a] = {}]
              /\ lock' = Unlocked(a)
              /\ UNCHANGED rows
         ELSE /\ rows' = rows \ {s}
              /\ pc' = [pc EXCEPT ![a] = "gcrefs"]
              /\ UNCHANGED <<todo, target, prune, lock>>
    /\ UNCHANGED <<indexVars, parent, used, held, history, stored, runVars, orphans>>

\* Mutant: the freed test reads the count from before the decrement.
MutantStaleFreed(a) ==
    LET b == Head(todo[a]) IN
    /\ pc[a] = "gcrefs"
    /\ todo[a] # <<>>
    /\ todo' = [todo EXCEPT ![a] = Tail(@)]
    /\ refs' = [refs EXCEPT ![b] = IF @ > 0 THEN @ - 1 ELSE 0]
    /\ orphans' = [orphans EXCEPT ![a] = IF refs[b] = 0 THEN Append(@, b) ELSE @]
    /\ released' = released \cup {b}
    /\ UNCHANGED <<saved, indexed, dbVars, users, debris, stored, runVars,
                   pc, target, prune, lock>>

\* Mutant: the count is decremented without the check that it is positive.
MutantUnguardedRelease(a) ==
    LET b == Head(todo[a]) IN
    /\ pc[a] = "gcrefs"
    /\ todo[a] # <<>>
    /\ todo' = [todo EXCEPT ![a] = Tail(@)]
    /\ refs' = [refs EXCEPT ![b] = @ - 1]
    /\ orphans' = [orphans EXCEPT ![a] = IF refs[b] = 1 THEN Append(@, b) ELSE @]
    /\ released' = released \cup {b}
    /\ UNCHANGED <<saved, indexed, dbVars, users, debris, stored, runVars,
                   pc, target, prune, lock>>

\* remove_block, one write transaction: decrement, and drop the row at zero.
\* A block without a row is left alone and not reported as freed.
ReleaseRef(a) ==
    LET b == Head(todo[a]) IN
    /\ pc[a] = "gcrefs"
    /\ todo[a] # <<>>
    /\ todo' = [todo EXCEPT ![a] = Tail(@)]
    /\ refs' = [refs EXCEPT ![b] = IF @ > 0 THEN @ - 1 ELSE 0]
    /\ orphans' = [orphans EXCEPT ![a] = IF refs[b] = 1 THEN Append(@, b) ELSE @]
    /\ released' = released \cup {b}
    /\ UNCHANGED <<saved, indexed, dbVars, users, debris, stored, runVars,
                   pc, target, prune, lock>>

\* Mutant: the manifest goes before all of its references are released.
MutantEarlyManifest(a) ==
    /\ pc[a] = "gcrefs"
    /\ saved' = saved \ {target[a]}
    /\ todo' = [todo EXCEPT ![a] = <<>>]
    /\ pc' = [pc EXCEPT ![a] = "gcindex"]
    /\ UNCHANGED <<refs, indexed, dbVars, history, stored, runVars,
                   target, orphans, prune, lock>>

\* index.delete_snapshot: first the manifest ...
DeleteManifest(a) ==
    /\ pc[a] = "gcrefs"
    /\ todo[a] = <<>>
    /\ saved' = saved \ {target[a]}
    /\ pc' = [pc EXCEPT ![a] = "gcindex"]
    /\ UNCHANGED <<refs, indexed, dbVars, history, stored, runVars,
                   todo, target, orphans, prune, lock>>

\* ... then the index row.
DeleteIndexRow(a) ==
    /\ pc[a] = "gcindex"
    /\ indexed' = indexed \ {target[a]}
    /\ pc' = [pc EXCEPT ![a] = "gcphys"]
    /\ UNCHANGED <<refs, saved, dbVars, history, stored, runVars,
                   todo, target, orphans, prune, lock>>

\* Best-effort deletion of the freed blocks from the snapshot's repository; a
\* failure is only logged.
DeleteBlock(a) ==
    LET b == Head(orphans[a])
        p == RepoOfRun(target[a]) IN
    /\ pc[a] = "gcphys"
    /\ orphans[a] # <<>>
    /\ \/ stored' = [stored EXCEPT ![p] = @ \ {b}] /\ UNCHANGED debris
       \/ debris' = debris \cup {b} /\ UNCHANGED stored
    /\ orphans' = [orphans EXCEPT ![a] = Tail(@)]
    /\ UNCHANGED <<indexVars, dbVars, users, released, runVars,
                   pc, todo, target, prune, lock>>

\* The deletion is over: retention goes on, the REST caller gets its answer.
EndDelete(a) ==
    /\ pc[a] = "gcphys"
    /\ orphans[a] = <<>>
    /\ pc' = [pc EXCEPT ![a] = IF a \in Run THEN "prune" ELSE "idle"]
    /\ target' = [target EXCEPT ![a] = 0]
    /\ lock' = Unlocked(a)
    /\ UNCHANGED <<indexVars, dbVars, history, stored, runVars, todo, orphans, prune>>

-----------------------------------------------------------------------------
(***************************************************************************)
(* Interruptions and legal holds.                                          *)
(***************************************************************************)

\* The blocks a task leaves unaccounted for when it is stopped where it is.
LeftBehind(a) ==
    CASE pc[a] \in {"chunk", "write", "record", "save"} -> Blocks(a)
      [] pc[a] \in Deleting -> BlocksIn(orphans[a])
      [] OTHER -> {}

\* An I/O error, a cancellation that ends in abort(), or a REST caller that
\* goes away: the task is dropped where it stands, nothing is rolled back.
Stop(a) ==
    /\ pc[a] \notin {"new", "done", "idle"}
    /\ pc' = [pc EXCEPT ![a] = Halted(a)]
    /\ todo' = [todo EXCEPT ![a] = <<>>]
    /\ orphans' = [orphans EXCEPT ![a] = <<>>]
    /\ prune' = [prune EXCEPT ![a] = {}]
    /\ lock' = Unlocked(a)
    /\ target' = [target EXCEPT ![a] = 0]
    /\ debris' = debris \cup LeftBehind(a)
    /\ UNCHANGED <<indexVars, dbVars, users, released, stored, runVars>>

\* The daemon dies: every task stops at once.  A run that had not started yet
\* is started after the restart.
Crash ==
    /\ \E a \in Actor : pc[a] \notin {"new", "done", "idle"}
    /\ pc' = [a \in Actor |-> IF pc[a] = "new" THEN "new" ELSE Halted(a)]
    /\ todo' = [a \in Actor |-> <<>>]
    /\ orphans' = [a \in Actor |-> <<>>]
    /\ prune' = [a \in Actor |-> {}]
    /\ lock' = NoClient
    /\ target' = [a \in Actor |-> 0]
    /\ debris' = debris \cup UNION {LeftBehind(a) : a \in Actor}
    /\ UNCHANGED <<indexVars, dbVars, users, released, stored, runVars>>

PlaceHold(s) ==
    /\ s \in (Holdable \cap rows) \ held
    /\ held' = held \cup {s}
    /\ UNCHANGED <<indexVars, rows, parent, used, history, stored, runVars, taskVars>>

ReleaseHold(s) ==
    /\ s \in held
    /\ held' = held \ {s}
    /\ UNCHANGED <<indexVars, rows, parent, used, history, stored, runVars, taskVars>>

-----------------------------------------------------------------------------
RunStep(r) ==
    \/ \E j \in Job, src \in Source : StartRun(r, j, src)
    \/ LookUp(r) \/ WriteBlock(r) \/ RecordBlock(r)
    \/ SaveManifest(r) \/ AddToIndex(r) \/ InsertRow(r) \/ UpdateRepoUsed(r)
    \/ \E keep \in SUBSET rows : SelectPrune(r, keep)
    \/ PruneNext(r)

ClientStep(c) ==
    \/ \E s \in Run : RequestDelete(c, s)
    \/ BeginDelete(c)

DeleteStep(a) ==
    \/ DeleteRow(a) \/ ReleaseRef(a) \/ DeleteManifest(a) \/ DeleteIndexRow(a)
    \/ DeleteBlock(a) \/ EndDelete(a)

Next ==
    \/ \E r \in Run : RunStep(r)
    \/ \E c \in Client : ClientStep(c)
    \/ \E a \in Actor : DeleteStep(a) \/ Stop(a)
    \/ Crash
    \/ \E s \in Run : PlaceHold(s) \/ ReleaseHold(s)

Spec == Init /\ [][Next]_vars

-----------------------------------------------------------------------------
(***************************************************************************)
(* Properties.                                                             *)
(***************************************************************************)

StoreType ==
    /\ refs \in [Block -> Nat]
    /\ saved \subseteq Run /\ indexed \subseteq Run /\ rows \subseteq Run /\ held \subseteq Run
    /\ parent \in [Run -> Run \cup {0}]
    /\ stored \in [Repo -> SUBSET Block]
    /\ used \in [Repo -> Nat]

RunType ==
    /\ content \in [Run -> Seq(Block)]
    /\ created \in [Run -> Nat] /\ clock \in Nat \ {0}
    /\ jobOf \in [Run -> Job \cup {NoJob}]
    /\ fresh \in [Run -> Nat]

TaskType ==
    /\ pc \in [Actor -> PC]
    /\ todo \in [Actor -> Seq(Block)] /\ orphans \in [Actor -> Seq(Block)]
    /\ target \in [Actor -> Run \cup {0}]
    /\ prune \in [Actor -> SUBSET Run]
    /\ lock \in Client \cup {NoClient}

HistoryType ==
    /\ users \in [Block -> SUBSET Run]
    /\ released \subseteq Block /\ debris \subseteq Block

\* Every variable stays in the range the code's types and schemas give it.
TypeOK == StoreType /\ RunType /\ TaskType /\ HistoryType

\* A snapshot the API lists has its manifest and its index row, whatever was
\* interrupted: creation writes the row last, deletion removes it first.
RowHasManifest == rows \subseteq saved \cap indexed

\* A snapshot that shares no block with any other run is restorable for as long
\* as it is listed: every block of its manifest is indexed and present in the
\* repository restore reads, through every crash, error and concurrent deletion.
UnsharedRestorable ==
    \A s \in rows : \A b \in Blocks(s) :
        users[b] = {s} => refs[b] > 0 /\ b \in stored[RepoOfRun(s)]

\* A listed snapshot misses a block in only two ways: a deletion released a
\* reference of that block, or a run into another repository indexed it first.
\* In particular no interruption of a backup can make a later run skip a block
\* whose bytes were never written.
LossNeedsRelease ==
    \A s \in rows : \A b \in Blocks(s) :
        \/ b \in stored[RepoOfRun(s)]
        \/ b \in released
        \/ \E q \in users[b] : RepoOfRun(q) # RepoOfRun(s)

\* What a listed snapshot is missing was released, never lost on the way.
LossExplained == UnsharedRestorable /\ LossNeedsRelease

\* An index row never outlives its reason: a manifest lists the block, a run is
\* still collecting it, or a run was stopped before it saved its manifest.
RefcountsExplained ==
    \A b \in Block : refs[b] > 0 =>
        \/ \E s \in saved : b \in Blocks(s)
        \/ \E r \in Run : pc[r] \in Collecting /\ b \in Blocks(r)
        \/ b \in debris

\* Bytes that no index row accounts for are about to be recorded, about to be
\* deleted, or left by a stopped task, as long as only one repository is used.
BytesExplained ==
    \A p \in Repo : \A b \in stored[p] :
        (\A q \in users[b] : RepoOfRun(q) = p) =>
            \/ refs[b] > 0
            \/ \E r \in Run : pc[r] = "record" /\ Head(todo[r]) = b
            \/ \E a \in Actor : pc[a] \in Deleting /\ b \in BlocksIn(orphans[a])
            \/ b \in debris

\* What is kept without a snapshot was left by a task that stopped, or is in
\* the hands of one.
LeaksExplained == RefcountsExplained /\ BytesExplained

\* What a reader of the API sees: each listed snapshot with the manifest a
\* restore would load for it.
Catalog == INSTANCE SnapshotCatalog WITH
    Snapshot <- Run,
    Content <- Source,
    catalog <- [s \in rows |-> ManifestRefs(s)]

\* Three stores written one after the other publish a snapshot atomically and
\* whole, never change it while it is listed, and withdraw it atomically.
RefinesCatalog == Catalog!Spec

\* job/mod.rs, delete_snapshot_with_gc: "delete physical blocks that are no
\* longer referenced by any snapshot": every block of a listed snapshot is
\* in its repository.
EveryRowRestorable ==
    \A s \in rows : Blocks(s) \subseteq stored[RepoOfRun(s)]

\* db/mod.rs: "held snapshots skip retention/GC until released": a snapshot
\* that is held stays listed.
HeldStaysListed == [][\A s \in held \cap rows : s \in rows']_vars
=============================================================================
