----------------------------- MODULE JobManager -----------------------------
(***************************************************************************)
(* The control plane of a backup job: JobManager's three in-memory maps    *)
(* (runtimes, handles, cancels), the job_sessions table, the spawned run   *)
(* and the hypervisor snapshot it works from.                              *)
(*                                                                         *)
(* Requests hold the JobManager mutex one at a time and are cut at every   *)
(* await: `op' is the request that holds it.  Runs do not take the mutex,  *)
(* so a run that ends interleaves with every step of a request.  What a    *)
(* run does to the repository is in SnapshotStore; here it only succeeds   *)
(* or fails.                                                               *)
(***************************************************************************)
EXTENDS Integers

CONSTANTS
    Run,        \* identifiers of the runs (sessions), numbered as they start
    Job,        \* identifiers of the jobs
    VmJob,      \* those with job_type = "vm"
    MaxFaults,  \* bound: crashes, callers that go away and statements that fail
    NoJob

ASSUME RunAssumption == Run \subseteq Nat \ {0}
ASSUME JobAssumption == VmJob \subseteq Job /\ NoJob \notin Job
ASSUME FaultAssumption == MaxFaults \in Nat

VARIABLES
    exists,     \* rows of backup_jobs
    runtime,    \* runtimes[job].status, "none" when there is no entry
    handle,     \* handles[job]: the run of the JoinHandle, 0 for no entry
    token,      \* cancels[job]: the run of the CancellationToken, 0 for no entry
    fired,      \* runs whose token is cancelled
    aborted,    \* runs whose task was aborted
    session,    \* job_sessions.status of each run's session
    jobOf,      \* job_sessions.job_id
    phase,      \* where the run's task is
    outcome,    \* the status the run is about to report
    snaps,      \* runs whose snapshot is on the hypervisor
    op,         \* the request that holds the JobManager mutex
    daemon,     \* "up", "booting" (before reconcile_startup) or "down"
    faults      \* how many of the bounded faults have happened

(***************************************************************************)
(* History variables: no action reads them.                                *)
(***************************************************************************)
VARIABLES
    tried,      \* runs that asked the hypervisor to remove their snapshot
    unreachable,\* runs whose map entries were taken by something else than
                \* their own end or a completed cancel
    stuck       \* jobs with a start, a cancel or a status update cut short,
                \* until a cancel or a restart puts their state right

mapVars == <<runtime, handle, token>>
taskVars == <<fired, aborted, phase, outcome, snaps>>
dbVars == <<exists, session, jobOf>>
faultVars == <<daemon, faults>>
history == <<tried, unreachable, stuck>>
vars == <<mapVars, taskVars, dbVars, faultVars, history, op>>

Status == {"running", "completed", "failed", "cancelled"}
Spawned == {"check", "create", "disk", "reading", "remove", "report",
            "finRuntime", "finHandle", "finToken"}
Phase == Spawned \cup {"new", "born", "ended", "crashed"}
Stage == {"session", "token", "spawn", "handle",                     \* start_job
          "take", "grace", "update", "runtime", "delete", "drop"}    \* cancel_job, delete_job
NoOp == [at |-> "none", job |-> NoJob, run |-> 0, deleting |-> FALSE]

Idle == op.at = "none" /\ daemon # "down"
Live(r) == phase[r] \in Spawned
\* A run that can still move data or report: it has not yet released its runtime.
Working(r) == phase[r] \in Spawned \ {"finHandle", "finToken"}
RunsOf(j) == {r \in Run : jobOf[r] = j}
Fault == faults < MaxFaults /\ faults' = faults + 1

Init ==
    /\ exists = Job
    /\ runtime = [j \in Job |-> "none"]
    /\ handle = [j \in Job |-> 0]
    /\ token = [j \in Job |-> 0]
    /\ fired = {} /\ aborted = {} /\ snaps = {}
    /\ session = [r \in Run |-> "none"]
    /\ jobOf = [r \in Run |-> NoJob]
    /\ phase = [r \in Run |-> "new"]
    /\ outcome = [r \in Run |-> "none"]
    /\ op = NoOp
    /\ daemon = "booting" /\ faults = 0
    /\ tried = {} /\ unreachable = {} /\ stuck = {}

-----------------------------------------------------------------------------
(***************************************************************************)
(* start_job: from the REST and gRPC routes, the scheduler and the queue.  *)
(***************************************************************************)

\* Mutant: the runtime is not consulted.
MutantNoGuard(r, j) ==
    /\ Idle
    /\ phase[r] = "new" /\ \A q \in Run : q < r => phase[q] # "new"
    /\ j \in exists
    /\ runtime' = [runtime EXCEPT ![j] = "running"]
    /\ op' = [at |-> "session", job |-> j, run |-> r, deleting |-> FALSE]
    /\ UNCHANGED <<handle, token, taskVars, dbVars, faultVars, history>>

\* Check-and-insert in runtimes, under one write lock.
BeginStart(r, j) ==
    /\ Idle
    /\ phase[r] = "new" /\ \A q \in Run : q < r => phase[q] # "new"
    /\ j \in exists
    /\ runtime[j] # "running"
    /\ runtime' = [runtime EXCEPT ![j] = "running"]
    /\ op' = [at |-> "session", job |-> j, run |-> r, deleting |-> FALSE]
    /\ UNCHANGED <<handle, token, taskVars, dbVars, faultVars, history>>

\* insert_session.  When the INSERT fails the request ends with the error and
\* the runtime stays "running".
InsertSession ==
    LET r == op.run IN
    /\ op.at = "session"
    /\ \/ /\ session' = [session EXCEPT ![r] = "running"]
          /\ jobOf' = [jobOf EXCEPT ![r] = op.job]
          /\ phase' = [phase EXCEPT ![r] = "born"]
          /\ op' = [op EXCEPT !.at = "token"]
          /\ UNCHANGED <<stuck, faults>>
       \/ /\ Fault
          /\ op' = NoOp
          /\ stuck' = stuck \cup {op.job}
          /\ UNCHANGED <<session, jobOf, phase>>
    /\ UNCHANGED <<mapVars, fired, aborted, outcome, snaps, exists, daemon,
                   tried, unreachable>>

\* cancels.insert
InsertToken ==
    /\ op.at = "token"
    /\ token' = [token EXCEPT ![op.job] = op.run]
    /\ op' = [op EXCEPT !.at = "spawn"]
    /\ UNCHANGED <<runtime, handle, taskVars, dbVars, faultVars, history>>

\* tokio::spawn: from here on the run proceeds by itself.
Spawn ==
    /\ op.at = "spawn"
    /\ phase' = [phase EXCEPT ![op.run] = "check"]
    /\ op' = [op EXCEPT !.at = "handle"]
    /\ UNCHANGED <<mapVars, fired, aborted, outcome, snaps, dbVars, faultVars, history>>

\* handles.insert; the run may have ended already, and the handle of a run that
\* is still going is replaced if the runtime no longer stood for it.
InsertHandle ==
    /\ op.at = "handle"
    /\ handle' = [handle EXCEPT ![op.job] = op.run]
    /\ unreachable' = unreachable \cup {r \in Run : r = handle[op.job] /\ Working(r)}
    /\ op' = NoOp
    /\ UNCHANGED <<runtime, token, taskVars, dbVars, faultVars, tried, stuck>>

-----------------------------------------------------------------------------
(***************************************************************************)
(* cancel_job, and delete_job which begins with it.                        *)
(***************************************************************************)

\* The token leaves the map and is cancelled.
BeginCancel(j, deleting) ==
    /\ Idle
    /\ j \in exists
    /\ fired' = fired \cup {r \in Run : r = token[j] /\ Live(r)}
    /\ token' = [token EXCEPT ![j] = 0]
    /\ op' = [at |-> "take", job |-> j, run |-> 0, deleting |-> deleting]
    /\ UNCHANGED <<runtime, handle, aborted, phase, outcome, snaps, dbVars,
                   faultVars, history>>

\* handles.remove; without a handle there is nothing to wait for.
TakeHandle ==
    LET r == handle[op.job] IN
    /\ op.at = "take"
    /\ handle' = [handle EXCEPT ![op.job] = 0]
    /\ op' = [op EXCEPT !.run = r, !.at = IF r = 0 THEN "update" ELSE "grace"]
    /\ UNCHANGED <<runtime, token, taskVars, dbVars, faultVars, history>>

\* The task ended within the grace period.
GracefulEnd ==
    /\ op.at = "grace"
    /\ ~Live(op.run)
    /\ op' = [op EXCEPT !.at = "update"]
    /\ UNCHANGED <<mapVars, taskVars, dbVars, faultVars, history>>

\* Mutant: the expired grace period is only logged.
MutantNoAbort ==
    /\ op.at = "grace"
    /\ Live(op.run)
    /\ op' = [op EXCEPT !.at = "update"]
    /\ UNCHANGED <<mapVars, taskVars, dbVars, faultVars, history>>

\* 10 s are over: abort() asks the runtime to drop the task, without waiting.
GraceOver ==
    /\ op.at = "grace"
    /\ Live(op.run)
    /\ aborted' = aborted \cup {op.run}
    /\ op' = [op EXCEPT !.at = "update"]
    /\ UNCHANGED <<mapVars, fired, phase, outcome, snaps, dbVars, faultVars, history>>

\* Mutant: every session of the job is marked, not only the running ones.
MutantCancelAll ==
    /\ op.at = "update"
    /\ session' = [r \in Run |->
                    IF jobOf[r] = op.job THEN "cancelled" ELSE session[r]]
    /\ op' = [op EXCEPT !.at = "runtime"]
    /\ UNCHANGED <<mapVars, taskVars, exists, jobOf, faultVars, history>>

\* Mutant: only the session of the task that was stopped is marked.
MutantByHandle ==
    /\ op.at = "update"
    /\ session' = [r \in Run |->
            IF r = op.run /\ session[r] = "running" THEN "cancelled" ELSE session[r]]
    /\ op' = [op EXCEPT !.at = "runtime"]
    /\ UNCHANGED <<mapVars, taskVars, exists, jobOf, faultVars, history>>

\* UPDATE job_sessions ... WHERE job_id = id AND status = 'running'; its error
\* ends the request.
CancelSessions ==
    /\ op.at = "update"
    /\ \/ /\ session' = [r \in Run |->
                IF jobOf[r] = op.job /\ session[r] = "running" THEN "cancelled" ELSE session[r]]
          /\ op' = [op EXCEPT !.at = "runtime"]
          /\ UNCHANGED <<stuck, faults>>
       \/ /\ Fault
          /\ op' = NoOp
          /\ stuck' = stuck \cup {op.job}
          /\ UNCHANGED session
    /\ UNCHANGED <<mapVars, taskVars, exists, jobOf, daemon, tried, unreachable>>

\* Mutant: the runtime keeps its status.
MutantKeepRuntime ==
    /\ op.at = "runtime"
    /\ op' = IF op.deleting THEN [op EXCEPT !.at = "delete"] ELSE NoOp
    /\ stuck' = stuck \ {op.job}
    /\ UNCHANGED <<mapVars, taskVars, dbVars, faultVars, tried, unreachable>>

\* runtimes.get_mut, which ends cancel_job.
CancelRuntime ==
    /\ op.at = "runtime"
    /\ runtime' = [runtime EXCEPT ![op.job] = IF @ = "none" THEN @ ELSE "cancelled"]
    /\ op' = IF op.deleting THEN [op EXCEPT !.at = "delete"] ELSE NoOp
    /\ stuck' = stuck \ {op.job}
    /\ UNCHANGED <<handle, token, taskVars, dbVars, faultVars, tried, unreachable>>

\* DELETE FROM backup_jobs: job_sessions references the row without a cascade,
\* so a job that has a session stays and the request fails.
DeleteJobRow ==
    LET referenced == \E r \in RunsOf(op.job) : session[r] # "none" IN
    /\ op.at = "delete"
    /\ exists' = IF referenced THEN exists ELSE exists \ {op.job}
    /\ op' = IF referenced THEN NoOp ELSE [op EXCEPT !.at = "drop"]
    /\ UNCHANGED <<mapVars, taskVars, session, jobOf, faultVars, history>>

DropRuntime ==
    /\ op.at = "drop"
    /\ runtime' = [runtime EXCEPT ![op.job] = "none"]
    /\ op' = NoOp
    /\ UNCHANGED <<handle, token, taskVars, dbVars, faultVars, history>>

\* The caller disconnects: its request is dropped at the await it is waiting
\* on.  A handle it took or was about to store is lost and the task runs on
\* detached; a start before the spawn, or a cancel whose updates are still to
\* come, leaves the job's state half changed.
CallerGone ==
    /\ op.at # "none" /\ daemon = "up"
    /\ Fault
    /\ op' = NoOp
    /\ stuck' = IF op.at \in {"session", "token", "spawn", "update", "runtime"}
                  THEN stuck \cup {op.job} ELSE stuck
    /\ unreachable' = IF op.at \in {"handle", "grace"}
                        THEN unreachable \cup {op.run} ELSE unreachable
    /\ UNCHANGED <<mapVars, taskVars, dbVars, daemon, tried>>

-----------------------------------------------------------------------------
(***************************************************************************)
(* The run: run_backup in the spawned task.                                *)
(***************************************************************************)

Runs(r, p) == phase[r] = p /\ r \notin aborted

\* The task is gone, and with it its token and its locals.
Ended(r) ==
    /\ phase' = [phase EXCEPT ![r] = "ended"]
    /\ fired' = fired \ {r}
    /\ outcome' = [outcome EXCEPT ![r] = "none"]

\* A token cancelled before the first step ends the run at once.
CheckToken(r) ==
    /\ Runs(r, "check")
    /\ IF r \in fired
         THEN /\ outcome' = [outcome EXCEPT ![r] = "cancelled"]
              /\ phase' = [phase EXCEPT ![r] = "report"]
         ELSE /\ phase' = [phase EXCEPT ![r] =
                             IF jobOf[r] \in VmJob THEN "create" ELSE "reading"]
              /\ UNCHANGED outcome
    /\ UNCHANGED <<mapVars, fired, aborted, snaps, dbVars, faultVars, history, op>>

\* A VM run connects and creates the hypervisor snapshot, or fails before that.
CreateSnapshot(r) ==
    /\ Runs(r, "create")
    /\ \/ /\ snaps' = snaps \cup {r}
          /\ phase' = [phase EXCEPT ![r] = "disk"]
          /\ UNCHANGED outcome
       \/ /\ outcome' = [outcome EXCEPT ![r] = "failed"]
          /\ phase' = [phase EXCEPT ![r] = "report"]
          /\ UNCHANGED snaps
    /\ UNCHANGED <<mapVars, fired, aborted, dbVars, faultVars, history, op>>

\* Mutant: a cancelled token leaves the loop without an error.
MutantNoError(r) ==
    /\ Runs(r, "disk")
    /\ \/ /\ r \in fired
          /\ phase' = [phase EXCEPT ![r] = "remove"]
          /\ UNCHANGED outcome
       \/ /\ r \notin fired
          /\ phase' = [phase EXCEPT ![r] = "reading"]
          /\ UNCHANGED outcome
       \/ /\ outcome' = [outcome EXCEPT ![r] = "completed"]
          /\ phase' = [phase EXCEPT ![r] = "remove"]
    /\ UNCHANGED <<mapVars, fired, aborted, snaps, dbVars, faultVars, history, op>>

\* Before each disk the token is consulted; nothing else in the run does.
NextDisk(r) ==
    /\ Runs(r, "disk")
    /\ \/ /\ r \in fired
          /\ outcome' = [outcome EXCEPT ![r] = "failed"]
          /\ phase' = [phase EXCEPT ![r] = "remove"]
       \/ /\ r \notin fired
          /\ phase' = [phase EXCEPT ![r] = "reading"]
          /\ UNCHANGED outcome
       \/ /\ outcome' = [outcome EXCEPT ![r] = "completed"]     \* that was the last one
          /\ phase' = [phase EXCEPT ![r] = "remove"]
    /\ UNCHANGED <<mapVars, fired, aborted, snaps, dbVars, faultVars, history, op>>

\* Mutant: a disk error leaves the function through `?'.
MutantEarlyReturn(r) ==
    /\ Runs(r, "reading")
    /\ \/ /\ jobOf[r] \in VmJob
          /\ phase' = [phase EXCEPT ![r] = "disk"]
          /\ UNCHANGED outcome
       \/ /\ outcome' = [outcome EXCEPT ![r] = "failed"]
          /\ phase' = [phase EXCEPT ![r] = "report"]
    /\ UNCHANGED <<mapVars, fired, aborted, snaps, dbVars, faultVars, history, op>>

\* The long step, one disk or the whole source: data through the pipeline.
Read(r) ==
    /\ Runs(r, "reading")
    /\ \/ /\ jobOf[r] \in VmJob
          /\ phase' = [phase EXCEPT ![r] = "disk"]
          /\ UNCHANGED outcome
       \/ /\ jobOf[r] \notin VmJob
          /\ outcome' = [outcome EXCEPT ![r] = "completed"]
          /\ phase' = [phase EXCEPT ![r] = "report"]
       \/ /\ outcome' = [outcome EXCEPT ![r] = "failed"]
          /\ phase' = [phase EXCEPT ![r] = IF jobOf[r] \in VmJob THEN "remove" ELSE "report"]
    /\ UNCHANGED <<mapVars, fired, aborted, snaps, dbVars, faultVars, history, op>>

\* The snapshot is removed whatever the disks gave; a failed removal fails the
\* run, and so may anything between here and the report (manifest, row, quota).
RemoveSnapshot(r) ==
    /\ Runs(r, "remove")
    /\ tried' = tried \cup {r}
    /\ \/ /\ snaps' = snaps \ {r}
          /\ outcome' \in {outcome, [outcome EXCEPT ![r] = "failed"]}
       \/ /\ outcome' = [outcome EXCEPT ![r] = "failed"]
          /\ UNCHANGED snaps
    /\ phase' = [phase EXCEPT ![r] = "report"]
    /\ UNCHANGED <<mapVars, fired, aborted, dbVars, faultVars, unreachable, stuck, op>>

\* complete_session, fail_session or the early cancellation: an UPDATE by
\* session id, whatever the status; its error is dropped.
Report(r) ==
    /\ Runs(r, "report")
    /\ \/ session' = [session EXCEPT ![r] = outcome[r]] /\ UNCHANGED <<stuck, faults>>
       \/ Fault /\ stuck' = stuck \cup {jobOf[r]} /\ UNCHANGED session
    /\ phase' = [phase EXCEPT ![r] = "finRuntime"]
    /\ UNCHANGED <<mapVars, fired, aborted, outcome, snaps, exists, jobOf, daemon,
                   tried, unreachable, op>>

\* finish_runtime, under three locks taken one after the other: the runtime ...
FinishRuntime(r) ==
    LET j == jobOf[r] IN
    /\ Runs(r, "finRuntime")
    /\ runtime' = [runtime EXCEPT ![j] = IF @ = "none" THEN @ ELSE outcome[r]]
    /\ phase' = [phase EXCEPT ![r] = "finHandle"]
    /\ UNCHANGED <<handle, token, fired, aborted, outcome, snaps, dbVars, faultVars,
                   history, op>>

\* ... the handle, which may be the next run's by now ...
FinishHandle(r) ==
    LET j == jobOf[r] IN
    /\ Runs(r, "finHandle")
    /\ handle' = [handle EXCEPT ![j] = 0]
    /\ unreachable' = unreachable \cup ({handle[j]} \ {0, r})
    /\ phase' = [phase EXCEPT ![r] = "finToken"]
    /\ UNCHANGED <<runtime, token, fired, aborted, outcome, snaps, dbVars, faultVars,
                   tried, stuck, op>>

\* ... and the token.  Retention, which follows, is SnapshotStore's.
FinishToken(r) ==
    LET j == jobOf[r] IN
    /\ Runs(r, "finToken")
    /\ token' = [token EXCEPT ![j] = 0]
    /\ unreachable' = unreachable \cup ({token[j]} \ {0, r})
    /\ Ended(r)
    /\ UNCHANGED <<runtime, handle, aborted, snaps, dbVars, faultVars, tried, stuck, op>>

\* An aborted task is dropped at its next await; the call it had sent may still
\* take effect.
Die(r) ==
    /\ r \in aborted /\ Live(r)
    /\ Ended(r)
    /\ snaps' \in {snaps} \cup (IF phase[r] = "create" THEN {snaps \cup {r}} ELSE {})
                          \cup (IF phase[r] = "remove" THEN {snaps \ {r}} ELSE {})
    /\ session' \in {session} \cup
            (IF phase[r] = "report" THEN {[session EXCEPT ![r] = outcome[r]]} ELSE {})
    /\ UNCHANGED <<mapVars, aborted, exists, jobOf, faultVars, history, op>>

-----------------------------------------------------------------------------
(***************************************************************************)
(* The daemon.                                                             *)
(***************************************************************************)

\* Everything in memory goes, the database and the hypervisor stay.
Crash ==
    /\ daemon # "down"
    /\ Fault
    /\ daemon' = "down"
    /\ phase' = [r \in Run |-> IF phase[r] = "born" \/ Live(r) THEN "crashed" ELSE phase[r]]
    /\ runtime' = [j \in Job |-> "none"]
    /\ handle' = [j \in Job |-> 0]
    /\ token' = [j \in Job |-> 0]
    /\ op' = NoOp
    /\ fired' = {}
    /\ outcome' = [r \in Run |-> "none"]
    /\ UNCHANGED <<aborted, snaps, dbVars, history>>

\* The queue drain is spawned before reconcile_startup is called, so a start
\* can come first.
Boot ==
    /\ daemon = "down"
    /\ daemon' = "booting"
    /\ UNCHANGED <<mapVars, taskVars, dbVars, faults, history, op>>

\* Mutant: the sessions are left as they are.
MutantReconcileMapsOnly ==
    /\ daemon = "booting" /\ op.at = "none"
    /\ daemon' = "up"
    /\ runtime' = [j \in Job |-> "none"]
    /\ token' = [j \in Job |-> 0]
    /\ unreachable' = unreachable \cup {r \in Run : Live(r)}
    /\ stuck' = {}
    /\ UNCHANGED <<handle, taskVars, session, exists, jobOf, faults, tried, op>>

\* reconcile_startup, under the mutex: every running session is failed (an error
\* of that UPDATE is dropped), the runtimes and the tokens are cleared, the
\* handles are not.
ReconcileStartup ==
    /\ daemon = "booting" /\ op.at = "none"
    /\ daemon' = "up"
    /\ \/ /\ session' = [r \in Run |-> IF session[r] = "running" THEN "failed" ELSE session[r]]
          /\ stuck' = {}
          /\ UNCHANGED faults
       \/ /\ Fault
          /\ stuck' = {jobOf[r] : r \in {q \in Run : session[q] = "running"}}
          /\ UNCHANGED session
    /\ runtime' = [j \in Job |-> "none"]
    /\ token' = [j \in Job |-> 0]
    /\ unreachable' = unreachable \cup {r \in Run : Live(r)}
    /\ UNCHANGED <<handle, taskVars, exists, jobOf, tried, op>>

-----------------------------------------------------------------------------
Request ==
    \/ \E j \in Job : \/ \E r \in Run : BeginStart(r, j)
                      \/ daemon = "up" /\ \E deleting \in BOOLEAN : BeginCancel(j, deleting)
    \/ CallerGone

OpStep ==
    \/ InsertSession \/ InsertToken \/ Spawn \/ InsertHandle
    \/ TakeHandle \/ GracefulEnd \/ GraceOver \/ CancelSessions \/ CancelRuntime
    \/ DeleteJobRow \/ DropRuntime

RunStep(r) ==
    \/ CheckToken(r) \/ CreateSnapshot(r) \/ NextDisk(r) \/ Read(r) \/ RemoveSnapshot(r)
    \/ Report(r) \/ FinishRuntime(r) \/ FinishHandle(r) \/ FinishToken(r) \/ Die(r)

Next ==
    \/ Request \/ OpStep
    \/ \E r \in Run : RunStep(r)
    \/ Crash \/ Boot \/ ReconcileStartup

Spec == Init /\ [][Next]_vars

\* The tasks are scheduled, the calls they wait for return, and a daemon that
\* died is started again.  A VM has finitely many disks.
Fairness ==
    /\ WF_vars(OpStep)
    /\ \A r \in Run : WF_vars(RunStep(r)) /\ SF_vars(NextDisk(r) /\ phase'[r] = "remove")
    /\ WF_vars(Boot) /\ WF_vars(ReconcileStartup)

LiveSpec == Spec /\ Fairness
-----------------------------------------------------------------------------
(***************************************************************************)
(* Properties.                                                             *)
(***************************************************************************)

\* Every variable stays in the range the code's types give it.
TypeOK ==
    /\ exists \subseteq Job
    /\ runtime \in [Job -> Status \cup {"none"}]
    /\ handle \in [Job -> Run \cup {0}] /\ token \in [Job -> Run \cup {0}]
    /\ fired \subseteq Run /\ aborted \subseteq Run /\ snaps \subseteq Run
    /\ session \in [Run -> Status \cup {"none"}]
    /\ jobOf \in [Run -> Job \cup {NoJob}]
    /\ phase \in [Run -> Phase]
    /\ outcome \in [Run -> Status \cup {"none"}]
    /\ \A r \in Run : phase[r] \in {"remove", "report", "finRuntime"} => outcome[r] # "none"
    /\ op \in [at : Stage \cup {"none"}, job : Job \cup {NoJob}, run : Run \cup {0},
               deleting : BOOLEAN]
    /\ daemon \in {"up", "booting", "down"} /\ faults \in 0..MaxFaults
    /\ tried \subseteq Run /\ unreachable \subseteq Run /\ stuck \subseteq Job

\* A job is backed up by one run at a time.  Two runs work side by side only
\* when one of them was aborted and is still being dropped, or when the maps
\* had lost track of a run of that job.
ExclusiveRun ==
    \A q, r \in Run :
        q # r /\ Working(q) /\ Working(r) /\ jobOf[q] = jobOf[r] =>
            \/ {q, r} \cap aborted # {}
            \/ RunsOf(jobOf[r]) \cap unreachable # {}

\* A session shown as running has a task that will report for it, or the
\* request that is starting or cancelling it, unless something was cut short.
RunningSessionOwned ==
    \A r \in Run : session[r] = "running" =>
        \/ Working(r)
        \/ op.job = jobOf[r] /\ (op.run = r \/ op.at = "update")
        \/ jobOf[r] \in stuck
        \/ daemon # "up"

\* A job that refuses a start as already running is being started, run or
\* cancelled, unless something was cut short; a run that ended, whichever way
\* and however late, never leaves its job refusing.
RefusalExplained ==
    \A j \in Job : runtime[j] = "running" =>
        \/ \E r \in RunsOf(j) : Working(r)
        \/ op.job = j
        \/ j \in stuck

\* Once a cancel has stopped waiting, every run of the job that still works is
\* being dropped, or had been lost from the maps before.
CancelReaches ==
    op.at \in {"update", "runtime", "delete", "drop"} =>
        \A r \in RunsOf(op.job) : Working(r) => r \in aborted \cup unreachable

\* What is shown as running runs, and what a cancel has stopped stops.
RunsAccounted == RunningSessionOwned /\ CancelReaches

\* A run that ended by itself asked the hypervisor to remove its snapshot, on
\* success, on a disk error and on a cancellation it noticed.
LeakExplained ==
    \A r \in snaps : phase[r] = "ended" => r \in tried \cup aborted

\* What a run or a request leaves behind, it leaves because it was cut short: a
\* job that refuses to start, and a snapshot on the hypervisor.
NothingLeftBehind == RefusalExplained /\ LeakExplained

\* An outcome a run has reported is final: no cancel and no restart rewrites it
\* (only a run that a restart failed while it was working may still report).
OutcomeFinal ==
    [][\A r \in Run : session[r] \in {"completed", "failed"} /\ session'[r] # session[r]
            => r \in unreachable]_vars

\* A running session ends, or waits for a cancel or a restart because a start,
\* a cancel or its own last update was cut short.
SessionEnds ==
    \A r \in Run : session[r] = "running" ~> (session[r] # "running" \/ jobOf[r] \in stuck)
=============================================================================
