----------------------------- MODULE Scheduler -----------------------------
(***************************************************************************)
(* The cron schedulers of daemons that share one database.  Each keeps an  *)
(* in-memory table of its own, filled when it boots and by the requests it *)
(* serves itself; its loop collects the due jobs, then handles them one by *)
(* one, and each start waits in a task of its own for a worker permit and  *)
(* the JobManager mutex.  POST, PUT and DELETE change the row first and    *)
(* the table later, and hold no lock in between; a VM backup that is       *)
(* started from the hypervisor's page leaves the table alone.              *)
(*                                                                         *)
(* All jobs share one cron expression, whose slots are Period apart; the   *)
(* clocks agree.                                                           *)
(***************************************************************************)
EXTENDS Integers

CONSTANTS
    Node,       \* the daemons
    Client,     \* REST callers that create, edit and delete jobs
    Job,        \* jobs that have a schedule
    Later,      \* those that are created while the model runs
    Period,     \* the time between two slots
    MaxTime,    \* bound on the time
    NoNode, NoJob

ASSUME NodeAssumption == NoNode \notin Node /\ NoJob \notin Job /\ Later \subseteq Job
ASSUME TimeAssumption == Period \in Nat \ {0} /\ MaxTime \in Nat

VARIABLES
    now,
    loop,       \* of each node: "down", "waiting" for the tick, "firing"
    row,        \* the job's row: "unborn", "enabled", "disabled" or "gone"
    ran,        \* jobs that have a session
    nextRun,    \* next_run of each node's entry for the job, -1 without an entry
    enabled,    \* the enabled field of that entry
    toRun,      \* the due jobs the tick has collected
    pending,    \* jobs whose spawned start waits for a permit and the mutex
    request     \* what each caller's POST, PUT or DELETE does next

VARIABLES       \* history: no action reads them
    fired,      \* <<node, job, slot>> that were spawned
    refired,    \* those spawned again
    crossed     \* <<node, job>> whose row was changed without or beside the
                \* request that brings the node's entry up to date

entryVars == <<nextRun, enabled>>
rowVars == <<row, ran>>
history == <<fired, refired, crossed>>
vars == <<now, loop, rowVars, entryVars, toRun, pending, request, history>>

NoRequest == [at |-> "none", node |-> NoNode, job |-> NoJob, model |-> "gone"]

\* Mutant: a slot that is now counts as the next one.
MutantInclusive(t) == (t \div Period) * Period

\* next_cron_time: the first slot strictly after t.
NextSlot(t) == (t \div Period + 1) * Period

Exists(j) == row[j] \in {"enabled", "disabled"}

Due(n, j) == enabled[n][j] /\ nextRun[n][j] >= 0 /\ nextRun[n][j] <= now

Init ==
    /\ now = 0
    /\ loop = [n \in Node |-> "down"]
    /\ row = [j \in Job |-> IF j \in Later THEN "unborn" ELSE "enabled"]
    /\ ran = {}
    /\ nextRun = [n \in Node |-> [j \in Job |-> -1]]
    /\ enabled = [n \in Node |-> [j \in Job |-> FALSE]]
    /\ toRun = [n \in Node |-> {}]
    /\ pending = [n \in Node |-> {}]
    /\ request = [c \in Client |-> NoRequest]
    /\ fired = {} /\ refired = {} /\ crossed = {}

Tick ==
    /\ now < MaxTime
    /\ now' = now + 1
    /\ UNCHANGED <<loop, rowVars, entryVars, toRun, pending, request, history>>

\* Every job of the database gets an entry, then the loop starts.
Boot(n) ==
    /\ loop[n] = "down"
    /\ loop' = [loop EXCEPT ![n] = "waiting"]
    /\ nextRun' = [nextRun EXCEPT ![n] =
                     [j \in Job |-> IF Exists(j) THEN NextSlot(now) ELSE -1]]
    /\ enabled' = [enabled EXCEPT ![n] = [j \in Job |-> row[j] = "enabled"]]
    /\ crossed' = {x \in crossed : x[1] # n}
    /\ UNCHANGED <<now, rowVars, toRun, pending, request, fired, refired>>

Crash(n) ==
    /\ loop[n] # "down"
    /\ loop' = [loop EXCEPT ![n] = "down"]
    /\ nextRun' = [nextRun EXCEPT ![n] = [j \in Job |-> -1]]
    /\ enabled' = [enabled EXCEPT ![n] = [j \in Job |-> FALSE]]
    /\ toRun' = [toRun EXCEPT ![n] = {}]
    /\ pending' = [pending EXCEPT ![n] = {}]
    /\ request' = [c \in Client |-> IF request[c].node = n THEN NoRequest ELSE request[c]]
    /\ UNCHANGED <<now, rowVars, history>>

-----------------------------------------------------------------------------
(***************************************************************************)
(* The scheduler's loop.                                                   *)
(***************************************************************************)

\* A tick collects the jobs that are due.
Collect(n) ==
    LET due == {j \in Job : Due(n, j)} IN
    /\ loop[n] = "waiting"
    /\ due # {}
    /\ loop' = [loop EXCEPT ![n] = "firing"]
    /\ toRun' = [toRun EXCEPT ![n] = due]
    /\ UNCHANGED <<now, rowVars, entryVars, pending, request, history>>

\* Mutant: the collected jobs are started without a second look.
MutantNoRecheck(n, j) ==
    /\ j \in toRun[n]
    /\ toRun' = [toRun EXCEPT ![n] = @ \ {j}]
    /\ pending' = [pending EXCEPT ![n] = @ \cup {j}]
    /\ fired' = fired \cup {<<n, j, nextRun[n][j]>>}
    /\ refired' = refired \cup ({<<n, j, nextRun[n][j]>>} \cap fired)
    /\ nextRun' = [nextRun EXCEPT ![n][j] = IF @ = -1 THEN @ ELSE NextSlot(now)]
    /\ UNCHANGED <<now, loop, rowVars, enabled, request, crossed>>

\* Mutant: a job that is no longer due ends the loop.
MutantBreak(n, j) ==
    /\ j \in toRun[n]
    /\ toRun' = [toRun EXCEPT ![n] = IF Due(n, j) THEN @ \ {j} ELSE {}]
    /\ IF Due(n, j)
         THEN /\ pending' = [pending EXCEPT ![n] = @ \cup {j}]
              /\ fired' = fired \cup {<<n, j, nextRun[n][j]>>}
              /\ refired' = refired \cup ({<<n, j, nextRun[n][j]>>} \cap fired)
              /\ nextRun' = [nextRun EXCEPT ![n][j] = NextSlot(now)]
              /\ UNCHANGED loop
         ELSE /\ loop' = [loop EXCEPT ![n] = "stopped"]
              /\ UNCHANGED <<nextRun, pending, fired, refired>>
    /\ UNCHANGED <<now, rowVars, enabled, request, crossed>>

\* A collected job that is still due is spawned and its next run computed; one
\* that an edit has made not due is passed over.
Fire(n, j) ==
    /\ j \in toRun[n]
    /\ toRun' = [toRun EXCEPT ![n] = @ \ {j}]
    /\ IF Due(n, j)
         THEN /\ pending' = [pending EXCEPT ![n] = @ \cup {j}]
              /\ fired' = fired \cup {<<n, j, nextRun[n][j]>>}
              /\ refired' = refired \cup ({<<n, j, nextRun[n][j]>>} \cap fired)
              /\ nextRun' = [nextRun EXCEPT ![n][j] = NextSlot(now)]
         ELSE UNCHANGED <<nextRun, pending, fired, refired>>
    /\ UNCHANGED <<now, loop, rowVars, enabled, request, crossed>>

EndTick(n) ==
    /\ loop[n] = "firing"
    /\ toRun[n] = {}
    /\ loop' = [loop EXCEPT ![n] = "waiting"]
    /\ UNCHANGED <<now, rowVars, entryVars, toRun, pending, request, history>>

\* start_job, whenever the permit and the mutex come: it looks for the row and
\* not at enabled.
StartRun(n, j) ==
    /\ j \in pending[n]
    /\ pending' = [pending EXCEPT ![n] = @ \ {j}]
    /\ ran' = IF Exists(j) THEN ran \cup {j} ELSE ran
    /\ UNCHANGED <<now, loop, row, entryVars, toRun, request, history>>

-----------------------------------------------------------------------------
(***************************************************************************)
(* POST /jobs, PUT and DELETE /jobs/{id}.                                  *)
(***************************************************************************)

\* Entries that the change of j's row will not reach, or reach out of order:
\* those of other nodes, and all while another request is between its steps.
Crossed(n, j) ==
    IF \E c \in Client : request[c].job = j THEN Node \X {j} ELSE (Node \ {n}) \X {j}

\* The handler has changed the row and goes on to read it.
Loading(n, j) == [at |-> "load", node |-> n, job |-> j, model |-> "gone"]

CreateJob(c, n, j) ==
    /\ request[c] = NoRequest /\ loop[n] # "down"
    /\ row[j] = "unborn" /\ row' = [row EXCEPT ![j] = "enabled"]
    /\ request' = [request EXCEPT ![c] = Loading(n, j)]
    /\ crossed' = crossed \cup Crossed(n, j)
    /\ UNCHANGED <<now, loop, ran, entryVars, toRun, pending, fired, refired>>

\* register_vm_job and start_job: the schedule is in the row, and no daemon that
\* runs has an entry for it.
StartVmBackup(n, j) ==
    /\ loop[n] # "down"
    /\ row[j] = "unborn" /\ row' = [row EXCEPT ![j] = "enabled"]
    /\ pending' = [pending EXCEPT ![n] = @ \cup {j}]
    /\ crossed' = crossed \cup (Node \X {j})
    /\ UNCHANGED <<now, loop, ran, entryVars, toRun, request, fired, refired>>

Accepts(c, n, j) == request[c] = NoRequest /\ loop[n] # "down" /\ Exists(j)

EditRow(c, n, j, on) ==
    /\ Accepts(c, n, j)
    /\ row' = [row EXCEPT ![j] = IF on THEN "enabled" ELSE "disabled"]
    /\ request' = [request EXCEPT ![c] = Loading(n, j)]
    /\ crossed' = crossed \cup Crossed(n, j)
    /\ UNCHANGED <<now, loop, ran, entryVars, toRun, pending, fired, refired>>

\* The row is read again; when it is gone there is nothing to schedule.
LoadModel(c) ==
    LET model == row[request[c].job] IN
    /\ request[c].at = "load"
    /\ request' = [request EXCEPT ![c] =
            IF model = "gone" THEN NoRequest ELSE [@ EXCEPT !.at = "apply", !.model = model]]
    /\ UNCHANGED <<now, loop, rowVars, entryVars, toRun, pending, history>>

\* Mutant: a job that is disabled keeps its entry.
MutantKeepDisabled(c) ==
    LET q == request[c] IN
    /\ q.at = "apply"
    /\ nextRun' = [nextRun EXCEPT ![q.node][q.job] = NextSlot(now)]
    /\ enabled' = [enabled EXCEPT ![q.node][q.job] = @ \/ q.model = "enabled"]
    /\ request' = [request EXCEPT ![c] = NoRequest]
    /\ UNCHANGED <<now, loop, rowVars, toRun, pending, history>>

\* update_job: remove_job, then add_job from the model that was read.
ApplyModel(c) ==
    LET q == request[c] IN
    /\ q.at = "apply"
    /\ nextRun' = [nextRun EXCEPT ![q.node][q.job] = NextSlot(now)]
    /\ enabled' = [enabled EXCEPT ![q.node][q.job] = (q.model = "enabled")]
    /\ request' = [request EXCEPT ![c] = NoRequest]
    /\ UNCHANGED <<now, loop, rowVars, toRun, pending, history>>

\* Only a job without a session can be deleted (foreign key).
DeleteRow(c, n, j) ==
    /\ Accepts(c, n, j)
    /\ j \notin ran
    /\ row' = [row EXCEPT ![j] = "gone"]
    /\ request' = [request EXCEPT ![c] = [at |-> "remove", node |-> n, job |-> j, model |-> "gone"]]
    /\ crossed' = crossed \cup Crossed(n, j)
    /\ UNCHANGED <<now, loop, ran, entryVars, toRun, pending, fired, refired>>

RemoveEntry(c) ==
    LET q == request[c] IN
    /\ q.at = "remove"
    /\ nextRun' = [nextRun EXCEPT ![q.node][q.job] = -1]
    /\ enabled' = [enabled EXCEPT ![q.node][q.job] = FALSE]
    /\ request' = [request EXCEPT ![c] = NoRequest]
    /\ UNCHANGED <<now, loop, rowVars, toRun, pending, history>>

\* axum drops the handler of a caller that disconnects while it waits for a lock.
DropRequest(c) ==
    LET q == request[c] IN
    /\ q # NoRequest /\ request' = [request EXCEPT ![c] = NoRequest]
    /\ crossed' = crossed \cup {<<q.node, q.job>>}
    /\ UNCHANGED <<now, loop, rowVars, entryVars, toRun, pending, fired, refired>>

-----------------------------------------------------------------------------
NodeStep(n) ==
    \/ Boot(n) \/ Crash(n) \/ Collect(n) \/ EndTick(n)
    \/ \E j \in Job : Fire(n, j) \/ StartRun(n, j) \/ StartVmBackup(n, j)

ClientStep(c) ==
    \/ \E n \in Node, j \in Job : \/ \E on \in BOOLEAN : EditRow(c, n, j, on)
                                  \/ CreateJob(c, n, j) \/ DeleteRow(c, n, j)
    \/ LoadModel(c) \/ ApplyModel(c) \/ RemoveEntry(c) \/ DropRequest(c)

Next ==
    \/ Tick
    \/ \E n \in Node : NodeStep(n)
    \/ \E c \in Client : ClientStep(c)

Spec == Init /\ [][Next]_vars

\* The loop's task is scheduled.
Fairness ==
    \A n \in Node : WF_vars(Collect(n) \/ EndTick(n) \/ \E j \in Job : Fire(n, j))

LiveSpec == Spec /\ Fairness

-----------------------------------------------------------------------------
(***************************************************************************)
(* Properties.                                                             *)
(***************************************************************************)

\* Every variable stays in the range the code's types give it.
TypeOK ==
    /\ now \in 0..MaxTime
    /\ loop \in [Node -> {"down", "waiting", "firing"}]
    /\ row \in [Job -> {"unborn", "enabled", "disabled", "gone"}]
    /\ ran \subseteq Job
    /\ nextRun \in [Node -> [Job -> Nat \cup {-1}]]
    /\ enabled \in [Node -> [Job -> BOOLEAN]]
    /\ toRun \in [Node -> SUBSET Job] /\ pending \in [Node -> SUBSET Job]
    /\ request \in [Client -> [at : {"none", "load", "apply", "remove"}, node : Node \cup {NoNode},
                               job : Job \cup {NoJob}, model : {"enabled", "disabled", "gone"}]]
    /\ fired \subseteq Node \X Job \X Nat /\ refired \subseteq fired
    /\ crossed \subseteq Node \X Job

\* One scheduler starts a job at most once for a slot, through slow ticks, edits
\* of the job that recompute its next run, and restarts within the slot.
SlotOncePerNode == refired = {}

\* A start that is spawned is due at that moment in the entry as it is then: an
\* edit between the collection and the start is honoured.
OnlyDueSpawned ==
    [][\A n \in Node : \A j \in Job :
            j \in toRun[n] \ toRun'[n] /\ loop'[n] # "down" /\ ~Due(n, j)
                => pending'[n] = pending[n] /\ nextRun'[n][j] = nextRun[n][j]]_vars

\* When no request is in between, a node's entry says what the row says, unless
\* the row was changed through another node, by two requests at a time, by one
\* that was dropped, or made by the start of a VM backup.
EntryMatchesRow ==
    \A n \in Node : \A j \in Job :
        loop[n] # "down" /\ (\A c \in Client : request[c].job # j) =>
            \/ enabled[n][j] = (row[j] = "enabled")
            \/ <<n, j>> \in crossed

\* A node's table of jobs is right, and starts no slot twice.
TableSound == SlotOncePerNode /\ EntryMatchesRow

\* A job that is due on a running scheduler does not stay due.
DueFires == \A n \in Node : \A j \in Job : Due(n, j) ~> ~Due(n, j)

\* ha.rs: "The node that holds a fresh lock is the leader and runs the scheduler
\* + durable queue drain": a slot is not started by two nodes.
OneNodePerSlot ==
    \A x, y \in fired : x[2] = y[2] /\ x[3] = y[3] => x[1] = y[1]
=============================================================================
