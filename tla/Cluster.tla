------------------------------ MODULE Cluster ------------------------------
(***************************************************************************)
(* Active-passive HA: daemons that share one database contend for the      *)
(* leader_lock row and drain the durable job queue while they believe they *)
(* lead.  (Their schedulers ask nobody: see Scheduler.)                    *)
(*                                                                         *)
(* Time counts heartbeat ticks (15 s); each node reads its own clock.  A   *)
(* heartbeat may be late, and it is cut where it awaits: the clock is      *)
(* read, then the upsert runs, then the flag is written.                   *)
(* A daemon that restarts has a new node id, so what it owned before is    *)
(* owned by nobody it can refresh.                                         *)
(***************************************************************************)
EXTENDS Integers, FiniteSets

CONSTANTS
    Node,       \* the daemons
    Skew,       \* what each node's clock is ahead of the common time
    TTL,        \* TTL_SECS
    Entry,      \* rows of job_queue
    MaxTime,    \* bound on the common time
    NoNode,     \* owner of a lock row that does not exist
    Gone        \* owner of a lock row whose process has died

ASSUME NodeAssumption == NoNode \notin Node /\ Gone \notin Node /\ NoNode # Gone
ASSUME SkewAssumption == Skew \in [Node -> Nat]
ASSUME TimeAssumption == TTL \in Nat /\ MaxTime \in Nat

VARIABLES
    now,        \* common time
    up,         \* the daemons that run
    owner,      \* leader_lock.owner
    beat,       \* leader_lock.heartbeat
    isLeader,   \* AppState.is_leader of each node
    round,      \* where each heartbeat task is: "idle", "read", "won", "lost"
    stamp,      \* the time that round has read
    status,     \* job_queue.status, "none" before the entry exists
    draining,   \* nodes whose drain has found the flag set
    toClaim,    \* entries a drain has selected and not yet updated
    toStart,    \* entries it has updated and not yet started
    toFinish    \* entries it has started and not yet finished

(***************************************************************************)
(* History variables: no action reads them.                                *)
(***************************************************************************)
VARIABLES
    heard,      \* the stamp of the last round a node completed, -1 since it booted
    starts,     \* how often each entry was started
    rivals,     \* entries selected while another drain had them selected
    dropped,    \* entries a drain had claimed when its daemon died
    unsaved     \* entries of which an UPDATE by a drain failed

lockVars == <<owner, beat>>
leadVars == <<isLeader, round, stamp, heard>>
queueVars == <<status, draining, toClaim, toStart, toFinish, starts, rivals, dropped,
               unsaved>>
vars == <<now, up, lockVars, leadVars, queueVars>>

Clock(n) == now + Skew[n]

Init ==
    /\ now = 0
    /\ up = {}
    /\ owner = NoNode /\ beat = 0
    /\ isLeader = [n \in Node |-> FALSE]
    /\ round = [n \in Node |-> "idle"]
    /\ stamp = [n \in Node |-> 0]
    /\ status = [e \in Entry |-> "none"]
    /\ draining = {}
    /\ toClaim = [n \in Node |-> {}]
    /\ toStart = [n \in Node |-> {}]
    /\ toFinish = [n \in Node |-> {}]
    /\ heard = [n \in Node |-> -1]
    /\ starts = [e \in Entry |-> 0]
    /\ rivals = {} /\ dropped = {} /\ unsaved = {}

-----------------------------------------------------------------------------
(***************************************************************************)
(* Daemons and their clocks.                                               *)
(***************************************************************************)

Tick ==
    /\ now < MaxTime
    /\ now' = now + 1
    /\ UNCHANGED <<up, lockVars, leadVars, queueVars>>

\* A daemon starts as leader until its first heartbeat says otherwise.
Boot(n) ==
    /\ n \notin up
    /\ up' = up \cup {n}
    /\ isLeader' = [isLeader EXCEPT ![n] = TRUE]
    /\ UNCHANGED <<now, lockVars, round, stamp, heard, queueVars>>

\* A daemon dies.  The database keeps the lock row and the queue.
Crash(n) ==
    /\ n \in up
    /\ up' = up \ {n}
    /\ owner' = IF owner = n THEN Gone ELSE owner
    /\ isLeader' = [isLeader EXCEPT ![n] = FALSE]
    /\ round' = [round EXCEPT ![n] = "idle"]
    /\ draining' = draining \ {n}
    /\ toClaim' = [toClaim EXCEPT ![n] = {}]
    /\ toStart' = [toStart EXCEPT ![n] = {}]
    /\ toFinish' = [toFinish EXCEPT ![n] = {}]
    /\ dropped' = dropped \cup toStart[n] \cup toFinish[n]
    /\ stamp' = [stamp EXCEPT ![n] = 0]
    /\ heard' = [heard EXCEPT ![n] = -1]
    /\ UNCHANGED <<now, beat, status, starts, rivals, unsaved>>

-----------------------------------------------------------------------------
(***************************************************************************)
(* heartbeat and the task that calls it.                                   *)
(***************************************************************************)

\* The clock is read before the statement is sent.
ReadClock(n) ==
    /\ n \in up
    /\ round[n] = "idle"
    /\ stamp' = [stamp EXCEPT ![n] = Clock(n)]
    /\ round' = [round EXCEPT ![n] = "read"]
    /\ UNCHANGED <<now, up, lockVars, isLeader, heard, queueVars>>

\* Mutant: a lock is taken over as soon as it is not younger than the stamp.
MutantNoTTL(n) == owner \in {NoNode, n} \/ beat < stamp[n]

\* The condition of the upsert: no row, our row, or an expired one.
MayTake(n) == owner \in {NoNode, n} \/ beat < stamp[n] - TTL

\* The upsert: one atomic statement.  An error counts as lost, whether or not
\* the statement had taken effect.
Upsert(n) ==
    /\ round[n] = "read"
    /\ \/ /\ MayTake(n)
          /\ owner' = n
          /\ beat' = stamp[n]
          /\ \E result \in {"won", "lost"} : round' = [round EXCEPT ![n] = result]
       \/ /\ round' = [round EXCEPT ![n] = "lost"]
          /\ UNCHANGED lockVars
    /\ UNCHANGED <<now, up, isLeader, stamp, heard, queueVars>>

\* Mutant: the flag is only ever raised.
MutantStickyFlag(n) ==
    /\ round[n] \in {"won", "lost"}
    /\ isLeader' = [isLeader EXCEPT ![n] = @ \/ round[n] = "won"]
    /\ heard' = [heard EXCEPT ![n] = stamp[n]]
    /\ round' = [round EXCEPT ![n] = "idle"]
    /\ stamp' = [stamp EXCEPT ![n] = 0]
    /\ UNCHANGED <<now, up, lockVars, queueVars>>

\* The task writes what heartbeat returned, which may be old by now.
SetFlag(n) ==
    /\ round[n] \in {"won", "lost"}
    /\ isLeader' = [isLeader EXCEPT ![n] = (round[n] = "won")]
    /\ heard' = [heard EXCEPT ![n] = stamp[n]]
    /\ round' = [round EXCEPT ![n] = "idle"]
    /\ stamp' = [stamp EXCEPT ![n] = 0]
    /\ UNCHANGED <<now, up, lockVars, queueVars>>

-----------------------------------------------------------------------------
(***************************************************************************)
(* The durable queue.                                                      *)
(***************************************************************************)

\* queue_enqueue, for a run that is due at once.
Enqueue(e) ==
    /\ status[e] = "none"
    /\ status' = [status EXCEPT ![e] = "queued"]
    /\ UNCHANGED <<now, up, lockVars, leadVars, draining, toClaim, toStart, toFinish,
                   starts, rivals, dropped, unsaved>>

Selected(n) == toClaim[n] \cup toStart[n]

\* The drain wakes up once a minute, when it has dealt with what it had, and
\* goes on if the node leads; the managers' snapshots are written first.
BeginDrain(n) ==
    /\ n \in up \ draining /\ isLeader[n]
    /\ toClaim[n] = {} /\ toStart[n] = {} /\ toFinish[n] = {}
    /\ draining' = draining \cup {n}
    /\ UNCHANGED <<now, up, lockVars, leadVars, status, toClaim, toStart, toFinish,
                   starts, rivals, dropped, unsaved>>

\* queue_claim_due reads the due entries; an error reads as none.
SelectDue(n) ==
    LET queued == {e \in Entry : status[e] = "queued"} IN
    /\ n \in draining
    /\ draining' = draining \ {n}
    /\ \E due \in {queued, {}} :
            /\ toClaim' = [toClaim EXCEPT ![n] = due]
            /\ rivals' = rivals \cup (due \cap UNION {Selected(m) : m \in Node})
    /\ UNCHANGED <<now, up, lockVars, leadVars, status, toStart, toFinish,
                   starts, dropped, unsaved>>

\* Mutant: the claim does not change the row's status.
MutantNoClaim(n, e) ==
    /\ e \in toClaim[n]
    /\ toClaim' = [toClaim EXCEPT ![n] = @ \ {e}]
    /\ toStart' = [toStart EXCEPT ![n] = @ \cup {e}]
    /\ UNCHANGED <<now, up, lockVars, leadVars, draining, status, toFinish,
                   starts, rivals, dropped, unsaved>>

\* Mutant: the claim does not ask that the row is still queued.
MutantBlindClaim(n, e) ==
    /\ e \in toClaim[n]
    /\ status' = [status EXCEPT ![e] = "running"]
    /\ toClaim' = [toClaim EXCEPT ![n] = @ \ {e}]
    /\ toStart' = [toStart EXCEPT ![n] = @ \cup {e}]
    /\ UNCHANGED <<now, up, lockVars, leadVars, draining, toFinish, starts,
                   rivals, dropped, unsaved>>

\* The error of an UPDATE of the queue is dropped; bound: once per entry.
NotSaved(e) == e \notin unsaved /\ unsaved' = unsaved \cup {e} /\ UNCHANGED status

\* Its UPDATE ... WHERE status = 'queued', entry by entry: the entry is
\* returned to the drain whether or not the row was still queued, and even when
\* the UPDATE failed.
Claim(n, e) ==
    /\ e \in toClaim[n]
    /\ \/ /\ status' = [status EXCEPT ![e] = IF @ = "queued" THEN "running" ELSE @]
          /\ UNCHANGED unsaved
       \/ NotSaved(e)
    /\ toClaim' = [toClaim EXCEPT ![n] = @ \ {e}]
    /\ toStart' = [toStart EXCEPT ![n] = @ \cup {e}]
    /\ UNCHANGED <<now, up, lockVars, leadVars, draining, toFinish, starts,
                   rivals, dropped>>

\* start_job for one claimed entry; the drain handles one at a time.
StartEntry(n, e) ==
    /\ toClaim[n] = {} /\ toFinish[n] = {}
    /\ e \in toStart[n]
    /\ toStart' = [toStart EXCEPT ![n] = @ \ {e}]
    /\ toFinish' = [toFinish EXCEPT ![n] = {e}]
    /\ starts' = [starts EXCEPT ![e] = @ + 1]
    /\ UNCHANGED <<now, up, lockVars, leadVars, draining, status, toClaim,
                   rivals, dropped, unsaved>>

\* Mutant: a status no reader of the queue knows.
MutantUnknownStatus(n, e) ==
    /\ e \in toFinish[n]
    /\ \E result \in {"ok", "failed"} : status' = [status EXCEPT ![e] = result]
    /\ toFinish' = [toFinish EXCEPT ![n] = {}]
    /\ UNCHANGED <<now, up, lockVars, leadVars, draining, toClaim, toStart, starts,
                   rivals, dropped, unsaved>>

\* Mutant: an entry whose start fails is not finished.
MutantSkipFailed(n, e) ==
    /\ e \in toFinish[n]
    /\ \/ status' = [status EXCEPT ![e] = "done"]
       \/ UNCHANGED status
    /\ toFinish' = [toFinish EXCEPT ![n] = {}]
    /\ UNCHANGED <<now, up, lockVars, leadVars, draining, toClaim, toStart, starts,
                   rivals, dropped, unsaved>>

\* queue_finish: "done" when the job was started or was running already.
FinishEntry(n, e) ==
    /\ e \in toFinish[n]
    /\ \/ /\ \E result \in {"done", "failed"} : status' = [status EXCEPT ![e] = result]
          /\ UNCHANGED unsaved
       \/ NotSaved(e)
    /\ toFinish' = [toFinish EXCEPT ![n] = {}]
    /\ UNCHANGED <<now, up, lockVars, leadVars, draining, toClaim, toStart, starts,
                   rivals, dropped>>

-----------------------------------------------------------------------------
NodeStep(n) ==
    \/ Boot(n) \/ Crash(n)
    \/ ReadClock(n) \/ Upsert(n) \/ SetFlag(n)
    \/ BeginDrain(n) \/ SelectDue(n)
    \/ \E e \in Entry : Claim(n, e) \/ StartEntry(n, e) \/ FinishEntry(n, e)

Next ==
    \/ Tick
    \/ \E n \in Node : NodeStep(n)
    \/ \E e \in Entry : Enqueue(e)

Spec == Init /\ [][Next]_vars

-----------------------------------------------------------------------------
(***************************************************************************)
(* Properties.                                                             *)
(***************************************************************************)

\* Every variable stays in the range the code's types and schemas give it, and
\* only a daemon that runs is in the middle of something.
TypeOK ==
    /\ now \in Nat
    /\ up \subseteq Node
    /\ owner \in Node \cup {NoNode, Gone} /\ beat \in Nat
    /\ isLeader \in [Node -> BOOLEAN]
    /\ round \in [Node -> {"idle", "read", "won", "lost"}]
    /\ stamp \in [Node -> Nat]
    /\ status \in [Entry -> {"none", "queued", "running", "done", "failed"}]
    /\ draining \subseteq Node
    /\ toClaim \in [Node -> SUBSET Entry] /\ toStart \in [Node -> SUBSET Entry]
    /\ toFinish \in [Node -> SUBSET Entry]
    /\ heard \in [Node -> Nat \cup {-1}]
    /\ starts \in [Entry -> Nat]
    /\ rivals \subseteq Entry /\ dropped \subseteq Entry /\ unsaved \subseteq Entry
    /\ \A n \in Node \ up : round[n] = "idle" /\ ~isLeader[n]

\* A stamp is fresh while no clock in the cluster is more than the TTL past it.
Fresh(t) == t >= 0 /\ \A m \in Node : Clock(m) - t <= TTL

\* A node that leads on the strength of a fresh round owns the lock row: no
\* other node can have taken it over, for any skew between the clocks and any
\* delay inside a heartbeat.
FreshLeaderOwnsLock ==
    \A n \in up : isLeader[n] /\ Fresh(heard[n]) => owner = n

\* ha.rs, "Split-brain window is bounded by clock skew + TTL": of two nodes that
\* both think they lead, one has not completed a round since it booted, or its
\* last round is older than that.
SplitBrainBounded ==
    \A m, n \in up : m # n /\ isLeader[m] /\ isLeader[n] =>
        ~Fresh(heard[m]) \/ ~Fresh(heard[n])

\* db/mod.rs, "claim next due run atomically", "so two schedulers cannot
\* double-fire", and OPERATIONS.md, "claim-due atomically": an entry is started
\* once if every UPDATE of it succeeded, whoever drains the queue.
NeverDoubleFires == \A e \in Entry \ unsaved : starts[e] <= 1

\* What is left of it: an entry is started once, through crashes and changes of
\* leader, unless two drains had selected it before either had claimed it
\* (NeverDoubleFires denies that they can) or an UPDATE failed.
EntryStartedOnce == \A e \in Entry : starts[e] <= 1 \/ e \in rivals \cup unsaved

\* An entry that is marked running is in the hands of a drain, or was when its
\* daemon died or its last UPDATE failed: no other path leaves it there, where
\* nothing picks it up again.
RunningEntryHeld ==
    \A e \in Entry : status[e] = "running" =>
        \/ \E n \in up : e \in Selected(n) \cup toFinish[n]
        \/ e \in dropped \cup unsaved

\* No entry is run again, and none is left behind, without a reason on record.
EntriesSound == EntryStartedOnce /\ RunningEntryHeld

\* A finished entry stays finished, even when a second drain had selected it.
FinishedStays ==
    [][\A e \in Entry : status[e] \in {"done", "failed"}
            => status'[e] \in {"done", "failed"}]_vars
=============================================================================
