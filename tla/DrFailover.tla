----------------------------- MODULE DrFailover -----------------------------
(***************************************************************************)
(* Disaster recovery: failovers, failbacks and test failovers of plans.    *)
(* Each walks the plan's VMs one after the other over the one hypervisor   *)
(* connector the environment may configure, or walks nothing when it names *)
(* none, and each writes the one status of the orchestrator.  Nothing     *)
(* keeps two of them apart, and an operation that fails, or whose caller   *)
(* goes away, leaves the status as it was.                                 *)
(***************************************************************************)
EXTENDS Naturals, FiniteSets, SequencesExt

CONSTANTS
    DrVm,       \* virtual machines
    Plan,       \* plans [vms, order]: sequences of VMs
    DrCall      \* calls of the three routes

ASSUME DrAssumption == \A p \in Plan : p.vms \in Seq(DrVm) /\ p.order \in Seq(DrVm)

VARIABLES
    wired,      \* BCK_DR_HV_* names a hypervisor
    power,      \* VMs that are on
    drStatus,   \* DrOrchestrator.status
    call,       \* the operations: [kind, plan, phase, pos, fails]
    disturbed   \* history: VMs that were shut down while each call has run

drVars == <<wired, power, drStatus, call, disturbed>>

Kind == {"failover", "failback", "test"}
DrPhase == {"none", "down", "up", "wait", "done", "failed"}
NoCall == [kind |-> "none", plan |-> "none", phase |-> "none", pos |-> 1, fails |-> 0]
InProgress(kind) == CASE kind = "failover" -> "FailoverInProgress"
                      [] kind = "failback" -> "FailbackInProgress"
                      [] kind = "test" -> "TestInProgress"
Outcome(kind) == IF kind = "failover" THEN "FailedOver" ELSE "Idle"

DrInit ==
    /\ wired \in BOOLEAN /\ power \in SUBSET DrVm /\ drStatus = "Idle"
    /\ call = [c \in DrCall |-> NoCall] /\ disturbed = [c \in DrCall |-> {}]

Busy == {c \in DrCall : call[c].phase \in {"down", "up", "wait"}}

(* Failover: the named order first, then the plan's other VMs; failback: the
   plan's.  WalkOrder is the positions of the route that the walk stops at. *)
Route(c) == IF call[c].kind = "failover" THEN call[c].plan.order \o call[c].plan.vms
            ELSE call[c].plan.vms
WalkOrder(c) ==
    LET p == call[c].plan
    IN  {i \in DOMAIN Route(c) : call[c].kind = "failover" =>
            IF i <= Len(p.order) THEN Route(c)[i] \in ToSet(p.vms)
            ELSE Route(c)[i] \notin ToSet(p.order)}

(* The walk's next stop, and what it leads to. *)
NextStop(c) == {i \in WalkOrder(c) : i >= call[c].pos
                    /\ \A j \in WalkOrder(c) : j >= call[c].pos => i <= j}
Vm(c, i) == Route(c)[i]
Walked(c) == \A i \in WalkOrder(c) : i < call[c].pos

DrTypeOK ==
    /\ wired \in BOOLEAN /\ power \subseteq DrVm
    /\ drStatus \in {"Idle", "FailedOver", "Error"} \cup {InProgress(k) : k \in Kind}
    /\ \A c \in DrCall :
        /\ call[c].phase \in DrPhase /\ call[c].kind \in Kind \cup {"none"}
        /\ call[c].kind # "none" => /\ call[c].plan \in Plan
                                    /\ call[c].pos \in 1 .. Len(Route(c)) + 1
                                    /\ call[c].fails \in 0 .. call[c].pos - 1
    /\ disturbed \in [DrCall -> SUBSET DrVm]

SetCall(c, r) == call' = [call EXCEPT ![c] = r]

Begin(c, kind, p) ==
    /\ call[c] = NoCall /\ kind \in {"failover", "failback"}
    /\ SetCall(c, [NoCall EXCEPT !.kind = kind, !.plan = p, !.phase = "down"])
    /\ drStatus' = InProgress(kind)
    /\ UNCHANGED <<wired, power, disturbed>>

(***************************************************************************)
(* shutdown_vms: a VM that refuses is counted; only if all of them refuse  *)
(* does the call fail.  Without a connector nothing is done.  An error     *)
(* leaves it open whether the VM has changed.                              *)
(***************************************************************************)
ShutDown(c, i, ok, changed) ==
    /\ call[c].phase = "down" /\ wired /\ i \in NextStop(c) /\ (ok => changed)
    /\ SetCall(c, [call[c] EXCEPT !.pos = i + 1, !.fails = IF ok THEN @ ELSE @ + 1])
    /\ power' = IF changed THEN power \ {Vm(c, i)} ELSE power
    /\ disturbed' = [d \in DrCall |->
            IF changed /\ d \in Busy \ {c} THEN disturbed[d] \cup {Vm(c, i)} ELSE disturbed[d]]
    /\ UNCHANGED <<wired, drStatus>>

StartUp(c, i, ok, changed) ==
    /\ call[c].phase = "up" /\ wired /\ i \in NextStop(c) /\ (ok => changed)
    /\ SetCall(c, [call[c] EXCEPT !.pos = i + 1, !.fails = IF ok THEN @ ELSE @ + 1])
    /\ power' = IF changed THEN power \cup {Vm(c, i)} ELSE power
    /\ UNCHANGED <<wired, drStatus, disturbed>>

AllFailed(c) == WalkOrder(c) # {} /\ call[c].fails = Cardinality(WalkOrder(c))

(* The end of a walk: the next phase, or the error. *)
EndWalk(c) ==
    /\ call[c].phase \in {"down", "up"} /\ (Walked(c) \/ ~wired)
    /\ SetCall(c, [call[c] EXCEPT !.pos = 1, !.fails = 0,
                    !.phase = IF AllFailed(c) THEN "failed"
                              ELSE IF @ = "down" THEN "up" ELSE "wait"])
    /\ UNCHANGED <<wired, power, drStatus, disturbed>>

(***************************************************************************)
(* wait_for_heartbeat polls the VMs one by one.  A VM that is not on, or   *)
(* whose query fails, sends it round again, or to the error once the RTO   *)
(* is over.                                                                *)
(***************************************************************************)
\* Mutant: a VM that is not on is passed over.
MutantPoll(c, i) ==
    /\ call[c].phase = "wait" /\ call[c].kind = "failover" /\ wired /\ i \in NextStop(c)
    /\ SetCall(c, [call[c] EXCEPT !.pos = i + 1])
    /\ UNCHANGED <<wired, power, drStatus, disturbed>>

Poll(c, i) ==
    /\ call[c].phase = "wait" /\ call[c].kind = "failover" /\ wired /\ i \in NextStop(c)
    /\ \/ Vm(c, i) \in power /\ SetCall(c, [call[c] EXCEPT !.pos = i + 1])
       \/ SetCall(c, [call[c] EXCEPT !.pos = 1])
       \/ SetCall(c, [call[c] EXCEPT !.phase = "failed"])
    /\ UNCHANGED <<wired, power, drStatus, disturbed>>

(* A failback does not wait: replication is turned round and that is all. *)
Commit(c) ==
    /\ call[c].phase = "wait"
    /\ call[c].kind = "failback" \/ (call[c].kind = "failover" /\ (Walked(c) \/ ~wired))
    /\ SetCall(c, [call[c] EXCEPT !.phase = "done"])
    /\ drStatus' = Outcome(call[c].kind)
    /\ UNCHANGED <<wired, power, disturbed>>

(* test_failover only logs; at its end the status is Idle whatever it was before. *)
BeginTest(c, p) ==
    /\ call[c] = NoCall
    /\ SetCall(c, [NoCall EXCEPT !.kind = "test", !.plan = p, !.phase = "wait"])
    /\ drStatus' = "TestInProgress"
    /\ UNCHANGED <<wired, power, disturbed>>

EndTest(c) ==
    /\ call[c].kind = "test" /\ call[c].phase = "wait"
    /\ SetCall(c, [call[c] EXCEPT !.phase = "done"]) /\ drStatus' = "Idle"
    /\ UNCHANGED <<wired, power, disturbed>>

TestUnknown(c) ==
    /\ call[c] = NoCall
    /\ drStatus' = "Error"
    /\ UNCHANGED <<wired, power, call, disturbed>>

(* The caller goes away; its request is dropped at the await it is at. *)
GoAway(c) ==
    /\ c \in Busy /\ SetCall(c, [call[c] EXCEPT !.phase = "failed"])
    /\ UNCHANGED <<wired, power, drStatus, disturbed>>

(* Calls that have not begun are alike: the next one is any of them. *)
NextCall ==
    LET unused == {c \in DrCall : call[c] = NoCall}
    IN  IF unused = {} THEN {} ELSE {CHOOSE c \in unused : TRUE}

DrNext ==
    \/ \E c \in DrCall :
        \/ EndWalk(c) \/ Commit(c) \/ EndTest(c) \/ GoAway(c)
        \/ c \in Busy /\ \E i \in NextStop(c) :
            \/ Poll(c, i)
            \/ \E ok, changed \in BOOLEAN :
                ShutDown(c, i, ok, changed) \/ StartUp(c, i, ok, changed)
    \/ \E c \in NextCall :
        \/ TestUnknown(c)
        \/ \E p \in Plan : BeginTest(c, p) \/ \E k \in Kind : Begin(c, k, p)

DrSpec == DrInit /\ [][DrNext]_drVars
----------------------------------------------------------------------------
(* A failover is answered "failover_committed". *)
Commits(c) == call[c].kind = "failover" /\ call'[c].phase = "done" /\ call[c].phase # "done"

(***************************************************************************)
(* When a failover over a connector is answered "failover_committed",      *)
(* every VM of its plan is on, however the walks went, unless another      *)
(* operation shut it down meanwhile.  Without a connector every step is    *)
(* skipped with a warning and answers Ok, so that nothing can be said.     *)
(***************************************************************************)
CommittedRuns ==
    [][\A c \in DrCall : wired /\ Commits(c)
         => ToSet(call[c].plan.vms) \subseteq power \cup disturbed[c]]_drVars
=============================================================================
