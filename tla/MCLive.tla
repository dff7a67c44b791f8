------------------------------- MODULE MCLive -------------------------------
(***************************************************************************)
(* What must go on: the scheduler's tick, and the runs of the JobManager   *)
(* with the request that holds its mutex.  They share no state here, so a  *)
(* behaviour is one of a single one of them: `focus` names it.             *)
(***************************************************************************)
EXTENDS Scheduler

CONSTANTS Run, RunJob, VmJob, MaxFaults

VARIABLE focus

\* The state of the JobManager; cancelledRuns is its `fired`.
VARIABLES exists, runtime, handle, token, cancelledRuns, aborted, session, jobOf, phase,
          outcome, snaps, op, daemon, faults, tried, unreachable, stuck

Manager == INSTANCE JobManager WITH Job <- RunJob, fired <- cancelledRuns

managerVars == <<exists, runtime, handle, token, cancelledRuns, aborted, session, jobOf, phase,
                 outcome, snaps, op, daemon, faults, tried, unreachable, stuck>>

liveVars == <<focus, vars, managerVars>>

LiveInit == focus \in {"scheduler", "manager"} /\ Init /\ Manager!Init

LiveNext ==
    \/ focus = "scheduler" /\ Next /\ UNCHANGED <<focus, managerVars>>
    \/ focus = "manager" /\ Manager!Next /\ UNCHANGED <<focus, vars>>

(* The fairness of the two, each when it is the one that moves: no caller has to send anything. *)
InFocus(A) == focus = "manager" /\ A

ManagerFairness ==
    /\ WF_managerVars(InFocus(Manager!OpStep))
    /\ \A r \in Run : /\ WF_managerVars(InFocus(Manager!RunStep(r)))
                      /\ SF_managerVars(InFocus(Manager!NextDisk(r) /\ phase'[r] = "remove"))
    /\ WF_managerVars(InFocus(Manager!Boot)) /\ WF_managerVars(InFocus(Manager!ReconcileStartup))

LoopsSpec == LiveInit /\ [][LiveNext]_liveVars /\ Fairness /\ ManagerFairness

(* JobManager's SessionEnds, of the runs here. *)
SessionEnds == Manager!SessionEnds
=============================================================================
