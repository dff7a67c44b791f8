-------------------------- MODULE InstantRecovery --------------------------
(***************************************************************************)
(* The sessions of the restore plane: restores and instant recoveries that *)
(* the tracker shows to callers, the registry of recovery managers behind  *)
(* them, the server and migration tasks a manager spawns, the VM it may    *)
(* register on a hypervisor, and the SureBackup driver, which recovers a   *)
(* snapshot into a lab, tests it and stops the recovery.                   *)
(*                                                                         *)
(* A session has two ids: the tracker's, which callers hold, and the one   *)
(* the manager makes, under which the registry lists it.                   *)
(***************************************************************************)
EXTENDS Naturals, FiniteSets

CONSTANTS RSession    \* requests of the restore plane

VARIABLES
    via,        \* what was asked: "restore", "nfs", "iscsi", "hv", "lab", or "none"
    tracker,    \* RestoreTracker.sessions: the status a caller reads
    lab,        \* SureBackupEngine.jobs: the status of a verification
    task,       \* where the task spawned for the request is
    server,     \* the NFS or iSCSI server task
    listed,     \* sessions in the vector of their manager
    published,  \* sessions whose manager is in the registry
    migration,  \* the migration task
    token,      \* sessions in cancel_tokens
    cancelled,  \* sessions whose token was cancelled
    linked,     \* sessions with a connector and a vm_ref
    vm,         \* VMs registered on the hypervisor
    stopping,   \* where stop_recovery is
    daemon      \* "up", "draining" (stops what is listed), "down"

(* History: no action reads these. *)
VARIABLES
    early,      \* sessions stopped before their migration had stored its token
    faulty,     \* sessions whose server could not listen though its port was free
    abandoned   \* VMs the hypervisor registered without answering so, whose
                \* unregistration failed, or whose daemon died

recVars == <<via, tracker, lab, task, server, listed, published, migration, token,
             cancelled, linked, vm, stopping, daemon, early, faulty,
             abandoned>>

TaskPC == {"none", "work", "lab", "start", "register", "publish", "failed", "started",
           "boot", "stop", "stopped", "done"}

\* How a call to a hypervisor ends for the caller: an error leaves it open
\* whether the call took effect (the answer was lost, or a later command of
\* its script failed).
Answer == {"ok", "refused", "lost"}
TakesEffect(answer) == answer # "refused"

RecTypeOK ==
    /\ via \in [RSession -> {"none", "restore", "nfs", "iscsi", "hv", "lab"}]
    /\ tracker \in [RSession -> {"none", "Running", "Completed", "Failed", "Cancelled"}]
    /\ lab \in [RSession -> {"none", "Pending", "CreatingLab", "BootingVm", "RunningTests",
                            "Completed", "Failed"}]
    /\ task \in [RSession -> TaskPC]
    /\ server \in [RSession -> {"none", "spawned", "serving", "unbound", "broken"}]
    /\ migration \in [RSession -> {"none", "spawned", "reading", "ended"}]
    /\ stopping \in [RSession -> {"none", "token", "drop", "done"}]
    /\ daemon \in {"up", "draining", "down"}
    /\ \A S \in {listed, published, token, cancelled, linked, vm, early, faulty, abandoned} :
          S \subseteq RSession

RecInit ==
    /\ via = [s \in RSession |-> "none"] /\ tracker = [s \in RSession |-> "none"]
    /\ lab = [s \in RSession |-> "none"] /\ task = [s \in RSession |-> "none"]
    /\ server = [s \in RSession |-> "none"] /\ migration = [s \in RSession |-> "none"]
    /\ stopping = [s \in RSession |-> "none"]
    /\ listed = {} /\ published = {} /\ token = {} /\ cancelled = {}
    /\ linked = {} /\ vm = {} /\ daemon = "up"
    /\ early = {} /\ faulty = {} /\ abandoned = {}

Step(s, from, to) == task[s] = from /\ task' = [task EXCEPT ![s] = to]
SetTracker(s, x) == tracker' = [tracker EXCEPT ![s] = x]
SetLab(s, x) == lab' = [lab EXCEPT ![s] = x]

(* Both protocols listen on their default port unless the caller names one. *)
Port(s) == IF via[s] = "iscsi" THEN 3260 ELSE 2049

managerVars == <<server, listed, published, migration, token, cancelled, linked, vm,
                 stopping, early, faulty, abandoned>>
----------------------------------------------------------------------------
(***************************************************************************)
(* Routes.  A request that passes its checks is put in the tracker as      *)
(* Running and a task is spawned for it.                                   *)
(***************************************************************************)
AskRestore(s) ==
    /\ daemon = "up" /\ Step(s, "none", "work")
    /\ via' = [via EXCEPT ![s] = "restore"] /\ SetTracker(s, "Running")
    /\ UNCHANGED <<lab, managerVars, daemon>>

AskRecovery(s, proto) ==
    /\ daemon = "up" /\ Step(s, "none", "start")
    /\ via' = [via EXCEPT ![s] = proto] /\ SetTracker(s, "Running")
    /\ UNCHANGED <<lab, managerVars, daemon>>

AskRecoveryVm(s) ==
    /\ daemon = "up" /\ Step(s, "none", "start")
    /\ via' = [via EXCEPT ![s] = "hv"] /\ SetTracker(s, "Running")
    /\ UNCHANGED <<lab, managerVars, daemon>>

AskLab(s) ==
    /\ daemon = "up" /\ Step(s, "none", "lab")
    /\ via' = [via EXCEPT ![s] = "lab"] /\ SetLab(s, "Pending")
    /\ UNCHANGED <<tracker, managerVars, daemon>>

(* perform_vm_restore, perform_file_restore *)
FinishRestore(s, ok) ==
    /\ Step(s, "work", "done")
    /\ SetTracker(s, IF ok THEN "Completed" ELSE "Failed")
    /\ UNCHANGED <<via, lab, managerVars, daemon>>

(***************************************************************************)
(* POST /restore/instant/{id}/stop, "Stop the actual server and mark the   *)
(* session cancelled".  The registry is asked for the tracker's id, under  *)
(* which it lists nothing: the status changes and nothing is stopped.      *)
(***************************************************************************)
RegistryId(s) == <<"registry", s>>
Listing(id) == {s \in published \cap listed : RegistryId(s) = id}

StopRoute(s) ==
    /\ daemon = "up" /\ via[s] \in {"nfs", "iscsi", "hv"} /\ tracker[s] # "none"
    /\ Listing(s) = {}
    /\ SetTracker(s, "Cancelled")
    /\ UNCHANGED <<via, lab, task, managerVars, daemon>>
----------------------------------------------------------------------------
(***************************************************************************)
(* A manager starts an export.  The manifest may be gone or the address    *)
(* refused; else the server task and the migration task are spawned, and   *)
(* the session is listed, whether the server will get its port or not.     *)
(***************************************************************************)
StartFails(s) ==
    /\ Step(s, "start", "failed")
    /\ UNCHANGED <<via, tracker, lab, managerVars, daemon>>

StartExport(s) ==
    /\ Step(s, "start", IF via[s] = "hv" THEN "register" ELSE "publish")
    /\ server' = [server EXCEPT ![s] = "spawned"]
    /\ migration' = [migration EXCEPT ![s] = "spawned"]
    /\ listed' = listed \cup {s}
    /\ UNCHANGED <<via, tracker, lab, published, token, cancelled, linked, vm, stopping,
                   daemon, early, faulty, abandoned>>

(***************************************************************************)
(* The server task.  A bind that fails, because another server holds the   *)
(* port or for any other reason, and an accept that fails later end it     *)
(* with a warning; nobody else is told.                                    *)
(***************************************************************************)
SetServer(s, from, to) ==
    /\ server[s] = from
    /\ server' = [server EXCEPT ![s] = to]
    /\ UNCHANGED <<via, tracker, lab, task, listed, published, migration, token, cancelled,
                   linked, vm, stopping, daemon, early, abandoned>>

\* Mutant: the server task takes every address for taken.
MutantPortTaken(s) == via[s] # "none"

PortTaken(s) == \E r \in RSession : server[r] = "serving" /\ Port(r) = Port(s)

Bind(s) ==
    /\ SetServer(s, "spawned", IF PortTaken(s) THEN "unbound" ELSE "serving")
    /\ UNCHANGED faulty

BindFails(s) == SetServer(s, "spawned", "unbound") /\ faulty' = faulty \cup {s}
AcceptFails(s) == SetServer(s, "serving", "broken") /\ UNCHANGED faulty
----------------------------------------------------------------------------
(***************************************************************************)
(* start_hypervisor_recovery.  When register_vm fails the call ends with   *)
(* the error, and the manager, its tasks and its session are left to       *)
(* themselves, as is the VM if it was registered all the same.             *)
(***************************************************************************)
Register(s, answer) ==
    /\ Step(s, "register", IF answer = "ok" THEN "publish" ELSE "failed")
    /\ vm' = IF TakesEffect(answer) THEN vm \cup {s} ELSE vm
    /\ linked' = IF answer = "ok" THEN linked \cup {s} ELSE linked
    /\ abandoned' = IF answer = "lost" THEN abandoned \cup {s} ELSE abandoned
    /\ UNCHANGED <<via, tracker, lab, server, listed, published, migration, token,
                   cancelled, stopping, daemon, early, faulty>>

Publish(s) ==
    /\ Step(s, "publish", IF via[s] = "lab" THEN "boot" ELSE "started")
    /\ published' = published \cup {s}
    /\ IF via[s] = "lab" THEN SetLab(s, "BootingVm") ELSE UNCHANGED lab
    /\ UNCHANGED <<via, tracker, server, listed, migration, token, cancelled, linked, vm,
                   stopping, daemon, early, faulty, abandoned>>

(* The route's task ends: success leaves the status, failure overwrites it. *)
Report(s) ==
    /\ via[s] # "lab"
    /\ \/ Step(s, "started", "done") /\ UNCHANGED tracker
       \/ Step(s, "failed", "done") /\ SetTracker(s, "Failed")
    /\ UNCHANGED <<via, lab, managerVars, daemon>>
----------------------------------------------------------------------------
(***************************************************************************)
(* spawn_migration: the task stores its own token once it runs, then reads *)
(* every block; a read error is only logged.                               *)
(***************************************************************************)
SetMigration(s, from, to) ==
    /\ migration[s] = from
    /\ migration' = [migration EXCEPT ![s] = to]
    /\ UNCHANGED <<via, tracker, lab, task, server, listed, published, cancelled, linked,
                   vm, stopping, daemon, early, faulty, abandoned>>

BeginMigration(s) == SetMigration(s, "spawned", "reading") /\ token' = token \cup {s}
EndMigration(s) == SetMigration(s, "reading", "ended") /\ token' = token \ {s}
----------------------------------------------------------------------------
(***************************************************************************)
(* InstantRecoveryRegistry.stop_session, by the registry's id: the manager *)
(* leaves the registry, then stop_recovery runs without the lock.          *)
(***************************************************************************)
TakeManager(s) ==
    /\ published' = published \ {s}
    /\ stopping' = [stopping EXCEPT ![s] = "token"]

\* Mutant: the token is looked up and left in the map uncancelled.
MutantStopToken(s) ==
    /\ stopping[s] = "token"
    /\ stopping' = [stopping EXCEPT ![s] = "drop"]
    /\ UNCHANGED <<via, tracker, lab, task, server, listed, published, migration, token,
                   cancelled, linked, vm, daemon, early, faulty, abandoned>>

StopToken(s) ==
    /\ stopping[s] = "token"
    /\ stopping' = [stopping EXCEPT ![s] = "drop"]
    /\ cancelled' = IF s \in token THEN cancelled \cup {s} ELSE cancelled
    /\ token' = token \ {s}
    /\ early' = IF migration[s] = "spawned" THEN early \cup {s} ELSE early
    /\ UNCHANGED <<via, tracker, lab, task, server, listed, published, migration, linked,
                   vm, daemon, faulty, abandoned>>

\* Mutant: the connector is dropped before it is asked.
MutantStopDrop(s, answer) ==
    /\ stopping[s] = "drop"
    /\ stopping' = [stopping EXCEPT ![s] = "done"]
    /\ linked' = linked \ {s} /\ listed' = listed \ {s}
    /\ UNCHANGED <<via, tracker, lab, task, server, published, migration, token, cancelled,
                   vm, daemon, early, faulty, abandoned>>

(* unregister_vm, whose failure is only logged; then the session is dropped. *)
StopDrop(s, answer) ==
    /\ stopping[s] = "drop"
    /\ stopping' = [stopping EXCEPT ![s] = "done"]
    /\ vm' = IF s \in linked /\ TakesEffect(answer) THEN vm \ {s} ELSE vm
    /\ abandoned' = IF s \in linked /\ answer # "ok" THEN abandoned \cup {s} ELSE abandoned
    /\ linked' = linked \ {s} /\ listed' = listed \ {s}
    /\ UNCHANGED <<via, tracker, lab, task, server, published, migration, token, cancelled,
                   daemon, early, faulty>>
----------------------------------------------------------------------------
(***************************************************************************)
(* The SureBackup driver.  Its tests are recorded and decide nothing.      *)
(***************************************************************************)
LabCreate(s) ==
    /\ Step(s, "lab", "start") /\ SetLab(s, "CreatingLab")
    /\ UNCHANGED <<via, tracker, managerVars, daemon>>

LabFails(s) ==
    /\ via[s] = "lab" /\ Step(s, "failed", "done") /\ SetLab(s, "Failed")
    /\ UNCHANGED <<via, tracker, managerVars, daemon>>

LabTest(s) ==
    /\ Step(s, "boot", "stop") /\ SetLab(s, "RunningTests")
    /\ UNCHANGED <<via, tracker, managerVars, daemon>>

\* Mutant: the driver forgets the recovery it has started.
MutantLabStop(s) ==
    /\ Step(s, "stop", "stopped")
    /\ UNCHANGED <<via, tracker, lab, managerVars, daemon>>

LabStop(s) ==
    /\ Step(s, "stop", "stopped")
    /\ IF s \in published \cap listed
       THEN TakeManager(s) ELSE UNCHANGED <<published, stopping>>
    /\ UNCHANGED <<via, tracker, lab, server, listed, migration, token, cancelled, linked,
                   vm, daemon, early, faulty, abandoned>>

(* stop_session has returned: at once when somebody else took the manager. *)
LabComplete(s) ==
    /\ Step(s, "stopped", "done") /\ SetLab(s, "Completed")
    /\ stopping[s] \in {"none", "done"} \/ daemon = "draining"
    /\ UNCHANGED <<via, tracker, managerVars, daemon>>
----------------------------------------------------------------------------
(* SIGTERM: after the drain every listed session is stopped, then the process ends. *)
Drain ==
    /\ daemon = "up" /\ daemon' = "draining"
    /\ UNCHANGED <<via, tracker, lab, task, managerVars>>

DrainStop(s) ==
    /\ daemon = "draining" /\ s \in published \cap listed
    /\ TakeManager(s)
    /\ UNCHANGED <<via, tracker, lab, task, server, listed, migration, token, cancelled,
                   linked, vm, daemon, early, faulty, abandoned>>

(* The process ends or dies: only what is on the hypervisor is left. *)
Down ==
    /\ daemon # "down" /\ daemon' = "down"
    /\ abandoned' = abandoned \cup vm
    /\ task' = [s \in RSession |-> "done"]
    /\ tracker' = [s \in RSession |-> "none"] /\ lab' = [s \in RSession |-> "none"]
    /\ server' = [s \in RSession |-> "none"] /\ migration' = [s \in RSession |-> "none"]
    /\ stopping' = [s \in RSession |-> "none"]
    /\ listed' = {} /\ published' = {} /\ token' = {} /\ cancelled' = {} /\ linked' = {}
    /\ via' = [s \in RSession |-> "none"] /\ early' = {} /\ faulty' = {}
    /\ UNCHANGED vm

TaskStep(s) ==
    \/ StartExport(s) \/ StartFails(s) \/ Publish(s) \/ Report(s)
    \/ Bind(s) \/ BindFails(s) \/ AcceptFails(s)
    \/ BeginMigration(s) \/ EndMigration(s)
    \/ StopToken(s)
    \/ LabCreate(s) \/ LabFails(s) \/ LabTest(s) \/ LabStop(s) \/ LabComplete(s)
    \/ \E ok \in BOOLEAN : FinishRestore(s, ok)
    \/ \E answer \in Answer : Register(s, answer) \/ StopDrop(s, answer)

RecNext ==
    \/ \E s \in RSession :
        \/ AskRestore(s) \/ AskRecoveryVm(s) \/ AskLab(s)
        \/ \E p \in {"nfs", "iscsi"} : AskRecovery(s, p)
        \/ StopRoute(s) \/ DrainStop(s) \/ TaskStep(s)
    \/ Drain \/ Down

RecSpec == RecInit /\ [][RecNext]_recVars
----------------------------------------------------------------------------
(***************************************************************************)
(* A session that is listed and whose server could not listen lost its     *)
(* port to another session's server, possibly one that was stopped long    *)
(* ago (no stop ends a server task) or that has itself broken since; or    *)
(* the system refused it a free port.                                      *)
(***************************************************************************)
UnservedExplained ==
    \A s \in listed : server[s] = "unbound" =>
        \/ s \in faulty
        \/ \E r \in RSession \ {s} : server[r] \in {"serving", "broken"} /\ Port(r) = Port(s)

(***************************************************************************)
(* A migration that outlives the stop of its session uncancelled was       *)
(* stopped before it had stored its token.                                 *)
(***************************************************************************)
MigrationStopped ==
    \A s \in RSession : stopping[s] \in {"drop", "done"} /\ migration[s] = "reading"
        => s \in cancelled \cup early

(***************************************************************************)
(* A VM that is registered on the hypervisor and that no session will      *)
(* unregister any more is one whose registration or unregistration ended   *)
(* with an error, or whose daemon died.                                    *)
(***************************************************************************)
OrphanVmExplained == vm \subseteq linked \cup abandoned

(***************************************************************************)
(* A verification that completed has left no session in the registry.      *)
(***************************************************************************)
LabCleanedUp ==
    \A s \in RSession : lab[s] = "Completed" /\ daemon = "up" => s \notin published \cup listed

(***************************************************************************)
(* What the sessions leave behind, together.                               *)
(***************************************************************************)
RecoverySound == UnservedExplained /\ MigrationStopped /\ OrphanVmExplained /\ LabCleanedUp
=============================================================================
