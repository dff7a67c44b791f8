------------------------------ MODULE MCControl ------------------------------
(***************************************************************************)
(* The control plane: the scheduler and the services that hold the         *)
(* sessions, requests and rows behind the routes, side by side in one      *)
(* instance.  They share no state in these models, so a behaviour is one   *)
(* of a single service: `focus` names the one that moves.                  *)
(***************************************************************************)
EXTENDS Scheduler, RestorePortal, DrFailover, Tenants, Inventory, Sessions, Agents

CONSTANTS n1, n2, a1, r1, v, w, c1, c2, j1, t1, t2, w1, w2, w3

VARIABLE focus

Callers == {[id |-> "u", approver |-> FALSE, tenant |-> "a"],
            [id |-> "o", approver |-> TRUE, tenant |-> "a"],
            [id |-> "x", approver |-> TRUE, tenant |-> "b"]}
Submitter == [r \in {r1} |-> [id |-> "u", approver |-> FALSE, tenant |-> "a"]]
Plans == {[vms |-> <<v, w>>, order |-> <<w>>], [vms |-> <<v>>, order |-> <<>>]}
FirstTill == [t \in {t1, t2} |-> IF t = t1 THEN 2 ELSE 1]

Planes == {"scheduler", "portal", "dr", "tenants", "inventory", "logins",
    "tokens", "flows", "agents"}

controlVars == <<focus, vars, portalVars, drVars, tenantVars, inventoryVars,
    sessVars, agentVars>>

ControlTypeOK ==
    /\ focus \in Planes
    /\ CASE focus = "scheduler" -> TypeOK
         [] focus = "portal" -> PortalTypeOK
         [] focus = "dr" -> DrTypeOK
         [] focus = "tenants" -> TenantTypeOK
         [] focus = "inventory" -> InvTypeOK
         [] focus \in {"logins", "tokens", "flows"} -> SessTypeOK
         [] focus = "agents" -> AgentTypeOK

ControlInit ==
    /\ focus \in Planes
    /\ DrInit /\ (focus # "dr" => wired /\ power = DrVm)
    /\ InvInit /\ (focus # "inventory" => \A h \in Hypervisor : hvRow[h] = "absent")
    /\ AgentInit /\ (focus # "agents" => \A t \in Task : work[t] = "file")
    /\ Init /\ PortalInit /\ TenantInit /\ SessInit

(* Only the service in focus moves. *)
Alone(s) ==
    /\ focus = s /\ UNCHANGED focus
    /\ IF s = "scheduler" THEN TRUE ELSE UNCHANGED vars
    /\ IF s = "portal" THEN TRUE ELSE UNCHANGED portalVars
    /\ IF s = "dr" THEN TRUE ELSE UNCHANGED drVars
    /\ IF s = "tenants" THEN TRUE ELSE UNCHANGED tenantVars
    /\ IF s = "inventory" THEN TRUE ELSE UNCHANGED inventoryVars
    /\ IF s \in {"logins", "tokens", "flows"} THEN TRUE ELSE UNCHANGED sessVars
    /\ IF s = "agents" THEN TRUE ELSE UNCHANGED agentVars

ControlNext ==
    \/ Alone("scheduler") /\ Next
    \/ Alone("portal") /\ PortalNext
    \/ Alone("dr") /\ DrNext
    \/ Alone("tenants") /\ TenantNext
    \/ Alone("inventory") /\ InvNext
    \/ Alone("logins") /\ (LoginNext \/ SessCommon)
    \/ Alone("tokens") /\ (TokenNext \/ SessCommon)
    \/ Alone("flows") /\ (FlowNext \/ SessCommon)
    \/ Alone("agents") /\ AgentNext

ControlSpec == ControlInit /\ [][ControlNext]_controlVars
==============================================================================
