----------------------------- MODULE Inventory -----------------------------
(***************************************************************************)
(* The inventory: rows of hypervisors, rows of the VMs that a discovery    *)
(* found on them, and the mark that a backup leaves on a VM's row.  Every  *)
(* route reads the hypervisor's row, asks the hypervisor (external: its    *)
(* VMs come, go and change meanwhile) and writes what it has heard.  A     *)
(* statement may fail and a caller may leave at any await.                 *)
(***************************************************************************)
EXTENDS Naturals, FiniteSets

CONSTANTS
    Hypervisor,     \* ids of hypervisors
    MoRef,          \* VMs of one hypervisor
    InvCall,        \* calls of the routes, and runs of VM jobs
    Versions        \* bound: changes of a VM

ASSUME InventoryAssumption == Versions \in Nat

VARIABLES
    hvRow,          \* each hypervisor: "absent" or the status of its row
    vmRow,          \* each VM: [seen, protected]; seen = 0: no row
    onHv,           \* each VM: [version, here], on the hypervisor
    icall,          \* each call: [at, kind, hv, ref, heard, known]
    probed,         \* history: what the last probe of each hypervisor said
    newest,         \* history: the newest version that was in each VM's row
    backedUp,       \* history: VMs with a backup
    unmarked,       \* history: VMs whose backup found no row to mark, or failed to
    raced           \* history: <<what, hypervisor>>: answers may have been written out of order

inventoryVars == <<hvRow, vmRow, onHv, icall, probed, newest, backedUp, unmarked, raced>>

InvVm == Hypervisor \X MoRef
NewInvCall == [at |-> "new", kind |-> "", hv |-> "", ref |-> "", heard |-> <<>>, known |-> {}]
NoRow == [seen |-> 0, protected |-> FALSE]

InvTypeOK ==
    /\ {hvRow, probed} \subseteq [Hypervisor -> {"absent", "connected", "error"}]
    /\ vmRow \in [InvVm -> [seen : 0 .. Versions + 1, protected : BOOLEAN]]
    /\ onHv \in [InvVm -> [version : 1 .. Versions + 1, here : BOOLEAN]]
    /\ \A c \in InvCall : icall[c].at \in {"new", "ask", "insert", "erase", "status", "read",
                                           "commit", "mark", "over"}
    /\ newest \in [InvVm -> 0 .. Versions + 1] /\ backedUp \cup unmarked \subseteq InvVm

InvInit ==
    /\ hvRow \in [Hypervisor -> {"absent", "connected"}] /\ probed = hvRow
    /\ vmRow = [w \in InvVm |-> NoRow] /\ newest = [w \in InvVm |-> 0]
    /\ onHv = [w \in InvVm |-> [version |-> 1, here |-> TRUE]]
    /\ icall = [c \in InvCall |-> NewInvCall]
    /\ backedUp = {} /\ unmarked = {} /\ raced = {}

Onward(c, at) == icall' = [icall EXCEPT ![c].at = at]
Of(c) == icall[c].hv
historyVars == <<probed, newest, backedUp, unmarked, raced>>

-----------------------------------------------------------------------------
(* External: what happens on the hypervisor. *)
VmChanges(w) ==
    /\ onHv[w].version <= Versions
    /\ \E here \in BOOLEAN : onHv' = [onHv EXCEPT ![w] = [version |-> @.version + 1, here |-> here]]
    /\ UNCHANGED <<hvRow, vmRow, icall, historyVars>>

-----------------------------------------------------------------------------
(* Each route but the addition reads the row first, for the connector and the tenant's check; a
   new hypervisor is asked before it has a row. *)
AskHypervisor(c, kind, h, r) ==
    /\ icall[c] = NewInvCall
    /\ IF kind = "add" THEN hvRow[h] = "absent" /\ \A d \in InvCall : Of(d) # h
       ELSE hvRow[h] # "absent"
    /\ icall' = [icall EXCEPT ![c] = [NewInvCall EXCEPT !.kind = kind, !.hv = h, !.ref = r,
                                        !.at = IF kind = "delete" THEN "erase" ELSE "ask"]]
    /\ UNCHANGED <<hvRow, vmRow, onHv, historyVars>>

(* test_connection, for an addition or a test *)
ProbeHypervisor(c) ==
    /\ icall[c].at = "ask" /\ icall[c].kind \in {"add", "test"}
    /\ \E status \in {"connected", "error"} :
        /\ icall' = [icall EXCEPT ![c].at = IF icall[c].kind = "add" THEN "insert" ELSE "status",
                                  ![c].heard = status]
        /\ probed' = [probed EXCEPT ![Of(c)] = status]
    /\ raced' = IF \E d \in InvCall \ {c} : Of(d) = Of(c) /\ icall[d].at = "status"
                THEN raced \cup {<<"status", Of(c)>>} ELSE raced
    /\ UNCHANGED <<hvRow, vmRow, onHv, newest, backedUp, unmarked>>

AddHypervisor(c) ==
    /\ icall[c].at = "insert" /\ Onward(c, "over")
    /\ hvRow' = [hvRow EXCEPT ![Of(c)] = icall[c].heard]
    /\ UNCHANGED <<vmRow, onHv, historyVars>>

(* The UPDATE of a row that is gone changes nothing. *)
SetStatus(c) ==
    /\ icall[c].at = "status" /\ Onward(c, "over")
    /\ hvRow' = [hvRow EXCEPT ![Of(c)] = IF @ = "absent" THEN @ ELSE icall[c].heard]
    /\ UNCHANGED <<vmRow, onHv, historyVars>>

(* The rows of its VMs refer to a hypervisor, and nothing deletes them: once it has been
   discovered it can no longer be deleted. *)
Discovered(h) == \E r \in MoRef : vmRow[<<h, r>>].seen > 0

DeleteHypervisor(c) ==
    /\ icall[c].at = "erase" /\ Onward(c, "over")
    /\ hvRow' = [hvRow EXCEPT ![Of(c)] = IF Discovered(Of(c)) THEN @ ELSE "absent"]
    /\ UNCHANGED <<vmRow, onHv, historyVars>>

-----------------------------------------------------------------------------
(* list_vms *)
ListVms(c) ==
    /\ icall[c].at = "ask" /\ icall[c].kind = "vms"
    /\ icall' = [icall EXCEPT ![c].at = "read",
                    ![c].heard = [r \in {r \in MoRef : onHv[<<Of(c), r>>].here} |->
                                      onHv[<<Of(c), r>>].version]]
    /\ raced' = IF \E d \in InvCall \ {c} : Of(d) = Of(c) /\ icall[d].at \in {"read", "commit"}
                THEN raced \cup {<<"vms", Of(c)>>} ELSE raced
    /\ UNCHANGED <<hvRow, vmRow, onHv, probed, newest, backedUp, unmarked>>

(* upsert_vms_batch: one transaction that looks for each row ... *)
ReadVmRows(c) ==
    /\ icall[c].at = "read"
    /\ icall' = [icall EXCEPT ![c].at = "commit",
                    ![c].known = {r \in DOMAIN icall[c].heard : vmRow[<<Of(c), r>>].seen > 0}]
    /\ UNCHANGED <<hvRow, vmRow, onHv, historyVars>>

Fits(c) ==
    /\ hvRow[Of(c)] # "absent"
    /\ \A r \in DOMAIN icall[c].heard \ icall[c].known : vmRow[<<Of(c), r>>].seen = 0

\* Mutant: the row of a VM is written as if it were new.
MutantUpserted(row, version) == [seen |-> version, protected |-> FALSE]

Upserted(row, version) ==
    IF row.seen = 0 THEN [seen |-> version, protected |-> FALSE] ELSE [row EXCEPT !.seen = version]

(* ... and updates or inserts it.  An insert that another discovery was quicker with, or whose
   hypervisor is gone, undoes them all. *)
CommitVmRows(c) ==
    /\ icall[c].at = "commit" /\ Onward(c, "over")
    /\ IF Fits(c)
       THEN /\ vmRow' = [w \in InvVm |->
                            IF w[1] = Of(c) /\ w[2] \in DOMAIN icall[c].heard
                            THEN Upserted(vmRow[w], icall[c].heard[w[2]]) ELSE vmRow[w]]
            /\ newest' = [w \in InvVm |->
                            IF vmRow'[w].seen > newest[w] THEN vmRow'[w].seen ELSE newest[w]]
       ELSE UNCHANGED <<vmRow, newest>>
    /\ UNCHANGED <<hvRow, onHv, probed, backedUp, unmarked, raced>>

-----------------------------------------------------------------------------
(* start_vm_backup registers and starts a job that needs no row of the VM; its run writes the
   snapshot before it marks the VM. *)
VmBackedUp(c) ==
    /\ icall[c].at = "ask" /\ icall[c].kind = "backup" /\ Onward(c, "mark")
    /\ onHv[<<Of(c), icall[c].ref>>].here
    /\ backedUp' = backedUp \cup {<<Of(c), icall[c].ref>>}
    /\ UNCHANGED <<hvRow, vmRow, onHv, probed, newest, unmarked, raced>>

MarkVmBackedUp(c) ==
    LET vm == <<Of(c), icall[c].ref>> IN
    /\ icall[c].at = "mark" /\ Onward(c, "over")
    /\ IF vmRow[vm].seen = 0 THEN unmarked' = unmarked \cup {vm} /\ UNCHANGED vmRow
       ELSE vmRow' = [vmRow EXCEPT ![vm].protected = TRUE] /\ UNCHANGED unmarked
    /\ UNCHANGED <<hvRow, onHv, probed, newest, backedUp, raced>>

(* An error or a caller that leaves: what is not written yet is not written. *)
InvGivesUp(c) ==
    /\ icall[c].at \notin {"new", "over"} /\ Onward(c, "over")
    /\ raced' = IF icall[c].at = "status" THEN raced \cup {<<"status", Of(c)>>} ELSE raced
    /\ unmarked' = IF icall[c].at = "mark" THEN unmarked \cup {<<Of(c), icall[c].ref>>}
                   ELSE unmarked
    /\ UNCHANGED <<hvRow, vmRow, onHv, probed, newest, backedUp>>

InvNext ==
    \/ \E w \in InvVm : VmChanges(w)
    \/ \E c \in InvCall :
        \/ \E h \in Hypervisor : \E kind \in {"add", "test", "delete", "vms"} :
                AskHypervisor(c, kind, h, "")
        \/ \E w \in InvVm : AskHypervisor(c, "backup", w[1], w[2])
        \/ ProbeHypervisor(c) \/ AddHypervisor(c) \/ SetStatus(c) \/ DeleteHypervisor(c)
        \/ ListVms(c) \/ ReadVmRows(c) \/ CommitVmRows(c)
        \/ VmBackedUp(c) \/ MarkVmBackedUp(c) \/ InvGivesUp(c)

InvSpec == InvInit /\ [][InvNext]_inventoryVars

-----------------------------------------------------------------------------
(* A VM that has a backup counts as protected, whatever discoveries overlap with it, unless its
   backup was finished before any discovery had found it or the mark failed. *)
BackupMarked ==
    \A w \in backedUp :
        vmRow[w].seen > 0 /\ (\A c \in InvCall : icall[c].at = "mark" => <<Of(c), icall[c].ref>> # w)
        => vmRow[w].protected \/ w \in unmarked

(* Nothing counts as protected that has no backup. *)
MarkHasBackup == \A w \in InvVm : vmRow[w].protected => w \in backedUp

(* A row goes back to an older state of its VM, and a status to that of an older probe, only
   if two calls have asked the hypervisor before the first of them wrote its answer, or one never
   wrote it. *)
AnswersInOrder ==
    \A h \in Hypervisor :
        /\ <<"vms", h>> \notin raced => \A r \in MoRef : vmRow[<<h, r>>].seen = newest[<<h, r>>]
        /\ hvRow[h] # "absent" /\ <<"status", h>> \notin raced
           /\ (\A c \in InvCall : Of(c) = h => icall[c].at # "status")
           => hvRow[h] = probed[h]

InventorySound == BackupMarked /\ MarkHasBackup /\ AnswersInOrder

=============================================================================
