----------------------------- MODULE M365Backup -----------------------------
(***************************************************************************)
(* Microsoft 365 backups: the registrations of tenants, and the jobs, kept *)
(* in memory only, that walk what users have while the users go on using   *)
(* it.  Mail folders are listed once and not descended into; drives (and   *)
(* the libraries of sites, by the same walk) are.  The listings are the    *)
(* service's (external); any request may fail.                             *)
(***************************************************************************)
EXTENDS Naturals, Sequences, FiniteSets

CONSTANTS
    M365Job,        \* calls of start_backup
    M365Caller,     \* who calls: a tenant of the backup server, super_admin, or grpc
    BckTenant,      \* tenants of the backup server
    User,           \* users, each the root of a mailbox and of a drive
    Folder,         \* other folders
    File,           \* messages and files
    Placed,         \* where folders and files are at first
    Registrations,  \* bound: registrations
    Moves           \* bound: files that users move

\* Folders are in trees, whose roots are the users.
ASSUME M365Assumption ==
    /\ Placed \in [Folder \cup File -> User \cup Folder] /\ {Registrations, Moves} \subseteq Nat
    /\ User \cap (Folder \cup File) = {} /\ Folder \cap File = {}
    /\ \A S \in SUBSET Folder : S # {} => \E f \in S : Placed[f] \notin S
    /\ BckTenant \cap {"super_admin", "grpc"} = {}

VARIABLES
    tenants,        \* all of one azure_tenant_id: a sequence of [owner, secret]
    mjob,           \* each job: [at, by, of, todo, type, users, stack, rest, bad, status]
    place,          \* where folders and files are now
    copied,         \* <<job, kind, file>> under the job's directory
    moved           \* history: files that their users have moved

m365Vars == <<tenants, mjob, place, copied, moved>>

Workload == {"mail", "drive"}
Types == {<<"mail">>, <<"drive">>, <<"mail", "drive">>}
NoTenant == [owner |-> "", secret |-> "none"]
NoJob == [at |-> "new", by |-> "", of |-> NoTenant, todo |-> <<>>, type |-> <<>>, users |-> {},
          stack |-> {}, rest |-> {}, bad |-> FALSE, status |-> ""]

M365TypeOK ==
    /\ \A i \in DOMAIN tenants : tenants[i].owner \in BckTenant \cup {"azure"}
    /\ \A j \in M365Job :
           /\ mjob[j].at \in {"new", "users", "user", "walk", "items", "end", "over"}
           /\ mjob[j].users \subseteq User /\ mjob[j].rest \subseteq Folder \cup File
    /\ place \in [Folder \cup File -> User \cup Folder] /\ copied \subseteq M365Job \X Workload \X File
    /\ moved \subseteq File

M365Init ==
    /\ tenants = <<>> /\ copied = {} /\ place = Placed /\ moved = {}
    /\ mjob = [j \in M365Job |-> NoJob]

(* By REST with a secret, for the caller's tenant; by gRPC without one, for a tenant of the
   Azure tenant's name. *)
RegisterTenant(owner) ==
    /\ Len(tenants) < Registrations
    /\ tenants' = Append(tenants, [owner |-> owner,
                                 secret |-> IF owner = "azure" THEN "none" ELSE "encrypted"])
    /\ UNCHANGED <<mjob, place, copied, moved>>

Allowed(by, owner) == by \in {"super_admin", "grpc"} \/ by = owner

(* The caller must own a registration; the job takes the first of the Azure tenant. *)
StartBackup(j, by, type) ==
    /\ mjob[j].at = "new" /\ \E i \in DOMAIN tenants : Allowed(by, tenants[i].owner)
    /\ mjob' = [mjob EXCEPT ![j] = [NoJob EXCEPT !.at = "users", !.by = by, !.of = tenants[1],
                                               !.todo = type, !.type = type,
                                               !.status = "running"]]
    /\ UNCHANGED <<tenants, place, copied, moved>>

(* A request is answered only with a token, and a token is given only for the secret itself,
   which a job that was started by gRPC has no key to decrypt. *)
CanAsk(j) == mjob[j].of.secret = "encrypted" /\ mjob[j].by # "grpc"

Children(f) == {i \in DOMAIN place : place[i] = f}
JobKeeps == UNCHANGED <<tenants, place, moved>>

ListUsers(j) ==
    /\ mjob[j].at = "users" /\ CanAsk(j)
    /\ mjob' = [mjob EXCEPT ![j].at = "user", ![j].users = User]
    /\ JobKeeps /\ UNCHANGED copied

NextUser(j) ==
    /\ mjob[j].at = "user"
    /\ \E u \in mjob[j].users :
           mjob' = [mjob EXCEPT ![j].at = "walk", ![j].users = @ \ {u},
                              ![j].stack = IF Head(mjob[j].todo) = "drive" THEN {u}
                                           ELSE Children(u) \cap Folder]
    /\ JobKeeps /\ UNCHANGED copied

(* walk_folder and the loop over mail folders: a folder is listed, in whatever order. *)
ListFolder(j) ==
    /\ mjob[j].at = "walk"
    /\ \E f \in mjob[j].stack :
           mjob' = [mjob EXCEPT ![j].at = "items", ![j].stack = @ \ {f},
                              ![j].rest = IF Head(mjob[j].todo) = "drive" THEN Children(f)
                                          ELSE Children(f) \cap File]
    /\ JobKeeps /\ UNCHANGED copied

TakeItem(j) ==
    /\ mjob[j].at = "items"
    /\ \E i \in mjob[j].rest :
           /\ mjob' = [mjob EXCEPT ![j].rest = @ \ {i},
                                 ![j].stack = @ \cup ({i} \cap Folder)]
           /\ copied' = copied \cup {<<j, Head(mjob[j].todo), f>> : f \in {i} \cap File}
    /\ JobKeeps

FolderDone(j) ==
    /\ mjob[j].at = "items" /\ mjob[j].rest = {}
    /\ mjob' = [mjob EXCEPT ![j].at = "walk"] /\ JobKeeps /\ UNCHANGED copied

UserDone(j) ==
    /\ mjob[j].at = "walk" /\ mjob[j].stack = {}
    /\ mjob' = [mjob EXCEPT ![j].at = "user"] /\ JobKeeps /\ UNCHANGED copied

(* The next part of All, or the end. *)
PartEnds(j, bad) ==
    mjob' = [mjob EXCEPT ![j].at = IF Len(mjob[j].todo) = 1 THEN "end" ELSE "users",
                       ![j].todo = Tail(@), ![j].users = {}, ![j].stack = {}, ![j].rest = {},
                       ![j].bad = bad]

PartDone(j) ==
    /\ mjob[j].at = "user" /\ mjob[j].users = {} /\ PartEnds(j, mjob[j].bad)
    /\ JobKeeps /\ UNCHANGED copied

\* Mutant: All goes by how its last part ended.
MutantPartFails(j) ==
    /\ mjob[j].at \in {"users", "walk", "items"} /\ PartEnds(j, Len(mjob[j].todo) = 1)
    /\ JobKeeps /\ UNCHANGED copied

(* A request or a write that fails ends the part, for the users who have not been reached too;
   the parts after it run. *)
PartFails(j) ==
    /\ mjob[j].at \in {"users", "walk", "items"} /\ PartEnds(j, TRUE)
    /\ JobKeeps /\ UNCHANGED copied

JobEnds(j) ==
    /\ mjob[j].at = "end"
    /\ mjob' = [mjob EXCEPT ![j].at = "over",
                              ![j].status = IF mjob[j].bad THEN "failed" ELSE "completed"]
    /\ JobKeeps /\ UNCHANGED copied

(* The user moves a file while the backup runs (external). *)
UserMoves(i, f) ==
    /\ Cardinality(moved) < Moves /\ place' = [place EXCEPT ![i] = f] /\ moved' = moved \cup {i}
    /\ UNCHANGED <<tenants, mjob, copied>>

(* Jobs and their records are gone with the process; of the tenants, a list that only grows,
   those are back that were in it when it was last saved. *)
M365Restart ==
    /\ \E n \in 0 .. Len(tenants) : tenants' = SubSeq(tenants, 1, n)
    /\ mjob' = [j \in M365Job |->
                            IF mjob[j].at = "new" THEN NoJob ELSE [NoJob EXCEPT !.at = "over"]]
    /\ UNCHANGED <<place, copied, moved>>

M365Next ==
    \/ \E o \in BckTenant \cup {"azure"} : RegisterTenant(o)
    \/ \E j \in M365Job, by \in M365Caller, t \in Types : StartBackup(j, by, t)
    \/ \E j \in M365Job : ListUsers(j) \/ NextUser(j) \/ ListFolder(j) \/ TakeItem(j)
                          \/ FolderDone(j) \/ UserDone(j) \/ PartDone(j) \/ PartFails(j)
                          \/ JobEnds(j)
    \/ \E i \in File, f \in Folder : UserMoves(i, f)
    \/ M365Restart

M365Spec == M365Init /\ [][M365Next]_m365Vars

-----------------------------------------------------------------------------
(***************************************************************************)
(* A job that is completed has every file of every part it was asked for,  *)
(* except files that moved while it ran and messages in a folder within a  *)
(* mail folder; at the root are files of a drive only.  A job runs with    *)
(* the registration of its caller unless the Azure tenant was registered   *)
(* for another one, or by gRPC, before.                                    *)
(***************************************************************************)
JobWhole(j) ==
    mjob[j].status = "completed" =>
        \A n \in DOMAIN mjob[j].type : \A i \in File \ moved :
            \/ <<j, mjob[j].type[n], i>> \in copied
            \/ /\ mjob[j].type[n] = "mail"
               /\ place[i] \in User \/ place[place[i]] \notin User

JobOwned(j) ==
    (/\ mjob[j].at \notin {"new", "over"} /\ mjob[j].by \in BckTenant
     /\ mjob[j].of.owner # mjob[j].by) =>
        \E i, k \in DOMAIN tenants :
            i < k /\ tenants[i].owner = mjob[j].of.owner /\ tenants[k].owner = mjob[j].by

M365Sound == \A j \in M365Job : JobWhole(j) /\ JobOwned(j)
=============================================================================
