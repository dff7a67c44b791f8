--------------------------- MODULE RestorePortal ---------------------------
(***************************************************************************)
(* The self-service portal: restore requests that users submit and         *)
(* approvers decide.  Every daemon keeps the requests in a vector of its   *)
(* own; the one row portal/requests of persisted_state holds the vector    *)
(* that was written last.  A snapshot copies the vector under the read     *)
(* lock and writes the copy after it has let the lock go, so copies are    *)
(* written in any order, by any daemon.  Only submit writes through; the   *)
(* rest waits for the 60 s task of whichever daemon takes itself for the   *)
(* leader (which every daemon does when it starts).                        *)
(***************************************************************************)
EXTENDS Naturals, FiniteSets

CONSTANTS
    Portal,       \* the daemons that serve the portal
    Req,          \* restore requests
    Caller,       \* records [id, approver, tenant], tenant "any" for a global scope
    SubmittedBy,  \* the caller that submits each request
    PortalBoots,  \* bound on the starts of daemons
    PortalCopies  \* bound on the copies that wait to be written

ASSUME PortalAssumption ==
    /\ SubmittedBy \in [Req -> Caller]
    /\ PortalBoots \in Nat /\ PortalCopies \in Nat

VARIABLES
    requests,     \* RestoreRequestManager.requests of each daemon
    boots,        \* starts of daemons so far
    serving,      \* daemons that run
    copies,       \* [by, vec, acks]: copies on their way to the database
    saved         \* the row portal/requests

(* History: no action reads these. *)
VARIABLES
    acked,        \* requests whose submitter was told 201
    told,         \* the status a caller was last told of each request
    forgotten,    \* requests a daemon has hydrated in another status than that
    exposed,      \* requests another writer of the row did not know
    unsaved       \* requests whose write-through failed

portalVars == <<requests, boots, serving, copies, saved, acked, told, forgotten,
                exposed, unsaved>>

Status == {"none", "Pending", "Approved", "Rejected", "Cancelled", "Completed"}
Vector == [Req -> Status]
NoRequests == [r \in Req |-> "none"]

PortalTypeOK ==
    /\ requests \in [Portal -> Vector] /\ saved \in Vector
    /\ boots \in 0 .. PortalBoots /\ serving \subseteq Portal
    /\ copies \subseteq [by : Portal, vec : Vector, acks : SUBSET Req]
    /\ told \in Vector /\ acked \subseteq Req /\ forgotten \subseteq Req
    /\ exposed \subseteq Req /\ unsaved \subseteq Req

PortalInit ==
    /\ requests = [n \in Portal |-> NoRequests]
    /\ boots = 0 /\ serving = {} /\ copies = {}
    /\ saved = NoRequests
    /\ told = NoRequests /\ acked = {} /\ forgotten = {}
    /\ exposed = {} /\ unsaved = {}

TenantAllows(c, r) == c.tenant = "any" \/ c.tenant = SubmittedBy[r].tenant
CanApprove(c, r) == c.approver /\ TenantAllows(c, r)
CanCancel(c, r) == c = SubmittedBy[r] \/ CanApprove(c, r)

(***************************************************************************)
(* A daemon starts: it hydrates its vector from the row, or starts with    *)
(* none when the row cannot be read (persist_list answers an error with    *)
(* the default) or cannot be parsed.  It does not know a request that      *)
(* lives only in a vector or a copy, and after a failed read none at all;  *)
(* what it writes to the row later is without them.                        *)
(***************************************************************************)
PortalBoot(n, readable) ==
    LET hydrated == IF readable THEN saved ELSE NoRequests
    IN  /\ n \notin serving /\ boots < PortalBoots
        /\ boots' = boots + 1
        /\ serving' = serving \cup {n}
        /\ requests' = [requests EXCEPT ![n] = hydrated]
        /\ exposed' = exposed \cup {r \in Req : hydrated[r] = "none" /\
                          (saved[r] # "none" \/ \E m \in serving : requests[m][r] # "none")}
        /\ forgotten' = forgotten \cup {r \in Req : hydrated[r] # told[r]}
        /\ UNCHANGED <<copies, saved, acked, told, unsaved>>

(***************************************************************************)
(* POST /restore-requests up to the copy that is written through.          *)
(***************************************************************************)
\* Every submission has an id that nothing has seen yet.
Fresh(n, r) ==
    /\ n \in serving /\ r \notin acked /\ saved[r] = "none" /\ told[r] = "none"
    /\ \A m \in Portal : requests[m][r] = "none"
    /\ \A c \in copies : c.vec[r] = "none"

\* Mutant: the write-through is left to the next tick.
MutantSubmit(n, r) ==
    /\ Fresh(n, r)
    /\ requests' = [requests EXCEPT ![n][r] = "Pending"]
    /\ acked' = acked \cup {r}
    /\ UNCHANGED <<boots, serving, copies, saved, told, forgotten, exposed, unsaved>>

PortalSubmit(n, r) ==
    /\ Fresh(n, r)
    /\ Cardinality(copies) < PortalCopies
    /\ requests' = [requests EXCEPT ![n][r] = "Pending"]
    /\ copies' = copies \cup {[by |-> n, vec |-> requests'[n], acks |-> {r}]}
    /\ exposed' = IF copies # {} \/ serving # {n} THEN exposed \cup {r} ELSE exposed
    /\ UNCHANGED <<boots, serving, saved, acked, told, forgotten, unsaved>>

(***************************************************************************)
(* The 60 s task of a daemon that takes itself for the leader.             *)
(***************************************************************************)
PortalTick(n) ==
    /\ n \in serving /\ Cardinality(copies) < PortalCopies
    /\ copies' = copies \cup {[by |-> n, vec |-> requests[n], acks |-> {}]}
    /\ UNCHANGED <<requests, boots, serving, saved, acked, told, forgotten, exposed, unsaved>>

(***************************************************************************)
(* persist_set ends.  Its error is dropped, so the submitter hears 201     *)
(* either way.                                                             *)
(***************************************************************************)
PortalWrite(c, ok) ==
    /\ c \in copies
    /\ copies' = copies \ {c}
    /\ saved' = IF ok THEN c.vec ELSE saved
    /\ unsaved' = IF ok THEN unsaved ELSE unsaved \cup c.acks
    /\ acked' = acked \cup c.acks
    /\ UNCHANGED <<requests, boots, serving, told, forgotten, exposed>>

(***************************************************************************)
(* decide, cancel and complete: one write lock each, OK only from the      *)
(* status that each of them asks for.                                      *)
(***************************************************************************)
\* Mutant: the status is not asked for.
MutantMove(n, r, from, to) ==
    /\ n \in serving /\ requests[n][r] # "none"
    /\ requests' = [requests EXCEPT ![n][r] = to]
    /\ told' = [told EXCEPT ![r] = to]
    /\ UNCHANGED <<boots, serving, copies, saved, acked, forgotten, exposed, unsaved>>

Move(n, r, from, to) ==
    /\ n \in serving /\ requests[n][r] = from
    /\ requests' = [requests EXCEPT ![n][r] = to]
    /\ told' = [told EXCEPT ![r] = to]
    /\ UNCHANGED <<boots, serving, copies, saved, acked, forgotten, exposed, unsaved>>

PortalApprove(n, c, r)  == CanApprove(c, r) /\ Move(n, r, "Pending", "Approved")
PortalReject(n, c, r)   == CanApprove(c, r) /\ Move(n, r, "Pending", "Rejected")
PortalCancel(n, c, r)   == CanCancel(c, r)  /\ Move(n, r, "Pending", "Cancelled")
PortalComplete(n, c, r) == CanApprove(c, r) /\ Move(n, r, "Approved", "Completed")

(* A daemon dies; what it had on its way to the database is lost. *)
PortalCrash(n) ==
    /\ n \in serving
    /\ serving' = serving \ {n}
    /\ requests' = [requests EXCEPT ![n] = NoRequests]
    /\ copies' = {c \in copies : c.by # n}
    /\ UNCHANGED <<boots, saved, acked, told, forgotten, exposed, unsaved>>

PortalNext ==
    \/ \E n \in Portal :
        \/ \E readable \in BOOLEAN : PortalBoot(n, readable)
        \/ PortalTick(n) \/ PortalCrash(n)
        \/ \E r \in Req : PortalSubmit(n, r)
        \/ \E r \in Req, c \in Caller :
            \/ PortalApprove(n, c, r) \/ PortalReject(n, c, r)
            \/ PortalCancel(n, c, r) \/ PortalComplete(n, c, r)
    \/ \E c \in copies, ok \in BOOLEAN : PortalWrite(c, ok)

PortalSpec == PortalInit /\ [][PortalNext]_portalVars
----------------------------------------------------------------------------
(***************************************************************************)
(* "P0 durability": a request whose submitter was told 201 stays in the    *)
(* row, unless its write failed unheard or another writer of the row was   *)
(* at work that did not know the request: a daemon whose copy is older, or *)
(* one that started without the row's requests because it could not read   *)
(* them.                                                                   *)
(***************************************************************************)
SubmitDurable ==
    \A r \in Req : r \in acked \ (exposed \cup unsaved) => saved[r] # "none"

(***************************************************************************)
(* What a caller was told stands: a verdict is only contradicted after a   *)
(* daemon has hydrated the request in another status, because the verdict  *)
(* had not reached the row when it started or the row could not be read.   *)
(***************************************************************************)
VerdictStands ==
    [][\A r \in Req \ forgotten :
         told[r] # told'[r] => <<told[r], told'[r]>> \in
            ({"none"} \X {"Approved", "Rejected", "Cancelled"}) \cup {<<"Approved", "Completed">>}
      ]_portalVars
=============================================================================
