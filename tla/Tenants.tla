------------------------------ MODULE Tenants ------------------------------
(***************************************************************************)
(* Tenants: rows of the database behind a cache that each daemon fills at  *)
(* the first call and trusts from then on.  A change goes to the cache     *)
(* under its lock and, after the lock is released, to the row, which it    *)
(* replaces whole.  Any statement may fail; a caller may go away at any    *)
(* await.  Callers whom the policy refuses change nothing and are left out.*)
(***************************************************************************)
EXTENDS Naturals, Sequences

CONSTANTS
    TenantNode,     \* daemons over one database
    TenantId,       \* ids of tenants
    Settled,        \* tenants that exist at first, each with a user
    TenantCall      \* calls of the routes

ASSUME TenantAssumption == Settled \subseteq TenantId

Tenant == [status : {"Active", "Suspended"}, quota : {"default", "raised"}]
Created == [status |-> "Active", quota |-> "default"]

VARIABLES
    tenantRow,      \* the table: the row of each id, <<>> if there is none
    cache,          \* each daemon: the entries of each id in memory, in their order
    hydrated,       \* daemons that have filled their cache
    tcall,          \* each call: [at, on, kind, id, copy, loaded]
    member,         \* tenants to whom users belong
    drift,          \* history: <<daemon, tenant>>: cache and row may differ, for a known reason
    closed          \* history: tenants deleted when nothing else held a copy of them

tenantVars == <<tenantRow, cache, hydrated, tcall, member, drift, closed>>

Row == {<<>>} \cup {<<x>> : x \in Tenant}
Nobody == [t \in TenantId |-> <<>>]
NewCall == [at |-> "new", on |-> "", kind |-> "", id |-> "", copy |-> <<>>, loaded |-> Nobody]
Kinds == {"create", "suspend", "quota", "delete", "read"}

TenantTypeOK ==
    /\ tenantRow \in [TenantId -> Row]
    /\ cache \in [TenantNode -> [TenantId -> Seq(Tenant)]]
    /\ hydrated \subseteq TenantNode /\ member \subseteq TenantId
    /\ drift \subseteq TenantNode \X TenantId /\ closed \subseteq TenantId
    /\ \A c \in TenantCall : tcall[c].at \in {"new", "load", "install", "blank", "apply", "save",
                                            "push", "erase", "users", "over"}

TenantInit ==
    /\ tenantRow = [t \in TenantId |-> IF t \in Settled THEN <<Created>> ELSE <<>>]
    /\ member = Settled
    /\ cache = [n \in TenantNode |-> Nobody] /\ hydrated = {}
    /\ tcall = [c \in TenantCall |-> NewCall]
    /\ drift = {} /\ closed = {}

On(n) == {c \in TenantCall : tcall[c].on = n /\ tcall[c].at \notin {"new", "over"}}
To(c, at) == tcall' = [tcall EXCEPT ![c].at = at]
Writing(n) == {c \in On(n) : tcall[c].at \in {"save", "push", "erase"}}

-----------------------------------------------------------------------------
(* A create has a new id. *)
AskTenant(c, n, kind, t) ==
    /\ tcall[c] = NewCall
    /\ kind = "create" => t \notin Settled /\ \A d \in TenantCall : tcall[d].id # t
    /\ tcall' = [tcall EXCEPT ![c] = [NewCall EXCEPT !.on = n, !.kind = kind, !.id = t,
                                        !.at = IF n \in hydrated THEN "apply" ELSE "load"]]
    /\ UNCHANGED <<tenantRow, cache, hydrated, member, drift, closed>>

(* hydrate: a load that fails counts as one of an empty table. *)
LoadTenants(c) ==
    /\ tcall[c].at = "load"
    /\ \/ tcall' = [tcall EXCEPT ![c].at = "install", ![c].loaded = tenantRow]
       \/ tcall' = [tcall EXCEPT ![c].at = "blank"]
    /\ UNCHANGED <<tenantRow, cache, hydrated, member, drift, closed>>

Unsure(n, c) ==
    IF tcall[c].at = "blank" THEN {n} \X TenantId
    ELSE {<<n, tcall[d].id>> : d \in Writing(n) \ {c}}

\* Mutant: what was loaded is added to what is there.
MutantInstall(c) ==
    LET n == tcall[c].on IN
    /\ tcall[c].at \in {"install", "blank"}
    /\ cache' = [cache EXCEPT ![n] = [t \in TenantId |-> @[t] \o tcall[c].loaded[t]]]
    /\ hydrated' = hydrated \cup {n} /\ drift' = drift \cup Unsure(n, c)
    /\ tcall' = [tcall EXCEPT ![c].at = "apply", ![c].loaded = Nobody]
    /\ UNCHANGED <<tenantRow, member, closed>>

(* Of several first calls each replaces the cache by what it has loaded. *)
InstallTenants(c) ==
    LET n == tcall[c].on IN
    /\ tcall[c].at \in {"install", "blank"}
    /\ cache' = [cache EXCEPT ![n] = tcall[c].loaded] /\ hydrated' = hydrated \cup {n}
    /\ drift' = drift \cup Unsure(n, c)
    /\ tcall' = [tcall EXCEPT ![c].at = "apply", ![c].loaded = Nobody]
    /\ UNCHANGED <<tenantRow, member, closed>>

Changed(tenant, kind) ==
    IF kind = "suspend" THEN [tenant EXCEPT !.status = "Suspended"]
    ELSE [tenant EXCEPT !.quota = "raised"]

(* set_status, update_quota, update_settings, update_usage: the first entry of the id *)
ChangeTenant(c) ==
    LET n == tcall[c].on
        t == tcall[c].id
        after == Changed(Head(cache[n][t]), tcall[c].kind)
    IN
    /\ tcall[c].at = "apply" /\ tcall[c].kind \in {"suspend", "quota"}
    /\ IF cache[n][t] = <<>> THEN To(c, "over") /\ UNCHANGED cache
       ELSE /\ cache' = [cache EXCEPT ![n][t] = <<after>> \o Tail(@)]
            /\ tcall' = [tcall EXCEPT ![c].at = "save", ![c].copy = <<after>>]
    /\ UNCHANGED <<tenantRow, hydrated, member, drift, closed>>

CreateTenant(c) ==
    /\ tcall[c].at = "apply" /\ tcall[c].kind = "create"
    /\ tcall' = [tcall EXCEPT ![c].at = "save", ![c].copy = <<Created>>]
    /\ UNCHANGED <<tenantRow, cache, hydrated, member, drift, closed>>

DeleteTenant(c) ==
    LET n == tcall[c].on
        t == tcall[c].id
    IN
    /\ tcall[c].at = "apply" /\ tcall[c].kind = "delete"
    /\ cache' = [cache EXCEPT ![n][t] = <<>>]
    /\ To(c, IF cache[n][t] = <<>> THEN "over" ELSE "erase")
    /\ UNCHANGED <<tenantRow, hydrated, member, drift, closed>>

(* list_tenants, get_tenant, get_usage, check_quota, the billing summary *)
ReadTenants(c) ==
    /\ tcall[c].at = "apply" /\ tcall[c].kind = "read"
    /\ To(c, "over")
    /\ UNCHANGED <<tenantRow, cache, hydrated, member, drift, closed>>

-----------------------------------------------------------------------------
(* The statements on the database. *)

(* Who does not hear of a write: other daemons, calls that have loaded the table already, and the
   daemon itself if another of its calls has yet to write the same row. *)
Unaware(c) ==
    LET t == tcall[c].id IN
    {<<m, t>> : m \in {m \in TenantNode :
        \/ m # tcall[c].on /\ m \in hydrated
        \/ \E d \in On(m) : tcall[d].at = "install"
        \/ m = tcall[c].on /\ \E d \in Writing(m) \ {c} : tcall[d].id = t}}

SaveTenant(c) ==
    /\ tcall[c].at = "save"
    /\ tenantRow' = [tenantRow EXCEPT ![tcall[c].id] = tcall[c].copy]
    /\ To(c, IF tcall[c].kind = "create" THEN "push" ELSE "over")
    /\ drift' = drift \cup Unaware(c)
    /\ UNCHANGED <<cache, hydrated, member, closed>>

PushTenant(c) ==
    /\ tcall[c].at = "push" /\ To(c, "over")
    /\ cache' = [cache EXCEPT ![tcall[c].on][tcall[c].id] = @ \o tcall[c].copy]
    /\ UNCHANGED <<tenantRow, hydrated, member, drift, closed>>

LastCopy(c) ==
    LET t == tcall[c].id IN
    /\ \A m \in TenantNode : cache[m][t] = <<>>
    /\ \A d \in TenantCall \ {c} :
        /\ tcall[d].loaded[t] = <<>>
        /\ tcall[d].at \in {"save", "push"} => tcall[d].id # t

EraseTenant(c) ==
    /\ tcall[c].at = "erase" /\ To(c, "users")
    /\ tenantRow' = [tenantRow EXCEPT ![tcall[c].id] = <<>>]
    /\ drift' = drift \cup Unaware(c)
    /\ closed' = IF LastCopy(c) THEN closed \cup {tcall[c].id} ELSE closed
    /\ UNCHANGED <<cache, hydrated, member>>

(* null_user_tenant: its error is dropped. *)
ReleaseUsers(c) ==
    /\ tcall[c].at = "users" /\ To(c, "over")
    /\ member' \in {member, member \ {tcall[c].id}}
    /\ UNCHANGED <<tenantRow, cache, hydrated, drift, closed>>

(* A statement fails, or the caller goes away: what the cache has by now it keeps. *)
GiveUp(c) ==
    /\ tcall[c].at \notin {"new", "over"}
    /\ tcall' = [tcall EXCEPT ![c].at = "over", ![c].loaded = Nobody]
    /\ drift' = IF c \in Writing(tcall[c].on) THEN drift \cup {<<tcall[c].on, tcall[c].id>>}
                ELSE drift
    /\ UNCHANGED <<tenantRow, cache, hydrated, member, closed>>

TenantRestart(n) ==
    /\ n \in hydrated /\ hydrated' = hydrated \ {n}
    /\ cache' = [cache EXCEPT ![n] = Nobody]
    /\ tcall' = [c \in TenantCall |->
                    IF c \in On(n) THEN [tcall[c] EXCEPT !.at = "over", !.loaded = Nobody]
                    ELSE tcall[c]]
    /\ drift' = {d \in drift : d[1] # n}
    /\ UNCHANGED <<tenantRow, member, closed>>

TenantNext ==
    \/ \E c \in TenantCall, n \in TenantNode, t \in TenantId :
        \E kind \in Kinds : AskTenant(c, n, kind, t)
    \/ \E c \in TenantCall :
        \/ LoadTenants(c) \/ InstallTenants(c) \/ ChangeTenant(c) \/ CreateTenant(c)
        \/ DeleteTenant(c) \/ ReadTenants(c) \/ SaveTenant(c) \/ PushTenant(c) \/ EraseTenant(c)
        \/ ReleaseUsers(c) \/ GiveUp(c)
    \/ \E n \in TenantNode : TenantRestart(n)

TenantSpec == TenantInit /\ [][TenantNext]_tenantVars

-----------------------------------------------------------------------------
(* A daemon's cache has each tenant once, as its row is, or not at all, as there is none, unless a
   write of the tenant was cut off, overlapped another or came from another daemon, a load failed,
   or one of several first calls installed what it had loaded before a write. *)
CacheAgrees ==
    \A n \in hydrated, t \in TenantId :
        <<n, t>> \notin drift /\ (\A c \in Writing(n) : tcall[c].id # t)
        => cache[n][t] = tenantRow[t]

(* A tenant that was deleted while no other copy of it was about does not come back. *)
ClosedStays ==
    \A t \in closed : tenantRow[t] = <<>> /\ \A n \in TenantNode : cache[n][t] = <<>>

(* What a daemon says of a tenant is what the others will say after their next start. *)
TenantsSound == CacheAgrees /\ ClosedStays

=============================================================================
