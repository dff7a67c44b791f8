------------------------------ MODULE Sessions ------------------------------
(***************************************************************************)
(* Who is signed in: tokens from their issue to their expiry, logouts that *)
(* revoke them in the memory of one daemon and in the table all daemons    *)
(* share, the count of failed logins, and the SSO flows a daemon keeps     *)
(* between the authorize request and its callback.                         *)
(*                                                                         *)
(* One user name stands for each: its own list of failures holds those of  *)
(* its name with any address, so it is the one that decides.  The password *)
(* login and the directory login keep a list each: here one stands for     *)
(* either.                                                                 *)
(***************************************************************************)
EXTENDS Naturals, FiniteSets, FiniteSetsExt

CONSTANTS
    SessNode,       \* daemons
    Token,          \* tokens
    SignedTill,     \* [token -> its expiry, if it is issued when the model starts, or 0]
    SessCall,       \* requests
    TokenLife, Leeway, FlowLife, FailWindow,    \* 24 h, 60 s, 600 s, 300 s
    MaxFailures,    \* MAX_FAILED_ATTEMPTS
    KeptFailures,   \* record_failure keeps as many
    MaxRevoked,     \* MAX_REVOKED_TOKENS
    DropBatch,      \* and more are dropped when there are more
    LastTick,       \* bound of the clock
    SessFaults      \* bound: restarts and statements that fail

ASSUME SessionsAssumption ==
    /\ SessNode # {}
    /\ SignedTill \in [Token -> Nat]
    /\ {TokenLife, Leeway, FlowLife, FailWindow, MaxFailures, MaxRevoked, DropBatch, LastTick,
        SessFaults} \subseteq Nat
    /\ KeptFailures \in Nat /\ KeptFailures > MaxFailures

VARIABLES
    tick,
    expiry,         \* each token: its expiry, 0 before its issue
    revokedIn,      \* each daemon's memory: a token's revocation lasts till then, 0 if none
    revokedRow,     \* the table revoked_tokens, likewise
    failures,       \* each daemon: its failed logins, [of, at, raced]
    pendingAuth,    \* each daemon: its flows, [of, redirect, till]
    ucall,          \* each request: [at, node, ...]
    sessFaults,
    loggedOut,      \* history: tokens whose logout was answered
    unpersisted         \* history: those whose row could not be written

sessVars == <<tick, expiry, revokedIn, revokedRow, failures, pendingAuth, ucall, sessFaults,
              loggedOut, unpersisted>>

tokenVars == <<expiry, revokedIn, revokedRow, loggedOut, unpersisted>>

FreshCall == [at |-> "new"]
Stage(c) == ucall[c].at
Stages == {"new", "verify", "row", "insert", "prune", "slipped", "discover",
           "exchange", "redeemed", "over"}

SessTypeOK ==
    /\ tick \in 0 .. LastTick /\ expiry \in [Token -> Nat]
    /\ revokedIn \in [SessNode -> [Token -> Nat]] /\ revokedRow \in [Token -> Nat]
    /\ \A n \in SessNode : \A f \in failures[n] : f.at \in 0 .. tick
    /\ \A n \in SessNode : \A f \in pendingAuth[n] : f.of \in SessCall
    /\ \A c \in SessCall : Stage(c) \in Stages
    /\ unpersisted \subseteq Token /\ loggedOut \subseteq Token

SessInit ==
    /\ tick = 0 /\ expiry = SignedTill
    /\ revokedIn = [n \in SessNode |-> [t \in Token |-> 0]]
    /\ revokedRow = [t \in Token |-> 0]
    /\ failures = [n \in SessNode |-> {}] /\ pendingAuth = [n \in SessNode |-> {}]
    /\ ucall = [c \in SessCall |-> FreshCall]
    /\ sessFaults = 0 /\ loggedOut = {} /\ unpersisted = {}

Ends(c) == ucall' = [ucall EXCEPT ![c] = [at |-> "over"]]
MayFail == sessFaults < SessFaults /\ sessFaults' = sessFaults + 1

-----------------------------------------------------------------------------
(* Logins.  The password is checked after the count was read and before it is raised; other
   logins do the same meanwhile. *)
Recent(n) == {f \in failures[n] : tick - f.at < FailWindow}
Verifying(n) == {c \in SessCall : Stage(c) = "verify" /\ ucall[c].node = n}

(* The logins at work on a daemon when another one begins are raced, and so is that one. *)
BeginLogin(c, n) ==
    /\ failures' = [failures EXCEPT ![n] = Recent(n)]
    /\ IF Cardinality(Recent(n)) >= MaxFailures THEN Ends(c)
       ELSE ucall' = [d \in SessCall |->
                IF d = c THEN [at |-> "verify", node |-> n, raced |-> Verifying(n) # {}]
                ELSE IF d \in Verifying(n) THEN [ucall[d] EXCEPT !.raced = TRUE] ELSE ucall[d]]
    /\ UNCHANGED <<tick, pendingAuth, sessFaults, tokenVars>>

Failure(c) == [of |-> c, at |-> tick, raced |-> ucall[c].raced]

(* The oldest failure goes when there are too many; of those of one time it is any. *)
RecordFailure(n, failure) ==
    LET more == failures[n] \cup {failure}
    IN  IF Cardinality(more) <= KeptFailures THEN failures' = [failures EXCEPT ![n] = more]
        ELSE \E f \in more : /\ \A g \in more : f.at <= g.at
                            /\ failures' = [failures EXCEPT ![n] = more \ {f}]

(* An unknown or disabled user, a wrong password and a database that does not answer count alike. *)
LoginFails(c) ==
    /\ Stage(c) = "verify" /\ RecordFailure(ucall[c].node, Failure(c)) /\ Ends(c)
    /\ UNCHANGED <<tick, pendingAuth, sessFaults, tokenVars>>

(* The failures before a success stay on the list. *)
LoginSucceeds(c) ==
    /\ Stage(c) = "verify" /\ Ends(c)
    /\ \E t \in Token : expiry[t] = 0 /\ expiry' = [expiry EXCEPT ![t] = tick + TokenLife]
    /\ UNCHANGED <<tick, revokedIn, revokedRow, failures, pendingAuth, sessFaults, loggedOut, unpersisted>>

(* The directory's list has no bound. *)
LdapLoginFails(c) ==
    /\ Stage(c) = "verify" /\ Ends(c)
    /\ failures' = [failures EXCEPT ![ucall[c].node] = @ \cup {Failure(c)}]
    /\ UNCHANGED <<tick, pendingAuth, sessFaults, tokenVars>>

(* The service account finds the user, who is bound with the password; no token is issued. *)
LdapAuthenticate(c) ==
    /\ Stage(c) = "verify" /\ Ends(c)
    /\ UNCHANGED <<tick, failures, pendingAuth, sessFaults, tokenVars>>

-----------------------------------------------------------------------------
(* Requests that bear a token.  What the memory says is dropped once it has expired; the token
   itself is good for a leeway longer. *)
Decodable(t) == expiry[t] + Leeway >= tick
IsRevoked(n, t) == revokedIn[n][t] > tick
Validated(n, t) == ~IsRevoked(n, t) /\ Decodable(t)

BeginRequest(c, n, t, kind) ==
    /\ expiry[t] # 0
    /\ revokedIn' = IF IsRevoked(n, t) THEN revokedIn ELSE [revokedIn EXCEPT ![n][t] = 0]
    /\ IF Validated(n, t)
       THEN ucall' = [ucall EXCEPT ![c] = [at |-> "row", node |-> n, of |-> t, kind |-> kind,
                                           after |-> t \in loggedOut]]
       ELSE Ends(c)
    /\ UNCHANGED <<tick, expiry, revokedRow, failures, pendingAuth, sessFaults, loggedOut, unpersisted>>

(* The memory of a daemon beyond its bound: the expired ones go, then the next to expire. *)
Bounded(map) ==
    LET live == {t \in Token : map[t] > tick}
        held == {t \in Token : map[t] # 0}
    IN  IF Cardinality(held) <= MaxRevoked THEN {map}
        ELSE IF Cardinality(live) <= MaxRevoked THEN {[t \in Token |-> IF t \in live THEN map[t] ELSE 0]}
        ELSE {[t \in Token |-> IF t \in kept THEN map[t] ELSE 0] :
                kept \in {k \in SUBSET live :
                    /\ Cardinality(k) = Max({0, MaxRevoked - DropBatch})
                    /\ \A t \in k : \A u \in live \ k : map[u] <= map[t]}}

(* A revocation lasts as long as its token, or a day if that can no longer be decoded. *)
RevokedTill(t) == IF Decodable(t) THEN expiry[t] ELSE tick + TokenLife

Revoked(n, t) == Bounded([revokedIn[n] EXCEPT ![t] = RevokedTill(t)])

(* A database that does not answer reads as a token that is not revoked.  A logout goes on to
   revoke its token in memory.  A request that is accepted is "slipped" if its token, which has not
   expired, was logged out before the request began and the table could be read. *)
ReadRevoked(c) ==
    /\ Stage(c) = "row"
    /\ LET n == ucall[c].node
           t == ucall[c].of
       IN  \E fails \in BOOLEAN :
            /\ IF fails THEN MayFail ELSE UNCHANGED sessFaults
            /\ IF ~fails /\ revokedRow[t] # 0 THEN Ends(c) /\ UNCHANGED revokedIn
               ELSE IF ucall[c].kind = "logout"
               THEN /\ ucall' = [ucall EXCEPT ![c] = [at |-> "insert", node |-> n, of |-> t]]
                    /\ revokedIn' \in {[revokedIn EXCEPT ![n] = map] : map \in Revoked(n, t)}
               ELSE /\ IF ucall[c].after /\ ~fails /\ expiry[t] > tick
                       THEN ucall' = [ucall EXCEPT ![c] = [at |-> "slipped", of |-> t]] ELSE Ends(c)
                    /\ UNCHANGED revokedIn
    /\ UNCHANGED <<tick, expiry, revokedRow, failures, pendingAuth, loggedOut, unpersisted>>

(* INSERT ... ON CONFLICT DO NOTHING; its error is ignored. *)
PersistRevocation(c) ==
    /\ Stage(c) = "insert" /\ ucall' = [ucall EXCEPT ![c].at = "prune"]
    /\ LET t == ucall[c].of
       IN  \/ /\ revokedRow' = [revokedRow EXCEPT ![t] = IF @ = 0 THEN RevokedTill(t) ELSE @]
              /\ UNCHANGED <<sessFaults, unpersisted>>
           \/ MayFail /\ unpersisted' = unpersisted \cup {t} /\ UNCHANGED revokedRow
    /\ UNCHANGED <<tick, expiry, revokedIn, failures, pendingAuth, loggedOut>>

\* Mutant: revocations are pruned a little early.
MutantPruned(t) == revokedRow[t] <= tick + 1

Pruned(t) == revokedRow[t] <= tick

(* DELETE of the expired rows, whose error is ignored too; then the answer. *)
PruneRevoked(c) ==
    /\ Stage(c) = "prune" /\ Ends(c)
    /\ \/ /\ revokedRow' = [t \in Token |-> IF Pruned(t) THEN 0 ELSE revokedRow[t]]
          /\ UNCHANGED sessFaults
       \/ MayFail /\ UNCHANGED revokedRow
    /\ loggedOut' = loggedOut \cup {ucall[c].of}
    /\ UNCHANGED <<tick, expiry, revokedIn, failures, pendingAuth, unpersisted>>

(* The daemon's hourly task. *)
CleanupRevoked(n) ==
    /\ revokedIn' = [revokedIn EXCEPT ![n] = [t \in Token |-> IF @[t] > tick THEN @[t] ELSE 0]]
    /\ revokedIn' # revokedIn
    /\ UNCHANGED <<tick, expiry, revokedRow, failures, pendingAuth, ucall, sessFaults, loggedOut, unpersisted>>

-----------------------------------------------------------------------------
(* SSO.  The flow is kept after the provider has been asked for its endpoints. *)
InitiateAuth(c, n, redirect) ==
    /\ ucall' = [ucall EXCEPT ![c] = [at |-> "discover", node |-> n, redirect |-> redirect]]
    /\ UNCHANGED <<tick, failures, pendingAuth, sessFaults, tokenVars>>

KeepFlow(c) ==
    /\ Stage(c) = "discover" /\ Ends(c)
    /\ LET flow == [of |-> c, redirect |-> ucall[c].redirect, till |-> tick + FlowLife]
       IN  pendingAuth' = [pendingAuth EXCEPT ![ucall[c].node] = @ \cup {flow}]
    /\ UNCHANGED <<tick, failures, sessFaults, tokenVars>>

(* Providers are kept in memory only. *)
UnknownProvider(c) ==
    /\ Ends(c)
    /\ UNCHANGED <<tick, failures, pendingAuth, sessFaults, tokenVars>>

\* Mutant: the flow is only looked up.
MutantHandleCallback(c, n, flow, redirect) ==
    /\ flow \in pendingAuth[n] /\ flow.till >= tick /\ flow.redirect = redirect
    /\ ucall' = [ucall EXCEPT ![c] = [at |-> "exchange", node |-> n, flow |-> flow,
                                      redirect |-> redirect, begun |-> tick]]
    /\ UNCHANGED <<tick, failures, pendingAuth, sessFaults, tokenVars>>

(* A callback takes its flow off the list, whatever becomes of it. *)
HandleCallback(c, n, flow, redirect) ==
    /\ pendingAuth' = [pendingAuth EXCEPT ![n] = @ \ {flow}]
    /\ IF flow \in pendingAuth[n] /\ flow.till >= tick /\ flow.redirect = redirect
       THEN ucall' = [ucall EXCEPT ![c] = [at |-> "exchange", node |-> n, flow |-> flow,
                                           redirect |-> redirect, begun |-> tick]]
       ELSE Ends(c)
    /\ UNCHANGED <<tick, failures, sessFaults, tokenVars>>

(* The code is exchanged and the ID token checked against the provider's keys. *)
ValidateIdToken(c) ==
    /\ Stage(c) = "exchange" /\ ucall' = [ucall EXCEPT ![c].at = "redeemed"]
    /\ UNCHANGED <<tick, failures, pendingAuth, sessFaults, tokenVars>>

-----------------------------------------------------------------------------
(* A provider refuses, or a client disconnects and axum drops its handler. *)
CallEnds(c) ==
    /\ Stage(c) \in {"verify", "row", "insert", "prune", "discover", "exchange"} /\ Ends(c)
    /\ UNCHANGED <<tick, failures, pendingAuth, sessFaults, tokenVars>>

SessRestart(n) ==
    /\ MayFail
    /\ revokedIn' = [revokedIn EXCEPT ![n] = [t \in Token |-> 0]]
    /\ failures' = [failures EXCEPT ![n] = {}] /\ pendingAuth' = [pendingAuth EXCEPT ![n] = {}]
    /\ ucall' = [c \in SessCall |->
            IF Stage(c) \in {"new", "slipped", "redeemed", "over"} \/ ucall[c].node # n
            THEN ucall[c] ELSE [at |-> "over"]]
    /\ UNCHANGED <<tick, expiry, revokedRow, loggedOut, unpersisted>>

SessTick ==
    /\ tick < LastTick /\ tick' = tick + 1
    /\ UNCHANGED <<failures, pendingAuth, ucall, sessFaults, tokenVars>>

(* Requests that have not begun are alike: the next one is any of them. *)
NextSessCall ==
    LET unused == {c \in SessCall : ucall[c] = FreshCall}
    IN  IF unused = {} THEN {} ELSE {CHOOSE c \in unused : TRUE}

(* So are the daemons before the first request. *)
NextSessNode ==
    IF \A c \in SessCall : ucall[c] = FreshCall THEN {CHOOSE n \in SessNode : TRUE} ELSE SessNode

Redirects == {"here", "there"}

LoginNext ==
    \/ \E c \in NextSessCall, n \in NextSessNode : BeginLogin(c, n)
    \/ \E c \in SessCall :
        \/ LoginFails(c) \/ LoginSucceeds(c) \/ LdapLoginFails(c) \/ LdapAuthenticate(c)

TokenNext ==
    \/ \E c \in NextSessCall, n \in NextSessNode, t \in Token, kind \in {"any", "logout"} :
            BeginRequest(c, n, t, kind)
    \/ \E c \in SessCall : ReadRevoked(c) \/ PersistRevocation(c) \/ PruneRevoked(c)
    \/ \E n \in SessNode : CleanupRevoked(n)

FlowNext ==
    \/ \E c \in NextSessCall, n \in NextSessNode :
        \/ InitiateAuth(c, n, "here") \/ UnknownProvider(c)
        \/ \E m \in SessNode : \E flow \in pendingAuth[m], redirect \in Redirects :
                HandleCallback(c, n, flow, redirect)
    \/ \E c \in SessCall : KeepFlow(c) \/ ValidateIdToken(c)

SessCommon ==
    \/ \E c \in SessCall : CallEnds(c)
    \/ \E n \in SessNode : SessRestart(n)
    \/ SessTick

SessNext == LoginNext \/ TokenNext \/ FlowNext \/ SessCommon

SessSpec == SessInit /\ [][SessNext]_sessVars

-----------------------------------------------------------------------------
(* A token whose logout was answered is refused by every daemon, after restarts and when memories
   overflow, unless its row could not be written or read, or it has expired. *)
LogoutHolds ==
    \A c \in SessCall :
        Stage(c) = "slipped" => ucall[c].of \in unpersisted

(* Failures within the window go beyond the limit only by logins that ran at the same time. *)
ThrottleHolds ==
    \A n \in SessNode :
        Cardinality({f \in Recent(n) : ~f.raced}) <= MaxFailures

(* A flow is redeemed by one callback, in time, by the daemon and for the address it began with. *)
FlowOnce ==
    \A c, d \in SessCall :
        Stage(c) \in {"exchange", "redeemed"} =>
            /\ ucall[c].flow.till >= ucall[c].begun /\ ucall[c].flow.redirect = ucall[c].redirect
            /\ Stage(d) \in {"exchange", "redeemed"} /\ ucall[d].flow = ucall[c].flow => d = c

(* A session lasts no longer than the user meant it to, and begins only once. *)
SessionsSound == LogoutHolds /\ ThrottleHolds /\ FlowOnce
=============================================================================
