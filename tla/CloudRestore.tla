---------------------------- MODULE CloudRestore ----------------------------
(***************************************************************************)
(* Restores of cloud resources: the accounts and the record of restores,   *)
(* both in memory only, and the calls to the provider that a restore makes *)
(* before it is recorded.  The provider's side is external: it has what it *)
(* created whatever becomes of the answer.                                 *)
(***************************************************************************)
EXTENDS Naturals

CONSTANTS
    CloudAccount,   \* ids of accounts
    CloudCall,      \* calls of submit
    Setting         \* what the daemon finds: [raw, keys, creds]

ASSUME CloudAssumption == Setting \subseteq [raw : BOOLEAN, keys : BOOLEAN, creds : BOOLEAN]

VARIABLES
    setting,        \* a raw key file, AWS keys and GCP credentials in the environment
    accounts,       \* registered accounts: [provider, own]
    restores,       \* the record: [of, account, given, kind, hint, status]
    asked,          \* each call: [at, account, given, kind, hint]; hint: the words of its error
                    \* are among those that stand for missing credentials
    created         \* calls whose resource the provider has created

(* History: no action reads these. *)
VARIABLES
    unanswered,     \* calls whose answer did not come or was not understood
    dropped         \* calls that ended with their caller or with the process

cloudVars == <<setting, accounts, restores, asked, created, unanswered, dropped>>

restorable_kinds(provider) ==
    CASE provider = "aws" -> {"ec2_ami", "ebs_snapshot", "rds_snapshot"}
      [] provider = "azure" -> {"vm_restore_point"}
      [] provider = "gcp" -> {"gce_image"}

\* own: keys, a client secret or a project id of the account's own
AccountData == [provider : {"aws", "azure", "gcp"}, own : BOOLEAN]
NoAccount == [provider |-> "aws", own |-> FALSE]
NotAsked == [at |-> "new", account |-> "", given |-> NoAccount, kind |-> "", hint |-> FALSE]
Ended == [NotAsked EXCEPT !.at = "over"]
InFlight == {"prepare", "ask", "ask wrong", "answer", "poll", "ok", "err"}

CloudTypeOK ==
    /\ setting \in Setting
    /\ DOMAIN accounts \subseteq CloudAccount
    /\ \A a \in DOMAIN accounts : accounts[a] \in AccountData
    /\ \A r \in restores : r.of \in CloudCall /\ r.status \in {"Completed", "Planned", "Failed"}
    /\ \A c \in CloudCall : asked[c].at \in InFlight \cup {"new", "over"}
    /\ created \cup unanswered \cup dropped \subseteq CloudCall

CloudInit ==
    /\ setting \in Setting
    /\ accounts = <<>> /\ restores = {} /\ asked = [c \in CloudCall |-> NotAsked]
    /\ created = {} /\ unanswered = {} /\ dropped = {}

(* By REST with secrets, which are encrypted, or without; by gRPC always without. *)
RegisterAccount(a, account) ==
    /\ a \notin DOMAIN accounts
    /\ accounts' = [b \in DOMAIN accounts \cup {a} |-> IF b = a THEN account ELSE accounts[b]]
    /\ UNCHANGED <<setting, restores, asked, created, unanswered, dropped>>

(* Restores of the account go on, and their records stay. *)
RemoveAccount(a) ==
    /\ a \in DOMAIN accounts
    /\ accounts' = [b \in DOMAIN accounts \ {a} |-> accounts[b]]
    /\ UNCHANGED <<setting, restores, asked, created, unanswered, dropped>>

(* The call has its own copy of the account; nothing is recorded yet. *)
Submit(c, a) ==
    /\ asked[c].at = "new" /\ a \in DOMAIN accounts
    /\ \E k \in restorable_kinds(accounts[a].provider) :
           asked' = [asked EXCEPT ![c] = [at |-> "prepare", account |-> a, given |-> accounts[a],
                                          kind |-> k, hint |-> FALSE]]
    /\ UNCHANGED <<setting, accounts, restores, created, unanswered, dropped>>

-----------------------------------------------------------------------------
(* run_provider_restore *)

Reach(c, at, hint) == asked' = [asked EXCEPT ![c].at = at, ![c].hint = hint]

(* Keys of the account count before those of the environment, decrypted when the key file is
   raw and sent as the blob they are stored as when it is wrapped. *)
PrepareAws(c) ==
    /\ asked[c].given.provider = "aws"
    /\ IF asked[c].given.own THEN Reach(c, IF setting.raw THEN "ask" ELSE "ask wrong", FALSE)
       ELSE IF setting.keys THEN Reach(c, "ask", FALSE) ELSE Reach(c, "err", TRUE)

(* The parameters may be missing; the client secret is never decrypted. *)
PrepareAzure(c) ==
    /\ asked[c].given.provider = "azure"
    /\ \/ Reach(c, "err", TRUE)
       \/ asked[c].given.own /\ Reach(c, "ask wrong", FALSE)

(* The zone may be missing; the credentials are those of the environment. *)
PrepareGcp(c) ==
    /\ asked[c].given.provider = "gcp"
    /\ \/ Reach(c, "err", TRUE)
       \/ asked[c].given.own /\ setting.creds /\ Reach(c, "ask", FALSE)

Prepare(c) ==
    /\ asked[c].at = "prepare" /\ (PrepareAws(c) \/ PrepareAzure(c) \/ PrepareGcp(c))
    /\ UNCHANGED <<setting, accounts, restores, created, unanswered, dropped>>

(* The provider refuses, in words of its own, or the request never reaches it. *)
Refused(c) ==
    /\ asked[c].at \in {"ask", "ask wrong"}
    /\ \E hint \in BOOLEAN : Reach(c, "err", hint)
    /\ UNCHANGED <<setting, accounts, restores, created, unanswered, dropped>>

Accepted(c) ==
    /\ asked[c].at = "ask" /\ created' = created \cup {c}
    /\ Reach(c, IF asked[c].given.provider = "gcp" THEN "poll" ELSE "answer", FALSE)
    /\ UNCHANGED <<setting, accounts, restores, unanswered, dropped>>

(* The answer carries the id of what was created, or does not come, or cannot be read.  An error
   has the words of whoever made it. *)
Answered(c) ==
    /\ asked[c].at = "answer"
    /\ \/ Reach(c, "ok", FALSE) /\ UNCHANGED unanswered
       \/ /\ \E hint \in BOOLEAN : Reach(c, "err", hint)
          /\ unanswered' = unanswered \cup {c}
    /\ UNCHANGED <<setting, accounts, restores, created, dropped>>

(* The operation is done, has failed, or is not done when the time for it is over or a poll
   fails; it goes on then. *)
Polled(c) ==
    /\ asked[c].at = "poll"
    /\ \/ Reach(c, "ok", FALSE) /\ UNCHANGED <<created, unanswered>>
       \/ /\ \E hint \in BOOLEAN : Reach(c, "err", hint)
          /\ \/ created' = created \ {c} /\ UNCHANGED unanswered
             \/ unanswered' = unanswered \cup {c} /\ UNCHANGED created
    /\ UNCHANGED <<setting, accounts, restores, dropped>>

\* Mutant: it does not matter whose keys were used.
MutantMissing(c) ==
    asked[c].hint \/ (asked[c].given.provider = "aws" /\ asked[c].kind # "ec2_ami")

(* The words of the error, or an AWS account without a key of its own. *)
is_missing_credentials(c) ==
    \/ asked[c].hint
    \/ /\ asked[c].given.provider = "aws" /\ ~asked[c].given.own
       /\ asked[c].kind # "ec2_ami"

Recorded(c) ==
    /\ asked[c].at \in {"ok", "err"}
    /\ restores' = restores \cup
           {[of |-> c, account |-> asked[c].account, given |-> asked[c].given,
             kind |-> asked[c].kind, hint |-> asked[c].hint,
             status |-> IF asked[c].at = "ok" THEN "Completed"
                        ELSE IF is_missing_credentials(c) THEN "Planned" ELSE "Failed"]}
    /\ asked' = [asked EXCEPT ![c] = Ended]
    /\ UNCHANGED <<setting, accounts, created, unanswered, dropped>>

(* Nothing but the caller's connection keeps the restore going; what was sent may arrive. *)
CallerGone(c) ==
    /\ asked[c].at \in InFlight /\ asked' = [asked EXCEPT ![c] = Ended]
    /\ dropped' = dropped \cup {c}
    /\ \/ UNCHANGED created
       \/ asked[c].at = "ask" /\ created' = created \cup {c}
    /\ UNCHANGED <<setting, accounts, restores, unanswered>>

(* Neither the accounts nor the record are kept. *)
CloudRestart ==
    /\ accounts' = <<>> /\ restores' = {}
    /\ dropped' = dropped \cup {c \in CloudCall : asked[c].at # "new"}
    /\ asked' = [c \in CloudCall |-> IF asked[c].at = "new" THEN NotAsked ELSE Ended]
    /\ UNCHANGED <<setting, created, unanswered>>

CloudNext ==
    \/ \E a \in CloudAccount : RemoveAccount(a)
    \/ \E a \in CloudAccount, account \in AccountData : RegisterAccount(a, account)
    \/ \E c \in CloudCall, a \in CloudAccount : Submit(c, a)
    \/ \E c \in CloudCall : Prepare(c) \/ Refused(c) \/ Accepted(c) \/ Answered(c) \/ Polled(c)
                            \/ Recorded(c) \/ CallerGone(c)
    \/ CloudRestart

CloudSpec == CloudInit /\ [][CloudNext]_cloudVars

-----------------------------------------------------------------------------
(***************************************************************************)
(* A restore that is listed as completed has its resource.  One that is    *)
(* listed as failed or planned has none unless the answer was lost, and    *)
(* one that is listed as planned, for want of credentials, has one only if *)
(* the words of the lost answer spoke of credentials, or an AWS account    *)
(* had no keys of its own and those of the environment were used for a     *)
(* volume or a database.  A resource that no restore accounts for is of a  *)
(* call whose caller left or whose process died.                           *)
(***************************************************************************)
CloudAccounted ==
    /\ \A r \in restores :
           /\ r.status = "Completed" => r.of \in created
           /\ r.status # "Completed" /\ r.of \in created => r.of \in unanswered
           /\ r.status = "Planned" /\ r.of \in created =>
                  \/ r.hint
                  \/ /\ r.given.provider = "aws" /\ ~r.given.own /\ setting.keys
                     /\ r.kind # "ec2_ami"
    /\ \A c \in created :
           asked[c].at = "over" => c \in dropped \/ \E r \in restores : r.of = c
=============================================================================
