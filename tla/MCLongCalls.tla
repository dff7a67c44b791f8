----------------------------- MODULE MCLongCalls -----------------------------
(***************************************************************************)
(* The requests of which several are long at work over the same rows and   *)
(* lists: restores and instant recoveries, and executions of SOBR          *)
(* policies, here over two backups that share a block.  The two services   *)
(* share no state, so a behaviour is one of a single service: `focus`      *)
(* names the one that moves.                                               *)
(***************************************************************************)
EXTENDS InstantRecovery, TierPolicy, TLC

CONSTANTS x, y

VARIABLE focus

Manifests == [b \in {"b1", "b2"} |-> IF b = "b1" THEN {x, y} ELSE {x}]
\* One policy seals what it later retains, the other moves and retains.
Policies == {[move |-> Never, archive |-> Never, seal |-> 0, retain |-> 1],
             [move |-> 0, archive |-> 1, seal |-> 1, retain |-> 1]}

\* The requests of a service are alike.
Alike == Permutations(RSession) \cup Permutations(TierCall)

longCallVars == <<focus, recVars, tierVars>>

LongCallsTypeOK ==
    /\ focus \in {"recovery", "tiers"}
    /\ IF focus = "recovery" THEN RecTypeOK ELSE TierTypeOK

LongCallsInit ==
    /\ focus \in {"recovery", "tiers"}
    /\ RecInit
    /\ TierInit /\ (focus # "tiers" => \A b \in Backup : age[b] = 0)

LongCallsNext ==
    \/ focus = "recovery" /\ RecNext /\ UNCHANGED <<focus, tierVars>>
    \/ focus = "tiers" /\ TierNext /\ UNCHANGED <<focus, recVars>>

LongCallsSpec == LongCallsInit /\ [][LongCallsNext]_longCallVars
==============================================================================
