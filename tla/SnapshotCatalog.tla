-------------------------- MODULE SnapshotCatalog --------------------------
(***************************************************************************)
(* What the snapshot store promises its readers: a catalog of snapshots,   *)
(* each with a complete block list.  A snapshot appears in one step with   *)
(* all of its content, does not change while it is listed, and disappears  *)
(* in one step.  A snapshot of nothing (<<>>) is never listed for one that *)
(* has content, and crashes are invisible.                                 *)
(***************************************************************************)
CONSTANTS
    Snapshot,   \* identifiers
    Content     \* the complete block lists a source can yield

VARIABLE
    catalog     \* a function from the listed snapshots to their contents

Init == catalog = [s \in {} |-> <<>>]

Publish(s, c) ==
    /\ s \notin DOMAIN catalog
    /\ catalog' = [q \in DOMAIN catalog \cup {s} |-> IF q = s THEN c ELSE catalog[q]]

Withdraw(s) ==
    /\ s \in DOMAIN catalog
    /\ catalog' = [q \in DOMAIN catalog \ {s} |-> catalog[q]]

Next ==
    \/ \E s \in Snapshot, c \in Content : Publish(s, c)
    \/ \E s \in Snapshot : Withdraw(s)

Spec == Init /\ [][Next]_catalog
=============================================================================
