-------------------------- MODULE MCSnapshotStore --------------------------
(***************************************************************************)
(* Model values for SnapshotStore: a file job and a VM job into one        *)
(* repository, a file job into another, contents that share blocks, repeat *)
(* a block and are disjoint, none a prefix of another.                     *)
(***************************************************************************)
EXTENDS SnapshotStore

CONSTANTS b1, b2, r1, r2, files, vm, other

MCSource == {<<b1, b1>>, <<b2>>, <<b1, b2>>}
MCSourceSmall == {<<b1, b1>>, <<b1, b2>>}
OneRepo == [j \in Job |-> r1]
TwoRepos == [j \in Job |-> IF j = other THEN r2 ELSE r1]
Tight == [p \in Repo |-> IF p = r1 THEN 2 ELSE 0]
=============================================================================
