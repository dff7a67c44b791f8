----------------------------- MODULE MCCluster -----------------------------
(***************************************************************************)
(* Model values for Cluster: two daemons, one clock ahead of the other.    *)
(***************************************************************************)
EXTENDS Cluster

CONSTANTS n1, n2

MCSkew == [n \in Node |-> IF n = n2 THEN 1 ELSE 0]
=============================================================================
