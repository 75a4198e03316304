------------------------------ MODULE MCCluster ------------------------------
(* Small instances of Cluster for TLC: two pairs of ports for three targets. *)
EXTENDS Cluster, TLC

MCPort == 8001..8004
=============================================================================
