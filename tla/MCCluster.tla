----------------------------- MODULE MCCluster -----------------------------
(***************************************************************************)
(* TLC instances of Cluster, all with one client and one node.             *)
(***************************************************************************)
EXTENDS Cluster

CONSTANTS c1, n1

MCClient == {c1}
MCNode == {n1}
=============================================================================
