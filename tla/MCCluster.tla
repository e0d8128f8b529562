------------------------------ MODULE MCCluster ------------------------------
(* Small instances of Cluster for TLC. *)
EXTENDS Cluster

\* Two replicas with the defaults, two that are orphaned and have no budget, and one
\* whose volumes go with it.
ClusterSpecs ==
  {s \in ClusterSpec :
     \/ s.replicas > 1 /\ s.retention = "Retain" /\ (s.budget <=> s.policy = "Delete")
     \/ s.replicas = 1 /\ s.retention = "Delete" /\ s.policy = "Delete" /\ s.budget}
=============================================================================
