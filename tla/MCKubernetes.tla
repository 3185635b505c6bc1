---------------------------- MODULE MCKubernetes ----------------------------
(* Instances of Kubernetes for TLC. *)
EXTENDS Kubernetes

=============================================================================
