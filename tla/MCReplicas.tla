----------------------------- MODULE MCReplicas -----------------------------
(* Two replicas of a register whose callers pass timestamps of their own.   *)
EXTENDS Replicas
=============================================================================
