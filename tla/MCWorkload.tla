------------------------------ MODULE MCWorkload ------------------------------
(* Instances of Workload for TLC. *)
EXTENDS Workload, TLC
=============================================================================
