---------------------------- MODULE MCDpdkPaxos -----------------------------
(* Instances of DpdkPaxos for TLC. *)
EXTENDS DpdkPaxos, TLC

Symmetry == Permutations(Request)
=============================================================================
