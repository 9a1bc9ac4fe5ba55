------------------------------ MODULE MCNetronome -----------------------------
(* Instances of Netronome for TLC. *)
EXTENDS Netronome, TLC

Symmetry == Permutations(Thread) \cup Permutations(Value)
=============================================================================
