---------------------------- MODULE MCSwitchPaxos -----------------------------
(* Instances of SwitchPaxos for TLC. *)
EXTENDS SwitchPaxos, TLC

\* The three masks of the quorum test treat the acceptors alike, but only the id
\* of acceptor 0 is also the contents of an empty field.
Symmetry == Permutations({Acc1, Acc2}) \cup Permutations(Value)
=============================================================================
