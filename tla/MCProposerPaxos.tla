--------------------------- MODULE MCProposerPaxos ----------------------------
(* Instances of ProposerPaxos for TLC. *)
EXTENDS ProposerPaxos, TLC
=============================================================================
