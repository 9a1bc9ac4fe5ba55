----------------------------- MODULE MCNetPaxos -----------------------------
(***************************************************************************)
(* Small instances of NetPaxos for TLC.                                    *)
(***************************************************************************)
EXTENDS NetPaxos, TLC

CONSTANTS k1, v1

PutV1 == [action |-> "put", key |-> k1, value |-> v1]
GetK1 == [action |-> "get", key |-> k1]

PutGet == {PutV1, GetK1}
OnePut == {PutV1}
AnyCommand == {PutV1, Keyless, Truncated}

\* The switches and the replicas are interchangeable: nothing names one.
Symmetry ==
    Permutations(Acceptors \ Crashed) \cup Permutations(Learners \ Crashed)
=============================================================================
