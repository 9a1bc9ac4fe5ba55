------------------------------ MODULE P4Learner -----------------------------
(***************************************************************************)
(* The learner switch, in p4src and in p4-16.  For each instance it keeps  *)
(* a round, a value and a mask of the acceptors that voted in that round;  *)
(* here the mask is the set of those acceptors.  Every packet ends with    *)
(* the quorum test, on the copy of the mask that read_round took and that  *)
(* handle_2b, but not handle_new_value, updates.                           *)
(*                                                                         *)
(* The two programs differ in what they take for a vote and in what        *)
(* leaves.  read_round marks every packet to be dropped.  In p4src a       *)
(* quorum clears the mark and drop_tbl drops the others.  In p4-16 nothing *)
(* clears it and only transport_tbl looks at it, which is applied to a     *)
(* quorum: that one is dropped, and the others leave on port 0.            *)
(***************************************************************************)
EXTENDS P4Switch

VARIABLES
    rounds_register,    \* [i]: the round whose votes are counted
    values_register,    \* [i]: the value of the last vote counted
    history2B,          \* [i]: the acceptors whose votes were counted
    forwarded           \* what left the switch: [msgtype, inst, rnd]

learnerVars == <<rounds_register, values_register, history2B, forwarded>>

LearnerInit ==
    /\ rounds_register = [i \in Inst |-> 0]
    /\ values_register = [i \in Inst |-> Zero]
    /\ history2B = [i \in Inst |-> {}]
    /\ forwarded = {}

\* The packets that may reach the learner: the switches of p4src flood every
\* packet, those of p4-16 pass on what an acceptor answered and what one found
\* too old.
Reaches(m) ==
    \/ program = "p4src"
    \/ m.msgtype \in {"1B", "2B"}
    \/ \E a \in Acceptor : ~Current(a, m)

\* The entries of learner_tbl and reset_tbl.  In p4-16 their default action is
\* their only action, so whatever arrives counts as a vote.
IsVote(m) == program = "p4_16" \/ m.msgtype = "2B"

\* The bit a packet sets: a packet no acceptor answered has 0 in its field.
AcceptorBit(m) == IF m.acptid = NoAcc THEN Acc0 ELSE m.acptid

\* Mutant: 0b101 forgotten.
QuorumMasksTwo == {{Acc1, Acc2}, {Acc0, Acc1}}

\* 0b110, 0b101 and 0b011.
QuorumMasks == {{Acc1, Acc2}, {Acc0, Acc2}, {Acc0, Acc1}}

\* Who voted for which value is left out of what is forwarded.
Leave(m) ==
    forwarded' = forwarded \cup
                   {[msgtype |-> m.msgtype, inst |-> m.inst, rnd |-> m.rnd]}

\* The test of the packet's copy of the mask: a quorum leaves in p4src,
\* everything else in p4-16.
QuorumTest(m, acceptors) ==
    IF acceptors \in QuorumMasks <=> program = "p4src"
    THEN Leave(m) ELSE UNCHANGED forwarded

handle_2b(m) ==
    /\ m.rnd = rounds_register[m.inst]
    /\ IsVote(m)
    /\ LET acceptors == history2B[m.inst] \cup {AcceptorBit(m)}
       IN /\ history2B' = [history2B EXCEPT ![m.inst] = acceptors]
          /\ QuorumTest(m, acceptors)
    /\ values_register' = [values_register EXCEPT ![m.inst] = m.paxosval]
    /\ UNCHANGED rounds_register

\* Mutant: the votes of the old round stay in the mask.
handle_new_valueKeeping(m) ==
    /\ m.rnd > rounds_register[m.inst]
    /\ IsVote(m)
    /\ rounds_register' = [rounds_register EXCEPT ![m.inst] = m.rnd]
    /\ values_register' = [values_register EXCEPT ![m.inst] = m.paxosval]
    /\ history2B' = [history2B EXCEPT ![m.inst] = @ \cup {AcceptorBit(m)}]
    /\ QuorumTest(m, history2B[m.inst])

handle_new_value(m) ==
    /\ m.rnd > rounds_register[m.inst]
    /\ IsVote(m)
    /\ rounds_register' = [rounds_register EXCEPT ![m.inst] = m.rnd]
    /\ values_register' = [values_register EXCEPT ![m.inst] = m.paxosval]
    /\ history2B' = [history2B EXCEPT ![m.inst] = {AcceptorBit(m)}]
    /\ QuorumTest(m, history2B[m.inst])

\* Mutant: the test does not look at the mask.
pass_throughAlways(m) ==
    /\ m.rnd < rounds_register[m.inst] \/ ~IsVote(m)
    /\ Leave(m)
    /\ UNCHANGED <<rounds_register, values_register, history2B>>

\* No table has an action for the packet, or its round is over: only the
\* quorum test is left.
pass_through(m) ==
    /\ m.rnd < rounds_register[m.inst] \/ ~IsVote(m)
    /\ QuorumTest(m, history2B[m.inst])
    /\ UNCHANGED <<rounds_register, values_register, history2B>>

\* The ingress control.
ingress(m) ==
    /\ Reaches(m)
    /\ handle_2b(m) \/ handle_new_value(m) \/ pass_through(m)
=============================================================================
