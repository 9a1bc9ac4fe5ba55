---------------------------- MODULE SwitchPaxos ------------------------------
(***************************************************************************)
(* Leader, acceptors and learner switch together.                          *)
(***************************************************************************)
EXTENDS P4Learner

vars == <<program, msgs, registerInstance, acceptorVars, learnerVars>>

Init ==
    /\ program \in {"p4src", "p4_16"}
    /\ msgs = {}
    /\ LeaderInit
    /\ AcceptorInit
    /\ LearnerInit

Number ==
    /\ \E v \in Value : increase_instance(v)
    /\ UNCHANGED <<program, acceptorVars, learnerVars>>

\* p4src's coordinator has no such message.
Reset ==
    /\ program = "p4_16"
    /\ reset_instance
    /\ UNCHANGED <<program, acceptorVars, learnerVars>>

Inject ==
    /\ \E i \in Inst, r \in Round : InjectRound(i, r)
    /\ UNCHANGED <<program, registerInstance, acceptorVars, learnerVars>>

Promise ==
    /\ \E a \in Acceptor, m \in msgs : handle_1a(a, m)
    /\ UNCHANGED <<program, registerInstance, learnerVars>>

Vote ==
    /\ \E a \in Acceptor, m \in msgs : handle_2a(a, m)
    /\ UNCHANGED <<program, registerInstance, learnerVars>>

Learn ==
    /\ \E m \in msgs : ingress(m)
    /\ UNCHANGED <<program, msgs, registerInstance, acceptorVars>>

Next == Number \/ Reset \/ Inject \/ Promise \/ Vote \/ Learn

Spec == Init /\ [][Next]_vars

-----------------------------------------------------------------------------
\* Every register holds a value of its width, and what was forwarded was sent.
TypeOK ==
    /\ program \in {"p4src", "p4_16"}
    /\ msgs \subseteq Packet
    /\ registerInstance \in 0 .. InstanceNumbers - 1
    /\ registerRound \in [Acceptor -> [Inst -> Round]]
    /\ registerVRound \in [Acceptor -> [Inst -> Round]]
    /\ registerValue \in [Acceptor -> [Inst -> Value \cup {Zero}]]
    /\ rounds_register \in [Inst -> Round]
    /\ values_register \in [Inst -> Value \cup {Zero}]
    /\ history2B \in [Inst -> SUBSET Acceptor]
    /\ forwarded \subseteq
           {[msgtype |-> m.msgtype, inst |-> m.inst, rnd |-> m.rnd] : m \in msgs}

\* The packets that may reach the learner and count as votes in round r of
\* instance i, and the acceptors they are taken to be from.
VotesIn(i, r) ==
    {m \in msgs : Reaches(m) /\ IsVote(m) /\ m.inst = i /\ m.rnd = r}

Voters(i, r) == {AcceptorBit(m) : m \in VotesIn(i, r)}

-----------------------------------------------------------------------------
\* A promise tells the truth for good: of the rounds before its own, its
\* acceptor votes, before or after, in none beyond the one it reported, and in
\* none at all if it reported no vote.  Clients' packets of round 0, the
\* leader's resets and the injected rounds all arrive in any order.
PromisesBind ==
    \A p, v \in msgs :
        (/\ p.msgtype = "1B" /\ v.msgtype = "2B"
         /\ p.acptid = v.acptid /\ p.inst = v.inst /\ v.rnd < p.rnd)
        => v.rnd <= p.vrnd /\ p.paxosval # Zero

\* The mask of an instance holds votes of one round only, the one in its
\* round register, and the value register holds what one of them was for:
\* a vote of an older round never tops up the votes of a newer one, in any
\* order of arrival.
HistoryIsOneRound ==
    \A i \in Inst :
        /\ history2B[i] \subseteq Voters(i, rounds_register[i])
        /\ history2B[i] # {} =>
              \E m \in VotesIn(i, rounds_register[i]) :
                  /\ m.paxosval = values_register[i]
                  /\ AcceptorBit(m) \in history2B[i]

\* "count_number_of_1_binary(acceptors) == MAJORITY": nothing leaves p4src's
\* learner for an instance before two acceptors voted in one and the same round
\* of it, whichever promises, proposals and votes of other rounds come by.
ForwardNeedsMajority ==
    program = "p4src" =>
        \A m \in forwarded : \E r \in Round : Cardinality(Voters(m.inst, r)) >= 2

\* Whichever two acceptors make the majority, and in whatever order their
\* votes arrive, p4src forwards the vote that completes it: a pair of masks the
\* test forgets, or a third vote overtaking the test, would lose a decision.
MajorityIsForwarded ==
    program = "p4src" =>
        \A i \in Inst :
            Cardinality(history2B[i]) >= 2 =>
                \E m \in forwarded :
                    m.msgtype = "2B" /\ m.inst = i /\ m.rnd = rounds_register[i]

-----------------------------------------------------------------------------
(* The inductive invariant.                                                *)

\* Answers name their acceptor, proposals and votes carry a client's value.
PacketsAreFilled ==
    \A m \in msgs :
        /\ m.msgtype \in {"1B", "2B"} => m.acptid \in Acceptor
        /\ m.msgtype \in {"2A", "2B"} => m.paxosval \in Value

\* An acceptor's registers remember its highest answer and its last vote.
RegistersRemember ==
    /\ \A a \in Acceptor, i \in Inst : registerVRound[a][i] <= registerRound[a][i]
    /\ \A m \in msgs :
        /\ m.msgtype = "1B" => m.rnd <= registerRound[m.acptid][m.inst]
        /\ m.msgtype = "2B" => /\ m.rnd <= registerVRound[m.acptid][m.inst]
                              /\ registerValue[m.acptid][m.inst] # Zero

\* The registers of acceptors and learner, the packets in flight and what was
\* forwarded agree, for both programs, after resets and in any order of arrival.
IInv ==
    /\ TypeOK
    /\ PacketsAreFilled
    /\ RegistersRemember
    /\ PromisesBind
    /\ HistoryIsOneRound
    /\ ForwardNeedsMajority
    /\ MajorityIsForwarded
=============================================================================
