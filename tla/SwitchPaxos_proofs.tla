-------------------------- MODULE SwitchPaxos_proofs --------------------------
(***************************************************************************)
(* Theorems about SwitchPaxos, for any number of instances, rounds, values *)
(* and instance numbers: the acceptor switches' promises bind them, the    *)
(* learner switch never mixes rounds, and the one of p4src forwards on a   *)
(* majority and never misses one.                                          *)
(***************************************************************************)
EXTENDS SwitchPaxos, FiniteSetTheorems, TLAPS

-----------------------------------------------------------------------------
(* The three acceptors and the masks of the quorum test.                   *)

\* One more element.
LEMMA OneMore ==
  ASSUME NEW S, IsFiniteSet(S), NEW x
  PROVE  /\ IsFiniteSet(S \cup {x})
         /\ Cardinality(S) \in Nat /\ Cardinality(S \cup {x}) \in Nat
         /\ Cardinality(S \cup {x}) <= Cardinality(S) + 1
         /\ x \notin S => Cardinality(S \cup {x}) = Cardinality(S) + 1
<1>1. IsFiniteSet(S \cup {x})
  BY FS_AddElement
<1>2. Cardinality(S) \in Nat /\ Cardinality(S \cup {x}) \in Nat
  BY <1>1, FS_CardinalityType
<1>3. Cardinality(S \cup {x}) = IF x \in S THEN Cardinality(S) ELSE Cardinality(S) + 1
  BY FS_AddElement
<1> QED
  BY <1>1, <1>2, <1>3

\* The sizes of small sets.
LEMMA SmallSets ==
  ASSUME NEW x, NEW y, NEW z
  PROVE  /\ IsFiniteSet({x, y, z})
         /\ Cardinality({x}) = 1
         /\ x # y => Cardinality({x, y}) = 2
         /\ Cardinality({x, y, z}) \in Nat /\ Cardinality({x, y, z}) <= 3
<1>1. IsFiniteSet({x}) /\ Cardinality({x}) = 1
  BY FS_Singleton
<1>2. {x, y} = {x} \cup {y} /\ {x, y, z} = {x, y} \cup {z} /\ (x # y => y \notin {x})
  OBVIOUS
<1>3. /\ IsFiniteSet({x, y}) /\ Cardinality({x, y}) \in Nat
      /\ Cardinality({x, y}) <= 2 /\ (x # y => Cardinality({x, y}) = 2)
  BY <1>1, <1>2, OneMore
<1>4. /\ IsFiniteSet({x, y, z}) /\ Cardinality({x, y, z}) \in Nat
      /\ Cardinality({x, y, z}) <= 3
  BY <1>2, <1>3, OneMore
<1> QED
  BY <1>1, <1>3, <1>4

\* The acceptor ids 0, 1 and 2 are different, and none is the empty field.
LEMMA FourIds ==
  /\ Acc0 # Acc1 /\ Acc0 # Acc2 /\ Acc1 # Acc2
  /\ NoAcc \notin Acceptor
<1>1. \A x, y, z : Cardinality({x, y, z}) # 4
  <2> TAKE x, y, z
  <2>1. Cardinality({x, y, z}) \in Nat /\ Cardinality({x, y, z}) <= 3
    BY SmallSets
  <2> QED
    BY <2>1
<1>2. \A x, y, z : {Acc0, Acc1, Acc2, NoAcc} # {x, y, z}
  <2> TAKE x, y, z
  <2>1. Cardinality({Acc0, Acc1, Acc2, NoAcc}) = 4
    BY P4Assumption
  <2> QED
    BY <1>1, <2>1
<1>3. /\ Acc0 = Acc1 => {Acc0, Acc1, Acc2, NoAcc} = {Acc0, Acc2, NoAcc}
      /\ Acc0 = Acc2 => {Acc0, Acc1, Acc2, NoAcc} = {Acc0, Acc1, NoAcc}
      /\ Acc1 = Acc2 => {Acc0, Acc1, Acc2, NoAcc} = {Acc0, Acc1, NoAcc}
      /\ NoAcc \in Acceptor => {Acc0, Acc1, Acc2, NoAcc} = {Acc0, Acc1, Acc2}
  BY DEF Acceptor
<1> QED
  BY <1>2, <1>3

\* A set of acceptors is finite, and larger than its subsets.
LEMMA MaskSize ==
  ASSUME NEW S \in SUBSET Acceptor
  PROVE  /\ IsFiniteSet(S) /\ Cardinality(S) \in Nat
         /\ \A T \in SUBSET S : Cardinality(T) <= Cardinality(S) /\ Cardinality(T) \in Nat
<1>2. IsFiniteSet(Acceptor)
  BY SmallSets DEF Acceptor
<1>3. IsFiniteSet(S)
  BY <1>2, FS_Subset
<1> QED
  BY <1>3, FS_Subset, FS_CardinalityType

\* The masks of the quorum test are the pairs of acceptors.
LEMMA MaskIsPair ==
  ASSUME NEW S \in SUBSET Acceptor
  PROVE  /\ S \in QuorumMasks => Cardinality(S) = 2
         /\ Cardinality(S) >= 2 => S \in QuorumMasks \/ S = Acceptor
         /\ \A a \in Acceptor : Cardinality({a}) = 1
<1>1. \A x, y : x # y => Cardinality({x, y}) = 2
  BY SmallSets
<1>2. \A x : Cardinality({x}) = 1
  BY SmallSets
<1>3. S \in QuorumMasks => Cardinality(S) = 2
  BY <1>1, FourIds DEF QuorumMasks
<1>4. \/ S = {} \/ S = {Acc0} \/ S = {Acc1} \/ S = {Acc2}
      \/ S \in QuorumMasks \/ S = Acceptor
  <2>1. CASE Acc0 \in S
    BY <2>1 DEF Acceptor, QuorumMasks
  <2>2. CASE Acc0 \notin S
    BY <2>2 DEF Acceptor, QuorumMasks
  <2> QED
    BY <2>1, <2>2
<1>5. Cardinality({}) = 0
  BY FS_EmptySet
<1>6. ASSUME Cardinality(S) >= 2 PROVE S \in QuorumMasks \/ S = Acceptor
  <2>1. Cardinality(S) \notin {0, 1}
    BY <1>6
  <2> QED
    BY <1>2, <1>4, <1>5, <2>1
<1> QED
  BY <1>2, <1>3, <1>6

-----------------------------------------------------------------------------
(* The type invariant.                                                     *)

\* What the proofs need to know of the constants.
LEMMA Ranges ==
  /\ Inst \subseteq Nat /\ 0 \in Inst
  /\ Round \subseteq Nat /\ 0 \in Round
  /\ Zero \notin Value
BY P4Assumption DEF Inst, Round

\* The numbers of the instance field, the ones of the arrays among them.
LEMMA NumberFacts ==
  /\ InstanceNumbers \in Nat \ {0}
  /\ 0 \in 0 .. InstanceNumbers - 1
  /\ \A n \in Nat : n % InstanceNumbers \in 0 .. InstanceNumbers - 1
<1>1. InstanceNumbers \in Nat \ {0}
  BY P4Assumption DEF InstanceNumbers
<1> QED
  BY <1>1

\* The fields of a packet.
LEMMA PacketFacts ==
  ASSUME TypeOK, NEW m \in msgs
  PROVE  /\ m \in Packet /\ m.inst \in Inst /\ m.rnd \in Round /\ m.vrnd \in Round
         /\ m.paxosval \in Value \cup {Zero} /\ m.acptid \in Acceptor \cup {NoAcc}
         /\ m.msgtype \in {"1A", "1B", "2A", "2B"}
         /\ m.rnd \in Nat
BY Ranges DEF TypeOK, Packet

\* The packets the leader and the injected rounds are made of.
LEMMA PacketTypes ==
  ASSUME NEW i \in Inst, NEW r \in Round
  PROVE  Phase1A(i, r) \in Packet /\ \A v \in Value : Phase2A(i, r, v) \in Packet
BY Ranges DEF Phase1A, Phase2A, Packet

\* What was forwarded stays among what was sent.
LEMMA ForwardedStays ==
  ASSUME TypeOK, msgs \subseteq msgs', UNCHANGED forwarded
  PROVE  forwarded' \subseteq
           {[msgtype |-> m.msgtype, inst |-> m.inst, rnd |-> m.rnd] : m \in msgs'}
BY DEF TypeOK

\* What the quorum test forwards.
LEMMA QuorumTestFacts ==
  ASSUME NEW m, NEW S, QuorumTest(m, S)
  PROVE  LET f == [msgtype |-> m.msgtype, inst |-> m.inst, rnd |-> m.rnd] IN
         /\ forwarded' = forwarded \/ forwarded' = forwarded \cup {f}
         /\ program = "p4src" /\ S \in QuorumMasks => f \in forwarded'
         /\ program = "p4src" /\ S \notin QuorumMasks => forwarded' = forwarded
BY DEF QuorumTest, Leave

\* The new packets and registers of an acceptor are well typed.
LEMMA AnswerTypes ==
  ASSUME TypeOK, NEW a \in Acceptor, NEW m \in msgs
  PROVE  /\ [m EXCEPT !.msgtype = "1B", !.acptid = a,
                      !.vrnd = registerVRound[a][m.inst],
                      !.paxosval = registerValue[a][m.inst]] \in Packet
         /\ [m EXCEPT !.msgtype = "2B", !.acptid = a] \in Packet
<1>1. /\ m \in Packet /\ registerVRound[a][m.inst] \in Round
      /\ registerValue[a][m.inst] \in Value \cup {Zero}
  BY PacketFacts DEF TypeOK
<1> QED
  BY <1>1 DEF Packet

\* Packets the learner counts are among the votes, and set an acceptor's bit.
LEMMA CountedIsVote ==
  ASSUME TypeOK, NEW m \in msgs
  PROVE  /\ AcceptorBit(m) \in Acceptor
         /\ Reaches(m) /\ IsVote(m) => m \in VotesIn(m.inst, m.rnd)
<1>1. m.acptid \in Acceptor \cup {NoAcc}
  BY PacketFacts
<1> QED
  BY <1>1 DEF AcceptorBit, Acceptor, VotesIn

\* Every step keeps the types.
LEMMA TypeStep == ASSUME IInv, [Next]_vars PROVE TypeOK'
<1> USE DEF acceptorVars, learnerVars
<1>0. TypeOK
  BY DEF IInv
<1>N. UNCHANGED program => InstanceNumbers' = InstanceNumbers
  BY DEF InstanceNumbers
<1>1. CASE Number
  <2>1. PICK v \in Value : increase_instance(v)
    BY <1>1 DEF Number
  <2>2. registerInstance' \in 0 .. InstanceNumbers - 1
    <3>1. registerInstance + 1 \in Nat
      BY <1>0, NumberFacts DEF TypeOK
    <3> QED
      BY <2>1, <3>1, NumberFacts DEF increase_instance, NextInstance
  <2>3. PICK new \in SUBSET Packet : msgs' = msgs \cup new
    <3>1. {Phase2A(i, 0, v) : i \in Inst \cap {NextInstance}} \subseteq Packet
      BY PacketTypes, Ranges
    <3> QED
      BY <2>1, <3>1 DEF increase_instance
  <2> QED
    BY <1>0, <1>1, <1>N, <2>2, <2>3, ForwardedStays DEF Number, TypeOK
<1>2. CASE Reset
  BY <1>0, <1>2, <1>N, NumberFacts DEF Reset, reset_instance, TypeOK
<1>3. CASE Inject
  <2>1. PICK i \in Inst, r \in Round : InjectRound(i, r)
    BY <1>3 DEF Inject
  <2>2. PICK m \in Packet : msgs' = msgs \cup {m}
    BY <2>1, PacketTypes DEF InjectRound, Send
  <2> QED
    BY <1>0, <1>3, <1>N, <2>2, ForwardedStays DEF Inject, TypeOK
<1>4. CASE Promise
  <2>1. PICK a \in Acceptor, m \in msgs : handle_1a(a, m)
    BY <1>4 DEF Promise
  <2>2. PICK n \in Packet : msgs' = msgs \cup {n}
    BY <1>0, <2>1, AnswerTypes DEF handle_1a, Send
  <2>3. registerRound' \in [Acceptor -> [Inst -> Round]]
    BY <1>0, <2>1, PacketFacts DEF handle_1a, TypeOK
  <2> QED
    BY <1>0, <1>4, <1>N, <2>1, <2>2, <2>3, ForwardedStays DEF Promise, handle_1a, TypeOK
<1>5. CASE Vote
  <2>1. PICK a \in Acceptor, m \in msgs : handle_2a(a, m)
    BY <1>5 DEF Vote
  <2>2. PICK n \in Packet : msgs' = msgs \cup {n}
    BY <1>0, <2>1, AnswerTypes DEF handle_2a, Send
  <2>3. m.inst \in Inst /\ m.rnd \in Round /\ m.paxosval \in Value \cup {Zero}
    BY <1>0, PacketFacts
  <2>4. /\ registerRound' \in [Acceptor -> [Inst -> Round]]
        /\ registerVRound' \in [Acceptor -> [Inst -> Round]]
    BY <1>0, <2>1, <2>3 DEF handle_2a, TypeOK
  <2>5. registerValue' \in [Acceptor -> [Inst -> Value \cup {Zero}]]
    BY <1>0, <2>1, <2>3 DEF handle_2a, TypeOK
  <2> QED
    BY <1>0, <1>5, <1>N, <2>2, <2>4, <2>5, ForwardedStays DEF Vote, TypeOK
<1>6. CASE Learn
  <2>1. PICK m \in msgs : ingress(m)
    BY <1>6 DEF Learn
  <2>2. m.inst \in Inst /\ m.rnd \in Round /\ m.paxosval \in Value \cup {Zero}
    BY <1>0, PacketFacts
  <2>3. PICK S : QuorumTest(m, S)
    BY <2>1 DEF ingress, handle_2b, handle_new_value, pass_through
  <2>4. forwarded' \subseteq
          {[msgtype |-> k.msgtype, inst |-> k.inst, rnd |-> k.rnd] : k \in msgs}
    <3> DEFINE f == [msgtype |-> m.msgtype, inst |-> m.inst, rnd |-> m.rnd]
               F == {[msgtype |-> k.msgtype, inst |-> k.inst, rnd |-> k.rnd] : k \in msgs}
    <3>1. f \in F
      OBVIOUS
    <3>2. forwarded' = forwarded \/ forwarded' = forwarded \cup {f}
      BY <2>3, QuorumTestFacts
    <3>3. forwarded \subseteq F
      BY <1>0 DEF TypeOK
    <3> HIDE DEF f, F
    <3>4. forwarded' \subseteq F
      BY <3>1, <3>2, <3>3
    <3> QED
      BY <3>4 DEF F
  <2>5. /\ rounds_register' \in [Inst -> Round]
        /\ values_register' \in [Inst -> Value \cup {Zero}]
    BY <1>0, <2>1, <2>2 DEF ingress, handle_2b, handle_new_value, pass_through, TypeOK
  <2>6. history2B' \in [Inst -> SUBSET Acceptor]
    <3>1. AcceptorBit(m) \in Acceptor
      BY <1>0, CountedIsVote
    <3> QED
      BY <1>0, <2>1, <2>2, <3>1 DEF ingress, handle_2b, handle_new_value, pass_through, TypeOK
  <2> QED
    BY <1>0, <1>6, <1>N, <2>4, <2>5, <2>6 DEF Learn, TypeOK
<1>7. CASE UNCHANGED vars
  BY <1>0, <1>7, <1>N DEF vars, TypeOK
<1> QED
  BY <1>1, <1>2, <1>3, <1>4, <1>5, <1>6, <1>7 DEF Next

-----------------------------------------------------------------------------
(* The steps.                                                              *)

\* The initial states satisfy every part of the invariant.
LEMMA InitIInv == Init => IInv
<1> SUFFICES ASSUME Init PROVE IInv
    OBVIOUS
<1> USE DEF Init, LeaderInit, AcceptorInit, LearnerInit
<1>1. TypeOK
  <2>1. registerInstance \in 0 .. InstanceNumbers - 1
    BY NumberFacts
  <2> QED
    BY <2>1, Ranges DEF TypeOK
<1>2. PacketsAreFilled /\ RegistersRemember /\ PromisesBind
  BY DEF PacketsAreFilled, RegistersRemember, PromisesBind
<1>3. HistoryIsOneRound /\ ForwardNeedsMajority
  BY DEF HistoryIsOneRound, ForwardNeedsMajority
<1>4. MajorityIsForwarded
  BY FS_EmptySet DEF MajorityIsForwarded
<1> QED
  BY <1>1, <1>2, <1>3, <1>4 DEF IInv

\* No round register of an acceptor falls.
RoundsRise ==
  \A a \in Acceptor, i \in Inst : registerRound[a][i] <= registerRound'[a][i]

\* More packets take no vote away, so a majority stays one.
LEMMA VotersGrow ==
  ASSUME TypeOK, TypeOK', msgs \subseteq msgs', UNCHANGED program, RoundsRise
  PROVE  /\ \A i, r : VotesIn(i, r) \subseteq VotesIn(i, r)'
         /\ \A i, r : Voters(i, r) \subseteq Voters(i, r)'
         /\ \A i, r : Cardinality(Voters(i, r)) >= 2 => Cardinality(Voters(i, r)') >= 2
<1>0. ASSUME NEW m \in msgs, Reaches(m) PROVE Reaches(m)'
  <2>1. \A a \in Acceptor : ~Current(a, m) => ~(m.rnd >= registerRound'[a][m.inst])
    <3> TAKE a \in Acceptor
    <3>1. m.inst \in Inst /\ m.rnd \in Nat
      BY PacketFacts
    <3>2. /\ registerRound \in [Acceptor -> [Inst -> Round]]
          /\ registerRound' \in [Acceptor -> [Inst -> Round]]
      BY DEF TypeOK
    <3>3. registerRound[a][m.inst] \in Nat /\ registerRound'[a][m.inst] \in Nat
      BY <3>1, <3>2, Ranges
    <3> QED
      BY <3>1, <3>3 DEF Current, RoundsRise
  <2> QED
    BY <1>0, <2>1 DEF Reaches, Current
<1>1. \A i, r : VotesIn(i, r) \subseteq VotesIn(i, r)'
  BY <1>0 DEF VotesIn, IsVote
<1>2. \A i, r : Voters(i, r) \subseteq Voters(i, r)' /\ Voters(i, r)' \subseteq Acceptor
  <2>1. \A m \in msgs' : AcceptorBit(m) \in Acceptor
    BY DEF TypeOK, Packet, AcceptorBit, Acceptor
  <2> QED
    BY <1>1, <2>1 DEF Voters, VotesIn, AcceptorBit
<1>3. ASSUME NEW i, NEW r, Cardinality(Voters(i, r)) >= 2
      PROVE  Cardinality(Voters(i, r)') >= 2
  <2>1. PICK S, T : S = Voters(i, r) /\ T = Voters(i, r)'
    OBVIOUS
  <2>2. S \in SUBSET T /\ T \in SUBSET Acceptor
    BY <1>2, <2>1
  <2>3. Cardinality(S) <= Cardinality(T) /\ Cardinality(T) \in Nat /\ Cardinality(S) \in Nat
    BY <2>2, MaskSize
  <2> QED
    BY <1>3, <2>1, <2>3
<1> QED
  BY <1>1, <1>2, <1>3

\* Steps of the other switches leave what is known of the learner alone.
LEMMA FrameLearner ==
  ASSUME IInv, TypeOK', msgs \subseteq msgs', RoundsRise,
         UNCHANGED <<program, learnerVars>>
  PROVE  HistoryIsOneRound' /\ ForwardNeedsMajority' /\ MajorityIsForwarded'
<1> USE DEF learnerVars
<1>1. /\ \A i, r : VotesIn(i, r) \subseteq VotesIn(i, r)'
      /\ \A i, r : Voters(i, r) \subseteq Voters(i, r)'
      /\ \A i, r : Cardinality(Voters(i, r)) >= 2 => Cardinality(Voters(i, r)') >= 2
  BY VotersGrow DEF IInv
<1>2. HistoryIsOneRound'
  <2> SUFFICES ASSUME NEW i \in Inst
               PROVE  (/\ history2B[i] \subseteq Voters(i, rounds_register[i])
                       /\ history2B[i] # {} =>
                           \E m \in VotesIn(i, rounds_register[i]) :
                             m.paxosval = values_register[i] /\ AcceptorBit(m) \in history2B[i])'
      BY DEF HistoryIsOneRound
  <2>1. PICK r : r = rounds_register[i] /\ r = rounds_register'[i]
    OBVIOUS
  <2>2. /\ history2B[i] \subseteq Voters(i, r)
        /\ history2B[i] # {} => \E m \in VotesIn(i, r) :
             m.paxosval = values_register[i] /\ AcceptorBit(m) \in history2B[i]
    BY <2>1 DEF IInv, HistoryIsOneRound
  <2> QED
    BY <1>1, <2>1, <2>2 DEF AcceptorBit
<1>3. ForwardNeedsMajority'
  BY <1>1 DEF IInv, ForwardNeedsMajority
<1>4. MajorityIsForwarded'
  BY DEF IInv, MajorityIsForwarded
<1> QED
  BY <1>2, <1>3, <1>4

\* Packets that are no answers leave the acceptors' facts alone.
LEMMA FrameAcceptors ==
  ASSUME IInv, msgs \subseteq msgs', UNCHANGED acceptorVars,
         \A m \in msgs' \ msgs : m.msgtype \notin {"1B", "2B"}
  PROVE  RegistersRemember' /\ PromisesBind'
<1> USE DEF acceptorVars
<1>1. RegistersRemember'
  BY DEF IInv, RegistersRemember
<1>2. PromisesBind'
  BY DEF IInv, PromisesBind
<1> QED
  BY <1>1, <1>2

\* The leader and the injected rounds send proposals and prepares.
LEMMA ProposalStep ==
  ASSUME IInv, TypeOK', UNCHANGED <<program, acceptorVars, learnerVars>>,
         Number \/ Reset \/ Inject \/ UNCHANGED vars
  PROVE  IInv'
<1>1. /\ msgs \subseteq msgs'
      /\ \A m \in msgs' \ msgs :
           /\ m.msgtype \notin {"1B", "2B"}
           /\ m.msgtype = "2A" => m.paxosval \in Value
  <2>1. CASE Number
    BY <2>1 DEF Number, increase_instance, Phase2A
  <2>2. CASE Inject
    BY <2>2 DEF Inject, InjectRound, Send, Phase1A, Phase2A
  <2>3. CASE Reset \/ UNCHANGED vars
    BY <2>3 DEF Reset, reset_instance, vars
  <2> QED
    BY <2>1, <2>2, <2>3
<1>2. PacketsAreFilled'
  BY <1>1 DEF IInv, PacketsAreFilled
<1>3. RoundsRise
  <2>1. registerRound \in [Acceptor -> [Inst -> Round]]
    BY DEF IInv, TypeOK
  <2>2. \A a \in Acceptor, i \in Inst : registerRound[a][i] \in Nat
    BY <2>1, Ranges
  <2> QED
    BY <2>2 DEF RoundsRise, acceptorVars
<1> QED
  BY <1>1, <1>2, <1>3, FrameLearner, FrameAcceptors DEF IInv

\* A promise reports the registers; the round register rises to it.
LEMMA PromiseStep == ASSUME IInv, TypeOK', Promise PROVE IInv'
<1>1. PICK a \in Acceptor, m \in msgs : handle_1a(a, m)
  BY DEF Promise
<1>2. PICK i \in Inst, r \in Round : i = m.inst /\ r = m.rnd
  BY PacketFacts DEF IInv
<1> DEFINE x == [m EXCEPT !.msgtype = "1B", !.acptid = a,
                          !.vrnd = registerVRound[a][m.inst],
                          !.paxosval = registerValue[a][m.inst]]
<1>3. PICK n : n = x
  OBVIOUS
<1>4. /\ n.msgtype = "1B" /\ n.acptid = a /\ n.inst = i /\ n.rnd = r
      /\ n.vrnd = registerVRound[a][i] /\ n.paxosval = registerValue[a][i]
  BY <1>2, <1>3, PacketFacts DEF IInv, Packet
<1>5. /\ msgs' = msgs \cup {n} /\ r >= registerRound[a][i]
      /\ registerRound' = [registerRound EXCEPT ![a][i] = r]
      /\ UNCHANGED <<program, registerVRound, registerValue, learnerVars>>
  BY <1>1, <1>2, <1>3 DEF handle_1a, Send, Current, Promise
<1> HIDE DEF x
<1>6. \A b \in Acceptor, j \in Inst :
        /\ registerRound'[b][j] = IF b = a /\ j = i THEN r ELSE registerRound[b][j]
        /\ registerRound'[b][j] >= registerRound[b][j]
        /\ registerRound[b][j] \in Nat /\ registerVRound[b][j] \in Nat
        /\ registerRound'[b][j] \in Nat
  BY <1>2, <1>5, Ranges DEF IInv, TypeOK
<1>7. PacketsAreFilled'
  BY <1>4, <1>5 DEF IInv, PacketsAreFilled
<1>8. RegistersRemember'
  <2>1. \A b \in Acceptor, j \in Inst : registerVRound[b][j] <= registerRound'[b][j]
    BY <1>6 DEF IInv, RegistersRemember
  <2>2. ASSUME NEW k \in msgs'
        PROVE  /\ k.msgtype = "1B" => k.rnd <= registerRound'[k.acptid][k.inst]
               /\ k.msgtype = "2B" => /\ k.rnd <= registerVRound[k.acptid][k.inst]
                                     /\ registerValue[k.acptid][k.inst] # Zero
    <3>1. CASE k = n
      BY <1>2, <1>4, <1>6, <3>1
    <3>2. CASE k \in msgs
      <4>1. /\ k.inst \in Inst /\ k.rnd \in Nat
            /\ k.msgtype \in {"1B", "2B"} => k.acptid \in Acceptor
        BY <3>2, PacketFacts DEF IInv, PacketsAreFilled
      <4>2. /\ k.msgtype = "1B" => k.rnd <= registerRound[k.acptid][k.inst]
            /\ k.msgtype = "2B" => /\ k.rnd <= registerVRound[k.acptid][k.inst]
                                  /\ registerValue[k.acptid][k.inst] # Zero
        BY <3>2 DEF IInv, RegistersRemember
      <4> QED
        BY <1>6, <4>1, <4>2
    <3> QED
      BY <1>5, <3>1, <3>2
  <2> QED
    BY <1>5, <2>1, <2>2 DEF RegistersRemember
<1>9. PromisesBind'
  <2> SUFFICES ASSUME NEW p \in msgs', NEW v \in msgs', p.msgtype = "1B", v.msgtype = "2B",
                      p.acptid = v.acptid, p.inst = v.inst, v.rnd < p.rnd
               PROVE  v.rnd <= p.vrnd /\ p.paxosval # Zero
      BY DEF PromisesBind
  <2>1. v \in msgs
    BY <1>4, <1>5
  <2>2. CASE p \in msgs
    BY <2>1, <2>2 DEF IInv, PromisesBind
  <2>3. CASE p = n
    BY <1>4, <2>1, <2>3 DEF IInv, RegistersRemember
  <2> QED
    BY <1>5, <2>2, <2>3
<1>10. RoundsRise
  BY <1>6 DEF RoundsRise
<1> QED
  BY <1>5, <1>7, <1>8, <1>9, <1>10, FrameLearner DEF IInv

\* A vote is cast in no round below the round register, which rises to it.
LEMMA VoteStep == ASSUME IInv, TypeOK', Vote PROVE IInv'
<1>1. PICK a \in Acceptor, m \in msgs : handle_2a(a, m)
  BY DEF Vote
<1>2. PICK i \in Inst, r \in Round : i = m.inst /\ r = m.rnd
  BY PacketFacts DEF IInv
<1> DEFINE x == [m EXCEPT !.msgtype = "2B", !.acptid = a]
<1>3. PICK n : n = x
  OBVIOUS
<1>4. /\ n.msgtype = "2B" /\ n.acptid = a /\ n.inst = i /\ n.rnd = r
      /\ n.paxosval = m.paxosval
  BY <1>2, <1>3, PacketFacts DEF IInv, Packet
<1>5. /\ msgs' = msgs \cup {n} /\ r >= registerRound[a][i]
      /\ registerRound' = [registerRound EXCEPT ![a][i] = r]
      /\ registerVRound' = [registerVRound EXCEPT ![a][i] = r]
      /\ registerValue' = [registerValue EXCEPT ![a][i] = m.paxosval]
      /\ UNCHANGED <<program, learnerVars>>
  BY <1>1, <1>2, <1>3 DEF handle_2a, Send, Current, Vote
<1> HIDE DEF x
<1>6. m.paxosval \in Value /\ m.paxosval # Zero
  BY <1>1, Ranges DEF handle_2a, IInv, PacketsAreFilled
<1>7. \A b \in Acceptor, j \in Inst :
        /\ registerRound'[b][j] = IF b = a /\ j = i THEN r ELSE registerRound[b][j]
        /\ registerVRound'[b][j] = IF b = a /\ j = i THEN r ELSE registerVRound[b][j]
        /\ registerRound[b][j] \in Nat /\ registerVRound[b][j] \in Nat
        /\ registerVRound[b][j] <= registerRound[b][j]
  BY <1>2, <1>5, Ranges DEF IInv, TypeOK, RegistersRemember
<1>8. \A b \in Acceptor, j \in Inst :
        registerValue'[b][j] = IF b = a /\ j = i THEN m.paxosval ELSE registerValue[b][j]
  BY <1>2, <1>5 DEF IInv, TypeOK
<1>9. r \in Nat
  BY Ranges
<1>10. PacketsAreFilled'
  BY <1>4, <1>5, <1>6 DEF IInv, PacketsAreFilled
<1>11. RegistersRemember'
  <2>1. \A b \in Acceptor, j \in Inst : registerVRound'[b][j] <= registerRound'[b][j]
    BY <1>7, <1>9
  <2>2. ASSUME NEW k \in msgs'
        PROVE  /\ k.msgtype = "1B" => k.rnd <= registerRound'[k.acptid][k.inst]
               /\ k.msgtype = "2B" => /\ k.rnd <= registerVRound'[k.acptid][k.inst]
                                     /\ registerValue'[k.acptid][k.inst] # Zero
    <3>1. CASE k = n
      BY <1>2, <1>4, <1>6, <1>7, <1>8, <1>9, <3>1
    <3>2. CASE k \in msgs
      <4>1. /\ k.inst \in Inst /\ k.rnd \in Nat
            /\ k.msgtype \in {"1B", "2B"} => k.acptid \in Acceptor
        BY <3>2, PacketFacts DEF IInv, PacketsAreFilled
      <4>2. /\ k.msgtype = "1B" => k.rnd <= registerRound[k.acptid][k.inst]
            /\ k.msgtype = "2B" => /\ k.rnd <= registerVRound[k.acptid][k.inst]
                                  /\ registerValue[k.acptid][k.inst] # Zero
        BY <3>2 DEF IInv, RegistersRemember
      <4>3. k.msgtype = "1B" => k.rnd <= registerRound'[k.acptid][k.inst]
        BY <1>5, <1>7, <1>9, <4>1, <4>2
      <4>4. k.msgtype = "2B" => k.rnd <= registerVRound'[k.acptid][k.inst]
        BY <1>5, <1>7, <1>9, <4>1, <4>2
      <4>5. k.msgtype = "2B" => registerValue'[k.acptid][k.inst] # Zero
        BY <1>6, <1>8, <4>1, <4>2
      <4> QED
        BY <4>3, <4>4, <4>5
    <3> QED
      BY <1>5, <3>1, <3>2
  <2> QED
    BY <2>1, <2>2 DEF RegistersRemember
<1>12. PromisesBind'
  <2> SUFFICES ASSUME NEW p \in msgs', NEW v \in msgs', p.msgtype = "1B", v.msgtype = "2B",
                      p.acptid = v.acptid, p.inst = v.inst, v.rnd < p.rnd
               PROVE  v.rnd <= p.vrnd /\ p.paxosval # Zero
      BY DEF PromisesBind
  <2>1. p \in msgs
    BY <1>4, <1>5
  <2>2. CASE v \in msgs
    BY <2>1, <2>2 DEF IInv, PromisesBind
  <2>3. CASE v = n
    <3>1. p.rnd <= registerRound[a][i] /\ p.rnd \in Nat
      BY <1>4, <2>1, <2>3, PacketFacts DEF IInv, RegistersRemember
    <3> QED
      BY <1>2, <1>4, <1>5, <1>7, <1>9, <2>3, <3>1
  <2> QED
    BY <1>5, <2>2, <2>3
<1>13. RoundsRise
  BY <1>2, <1>5, <1>7, <1>9 DEF RoundsRise
<1> QED
  BY <1>5, <1>10, <1>11, <1>12, <1>13, FrameLearner DEF IInv

\* What the learner forwards on a mask that voters of one round make up keeps
\* ForwardNeedsMajority.
LEMMA ForwardStep ==
  ASSUME IInv, NEW m \in msgs, NEW S \in SUBSET Acceptor, NEW r \in Round,
         QuorumTest(m, S), S \subseteq Voters(m.inst, r),
         UNCHANGED <<program, msgs, registerRound>>
  PROVE  ForwardNeedsMajority' /\ forwarded \subseteq forwarded'
<1> DEFINE f == [msgtype |-> m.msgtype, inst |-> m.inst, rnd |-> m.rnd]
<1>1. /\ forwarded' = forwarded \/ forwarded' = forwarded \cup {f}
      /\ program = "p4src" /\ S \notin QuorumMasks => forwarded' = forwarded
  BY QuorumTestFacts
<1>2. \A i, s : Voters(i, s)' = Voters(i, s)
  BY DEF Voters, VotesIn, IsVote, Reaches, Current, AcceptorBit
<1>3. S \in QuorumMasks => Cardinality(Voters(m.inst, r)) >= 2
  <2>1. PICK T : T = Voters(m.inst, r)
    OBVIOUS
  <2>2. T \in SUBSET Acceptor /\ S \in SUBSET T
    BY <2>1, CountedIsVote DEF Voters, VotesIn, IInv
  <2>3. Cardinality(S) <= Cardinality(T) /\ Cardinality(T) \in Nat
    BY <2>2, MaskSize
  <2>4. S \in QuorumMasks => Cardinality(S) = 2
    BY MaskIsPair
  <2> QED
    BY <2>1, <2>3, <2>4
<1>4. ASSUME NEW k \in forwarded', program = "p4src"
      PROVE  \E s \in Round : Cardinality(Voters(k.inst, s)) >= 2
  <2>1. CASE k \in forwarded
    BY <1>4, <2>1 DEF IInv, ForwardNeedsMajority
  <2>2. CASE k = f /\ S \in QuorumMasks
    BY <1>3, <2>2
  <2> QED
    BY <1>1, <1>4, <2>1, <2>2
<1> QED
  BY <1>1, <1>2, <1>4 DEF ForwardNeedsMajority

\* The learner switch counts votes of one round and tests each mask it stores,
\* except the first vote of a new round.
LEMMA LearnStep == ASSUME IInv, TypeOK', Learn PROVE IInv'
<1>1. PICK m \in msgs : ingress(m)
  BY DEF Learn
<1>2. UNCHANGED <<program, msgs, acceptorVars>> /\ Reaches(m)
  BY <1>1 DEF Learn, ingress
<1>3. PacketsAreFilled' /\ RegistersRemember' /\ PromisesBind'
  <2>1. PacketsAreFilled'
    BY <1>2 DEF IInv, PacketsAreFilled
  <2> QED
    BY <1>2, <2>1, FrameAcceptors
<1>4. PICK i \in Inst, r \in Round, old \in Round :
        i = m.inst /\ r = m.rnd /\ old = rounds_register[i]
  BY PacketFacts DEF IInv, TypeOK
<1>5. \A j, s : VotesIn(j, s)' = VotesIn(j, s) /\ Voters(j, s)' = Voters(j, s)
  BY <1>2 DEF Voters, VotesIn, IsVote, Reaches, Current, AcceptorBit, acceptorVars
<1>6. /\ history2B[i] \in SUBSET Acceptor /\ history2B[i] \subseteq Voters(i, old)
      /\ history2B[i] # {} => \E k \in VotesIn(i, old) :
            k.paxosval = values_register[i] /\ AcceptorBit(k) \in history2B[i]
  BY <1>4 DEF IInv, TypeOK, HistoryIsOneRound
<1>7. PICK bit \in Acceptor :
        bit = AcceptorBit(m) /\ (IsVote(m) => m \in VotesIn(i, r) /\ bit \in Voters(i, r))
  BY <1>2, <1>4, CountedIsVote DEF Voters, IInv
<1>8. program = "p4src" /\ IsVote(m) => m.msgtype = "2B"
  BY DEF IsVote
<1>9. ASSUME NEW S \in SUBSET Acceptor, IsVote(m), S \subseteq Voters(i, r), bit \in S,
             history2B' = [history2B EXCEPT ![i] = S],
             rounds_register' = [rounds_register EXCEPT ![i] = r],
             values_register' = [values_register EXCEPT ![i] = m.paxosval]
      PROVE  HistoryIsOneRound'
  <2> SUFFICES ASSUME NEW j \in Inst
               PROVE  (/\ history2B[j] \subseteq Voters(j, rounds_register[j])
                       /\ history2B[j] # {} =>
                           \E k \in VotesIn(j, rounds_register[j]) :
                             k.paxosval = values_register[j] /\ AcceptorBit(k) \in history2B[j])'
      BY DEF HistoryIsOneRound
  <2>1. CASE j = i
    <3>1. /\ history2B'[j] = S /\ rounds_register'[j] = r
          /\ values_register'[j] = m.paxosval
      BY <1>9, <2>1 DEF IInv, TypeOK
    <3> QED
      BY <1>5, <1>7, <1>9, <2>1, <3>1 DEF AcceptorBit
  <2>2. CASE j # i
    <3>1. PICK s : s = rounds_register[j]
      OBVIOUS
    <3>2. /\ history2B'[j] = history2B[j] /\ rounds_register'[j] = s
          /\ values_register'[j] = values_register[j]
      BY <1>9, <2>2, <3>1 DEF IInv, TypeOK
    <3>3. /\ history2B[j] \subseteq Voters(j, s)
          /\ history2B[j] # {} => \E k \in VotesIn(j, s) :
                k.paxosval = values_register[j] /\ AcceptorBit(k) \in history2B[j]
      BY <3>1 DEF IInv, HistoryIsOneRound
    <3> QED
      BY <1>5, <3>2, <3>3 DEF AcceptorBit
  <2> QED
    BY <2>1, <2>2
<1>10. CASE handle_2b(m)
  <2> DEFINE S == history2B[i] \cup {bit}
             f == [msgtype |-> m.msgtype, inst |-> m.inst, rnd |-> m.rnd]
  <2>1. /\ r = old /\ IsVote(m) /\ QuorumTest(m, S)
        /\ history2B' = [history2B EXCEPT ![i] = S]
        /\ values_register' = [values_register EXCEPT ![i] = m.paxosval]
        /\ rounds_register' = rounds_register
    BY <1>4, <1>7, <1>10 DEF handle_2b
  <2>2. S \in SUBSET Acceptor /\ S \subseteq Voters(i, r) /\ bit \in S
    BY <1>6, <1>7, <2>1
  <2>3. rounds_register' = [rounds_register EXCEPT ![i] = r]
    BY <1>4, <2>1 DEF IInv, TypeOK
  <2>4. HistoryIsOneRound'
    BY <1>9, <2>1, <2>2, <2>3
  <2>5. ForwardNeedsMajority' /\ forwarded \subseteq forwarded'
    BY <1>2, <1>4, <2>1, <2>2, ForwardStep DEF acceptorVars
  <2>6. MajorityIsForwarded'
    <3> SUFFICES ASSUME program = "p4src", NEW j \in Inst, Cardinality(history2B'[j]) >= 2
                 PROVE  \E k \in forwarded' :
                          k.msgtype = "2B" /\ k.inst = j /\ k.rnd = rounds_register[j]
        BY <1>2, <2>1 DEF MajorityIsForwarded
    <3>1. CASE j # i \/ Cardinality(history2B[i]) >= 2
      <4>1. Cardinality(history2B[j]) >= 2
        BY <2>1, <3>1 DEF IInv, TypeOK
      <4> QED
        BY <2>5, <4>1 DEF IInv, MajorityIsForwarded
    <3>2. CASE j = i /\ ~(Cardinality(history2B[i]) >= 2)
      <4>1. Cardinality(S) >= 2
        BY <2>1, <3>2 DEF IInv, TypeOK
      <4>2. S # Acceptor
        <5>1. PICK h \in SUBSET Acceptor, c \in Acceptor : h = history2B[i] /\ c = bit
          BY <1>6
        <5>2. ASSUME h \cup {c} = Acceptor PROVE FALSE
          <6>1. PICK x \in Acceptor, y \in Acceptor : x # y /\ x # c /\ y # c
            BY FourIds DEF Acceptor
          <6>2. {x, y} \in SUBSET h
            BY <5>2, <6>1
          <6>3. Cardinality({x, y}) = 2
            BY <6>1, SmallSets
          <6>4. Cardinality({x, y}) <= Cardinality(h) /\ Cardinality(h) \in Nat
            BY <6>2, MaskSize
          <6> QED
            BY <3>2, <5>1, <6>3, <6>4
        <5> QED
          BY <5>1, <5>2
      <4>3. S \in QuorumMasks
        BY <2>2, <4>1, <4>2, MaskIsPair
      <4>4. f \in forwarded'
        BY <2>1, <4>3, QuorumTestFacts
      <4> QED
        BY <1>4, <1>8, <2>1, <3>2, <4>4
    <3> QED
      BY <3>1, <3>2
  <2> QED
    BY <1>3, <2>4, <2>5, <2>6 DEF IInv
<1>11. CASE handle_new_value(m)
  <2> DEFINE S == {bit}
  <2>1. /\ IsVote(m) /\ QuorumTest(m, history2B[i])
        /\ history2B' = [history2B EXCEPT ![i] = S]
        /\ values_register' = [values_register EXCEPT ![i] = m.paxosval]
        /\ rounds_register' = [rounds_register EXCEPT ![i] = r]
    BY <1>4, <1>7, <1>11 DEF handle_new_value
  <2>2. S \in SUBSET Acceptor /\ S \subseteq Voters(i, r) /\ bit \in S
    BY <1>7, <2>1
  <2>3. HistoryIsOneRound'
    BY <1>9, <2>1, <2>2
  <2>4. ForwardNeedsMajority' /\ forwarded \subseteq forwarded'
    BY <1>2, <1>4, <1>6, <2>1, ForwardStep DEF acceptorVars
  <2>5. MajorityIsForwarded'
    <3> SUFFICES ASSUME program = "p4src", NEW j \in Inst, Cardinality(history2B'[j]) >= 2
                 PROVE  \E k \in forwarded' :
                          k.msgtype = "2B" /\ k.inst = j /\ k.rnd = rounds_register'[j]
        BY <1>2 DEF MajorityIsForwarded
    <3>1. j # i
      <4>1. Cardinality(S) = 1
        BY SmallSets
      <4> QED
        BY <2>1, <4>1 DEF IInv, TypeOK
    <3>2. history2B'[j] = history2B[j] /\ rounds_register'[j] = rounds_register[j]
      BY <2>1, <3>1 DEF IInv, TypeOK
    <3> QED
      BY <2>4, <3>2 DEF IInv, MajorityIsForwarded
  <2> QED
    BY <1>3, <2>3, <2>4, <2>5 DEF IInv
<1>12. CASE pass_through(m)
  <2>1. /\ QuorumTest(m, history2B[i])
        /\ UNCHANGED <<rounds_register, values_register, history2B>>
    BY <1>4, <1>12 DEF pass_through
  <2>2. HistoryIsOneRound'
    BY <1>5, <2>1 DEF IInv, HistoryIsOneRound
  <2>3. ForwardNeedsMajority' /\ forwarded \subseteq forwarded'
    BY <1>2, <1>4, <1>6, <2>1, ForwardStep DEF acceptorVars
  <2>4. MajorityIsForwarded'
    BY <1>2, <2>1, <2>3 DEF IInv, MajorityIsForwarded
  <2> QED
    BY <1>3, <2>2, <2>3, <2>4 DEF IInv
<1> QED
  BY <1>1, <1>10, <1>11, <1>12 DEF ingress

\* IInv is an invariant of the leader, the acceptors and the learner switch: what
\* the learner's mask and registers say is what the acceptors sent.
THEOREM Invariance == Spec => []IInv
<1>1. IInv /\ [Next]_vars => IInv'
  <2> SUFFICES ASSUME IInv, [Next]_vars PROVE IInv'
      OBVIOUS
  <2>1. TypeOK'
    BY TypeStep
  <2>2. CASE Number \/ Reset \/ Inject \/ UNCHANGED vars
    <3>1. UNCHANGED <<program, acceptorVars, learnerVars>>
      BY <2>2 DEF Number, Reset, Inject, vars
    <3> QED
      BY <2>1, <2>2, <3>1, ProposalStep
  <2>3. CASE Promise
    BY <2>1, <2>3, PromiseStep
  <2>4. CASE Vote
    BY <2>1, <2>4, VoteStep
  <2>5. CASE Learn
    BY <2>1, <2>5, LearnStep
  <2> QED
    BY <2>2, <2>3, <2>4, <2>5 DEF Next
<1> QED
  BY <1>1, InitIInv, PTL DEF Spec

\* A promise of an acceptor switch (handle_1a) binds it: later and earlier votes
\* (handle_2a) of lower rounds are covered by what it reported.
THEOREM PromisesHold == Spec => []PromisesBind
<1>1. IInv => PromisesBind
  BY DEF IInv
<1> QED
  BY <1>1, Invariance, PTL

\* The learner switch never mixes the votes of two rounds (handle_2b and
\* handle_new_value), in p4src and in p4-16.
THEOREM OneRound == Spec => []HistoryIsOneRound
<1>1. IInv => HistoryIsOneRound
  BY DEF IInv
<1> QED
  BY <1>1, Invariance, PTL

\* forward_tbl of p4src's learner sends nothing before a majority voted in one
\* round, although handle_new_value and stale packets are tested on the old mask.
THEOREM NothingForwardedEarly == Spec => []ForwardNeedsMajority
<1>1. IInv => ForwardNeedsMajority
  BY DEF IInv
<1> QED
  BY <1>1, Invariance, PTL

\* The three masks of p4src's quorum test miss no majority: when two votes of a
\* round were counted, a vote of that round was forwarded.
THEOREM NoMajorityMissed == Spec => []MajorityIsForwarded
<1>1. IInv => MajorityIsForwarded
  BY DEF IInv
<1> QED
  BY <1>1, Invariance, PTL
=============================================================================
