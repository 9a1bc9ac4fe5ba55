--------------------------- MODULE DpdkPaxos_proofs ---------------------------
(***************************************************************************)
(* Theorems about DpdkPaxos: IInv is inductive, for any number of          *)
(* acceptors, learners, requests, instances and restarts; without a backup *)
(* and restarts the programs implement TotalOrder.                         *)
(***************************************************************************)
EXTENDS DpdkPaxos, SequenceTheorems, FiniteSetTheorems, WellFoundedInduction, TLAPS

USE RteAssumption, RestartAssumption, BufferAssumption

-----------------------------------------------------------------------------
(* What libpaxos' functions return.                                        *)

\* A set of acceptors is finite; a quorum of it is a majority and not empty.
LEMMA AcceptorSets ==
  ASSUME NEW S \in SUBSET AcceptorId
  PROVE  /\ IsFiniteSet(S) /\ Cardinality(S) \in Nat
         /\ Cardinality(S) >= paxos_quorum => Majority(S) /\ S # {}
         /\ \A T \in SUBSET S : Cardinality(T) <= Cardinality(S)
<1>1. IsFiniteSet(AcceptorId)
  BY FS_Interval DEF AcceptorId
<1>2. IsFiniteSet(S)
  BY <1>1, FS_Subset
<1>3. Cardinality(S) \in Nat /\ (Cardinality(S) = 0 <=> S = {})
  BY <1>2, FS_CardinalityType, FS_EmptySet
<1>4. \A T \in SUBSET S : Cardinality(T) <= Cardinality(S)
  BY <1>2, FS_Subset
<1> QED
  BY <1>2, <1>3, <1>4 DEF paxos_quorum, Majority

\* The last acceptor that counts (the loop of instance_has_quorum) exists.
LEMMA LastCountedExists ==
  ASSUME NEW inst, Counted(inst) # {}
  PROVE  LastCounted(inst) \in Counted(inst)
<1> DEFINE T == {NumAcceptors - 1 - a : a \in Counted(inst)}
<1>1. Counted(inst) \subseteq AcceptorId /\ AcceptorId \subseteq Nat
  BY DEF Counted, AcceptorId
<1>2. T \subseteq Nat /\ T # {}
  BY <1>1 DEF AcceptorId
<1>3. PICK x \in T : \A y \in T : ~(<<y, x>> \in OpToRel(<, Nat))
  BY <1>2, NatLessThanWellFounded, WFMin
<1>4. \A y \in T : x <= y
  <2> TAKE y \in T
  <2> DEFINE R == {ss \in Nat \X Nat : ss[1] < ss[2]}
  <2>1. R = OpToRel(<, Nat)
    BY DEF OpToRel
  <2>2. y < x => <<y, x>> \in R
    BY <1>2
  <2> HIDE DEF R
  <2>3. ~(<<y, x>> \in R)
    BY <1>3, <2>1
  <2>4. x \in Nat /\ y \in Nat
    BY <1>2
  <2> QED
    BY <2>2, <2>3, <2>4
<1>5. PICK a \in Counted(inst) : x = NumAcceptors - 1 - a
  OBVIOUS
<1>6. \A b \in Counted(inst) : b <= a
  <2> TAKE b \in Counted(inst)
  <2>1. x <= NumAcceptors - 1 - b
    BY <1>4
  <2>2. a \in Nat /\ b \in Nat
    BY <1>1
  <2> HIDE DEF T
  <2> QED
    BY <1>5, <2>1, <2>2
<1> HIDE DEF T
<1> QED
  BY <1>6 DEF LastCounted

\* learner_receive_accepted keeps the type of an instance; it closes one only on
\* a quorum of votes in one ballot, for the value of one of these votes.
LEMMA ReceiveAccepted ==
  ASSUME NEW inst \in Instance, NEW aid \in AcceptorId, NEW ballot \in Nat,
         NEW v \in Value
  PROVE  LET new == learner_receive_accepted(inst, aid, ballot, v) IN
         /\ new \in Instance
         /\ \A a \in AcceptorId :
              \/ new.acks[a] = NoVote
              \/ new.acks[a] = inst.acks[a]
              \/ /\ a = aid /\ new.acks[a] = [ballot |-> ballot, value |-> v]
                 /\ new.last_update_ballot = ballot
         /\ \/ new.last_update_ballot \in {inst.last_update_ballot, ballot}
            \/ new = NoInstance
         /\ Closed(new) =>
              /\ new.acks[aid].ballot >= ballot
              /\ Cardinality(Counted(new)) >= paxos_quorum
              /\ \E a \in Counted(new) : new.final_value = new.acks[a].value
<1> DEFINE upd == instance_update(inst, aid, ballot, v)
           new == learner_receive_accepted(inst, aid, ballot, v)
<1>1. /\ upd \in Instance
      /\ \A a \in AcceptorId :
              \/ upd.acks[a] = inst.acks[a]
              \/ /\ a = aid /\ upd.acks[a] = [ballot |-> ballot, value |-> v]
                 /\ upd.last_update_ballot = ballot
      /\ upd.acks[aid].ballot >= ballot
      /\ upd.last_update_ballot \in {inst.last_update_ballot, ballot}
      /\ upd.final_value = inst.final_value
  <2>1. CASE inst.acks[aid].ballot >= ballot
    BY <2>1 DEF Instance, instance_update
  <2>2. CASE ~(inst.acks[aid].ballot >= ballot)
    <3> DEFINE ack == [ballot |-> ballot, value |-> v]
    <3>1. upd = [last_update_ballot |-> ballot,
                 acks |-> [inst.acks EXCEPT ![aid] = ack],
                 final_value |-> inst.final_value]
      BY <2>2 DEF Instance, instance_update
    <3>2. ack \in [ballot : Nat, value : Value \cup {NoValue}]
      OBVIOUS
    <3>3. upd \in Instance
      BY <3>1, <3>2 DEF Instance
    <3>4. \A a \in AcceptorId : upd.acks[a] = IF a = aid THEN ack ELSE inst.acks[a]
      BY <3>1 DEF Instance
    <3>5. upd.last_update_ballot = ballot /\ upd.final_value = inst.final_value
      BY <3>1
    <3> QED
      BY <3>3, <3>4, <3>5
  <2> QED
    BY <2>1, <2>2
<1>2. CASE Closed(inst)
  <2>1. new = NoInstance
    BY <1>2 DEF learner_receive_accepted
  <2> QED
    BY <2>1 DEF NoInstance, Instance, NoVote, Closed
<1>3. CASE ~Closed(inst) /\ Cardinality(Counted(upd)) >= paxos_quorum
  <2> DEFINE w == upd.acks[LastCounted(upd)].value
  <2>1. Counted(upd) \in SUBSET AcceptorId
    BY DEF Counted
  <2>2. LastCounted(upd) \in Counted(upd)
    BY <1>3, <2>1, AcceptorSets, LastCountedExists
  <2>3. w \in Value \cup {NoValue}
    BY <1>1, <2>1, <2>2 DEF Instance
  <2>4. new = [upd EXCEPT !.final_value = w]
    BY <1>3 DEF learner_receive_accepted
  <2> HIDE DEF upd, w
  <2>5. /\ new \in Instance /\ new.final_value = w /\ new.acks = upd.acks
        /\ new.last_update_ballot = upd.last_update_ballot
    BY <1>1, <2>3, <2>4 DEF Instance
  <2>6. Counted(new) = Counted(upd)
    BY <2>5 DEF Counted
  <2> QED
    BY <1>1, <1>3, <2>2, <2>5, <2>6 DEF w
<1>4. CASE ~Closed(inst) /\ ~(Cardinality(Counted(upd)) >= paxos_quorum)
  <2>1. new = upd
    BY <1>4 DEF learner_receive_accepted
  <2> QED
    BY <1>1, <1>4, <2>1 DEF Closed
<1> QED
  BY <1>2, <1>3, <1>4

-----------------------------------------------------------------------------
(* The type invariant.                                                     *)

\* The fields of a packet.
LEMMA HdrFacts ==
  ASSUME TypeOK, NEW m \in msgs
  PROVE  /\ m \in PaxosHdr /\ m.inst \in Iid /\ m.inst \in Nat
         /\ m.rnd \in Nat /\ m.vrnd \in Nat
         /\ m.acptid \in AcceptorId /\ m.value \in Value
BY DEF TypeOK, PaxosHdr, Iid

\* What the constructors of rte_paxos.h build is a packet.
LEMMA HdrTypes ==
  /\ \A i \in Iid, b \in Nat : Prepare(i, b) \in PaxosHdr
  /\ \A i \in Iid, b \in Nat, v \in Value : Accept(i, b, v) \in PaxosHdr
BY DEF Prepare, Accept, PaxosHdr, AcceptorId, Value

\* Initially every variable has its type.
LEMMA InitType == Init => TypeOK
<1> SUFFICES ASSUME Init PROVE TypeOK
    OBVIOUS
<1> USE DEF Init, NetInit, CoordInit, AcceptorsInit, LearnersInit, BackupInit
<1>1. NoRecord \in Record /\ NoInstance \in Instance /\ NoGap \in Gap
  BY DEF NoRecord, Record, NoInstance, Instance, NoVote, NoGap, Gap, Value
<1>2. <<>> \in Seq(Request) /\ Len(<<>>) = 0 /\ <<>> \in Seq(Value)
  OBVIOUS
<1> QED
  BY <1>1, <1>2 DEF TypeOK

\* The switch and the coordinator keep the types.
LEMMA TypeCoordinator ==
  ASSUME TypeOK, Failover \/ Coordinate \/ Restart
  PROVE  TypeOK'
<1> USE DEF TypeOK
<1>1. CASE Failover
  BY <1>1 DEF Failover, SwitchOver, coordVars, learnerVars, backupVars
<1>2. ASSUME NEW r \in requests, Number(r),
             UNCHANGED <<records, learnerVars, backupVars>>
      PROVE  TypeOK'
  <2>1. Accept(cur_inst, ClientBallot, r) \in PaxosHdr
    BY <1>2, HdrTypes DEF Number, ClientBallot, Value
  <2> QED
    BY <1>2, <2>1 DEF Number, NextInst, Send, Iid, learnerVars, backupVars
<1>3. CASE Restart
  BY <1>3 DEF Restart, RestartCoordinator, netVars, learnerVars, backupVars
<1> QED
  BY <1>1, <1>2, <1>3 DEF Coordinate

\* acceptor_receive_prepare and acceptor_receive_accept return records.
LEMMA RecordTypes ==
  ASSUME NEW rec \in Record, NEW b \in Nat, NEW v \in Value
  PROVE  /\ acceptor_receive_prepare(rec, b) \in Record
         /\ acceptor_receive_accept(rec, b, v) \in Record
BY DEF Record, acceptor_receive_prepare, acceptor_receive_accept

\* The acceptors keep the types.
LEMMA TypeVote == ASSUME TypeOK, Vote PROVE TypeOK'
<1>1. PICK a \in AcceptorId, m \in msgs : receive_prepare(a, m) \/ receive_accept(a, m)
  BY DEF Vote, AcceptorStep
<1>2. /\ m \in PaxosHdr /\ m.inst \in Iid /\ m.rnd \in Nat /\ m.value \in Value
      /\ m.vrnd \in Nat /\ records[a][m.inst] \in Record
  BY HdrFacts DEF TypeOK
<1> DEFINE old == records[a][m.inst]
           p == acceptor_receive_prepare(old, m.rnd)
           q == acceptor_receive_accept(old, m.rnd, m.value)
<1>3. p \in Record /\ q \in Record
  BY <1>2, RecordTypes
<1>4. records' \in [AcceptorId -> [Iid -> Record]]
  <2>1. PICK r \in Record : records' = [records EXCEPT ![a][m.inst] = r]
    BY <1>1, <1>3 DEF receive_prepare, receive_accept
  <2> QED
    BY <1>2, <2>1 DEF TypeOK
<1>5. msgs' \subseteq PaxosHdr
  <2>1. CASE receive_prepare(a, m)
    <3> HIDE DEF p
    <3>1. [msgtype |-> "PROMISE", inst |-> m.inst, rnd |-> p.ballot,
           vrnd |-> p.value_ballot, acptid |-> a, value |-> p.value] \in PaxosHdr
      BY <1>2, <1>3 DEF Record, PaxosHdr
    <3> QED
      BY <2>1, <3>1 DEF receive_prepare, Send, TypeOK, p
  <2>2. CASE receive_accept(a, m)
    <3>1. [m EXCEPT !.msgtype = "ACCEPTED", !.acptid = a] \in PaxosHdr
      BY <1>2 DEF PaxosHdr
    <3>2. [m EXCEPT !.msgtype = "PREEMPTED", !.acptid = a,
                    !.rnd = old.ballot, !.vrnd = old.value_ballot] \in PaxosHdr
      BY <1>2 DEF PaxosHdr, Record
    <3> QED
      BY <2>2, <3>1, <3>2 DEF receive_accept, Send, TypeOK
  <2> QED
    BY <1>1, <2>1, <2>2
<1> QED
  BY <1>4, <1>5 DEF Vote, AcceptorStep, TypeOK, coordVars, learnerVars, backupVars

\* The learner's tables after a vote.
LEMMA VotesType ==
  ASSUME TypeOK, NEW l \in Learner, NEW m \in msgs
  PROVE  Votes(l, m) \in [Iid -> Instance]
<1>1. instances[l] \in [Iid -> Instance] /\ m.inst \in Iid
  BY HdrFacts DEF TypeOK
<1>2. learner_receive_accepted(instances[l][m.inst], m.acptid, m.rnd, m.value) \in Instance
  BY <1>1, HdrFacts, ReceiveAccepted
<1> QED
  BY <1>1, <1>2 DEF Votes

\* The learners keep the types.
LEMMA TypeDeliver == ASSUME TypeOK, Deliver PROVE TypeOK'
<1>1. PICK l \in Learner, m \in msgs :
        deliver_next(l, Votes(l, m)) \/ deliver_nothing(l, Votes(l, m))
  BY DEF Deliver, Learn
<1> DEFINE tab == Votes(l, m)
<1>2. tab \in [Iid -> Instance]
  BY VotesType
<1>3. NoInstance \in Instance
  BY DEF NoInstance, Instance, NoVote
<1>4. UNCHANGED <<netVars, coordVars, records, backupVars>>
  BY DEF Deliver, Learn
<1> HIDE DEF tab
<1>5. CASE deliver_next(l, tab)
  <2> DEFINE i == current_iid[l]
             v == tab[i].final_value
  <2>1. i \in Iid /\ v \in Value
    BY <1>2, <1>5 DEF deliver_next, Closed, Instance
  <2>2. /\ instances' \in [Learner -> [Iid -> Instance]]
        /\ current_iid' \in [Learner -> 1 .. MaxInst + 1]
    BY <1>2, <1>3, <1>5, <2>1 DEF deliver_next, TypeOK, Iid
  <2>3. deliver(l, v)
    BY <1>5 DEF deliver_next
  <2> HIDE DEF v
  <2>4. Append(delivered[l], v) \in Seq(Value)
    BY <2>1 DEF TypeOK
  <2>5. /\ delivered' \in [Learner -> Seq(Value)]
        /\ running' \in [Learner -> BOOLEAN]
        /\ answers' \subseteq Request
    BY <2>1, <2>3, <2>4 DEF deliver, TypeOK
  <2> QED
    BY <1>4, <2>2, <2>5 DEF TypeOK, netVars, coordVars, backupVars
<1>6. CASE deliver_nothing(l, tab)
  BY <1>2, <1>4, <1>6 DEF deliver_nothing, TypeOK, netVars, coordVars, backupVars
<1> QED
  BY <1>1, <1>5, <1>6 DEF tab
\* Prepare messages of the backup are packets, and their gap is one.
LEMMA TypePrepare ==
  ASSUME TypeOK, NEW i, SendPrepare(i)
  PROVE  i \in Iid /\ gaps' \in [Iid -> Gap] /\ msgs' \subseteq PaxosHdr
<1>1. i \in Iid /\ gaps[i] \in Gap
  BY DEF SendPrepare, TypeOK
<1>2. learner_prepare(gaps[i]) \in Gap
  BY <1>1 DEF learner_prepare, NoGap, Gap, Value
<1>3. gaps' \in [Iid -> Gap]
  BY <1>1, <1>2 DEF SendPrepare, TypeOK
<1>4. Prepare(i, learner_prepare(gaps[i]).ballot) \in PaxosHdr
  BY <1>1, <1>2, HdrTypes DEF Gap
<1> QED
  BY <1>1, <1>3, <1>4 DEF SendPrepare, Send, TypeOK

\* The value buffer after a client's packet.
LEMMA BufferedType ==
  ASSUME TypeOK, NEW r \in Request
  PROVE  /\ Buffered(r) \in Seq(Request) /\ Len(Buffered(r)) <= NB_VALUE_BUFFER
         /\ \A k \in DOMAIN Buffered(r) :
              \/ k \in DOMAIN values /\ Buffered(r)[k] = values[k]
              \/ k = Len(values) + 1 /\ Buffered(r)[k] = r
BY DEF Buffered, TypeOK

\* The gap after a promise.
LEMMA PromiseType ==
  ASSUME NEW gap \in Gap, NEW aid \in AcceptorId, NEW vb \in Nat, NEW v \in Value
  PROVE  LET new == learner_receive_promise(gap, aid, vb, v) IN
         /\ new \in Gap
         /\ new.ballot = gap.ballot
         /\ new.value \in {gap.value, v}
BY DEF Gap, learner_receive_promise

\* What the backup proposes and takes from its buffer.
LEMMA SendAcceptFacts ==
  ASSUME TypeOK, NEW i \in Iid, NEW gap \in Gap, SendAccept(i, gap)
  PROVE  \E v \in Value :
           /\ msgs' = msgs \cup {Accept(i, gap.ballot, v)}
           /\ \/ /\ values # <<>>
                 /\ v \in {values[Len(values)], Garbage}
                 /\ values' = SubSeq(values, 1, Len(values) - 1)
              \/ v = gap.value /\ values' = values
<1>1. CASE gap.value = Empty /\ values # <<>>
  <2>1. values[Len(values)] \in Request
    BY <1>1 DEF TypeOK
  <2> QED
    BY <1>1, <2>1 DEF SendAccept, Send, Value
<1>2. CASE ~(gap.value = Empty /\ values # <<>>)
  BY <1>2 DEF SendAccept, Send, Gap
<1> QED
  BY <1>1, <1>2

\* The buffer without its last value.
LEMMA BufferFront ==
  ASSUME NEW s \in Seq(Request), s # <<>>
  PROVE  LET t == SubSeq(s, 1, Len(s) - 1) IN
         /\ t \in Seq(Request) /\ Len(t) = Len(s) - 1
         /\ \A k \in DOMAIN t : k \in DOMAIN s /\ k # Len(s) /\ t[k] = s[k]
         /\ Len(s) \in DOMAIN s
<1> DEFINE n == Len(s) - 1
<1>1. n \in Nat /\ Len(s) = n + 1 /\ \A k \in 1 .. n : s[k] \in Request
  OBVIOUS
<1>0. DOMAIN s = 1 .. Len(s)
  OBVIOUS
<1> HIDE DEF n
<1>2. Len(s) \in DOMAIN s /\ \A k \in 1 .. n : k \in DOMAIN s /\ k # Len(s)
  BY <1>0, <1>1
<1> DEFINE t == SubSeq(s, 1, n)
<1>3. /\ t \in Seq(Request) /\ Len(t) = IF 1 <= n THEN n - 1 + 1 ELSE 0
      /\ \A k \in 1 .. n - 1 + 1 : t[k] = s[1 + k - 1]
  BY <1>1, SubSeqProperties
<1> HIDE DEF t
<1>4. Len(t) = n /\ DOMAIN t = 1 .. n /\ \A k \in 1 .. n : t[k] = s[k]
  BY <1>1, <1>3
<1> QED
  BY <1>1, <1>2, <1>3, <1>4 DEF n, t

\* The backup keeps the types.
LEMMA TypeBackup == ASSUME TypeOK, Backup PROVE TypeOK'
<1> USE DEF coordVars, learnerVars
<1>1. ASSUME NEW r \in requests, rx_accept(r) PROVE TypeOK'
  <2>1. values' \in Seq(Request) /\ Len(values') <= NB_VALUE_BUFFER
    BY <1>1, BufferedType DEF rx_accept, TypeOK
  <2>2. /\ gaps' \in [Iid -> Gap] /\ msgs' \subseteq PaxosHdr
        /\ latest_prepare_iid' \in 0 .. MaxInst + 2
    <3>1. CASE primary_alive
      <4>1. start_recovery
        BY <1>1, <3>1 DEF rx_accept
      <4> QED
        BY <3>1, <4>1, TypePrepare DEF start_recovery, TypeOK
    <3>2. CASE ~primary_alive
      BY <1>1, <3>2 DEF rx_accept, TypeOK
    <3> QED
      BY <3>1, <3>2
  <2>3. /\ requests' \subseteq Request /\ primary_alive' = FALSE
        /\ UNCHANGED <<port, latest_accepted_iid, votes>>
    BY <1>1 DEF rx_accept, TypeOK
  <2> QED
    BY <2>1, <2>2, <2>3 DEF Backup, TypeOK
<1>2. ASSUME NEW m \in msgs, rx_promise(m) PROVE TypeOK'
  <2> DEFINE gap == learner_receive_promise(gaps[m.inst], m.acptid, m.vrnd, m.value)
  <2>1. m.inst \in Iid /\ gap \in Gap
    BY HdrFacts, PromiseType DEF TypeOK
  <2>2. gaps' \in [Iid -> Gap]
    BY <1>2, <2>1 DEF rx_promise, TypeOK
  <2>3. /\ msgs' \subseteq PaxosHdr
        /\ values' \in Seq(Request) /\ Len(values') <= NB_VALUE_BUFFER
    <3>1. CASE UNCHANGED <<values, msgs>>
      BY <3>1 DEF TypeOK
    <3>2. CASE SendAccept(m.inst, gap)
      <4> HIDE DEF gap
      <4>1. PICK v \in Value :
              /\ msgs' = msgs \cup {Accept(m.inst, gap.ballot, v)}
              /\ \/ values # <<>> /\ values' = SubSeq(values, 1, Len(values) - 1)
                 \/ values' = values
        BY <2>1, <3>2, SendAcceptFacts
      <4>2. Accept(m.inst, gap.ballot, v) \in PaxosHdr
        BY <2>1, HdrTypes DEF Gap
      <4>3. values' \in Seq(Request) /\ Len(values') <= NB_VALUE_BUFFER
        <5>1. values \in Seq(Request) /\ Len(values) \in Nat /\ Len(values) <= NB_VALUE_BUFFER
          BY DEF TypeOK
        <5> QED
          BY <4>1, <5>1, BufferFront
      <4> QED
        BY <4>1, <4>2, <4>3 DEF TypeOK
    <3> QED
      BY <1>2, <3>1, <3>2 DEF rx_promise
  <2>4. UNCHANGED <<requests, port, primary_alive, latest_accepted_iid,
                    latest_prepare_iid, votes>>
    BY <1>2 DEF rx_promise
  <2> QED
    BY <2>2, <2>3, <2>4 DEF Backup, TypeOK
<1>3. ASSUME NEW m \in msgs, rx_accepted(m) PROVE TypeOK'
  <2> DEFINE vote == learner_receive_accepted(votes[m.inst], m.acptid, m.rnd, m.value)
             top == IF latest_prepare_iid < m.inst THEN m.inst ELSE latest_prepare_iid
  <2>1. m.inst \in Iid /\ vote \in Instance
    BY HdrFacts, ReceiveAccepted DEF TypeOK
  <2>2. votes' \in [Iid -> Instance]
    BY <1>3, <2>1 DEF rx_accepted, TypeOK
  <2>3. /\ latest_accepted_iid' \in 0 .. MaxInst
        /\ latest_prepare_iid' \in 0 .. MaxInst + 2
        /\ primary_alive' => latest_prepare_iid' <= MaxInst
        /\ gaps' \in [Iid -> Gap] /\ msgs' \subseteq PaxosHdr
    <3>1. CASE Closed(vote)
      <4>1. /\ SendPrepare(top + 1) /\ latest_prepare_iid' = top + 1
            /\ latest_accepted_iid' = IF latest_accepted_iid < m.inst
                                      THEN m.inst ELSE latest_accepted_iid
        BY <1>3, <3>1 DEF rx_accepted
      <4>2. top + 1 \in Iid /\ gaps' \in [Iid -> Gap] /\ msgs' \subseteq PaxosHdr
        BY <4>1, TypePrepare
      <4> QED
        BY <2>1, <4>1, <4>2 DEF TypeOK, Iid
    <3>2. CASE ~Closed(vote)
      BY <1>3, <3>2 DEF rx_accepted, TypeOK
    <3> QED
      BY <3>1, <3>2
  <2>4. UNCHANGED <<requests, port, primary_alive, values>>
    BY <1>3 DEF rx_accepted
  <2> QED
    BY <2>2, <2>3, <2>4 DEF Backup, TypeOK
<1> QED
  BY <1>1, <1>2, <1>3 DEF Backup

\* Every step keeps the types.
LEMMA TypeStep == TypeOK /\ [Next]_vars => TypeOK'
<1>1. ASSUME TypeOK, UNCHANGED vars PROVE TypeOK'
  BY <1>1 DEF vars, netVars, coordVars, learnerVars, backupVars, TypeOK
<1> QED
  BY <1>1, TypeCoordinator, TypeVote, TypeDeliver, TypeBackup DEF Next

-----------------------------------------------------------------------------
(* What one part of the system does leaves the other parts of the          *)
(* invariant alone.                                                        *)

\* More packets take away no proposal, no vote and no majority.
LEMMA Stable ==
  ASSUME TypeOK, TypeOK', msgs \subseteq msgs'
  PROVE  /\ \A i, v : Proposed(i, v) => Proposed(i, v)'
         /\ \A a, i, b, v : Voted(a, i, b, v) => Voted(a, i, b, v)'
         /\ \A i, v : Backed(i, v) => Backed(i, v)'
<1>1. \A i, v : Proposed(i, v) => Proposed(i, v)'
  BY DEF Proposed
<1>2. \A a, i, b, v : Voted(a, i, b, v) => Voted(a, i, b, v)'
  BY DEF Voted, VotesFor
<1>3. ASSUME NEW i, NEW v, Backed(i, v) PROVE Backed(i, v)'
  <2>1. PICK b \in Ballots : /\ Majority({m.acptid : m \in VotesFor(i, b)})
                            /\ \E m \in VotesFor(i, b) : m.value = v
    BY <1>3 DEF Backed
  <2> DEFINE S == {m.acptid : m \in VotesFor(i, b)}
             T == {m.acptid : m \in VotesFor(i, b)'}
  <2>2. b \in Ballots' /\ VotesFor(i, b) \subseteq VotesFor(i, b)'
    BY DEF Ballots, VotesFor
  <2>3. S \subseteq T /\ T \in SUBSET AcceptorId /\ S \in SUBSET AcceptorId
    BY <2>2 DEF VotesFor, TypeOK, PaxosHdr
  <2> HIDE DEF S, T
  <2>4. Cardinality(S) <= Cardinality(T) /\ Cardinality(S) \in Nat /\ Cardinality(T) \in Nat
    BY <2>3, AcceptorSets
  <2>5. Majority(T)
    BY <2>1, <2>4 DEF Majority, S
  <2> QED
    BY <2>1, <2>2, <2>5 DEF Backed, T
<1> QED
  BY <1>1, <1>2, <1>3

\* Packets that are no promises and no votes leave the acceptors' facts alone.
LEMMA FrameVotes ==
  ASSUME IInv, TypeOK', UNCHANGED records, msgs \subseteq msgs',
         \A m \in msgs' \ msgs : m.msgtype \notin {"PROMISE", "ACCEPTED"}
  PROVE  RecordsRemember' /\ PromiseBinds'
<1>1. RecordsRemember'
  <2> SUFFICES /\ \A m \in msgs' :
                   /\ m.msgtype = "PROMISE" => m.rnd <= records[m.acptid][m.inst].ballot
                   /\ m.msgtype = "ACCEPTED" => m.rnd <= records[m.acptid][m.inst].value_ballot
               /\ \A a \in AcceptorId, i \in Iid :
                    LET rec == records[a][i]
                    IN /\ rec.value_ballot <= rec.ballot
                       /\ rec.value_ballot > 0 => Voted(a, i, rec.value_ballot, rec.value)'
      BY DEF RecordsRemember
  <2> QED
    BY Stable DEF IInv, RecordsRemember
<1>2. PromiseBinds'
  <2> SUFFICES ASSUME NEW p \in msgs', p.msgtype = "PROMISE"
               PROVE  /\ \A m \in msgs' :
                          (m.msgtype = "ACCEPTED" /\ m.acptid = p.acptid /\ m.inst = p.inst)
                          => m.rnd <= p.vrnd \/ m.rnd >= p.rnd
                      /\ p.vrnd > 0 => Voted(p.acptid, p.inst, p.vrnd, p.value)'
      BY DEF PromiseBinds, Voted
  <2>1. p \in msgs
    OBVIOUS
  <2>2. p.vrnd > 0 => Voted(p.acptid, p.inst, p.vrnd, p.value)
    BY <2>1 DEF IInv, PromiseBinds, Voted
  <2>3. ASSUME NEW m \in msgs', m.msgtype = "ACCEPTED", m.acptid = p.acptid, m.inst = p.inst
        PROVE  m.rnd <= p.vrnd \/ m.rnd >= p.rnd
    BY <2>1, <2>3 DEF IInv, PromiseBinds
  <2> QED
    BY <2>2, <2>3, Stable DEF IInv
<1> QED
  BY <1>1, <1>2

\* Steps of the other programs leave what learners know alone.
LEMMA FrameLearners ==
  ASSUME IInv, TypeOK', UNCHANGED learnerVars, msgs \subseteq msgs'
  PROVE  LearnersKnow' /\ DeliveryHasQuorum'
<1> USE DEF learnerVars
<1>1. LearnersKnow'
  <2> SUFFICES ASSUME NEW l \in Learner
               PROVE  /\ Len(delivered[l]) = current_iid[l] - 1
                      /\ \A i \in Iid :
                          LET inst == instances[l][i]
                          IN /\ Closed(inst) => Backed(i, inst.final_value)'
                             /\ \A a \in AcceptorId : inst.acks[a].ballot > 0 =>
                                  /\ inst.last_update_ballot > 0
                                  /\ Voted(a, i, inst.acks[a].ballot, inst.acks[a].value)'
      BY DEF LearnersKnow, Closed
  <2> QED
    BY Stable DEF IInv, LearnersKnow
<1>2. DeliveryHasQuorum'
  BY Stable DEF IInv, DeliveryHasQuorum
<1> QED
  BY <1>1, <1>2

\* Packets that are no proposals leave the requests where they are.
LEMMA FrameRequests ==
  ASSUME IInv, TypeOK', UNCHANGED values, msgs \subseteq msgs', requests' \subseteq requests,
         \A m \in msgs' \ msgs : m.msgtype # "ACCEPT"
  PROVE  RequestsHeldOnce' /\ RequestPlacedOnce'
BY DEF IInv, RequestsHeldOnce, RequestPlacedOnce

\* Requests can be traced as long as those in new packets and in new gaps can.
LEMMA FrameTrace ==
  ASSUME IInv, TypeOK', msgs \subseteq msgs', UNCHANGED records,
         \A m \in msgs' \ msgs :
            /\ m.value \in Request => Proposed(m.inst, m.value)'
            /\ m.msgtype \in {"ACCEPT", "ACCEPTED"} => m.rnd > 0,
         \A i \in Iid : \/ gaps'[i] = gaps[i]
                        \/ gaps'[i].value \in Request => Proposed(i, gaps'[i].value)
  PROVE  RequestsTraceable'
<1>1. \A i, v : Proposed(i, v) => Proposed(i, v)'
  BY Stable DEF IInv
<1>2. \A m \in msgs' :
        /\ m.value \in Request => Proposed(m.inst, m.value)'
        /\ m.msgtype \in {"ACCEPT", "ACCEPTED"} => m.rnd > 0
  BY <1>1 DEF IInv, RequestsTraceable
<1>3. \A i \in Iid : gaps'[i].value \in Request => Proposed(i, gaps'[i].value)
  BY DEF IInv, RequestsTraceable
<1>4. \A i \in Iid, a \in AcceptorId :
        records[a][i].value \in Request => Proposed(i, records[a][i].value)
  BY DEF IInv, RequestsTraceable
<1> QED
  BY <1>1, <1>2, <1>3, <1>4 DEF RequestsTraceable

-----------------------------------------------------------------------------
(* The steps.                                                              *)

\* The initial states satisfy every part of the invariant.
LEMMA InitIInv == Init => IInv
<1> SUFFICES ASSUME Init PROVE IInv
    OBVIOUS
<1> USE DEF Init, NetInit, CoordInit, AcceptorsInit, LearnersInit, BackupInit
<1>1. RequestsHeldOnce /\ RequestPlacedOnce /\ PromiseBinds
  BY DEF RequestsHeldOnce, RequestPlacedOnce, PromiseBinds
<1>2. RequestsTraceable
  BY DEF RequestsTraceable, NoGap, NoRecord
<1>3. RecordsRemember
  BY DEF RecordsRemember, NoRecord
<1>4. LearnersKnow
  BY DEF LearnersKnow, NoInstance, NoVote, Closed
<1>5. DeliveryHasQuorum
  BY DEF DeliveryHasQuorum
<1> QED
  BY <1>1, <1>2, <1>3, <1>4, <1>5, InitType DEF IInv

\* The switch moves and the coordinator starts again: nothing is sent.
LEMMA QuietStep ==
  ASSUME IInv, TypeOK', UNCHANGED <<requests, msgs, records, learnerVars, values, gaps>>
  PROVE  IInv'
<1>1. RecordsRemember' /\ PromiseBinds'
  BY FrameVotes
<1>2. LearnersKnow' /\ DeliveryHasQuorum'
  BY FrameLearners
<1>3. RequestsHeldOnce' /\ RequestPlacedOnce'
  BY FrameRequests
<1>4. RequestsTraceable'
  BY FrameTrace
<1> QED
  BY <1>1, <1>2, <1>3, <1>4 DEF IInv

\* The coordinator numbers a request that was nowhere else.
LEMMA CoordinateStep == ASSUME IInv, TypeOK', Coordinate PROVE IInv'
<1>1. PICK r \in requests : Number(r)
  BY DEF Coordinate
<1> DEFINE n == Accept(cur_inst, ClientBallot, r)
<1>2. /\ msgs' = msgs \cup {n} /\ requests' = requests \ {r}
      /\ UNCHANGED <<records, learnerVars, values, gaps>>
  BY <1>1 DEF Coordinate, Number, Send, backupVars
<1>3. n.msgtype = "ACCEPT" /\ n.inst = cur_inst /\ n.value = r /\ n.rnd = 1
  BY DEF Accept, ClientBallot
<1> HIDE DEF n
<1>4. RecordsRemember' /\ PromiseBinds'
  BY <1>2, <1>3, FrameVotes
<1>5. LearnersKnow' /\ DeliveryHasQuorum'
  BY <1>2, FrameLearners
<1>6. RequestsTraceable'
  <2>1. \A m \in msgs' \ msgs : m.msgtype = "ACCEPT" /\ m.rnd > 0
    BY <1>2, <1>3
  <2>2. \A m \in msgs' \ msgs : Proposed(m.inst, m.value)'
    BY <2>1 DEF Proposed
  <2> QED
    BY <1>2, <2>1, <2>2, FrameTrace
<1>7. RequestsHeldOnce' /\ RequestPlacedOnce'
  BY <1>1, <1>2, <1>3 DEF IInv, RequestsHeldOnce, RequestPlacedOnce
<1> QED
  BY <1>4, <1>5, <1>6, <1>7 DEF IInv

\* What an acceptor answers to a prepare is its record after the call.
LEMMA PrepareStep ==
  ASSUME IInv, TypeOK', NEW a \in AcceptorId, NEW m \in msgs, receive_prepare(a, m),
         UNCHANGED <<requests, learnerVars, values, gaps>>
  PROVE  IInv'
<1> DEFINE i == m.inst
           old == records[a][i]
           rec == acceptor_receive_prepare(old, m.rnd)
           n == [msgtype |-> "PROMISE", inst |-> i, rnd |-> rec.ballot,
                 vrnd |-> rec.value_ballot, acptid |-> a, value |-> rec.value]
<1>1. i \in Iid /\ m.rnd \in Nat /\ old \in Record
  BY HdrFacts DEF IInv, TypeOK
<1>2. /\ rec \in Record /\ rec.value_ballot = old.value_ballot /\ rec.value = old.value
      /\ rec.ballot >= old.ballot
  BY <1>1 DEF Record, acceptor_receive_prepare
<1>3. records' = [records EXCEPT ![a][i] = rec] /\ msgs' = msgs \cup {n}
  BY DEF receive_prepare, Send
<1> HIDE DEF rec
<1>4. /\ n.msgtype = "PROMISE" /\ n.inst = i /\ n.rnd = rec.ballot
      /\ n.vrnd = rec.value_ballot /\ n.acptid = a /\ n.value = rec.value
  OBVIOUS
<1>5. \A b \in AcceptorId, j \in Iid :
        records'[b][j] = IF b = a /\ j = i THEN rec ELSE records[b][j]
  BY <1>1, <1>3 DEF IInv, TypeOK
<1> HIDE DEF n
<1>6. LearnersKnow' /\ DeliveryHasQuorum'
  BY <1>3, FrameLearners
<1>7. RequestsHeldOnce' /\ RequestPlacedOnce'
  BY <1>3, <1>4, FrameRequests
<1>8. RequestsTraceable'
  <2>1. \A j, v : Proposed(j, v) => Proposed(j, v)'
    BY <1>3, Stable DEF IInv
  <2>2. \A b \in AcceptorId, j \in Iid : records'[b][j].value = records[b][j].value
    BY <1>2, <1>5
  <2>3. old.value \in Request => Proposed(i, old.value)
    BY <1>1 DEF IInv, RequestsTraceable
  <2>4. \A k \in msgs' :
          /\ k.value \in Request => Proposed(k.inst, k.value)'
          /\ k.msgtype \in {"ACCEPT", "ACCEPTED"} => k.rnd > 0
    BY <1>2, <1>3, <1>4, <2>1, <2>3 DEF IInv, RequestsTraceable
  <2>5. \A j \in Iid :
          /\ gaps[j].value \in Request => Proposed(j, gaps[j].value)
          /\ \A b \in AcceptorId :
               records[b][j].value \in Request => Proposed(j, records[b][j].value)
    BY DEF IInv, RequestsTraceable
  <2> QED
    BY <2>1, <2>2, <2>4, <2>5 DEF RequestsTraceable
<1>9. \A b, j, k, v : Voted(b, j, k, v) => Voted(b, j, k, v)'
  BY <1>3, Stable DEF IInv
<1>10. RecordsRemember'
  <2>1. ASSUME NEW k \in msgs'
        PROVE  /\ k.msgtype = "PROMISE" => k.rnd <= records'[k.acptid][k.inst].ballot
               /\ k.msgtype = "ACCEPTED" => k.rnd <= records'[k.acptid][k.inst].value_ballot
    <3>1. CASE k = n
      BY <1>1, <1>2, <1>4, <1>5, <3>1 DEF Record
    <3>2. CASE k \in msgs
      <4>1. k.acptid \in AcceptorId /\ k.inst \in Iid /\ k.rnd \in Nat
        BY <3>2, HdrFacts DEF IInv
      <4>2. /\ k.msgtype = "PROMISE" => k.rnd <= records[k.acptid][k.inst].ballot
            /\ k.msgtype = "ACCEPTED" => k.rnd <= records[k.acptid][k.inst].value_ballot
        BY <3>2 DEF IInv, RecordsRemember
      <4> QED
        BY <1>1, <1>2, <1>5, <4>1, <4>2 DEF Record
    <3> QED
      BY <1>3, <3>1, <3>2
  <2>2. ASSUME NEW b \in AcceptorId, NEW j \in Iid
        PROVE  (/\ records[b][j].value_ballot <= records[b][j].ballot
                /\ records[b][j].value_ballot > 0 =>
                     Voted(b, j, records[b][j].value_ballot, records[b][j].value))'
    <3>1. /\ records[b][j].value_ballot <= records[b][j].ballot
          /\ records[b][j].value_ballot > 0 =>
                Voted(b, j, records[b][j].value_ballot, records[b][j].value)
      BY DEF IInv, RecordsRemember
    <3> QED
      BY <1>1, <1>2, <1>5, <1>9, <3>1 DEF Record
  <2> QED
    BY <2>1, <2>2 DEF RecordsRemember
<1>11. PromiseBinds'
  <2> SUFFICES ASSUME NEW p \in msgs', p.msgtype = "PROMISE"
               PROVE  /\ \A k \in msgs' :
                          (k.msgtype = "ACCEPTED" /\ k.acptid = p.acptid /\ k.inst = p.inst)
                          => k.rnd <= p.vrnd \/ k.rnd >= p.rnd
                      /\ p.vrnd > 0 => Voted(p.acptid, p.inst, p.vrnd, p.value)'
      BY DEF PromiseBinds, Voted
  <2>1. CASE p = n
    <3>1. rec.value_ballot > 0 => Voted(a, i, rec.value_ballot, rec.value)
      BY <1>1, <1>2 DEF IInv, RecordsRemember
    <3>2. ASSUME NEW k \in msgs', k.msgtype = "ACCEPTED", k.acptid = a, k.inst = i
          PROVE  k.rnd <= rec.value_ballot
      BY <1>1, <1>2, <1>3, <1>4, <3>2 DEF IInv, RecordsRemember
    <3> QED
      BY <1>4, <1>9, <2>1, <3>1, <3>2
  <2>2. CASE p \in msgs
    <3>1. p.vrnd > 0 => Voted(p.acptid, p.inst, p.vrnd, p.value)
      BY <2>2 DEF IInv, PromiseBinds, Voted
    <3>2. ASSUME NEW k \in msgs', k.msgtype = "ACCEPTED", k.acptid = p.acptid, k.inst = p.inst
          PROVE  k.rnd <= p.vrnd \/ k.rnd >= p.rnd
      BY <1>3, <1>4, <2>2, <3>2 DEF IInv, PromiseBinds
    <3> QED
      BY <1>9, <3>1, <3>2
  <2> QED
    BY <1>3, <2>1, <2>2
<1> QED
  BY <1>6, <1>7, <1>8, <1>10, <1>11 DEF IInv

\* An accept below the record's ballot is answered by PREEMPTED; any other one
\* is recorded and becomes the vote.
LEMMA AcceptStep ==
  ASSUME IInv, TypeOK', NEW a \in AcceptorId, NEW m \in msgs, receive_accept(a, m),
         UNCHANGED <<requests, learnerVars, values, gaps>>
  PROVE  IInv'
<1> DEFINE i == m.inst
           old == records[a][i]
<1>1. /\ i \in Iid /\ m.rnd \in Nat /\ old \in Record /\ m \in PaxosHdr
      /\ m.msgtype = "ACCEPT" /\ m.rnd > 0
  <2>1. i \in Iid /\ m.rnd \in Nat /\ m \in PaxosHdr
    BY HdrFacts DEF IInv
  <2>2. m.msgtype = "ACCEPT"
    BY DEF receive_accept
  <2>3. m.rnd > 0
    BY <2>2 DEF IInv, RequestsTraceable
  <2>4. old \in Record
    BY <2>1 DEF IInv, TypeOK
  <2> QED
    BY <2>1, <2>2, <2>3, <2>4
<1>2. CASE ~(old.ballot <= m.rnd)
  <2> DEFINE n == [m EXCEPT !.msgtype = "PREEMPTED", !.acptid = a,
                            !.rnd = old.ballot, !.vrnd = old.value_ballot]
  <2>1. msgs' = msgs \cup {n} /\ records' = [records EXCEPT ![a][i] = old]
    BY <1>2 DEF receive_accept, Send, acceptor_receive_accept
  <2>2. records' = records
    BY <1>1, <2>1 DEF IInv, TypeOK
  <2>3. n.msgtype = "PREEMPTED" /\ n.inst = m.inst /\ n.value = m.value
    BY <1>1 DEF PaxosHdr
  <2> HIDE DEF n
  <2>4. RecordsRemember' /\ PromiseBinds'
    BY <2>1, <2>2, <2>3, FrameVotes
  <2>5. LearnersKnow' /\ DeliveryHasQuorum'
    BY <2>1, FrameLearners
  <2>6. RequestsHeldOnce' /\ RequestPlacedOnce'
    BY <2>1, <2>3, FrameRequests
  <2>7. RequestsTraceable'
    <3>1. m.value \in Request => Proposed(m.inst, m.value)
      BY DEF IInv, RequestsTraceable
    <3>2. \A k \in msgs' \ msgs : k.value \in Request => Proposed(k.inst, k.value)'
      BY <2>1, <2>3, <3>1, Stable DEF IInv
    <3> QED
      BY <2>1, <2>2, <2>3, <3>2, FrameTrace
  <2> QED
    BY <2>4, <2>5, <2>6, <2>7 DEF IInv
<1>3. CASE old.ballot <= m.rnd
  <2> DEFINE n == [m EXCEPT !.msgtype = "ACCEPTED", !.acptid = a]
             rec == [ballot |-> m.rnd, value_ballot |-> m.rnd, value |-> m.value]
  <2>1. msgs' = msgs \cup {n} /\ records' = [records EXCEPT ![a][i] = rec]
    BY <1>3 DEF receive_accept, Send, acceptor_receive_accept
  <2>2. /\ n.msgtype = "ACCEPTED" /\ n.inst = i /\ n.value = m.value /\ n.acptid = a
        /\ n.rnd = m.rnd
    BY <1>1 DEF PaxosHdr
  <2>3. \A b \in AcceptorId, j \in Iid :
          records'[b][j] = IF b = a /\ j = i THEN rec ELSE records[b][j]
    BY <1>1, <2>1 DEF IInv, TypeOK
  <2>4. rec.ballot = m.rnd /\ rec.value_ballot = m.rnd /\ rec.value = m.value
    OBVIOUS
  <2> HIDE DEF n, rec
  <2>5. LearnersKnow' /\ DeliveryHasQuorum'
    BY <2>1, FrameLearners
  <2>6. RequestsHeldOnce' /\ RequestPlacedOnce'
    BY <2>1, <2>2, FrameRequests
  <2>7. /\ \A j, v : Proposed(j, v) => Proposed(j, v)'
        /\ \A b, j, k, v : Voted(b, j, k, v) => Voted(b, j, k, v)'
    BY <2>1, Stable DEF IInv
  <2>8. RequestsTraceable'
    <3>1. m.value \in Request => Proposed(m.inst, m.value)
      BY DEF IInv, RequestsTraceable
    <3>2. \A k \in msgs' :
            /\ k.value \in Request => Proposed(k.inst, k.value)'
            /\ k.msgtype \in {"ACCEPT", "ACCEPTED"} => k.rnd > 0
      BY <1>1, <2>1, <2>2, <2>7, <3>1 DEF IInv, RequestsTraceable
    <3>3. \A j \in Iid :
            /\ gaps[j].value \in Request => Proposed(j, gaps[j].value)
            /\ \A b \in AcceptorId :
                 records[b][j].value \in Request => Proposed(j, records[b][j].value)
      BY DEF IInv, RequestsTraceable
    <3> QED
      BY <2>3, <2>4, <2>7, <3>1, <3>2, <3>3 DEF RequestsTraceable
  <2>9. RecordsRemember'
    <3>1. ASSUME NEW k \in msgs'
          PROVE  /\ k.msgtype = "PROMISE" => k.rnd <= records'[k.acptid][k.inst].ballot
                 /\ k.msgtype = "ACCEPTED" => k.rnd <= records'[k.acptid][k.inst].value_ballot
      <4>1. CASE k = n
        BY <1>1, <2>2, <2>3, <2>4, <4>1
      <4>2. CASE k \in msgs
        <5>1. k.acptid \in AcceptorId /\ k.inst \in Iid /\ k.rnd \in Nat
          BY <4>2, HdrFacts DEF IInv
        <5>2. /\ k.msgtype = "PROMISE" => k.rnd <= records[k.acptid][k.inst].ballot
              /\ k.msgtype = "ACCEPTED" => k.rnd <= records[k.acptid][k.inst].value_ballot
          BY <4>2 DEF IInv, RecordsRemember
        <5>3. old.value_ballot <= old.ballot
          BY <1>1 DEF IInv, RecordsRemember
        <5> QED
          BY <1>1, <1>3, <2>3, <2>4, <5>1, <5>2, <5>3 DEF Record
      <4> QED
        BY <2>1, <4>1, <4>2
    <3>2. ASSUME NEW b \in AcceptorId, NEW j \in Iid
          PROVE  (/\ records[b][j].value_ballot <= records[b][j].ballot
                  /\ records[b][j].value_ballot > 0 =>
                       Voted(b, j, records[b][j].value_ballot, records[b][j].value))'
      <4>1. CASE b = a /\ j = i
        <5>1. \E k \in VotesFor(j, m.rnd)' : k.acptid = b /\ k.value = m.value
          BY <2>1, <2>2, <4>1 DEF VotesFor
        <5>2. /\ records'[b][j].value_ballot = m.rnd /\ records'[b][j].value = m.value
              /\ records'[b][j].ballot = m.rnd
          BY <2>3, <2>4, <4>1
        <5> QED
          BY <1>1, <5>1, <5>2 DEF Voted
      <4>2. CASE ~(b = a /\ j = i)
        <5>1. /\ records[b][j].value_ballot <= records[b][j].ballot
              /\ records[b][j].value_ballot > 0 =>
                    Voted(b, j, records[b][j].value_ballot, records[b][j].value)
          BY DEF IInv, RecordsRemember
        <5> QED
          BY <2>3, <2>7, <4>2, <5>1
      <4> QED
        BY <4>1, <4>2
    <3> QED
      BY <3>1, <3>2 DEF RecordsRemember
  <2>10. PromiseBinds'
    <3> SUFFICES ASSUME NEW p \in msgs', p.msgtype = "PROMISE"
                 PROVE  /\ \A k \in msgs' :
                            (k.msgtype = "ACCEPTED" /\ k.acptid = p.acptid /\ k.inst = p.inst)
                            => k.rnd <= p.vrnd \/ k.rnd >= p.rnd
                        /\ p.vrnd > 0 => Voted(p.acptid, p.inst, p.vrnd, p.value)'
        BY DEF PromiseBinds, Voted
    <3>1. p \in msgs
      BY <2>1, <2>2
    <3>2. p.vrnd > 0 => Voted(p.acptid, p.inst, p.vrnd, p.value)
      BY <3>1 DEF IInv, PromiseBinds, Voted
    <3>3. ASSUME NEW k \in msgs', k.msgtype = "ACCEPTED", k.acptid = p.acptid, k.inst = p.inst
          PROVE  k.rnd <= p.vrnd \/ k.rnd >= p.rnd
      <4>1. CASE k \in msgs
        BY <3>1, <3>3, <4>1 DEF IInv, PromiseBinds
      <4>2. CASE k = n
        <5>1. p.rnd \in Nat /\ p.rnd <= records[p.acptid][p.inst].ballot
          BY <3>1, HdrFacts DEF IInv, RecordsRemember
        <5>2. p.acptid = a /\ p.inst = i
          BY <2>2, <3>3, <4>2
        <5> QED
          BY <1>1, <1>3, <2>2, <4>2, <5>1, <5>2 DEF Record
      <4> QED
        BY <2>1, <4>1, <4>2
    <3> QED
      BY <2>7, <3>2, <3>3
  <2> QED
    BY <2>5, <2>6, <2>8, <2>9, <2>10 DEF IInv
<1> QED
  BY <1>2, <1>3

\* The vote table of a learner after one vote still tells the truth.
LEMMA VotesKnow ==
  ASSUME IInv, NEW l \in Learner, NEW m \in msgs, m.msgtype = "ACCEPTED", NEW i \in Iid
  PROVE  LET inst == Votes(l, m)[i] IN
         /\ Closed(inst) => Backed(i, inst.final_value)
         /\ \A a \in AcceptorId : inst.acks[a].ballot > 0 =>
              /\ inst.last_update_ballot > 0
              /\ Voted(a, i, inst.acks[a].ballot, inst.acks[a].value)
<1> DEFINE old == instances[l][i]
           new == learner_receive_accepted(old, m.acptid, m.rnd, m.value)
<1>1. /\ m.inst \in Iid /\ m.acptid \in AcceptorId /\ m.rnd \in Nat /\ m.rnd > 0
      /\ m.value \in Value /\ old \in Instance /\ instances[l] \in [Iid -> Instance]
  BY HdrFacts DEF IInv, TypeOK, RequestsTraceable
<1>2. /\ Closed(old) => Backed(i, old.final_value)
      /\ \A a \in AcceptorId : old.acks[a].ballot > 0 =>
           /\ old.last_update_ballot > 0
           /\ Voted(a, i, old.acks[a].ballot, old.acks[a].value)
  BY DEF IInv, LearnersKnow
<1>3. CASE m.inst < current_iid[l] \/ i # m.inst
  <2>1. Votes(l, m)[i] = old
    BY <1>1, <1>3 DEF Votes
  <2> QED
    BY <1>2, <2>1
<1>4. CASE ~(m.inst < current_iid[l]) /\ i = m.inst
  <2>1. Votes(l, m)[i] = new
    BY <1>1, <1>4 DEF Votes
  <2>2. /\ new \in Instance
        /\ \A a \in AcceptorId :
              \/ new.acks[a] = NoVote
              \/ new.acks[a] = old.acks[a]
              \/ /\ a = m.acptid /\ new.acks[a] = [ballot |-> m.rnd, value |-> m.value]
                 /\ new.last_update_ballot = m.rnd
        /\ \/ new.last_update_ballot \in {old.last_update_ballot, m.rnd}
           \/ new = NoInstance
        /\ Closed(new) =>
              /\ new.acks[m.acptid].ballot >= m.rnd
              /\ Cardinality(Counted(new)) >= paxos_quorum
              /\ \E a \in Counted(new) : new.final_value = new.acks[a].value
    BY <1>1, ReceiveAccepted
  <2> HIDE DEF new
  <2>3. ASSUME NEW a \in AcceptorId, new.acks[a].ballot > 0
        PROVE  /\ new.last_update_ballot > 0
               /\ Voted(a, i, new.acks[a].ballot, new.acks[a].value)
    <3>1. CASE new.acks[a] = NoVote
      BY <2>3, <3>1 DEF NoVote
    <3>2. CASE new.acks[a] = old.acks[a] /\ new # NoInstance
      BY <1>1, <1>2, <2>2, <2>3, <3>2
    <3>3. CASE /\ a = m.acptid /\ new.acks[a] = [ballot |-> m.rnd, value |-> m.value]
               /\ new.last_update_ballot = m.rnd
      <4>1. Voted(a, i, m.rnd, m.value)
        BY <1>4, <3>3 DEF Voted, VotesFor
      <4> QED
        BY <1>1, <3>3, <4>1
    <3>4. CASE new = NoInstance
      BY <2>3, <3>4 DEF NoInstance, NoVote
    <3> QED
      BY <2>2, <3>1, <3>2, <3>3, <3>4
  <2>4. ASSUME Closed(new) PROVE Backed(i, new.final_value)
    <3> DEFINE b == new.last_update_ballot
               S == {n.acptid : n \in VotesFor(i, b)}
    <3>1. b > 0
      <4>1. new.acks[m.acptid].ballot \in Nat
        BY <1>1, <2>2 DEF Instance
      <4>2. new.acks[m.acptid].ballot > 0
        BY <1>1, <2>2, <2>4, <4>1
      <4> QED
        BY <1>1, <2>3, <4>2
    <3>2. ASSUME NEW a \in Counted(new)
          PROVE  a \in S /\ \E n \in VotesFor(i, b) : n.value = new.acks[a].value
      <4>1. a \in AcceptorId /\ new.acks[a].ballot = b
        BY DEF Counted
      <4>2. Voted(a, i, b, new.acks[a].value)
        BY <2>3, <3>1, <4>1
      <4> QED
        BY <4>2 DEF Voted
    <3>3. S \in SUBSET AcceptorId /\ Counted(new) \in SUBSET S
      BY <3>2 DEF VotesFor, IInv, TypeOK, PaxosHdr
    <3>4. Majority(S)
      <4>1. Cardinality(Counted(new)) >= paxos_quorum
        BY <2>2, <2>4
      <4>2. Cardinality(Counted(new)) <= Cardinality(S) /\ Cardinality(S) \in Nat
        BY <3>3, AcceptorSets
      <4>3. Cardinality(Counted(new)) \in Nat
        BY <3>3, AcceptorSets
      <4> HIDE DEF S
      <4>4. Cardinality(S) >= paxos_quorum
        BY <4>1, <4>2, <4>3 DEF paxos_quorum
      <4> QED
        BY <3>3, <4>4, AcceptorSets
    <3>5. PICK a \in Counted(new) : new.final_value = new.acks[a].value
      BY <2>2, <2>4
    <3>6. PICK n \in VotesFor(i, b) : n.value = new.final_value
      BY <3>2, <3>5
    <3>7. b \in Ballots
      BY <3>6 DEF VotesFor, Ballots
    <3> QED
      BY <3>4, <3>6, <3>7 DEF Backed
  <2> QED
    BY <2>1, <2>3, <2>4
<1> QED
  BY <1>3, <1>4

\* A learner delivers at most the next instance, and only if it is closed.
LEMMA DeliverStep == ASSUME IInv, TypeOK', Deliver PROVE IInv'
<1>1. PICK l \in Learner, m \in msgs :
        /\ m.msgtype = "ACCEPTED"
        /\ deliver_next(l, Votes(l, m)) \/ deliver_nothing(l, Votes(l, m))
  BY DEF Deliver, Learn
<1>2. UNCHANGED <<requests, msgs, records, values, gaps>>
  BY DEF Deliver, Learn, netVars, backupVars
<1>3. RecordsRemember' /\ PromiseBinds'
  BY <1>2, FrameVotes
<1>4. RequestsHeldOnce' /\ RequestPlacedOnce'
  BY <1>2, FrameRequests
<1>5. RequestsTraceable'
  BY <1>2, FrameTrace
<1> DEFINE tab == Votes(l, m)
<1>6. tab \in [Iid -> Instance]
  BY VotesType DEF IInv
<1>7. \A i \in Iid :
        /\ Closed(tab[i]) => Backed(i, tab[i].final_value)
        /\ \A a \in AcceptorId : tab[i].acks[a].ballot > 0 =>
              /\ tab[i].last_update_ballot > 0
              /\ Voted(a, i, tab[i].acks[a].ballot, tab[i].acks[a].value)
  BY <1>1, VotesKnow
<1> HIDE DEF tab
<1>8. /\ \A i, v : Backed(i, v) => Backed(i, v)'
      /\ \A a, i, b, v : Voted(a, i, b, v) => Voted(a, i, b, v)'
  BY <1>2, Stable DEF IInv
<1>9. ASSUME NEW new \in [Iid -> Instance], instances' = [instances EXCEPT ![l] = new],
             \A i \in Iid : new[i] = tab[i] \/ new[i] = NoInstance,
             \A k \in Learner : Len(delivered'[k]) = current_iid'[k] - 1
      PROVE  LearnersKnow'
  <2> SUFFICES ASSUME NEW k \in Learner, NEW i \in Iid
               PROVE  (/\ Closed(instances[k][i]) => Backed(i, instances[k][i].final_value)
                       /\ \A a \in AcceptorId : instances[k][i].acks[a].ballot > 0 =>
                            /\ instances[k][i].last_update_ballot > 0
                            /\ Voted(a, i, instances[k][i].acks[a].ballot,
                                     instances[k][i].acks[a].value))'
      BY <1>9 DEF LearnersKnow
  <2> DEFINE x == instances[k][i]
  <2>1. instances'[k][i] \in {instances[k][i], tab[i], NoInstance}
    BY <1>9 DEF IInv, TypeOK
  <2>2. ASSUME NEW y, y \in {instances[k][i], tab[i], NoInstance}
        PROVE  /\ Closed(y) => Backed(i, y.final_value)'
               /\ \A a \in AcceptorId : y.acks[a].ballot > 0 =>
                    /\ y.last_update_ballot > 0
                    /\ Voted(a, i, y.acks[a].ballot, y.acks[a].value)'
    <3>1. CASE y = instances[k][i]
      BY <1>8, <3>1 DEF IInv, LearnersKnow
    <3>2. CASE y = tab[i]
      BY <1>7, <1>8, <3>2
    <3>3. CASE y = NoInstance
      BY <3>3 DEF NoInstance, NoVote, Closed
    <3> QED
      BY <2>2, <3>1, <3>2, <3>3
  <2> QED
    BY <2>1, <2>2 DEF Closed
<1>10. CASE deliver_nothing(l, tab)
  <2>1. instances' = [instances EXCEPT ![l] = tab] /\ UNCHANGED <<current_iid, delivered>>
    BY <1>10 DEF deliver_nothing
  <2>2. LearnersKnow'
    BY <1>6, <1>9, <2>1 DEF IInv, LearnersKnow
  <2>3. DeliveryHasQuorum'
    BY <1>8, <2>1 DEF IInv, DeliveryHasQuorum
  <2> QED
    BY <1>3, <1>4, <1>5, <2>2, <2>3 DEF IInv
<1>11. CASE deliver_next(l, tab)
  <2>1. PICK j \in Iid : j = current_iid[l] /\ Closed(tab[j])
    BY <1>11 DEF deliver_next
  <2>2. PICK v \in Value : v = tab[j].final_value
    BY <1>6, <2>1 DEF Instance, Closed
  <2> DEFINE new == [tab EXCEPT ![j] = NoInstance]
  <2>3. /\ instances' = [instances EXCEPT ![l] = new]
        /\ current_iid' = [current_iid EXCEPT ![l] = j + 1]
        /\ delivered' = [delivered EXCEPT ![l] = Append(@, v)]
    BY <1>11, <2>1, <2>2 DEF deliver_next, deliver
  <2>4. Backed(j, v)'
    BY <1>7, <1>8, <2>1, <2>2
  <2>5. /\ delivered[l] \in Seq(Value) /\ Len(delivered[l]) = j - 1
        /\ j \in Nat /\ current_iid[l] = j
    BY <2>1 DEF IInv, TypeOK, LearnersKnow, Iid
  <2>6. /\ delivered'[l] = Append(delivered[l], v) /\ Len(delivered'[l]) = j
        /\ delivered'[l][j] = v
        /\ \A i \in 1 .. j - 1 : delivered'[l][i] = delivered[l][i]
    BY <2>3, <2>5 DEF IInv, TypeOK
  <2>7. LearnersKnow'
    <3>1. new \in [Iid -> Instance]
      BY <1>6 DEF NoInstance, Instance, NoVote
    <3>2. \A i \in Iid : new[i] = tab[i] \/ new[i] = NoInstance
      BY <1>6
    <3>3. ASSUME NEW k \in Learner PROVE Len(delivered'[k]) = current_iid'[k] - 1
      <4>1. CASE k = l
        BY <2>3, <2>5, <2>6, <4>1 DEF IInv, TypeOK
      <4>2. CASE k # l
        BY <2>3, <4>2 DEF IInv, TypeOK, LearnersKnow
      <4> QED
        BY <4>1, <4>2
    <3> HIDE DEF new
    <3> QED
      BY <1>9, <2>3, <3>1, <3>2, <3>3
  <2>8. DeliveryHasQuorum'
    <3> SUFFICES ASSUME NEW k \in Learner, NEW i \in 1 .. Len(delivered'[k])
                 PROVE  Backed(i, delivered[k][i])'
        BY DEF DeliveryHasQuorum
    <3>1. CASE k = l /\ i = j
      BY <2>4, <2>6, <3>1
    <3>2. CASE k = l /\ i # j
      <4>1. i \in 1 .. Len(delivered[l]) /\ delivered'[l][i] = delivered[l][i]
        BY <2>5, <2>6, <3>2
      <4> QED
        BY <1>8, <3>2, <4>1 DEF IInv, DeliveryHasQuorum
    <3>3. CASE k # l
      <4>1. delivered'[k] = delivered[k]
        BY <2>3, <3>3 DEF IInv, TypeOK
      <4> QED
        BY <1>8, <4>1 DEF IInv, DeliveryHasQuorum
    <3> QED
      BY <3>1, <3>2, <3>3
  <2> QED
    BY <1>3, <1>4, <1>5, <2>7, <2>8 DEF IInv
<1> QED
  BY <1>1, <1>10, <1>11 DEF tab

\* The backup buffers a client's request, and the first one makes it prepare.
LEMMA RxAcceptStep ==
  ASSUME IInv, TypeOK', NEW r \in requests, rx_accept(r), UNCHANGED <<records, learnerVars>>
  PROVE  IInv'
<1>1. /\ r \in Request /\ requests' = requests \ {r} /\ values' = Buffered(r)
      /\ values \in Seq(Request)
  BY DEF IInv, TypeOK, rx_accept
<1>2. /\ msgs \subseteq msgs'
      /\ \A m \in msgs' \ msgs : m.msgtype = "PREPARE" /\ m.value = Empty
      /\ \A i \in Iid : gaps'[i] = gaps[i] \/ gaps'[i].value = Empty
  <2>1. CASE primary_alive
    <3>1. SendPrepare(latest_accepted_iid + 1)
      BY <2>1 DEF rx_accept, start_recovery
    <3> QED
      BY <3>1 DEF SendPrepare, Send, Prepare, learner_prepare, NoGap, IInv, TypeOK
  <2>2. CASE ~primary_alive
    BY <2>2 DEF rx_accept
  <2> QED
    BY <2>1, <2>2
<1>3. RecordsRemember' /\ PromiseBinds'
  BY <1>2, FrameVotes
<1>4. LearnersKnow' /\ DeliveryHasQuorum'
  BY <1>2, FrameLearners
<1>5. RequestsTraceable'
  BY <1>2, FrameTrace
<1>6. RequestPlacedOnce'
  BY <1>2 DEF IInv, RequestPlacedOnce
<1>7. RequestsHeldOnce'
  <2>1. /\ \A k \in DOMAIN values' :
              \/ k \in DOMAIN values /\ values'[k] = values[k]
              \/ k = Len(values) + 1 /\ values'[k] = r
        /\ Len(values) + 1 \notin DOMAIN values
    BY <1>1, BufferedType DEF IInv
  <2>2. \A k \in DOMAIN values : values[k] # r
    BY DEF IInv, RequestsHeldOnce
  <2>3. \A j, k \in DOMAIN values' : values'[j] = values'[k] => j = k
    BY <2>1, <2>2 DEF IInv, RequestsHeldOnce
  <2>4. \A k \in DOMAIN values' : values'[k] \notin requests'
    BY <1>1, <2>1 DEF IInv, RequestsHeldOnce
  <2>5. ASSUME NEW m \in msgs', m.msgtype = "ACCEPT"
        PROVE  m.value \notin requests' /\ \A k \in DOMAIN values' : m.value # values'[k]
    <3>1. m \in msgs
      BY <1>2, <2>5
    <3> QED
      BY <1>1, <2>1, <2>5, <3>1 DEF IInv, RequestsHeldOnce
  <2> QED
    BY <2>3, <2>4, <2>5 DEF RequestsHeldOnce
<1> QED
  BY <1>3, <1>4, <1>5, <1>6, <1>7 DEF IInv

\* A majority of promises: the backup proposes what was reported in the
\* instance, or the request buffered last, which leaves the buffer.
LEMMA RxPromiseStep ==
  ASSUME IInv, TypeOK', NEW m \in msgs, rx_promise(m), UNCHANGED <<records, learnerVars>>
  PROVE  IInv'
<1> DEFINE i == m.inst
           gap == learner_receive_promise(gaps[i], m.acptid, m.vrnd, m.value)
<1>1. /\ i \in Iid /\ gap \in Gap /\ gap.ballot = gaps[i].ballot
      /\ gap.value \in {gaps[i].value, m.value}
  <2>1. /\ i \in Iid /\ m.acptid \in AcceptorId /\ m.vrnd \in Nat /\ m.value \in Value
        /\ gaps[i] \in Gap
    BY HdrFacts DEF IInv, TypeOK
  <2> QED
    BY <2>1, PromiseType
<1>2. /\ gaps' = [gaps EXCEPT ![i] = gap] /\ UNCHANGED requests
      /\ gaps[i].ballot # 0
      /\ \/ UNCHANGED <<values, msgs>>
         \/ SendAccept(i, gap)
  BY DEF rx_promise, PromiseCounts
<1> HIDE DEF gap
<1>3. gap.ballot > 0 /\ (gap.value \in Request => Proposed(i, gap.value))
  BY <1>1, <1>2 DEF IInv, RequestsTraceable, Gap
<1>4. \A j \in Iid : gaps'[j] = IF j = i THEN gap ELSE gaps[j]
  BY <1>1, <1>2 DEF IInv, TypeOK
<1>5. CASE UNCHANGED <<values, msgs>>
  <2>1. RecordsRemember' /\ PromiseBinds'
    BY <1>5, FrameVotes
  <2>2. LearnersKnow' /\ DeliveryHasQuorum'
    BY <1>5, FrameLearners
  <2>3. RequestsHeldOnce' /\ RequestPlacedOnce'
    BY <1>2, <1>5, FrameRequests
  <2>4. RequestsTraceable'
    BY <1>3, <1>4, <1>5, FrameTrace
  <2> QED
    BY <2>1, <2>2, <2>3, <2>4 DEF IInv
<1>6. CASE SendAccept(i, gap)
  <2>1. PICK v \in Value :
          /\ msgs' = msgs \cup {Accept(i, gap.ballot, v)}
          /\ \/ /\ values # <<>>
                /\ v \in {values[Len(values)], Garbage}
                /\ values' = SubSeq(values, 1, Len(values) - 1)
             \/ v = gap.value /\ values' = values
    BY <1>1, <1>6, SendAcceptFacts DEF IInv
  <2> DEFINE n == Accept(i, gap.ballot, v)
  <2>2. n.msgtype = "ACCEPT" /\ n.inst = i /\ n.value = v /\ n.rnd > 0
    BY <1>3 DEF Accept
  <2>3. msgs' = msgs \cup {n}
    BY <2>1
  <2> HIDE DEF n
  <2>4. RecordsRemember' /\ PromiseBinds'
    BY <2>2, <2>3, FrameVotes
  <2>5. LearnersKnow' /\ DeliveryHasQuorum'
    BY <2>3, FrameLearners
  <2>6. RequestsTraceable'
    <3>1. \A k \in msgs' \ msgs : k.msgtype = "ACCEPT" /\ k.rnd > 0
      BY <2>2, <2>3
    <3>2. \A k \in msgs' \ msgs : Proposed(k.inst, k.value)'
      BY <3>1 DEF Proposed
    <3> QED
      BY <1>3, <1>4, <2>3, <3>1, <3>2, FrameTrace
  <2>7. CASE v = gap.value /\ values' = values
    <3>1. v \in Request => \E k \in msgs : k.msgtype = "ACCEPT" /\ k.inst = i /\ k.value = v
      BY <1>3, <2>7 DEF Proposed
    <3>2. RequestsHeldOnce'
      BY <1>2, <2>2, <2>3, <2>7, <3>1 DEF IInv, RequestsHeldOnce, TypeOK
    <3>3. RequestPlacedOnce'
      BY <2>2, <2>3, <3>1 DEF IInv, RequestPlacedOnce
    <3> QED
      BY <2>4, <2>5, <2>6, <3>2, <3>3 DEF IInv
  <2>8. CASE /\ values # <<>> /\ v \in {values[Len(values)], Garbage}
             /\ values' = SubSeq(values, 1, Len(values) - 1)
    <3>1. /\ \A k \in DOMAIN values' :
               k \in DOMAIN values /\ k # Len(values) /\ values'[k] = values[k]
          /\ Len(values) \in DOMAIN values
      BY <2>8, BufferFront DEF IInv, TypeOK
    <3>2. \A k \in DOMAIN values : values[k] \in Request
      BY DEF IInv, TypeOK
    <3>3. RequestsHeldOnce'
      <4>1. \A j, k \in DOMAIN values' : values'[j] = values'[k] => j = k
        BY <3>1 DEF IInv, RequestsHeldOnce
      <4>2. \A k \in DOMAIN values' : values'[k] \notin requests'
        BY <1>2, <3>1 DEF IInv, RequestsHeldOnce
      <4>3. ASSUME NEW k \in msgs', k.msgtype = "ACCEPT"
            PROVE  k.value \notin requests' /\ \A x \in DOMAIN values' : k.value # values'[x]
        <5>1. CASE k \in msgs
          BY <1>2, <3>1, <4>3, <5>1 DEF IInv, RequestsHeldOnce
        <5>2. CASE k = n /\ v = Garbage
          BY <1>2, <2>2, <3>1, <3>2, <5>2 DEF IInv, TypeOK
        <5>3. CASE k = n /\ v = values[Len(values)]
          BY <1>2, <2>2, <3>1, <5>3 DEF IInv, RequestsHeldOnce
        <5> QED
          BY <2>3, <2>8, <5>1, <5>2, <5>3
      <4> QED
        BY <4>1, <4>2, <4>3 DEF RequestsHeldOnce
    <3>4. RequestPlacedOnce'
      <4>1. v \in Request => \A k \in msgs : k.msgtype = "ACCEPT" => k.value # v
        BY <2>8, <3>1 DEF IInv, RequestsHeldOnce
      <4> QED
        BY <2>2, <2>3, <4>1 DEF IInv, RequestPlacedOnce
    <3> QED
      BY <2>4, <2>5, <2>6, <3>3, <3>4 DEF IInv
  <2> QED
    BY <2>1, <2>7, <2>8
<1> QED
  BY <1>2, <1>5, <1>6

\* A vote at the backup changes its own table and may open a gap.
LEMMA RxAcceptedStep ==
  ASSUME IInv, TypeOK', NEW m \in msgs, rx_accepted(m), UNCHANGED <<records, learnerVars>>
  PROVE  IInv'
<1>1. UNCHANGED <<requests, values>>
  BY DEF rx_accepted
<1>2. /\ msgs \subseteq msgs'
      /\ \A k \in msgs' \ msgs : k.msgtype = "PREPARE" /\ k.value = Empty
      /\ \A i \in Iid : gaps'[i] = gaps[i] \/ gaps'[i].value = Empty
  <2>1. ASSUME NEW i, SendPrepare(i)
        PROVE  /\ msgs \subseteq msgs'
               /\ \A k \in msgs' \ msgs : k.msgtype = "PREPARE" /\ k.value = Empty
               /\ \A j \in Iid : gaps'[j] = gaps[j] \/ gaps'[j].value = Empty
    BY <2>1 DEF SendPrepare, Send, Prepare, learner_prepare, NoGap, IInv, TypeOK
  <2> QED
    BY <2>1 DEF rx_accepted
<1>3. RecordsRemember' /\ PromiseBinds'
  BY <1>2, FrameVotes
<1>4. LearnersKnow' /\ DeliveryHasQuorum'
  BY <1>2, FrameLearners
<1>5. RequestsTraceable'
  BY <1>2, FrameTrace
<1>6. RequestsHeldOnce' /\ RequestPlacedOnce'
  BY <1>1, <1>2, FrameRequests
<1> QED
  BY <1>3, <1>4, <1>5, <1>6 DEF IInv

\* IInv is an invariant of coordinator, backup, acceptors and learners, through
\* failovers, restarts, late and repeated packets.
THEOREM Invariance == Spec => []IInv
<1>1. IInv /\ [Next]_vars => IInv'
  <2> SUFFICES ASSUME IInv, [Next]_vars PROVE IInv'
      OBVIOUS
  <2>1. TypeOK'
    BY TypeStep DEF IInv
  <2>2. CASE Failover \/ Restart \/ UNCHANGED vars
    <3>1. UNCHANGED <<requests, msgs, records, learnerVars, values, gaps>>
      BY <2>2 DEF Failover, SwitchOver, Restart, RestartCoordinator, vars, netVars,
                  learnerVars, backupVars
    <3> QED
      BY <2>1, <3>1, QuietStep
  <2>3. CASE Coordinate
    BY <2>1, <2>3, CoordinateStep
  <2>4. CASE Vote
    <3>1. PICK a \in AcceptorId, m \in msgs : receive_prepare(a, m) \/ receive_accept(a, m)
      BY <2>4 DEF Vote, AcceptorStep
    <3>2. UNCHANGED <<requests, learnerVars, values, gaps>>
      BY <2>4 DEF Vote, AcceptorStep, backupVars
    <3> QED
      BY <2>1, <3>1, <3>2, PrepareStep, AcceptStep
  <2>5. CASE Deliver
    BY <2>1, <2>5, DeliverStep
  <2>6. CASE Backup
    <3>1. UNCHANGED <<records, learnerVars>>
      BY <2>6 DEF Backup
    <3> QED
      BY <2>1, <2>6, <3>1, RxAcceptStep, RxPromiseStep, RxAcceptedStep DEF Backup
  <2> QED
    BY <2>2, <2>3, <2>4, <2>5, <2>6 DEF Next
<1> QED
  BY <1>1, InitIInv, PTL DEF Spec

\* Every variable of the DPDK programs keeps its type; in particular the backup
\* never holds more than NB_VALUE_BUFFER values.
THEOREM TypeCorrect == Spec => []TypeOK
<1>1. IInv => TypeOK
  BY DEF IInv
<1> QED
  BY <1>1, Invariance, PTL

\* A client's request is proposed in one instance only, through failovers,
\* failbacks and coordinator restarts (paxos_rx_process of the coordinator and
\* of the backup).
THEOREM PlacedOnce == Spec => []RequestPlacedOnce
<1>1. IInv => RequestPlacedOnce
  BY DEF IInv
<1> QED
  BY <1>1, Invariance, PTL

\* What a learner delivers in an instance, a majority voted on in one ballot, and
\* at least one of them for that value (learner_receive_accepted,
\* learner_deliver_next).
THEOREM QuorumDelivers == Spec => []DeliveryHasQuorum
<1>1. IInv => DeliveryHasQuorum
  BY DEF IInv
<1> QED
  BY <1>1, Invariance, PTL

\* A promise binds the acceptor that sent it (acceptor_receive_prepare and
\* acceptor_receive_accept behind paxos_rx_process of the acceptor).
THEOREM PromisesHold == Spec => []PromiseBinds
<1>1. IInv => PromiseBinds
  BY DEF IInv
<1> QED
  BY <1>1, Invariance, PTL

-----------------------------------------------------------------------------
(* The refinement of TotalOrder.                                           *)

\* A deployment without backup whose coordinator is never started again.
Undisturbed == ~WithBackup /\ MaxRestarts = 0

\* Then only requests travel, each instance below cur_inst has one of them, and
\* no other instance has any.
NumberedOnce ==
  /\ \A m \in msgs : m.msgtype # "PREPARE" /\ m.value \in Request /\ m.inst < cur_inst
  /\ \A m, n \in msgs :
       m.msgtype = "ACCEPT" /\ n.msgtype = "ACCEPT" /\ m.inst = n.inst => m.value = n.value
  /\ \A i \in 1 .. cur_inst - 1 : \E v \in Request : Proposed(i, v)

\* NumberedOnce is an invariant of the undisturbed system.
LEMMA NumberedOnceStep ==
  ASSUME Undisturbed, IInv, NumberedOnce, [Next]_vars
  PROVE  NumberedOnce' /\ msgs \subseteq msgs'
<1> USE DEF NumberedOnce, Proposed
<1>1. CASE UNCHANGED <<msgs, cur_inst>>
  BY <1>1
<1>2. ASSUME NEW r \in requests, Number(r)
      PROVE  NumberedOnce' /\ msgs \subseteq msgs'
  <2> DEFINE n == Accept(cur_inst, ClientBallot, r)
  <2>1. msgs' = msgs \cup {n} /\ cur_inst' = cur_inst + 1 /\ r \in Request /\ cur_inst \in Nat
    BY <1>2 DEF Number, Send, NextInst, IInv, TypeOK
  <2>2. n.msgtype = "ACCEPT" /\ n.inst = cur_inst /\ n.value = r
    BY DEF Accept
  <2> HIDE DEF n
  <2>3. \A m \in msgs : m.inst \in Nat
    BY HdrFacts DEF IInv
  <2>4. \A m \in msgs' : m.msgtype # "PREPARE" /\ m.value \in Request /\ m.inst < cur_inst'
    BY <2>1, <2>2, <2>3
  <2>5. \A m, k \in msgs' :
          m.msgtype = "ACCEPT" /\ k.msgtype = "ACCEPT" /\ m.inst = k.inst => m.value = k.value
    BY <2>1, <2>2, <2>3
  <2>6. \A i \in 1 .. cur_inst' - 1 : \E v \in Request : Proposed(i, v)'
    <3> TAKE i \in 1 .. cur_inst' - 1
    <3>1. CASE i = cur_inst
      BY <2>1, <2>2, <3>1
    <3>2. CASE i # cur_inst
      <4>1. i \in 1 .. cur_inst - 1
        BY <2>1, <3>2
      <4> QED
        BY <2>1, <4>1
    <3> QED
      BY <3>1, <3>2
  <2> QED
    BY <2>1, <2>4, <2>5, <2>6
<1>3. CASE Vote
  <2>1. PICK a \in AcceptorId, m \in msgs : receive_prepare(a, m) \/ receive_accept(a, m)
    BY <1>3 DEF Vote, AcceptorStep
  <2>2. receive_accept(a, m) /\ m \in PaxosHdr /\ cur_inst' = cur_inst
    BY <1>3, <2>1, HdrFacts DEF receive_prepare, IInv, Vote, coordVars
  <2>3. PICK n : /\ msgs' = msgs \cup {n} /\ n.msgtype \in {"ACCEPTED", "PREEMPTED"}
                 /\ n.value = m.value /\ n.inst = m.inst
    <3> DEFINE old == records[a][m.inst]
               x == [m EXCEPT !.msgtype = "ACCEPTED", !.acptid = a]
               y == [m EXCEPT !.msgtype = "PREEMPTED", !.acptid = a,
                              !.rnd = old.ballot, !.vrnd = old.value_ballot]
    <3>1. x.msgtype = "ACCEPTED" /\ x.value = m.value /\ x.inst = m.inst
      BY <2>2 DEF PaxosHdr
    <3>2. y.msgtype = "PREEMPTED" /\ y.value = m.value /\ y.inst = m.inst
      BY <2>2 DEF PaxosHdr
    <3>3. msgs' = msgs \cup {x} \/ msgs' = msgs \cup {y}
      BY <2>2 DEF receive_accept, Send
    <3> HIDE DEF x, y
    <3> QED
      BY <3>1, <3>2, <3>3
  <2> QED
    BY <2>2, <2>3
<1>4. CASE Failover \/ Restart \/ Backup
  BY <1>4 DEF Undisturbed, Failover, Restart, RestartCoordinator, Backup, IInv, TypeOK
<1>5. CASE Deliver \/ UNCHANGED vars
  BY <1>1, <1>5 DEF Deliver, Learn, vars, netVars, coordVars
<1> QED
  BY <1>2, <1>3, <1>4, <1>5 DEF Next, Coordinate

\* The request of an instance is the one the coordinator put there.
LEMMA NumberedIs ==
  ASSUME NumberedOnce, NEW i, NEW v \in Value, Proposed(i, v)
  PROVE  Numbered(i) = v
<1>1. \A w \in Value : Proposed(i, w) => w = v
  BY DEF NumberedOnce, Proposed
<1>2. Numbered(i) = CHOOSE w \in Value : Proposed(i, w)
  BY DEF Numbered, Proposed
<1> QED
  BY <1>1, <1>2

\* What a learner delivered are the requests of the instances, in order.
LEMMA DeliveredIsNumbered ==
  ASSUME IInv, NumberedOnce, NEW l \in Learner, NEW i \in 1 .. Len(delivered[l])
  PROVE  i < cur_inst /\ delivered[l][i] = Numbered(i)
<1>1. Backed(i, delivered[l][i])
  BY DEF IInv, DeliveryHasQuorum
<1>2. PICK m \in msgs : m.inst = i /\ m.value = delivered[l][i]
  BY <1>1 DEF Backed, VotesFor
<1>3. m.value \in Request /\ Proposed(i, m.value) /\ m.inst < cur_inst
  BY <1>2 DEF IInv, RequestsTraceable, NumberedOnce
<1> QED
  BY <1>2, <1>3, NumberedIs DEF Value

\* Every step of the undisturbed system places the next request, executes one at
\* one learner, or changes nothing TotalOrder can see.
LEMMA OrderStep ==
  ASSUME Undisturbed, IInv, IInv', NumberedOnce, NumberedOnce', msgs \subseteq msgs',
         [Next]_vars
  PROVE  [Order!Next]_(Order!vars)
<1> DEFINE order == [i \in 1 .. cur_inst - 1 |-> Numbered(i)]
<1>1. \A i \in 1 .. cur_inst - 1 : Numbered(i)' = Numbered(i) /\ Numbered(i) \in Request
  <2> TAKE i \in 1 .. cur_inst - 1
  <2>1. PICK v \in Request : Proposed(i, v)
    BY DEF NumberedOnce
  <2>2. Proposed(i, v)'
    BY <2>1 DEF Proposed
  <2>3. Numbered(i)' = v
    <3>1. \A w \in Value : Proposed(i, w)' => w = v
      BY <2>1, <2>2 DEF NumberedOnce, Proposed, Value
    <3>2. Numbered(i)' = CHOOSE w \in Value : Proposed(i, w)'
      BY DEF Numbered, Proposed
    <3> QED
      BY <2>1, <2>2, <3>1, <3>2 DEF Value
  <2> QED
    BY <2>1, <2>3, NumberedIs DEF Value
<1>2. cur_inst \in Nat /\ cur_inst >= 1 /\ order \in Seq(Request) /\ Len(order) = cur_inst - 1
  <2>1. cur_inst \in Nat /\ cur_inst >= 1
    BY DEF IInv, TypeOK
  <2> QED
    BY <1>1, <2>1
<1>3. ASSUME UNCHANGED <<cur_inst, delivered>> PROVE UNCHANGED Order!vars
  <2>1. order' = order
    BY <1>1, <1>3
  <2> QED
    BY <1>3, <2>1 DEF Order!vars
<1>4. ASSUME NEW r \in requests, Number(r), UNCHANGED learnerVars PROVE Order!Next
  <2>1. r \in Request /\ cur_inst' = cur_inst + 1 /\ delivered' = delivered
    BY <1>4 DEF Number, NextInst, IInv, TypeOK, learnerVars
  <2>2. \A v : v = cur_inst => Numbered(v)' = r
    <3> TAKE v
    <3> HAVE v = cur_inst
    <3>1. Proposed(v, r)'
      <4>1. PICK n : n = Accept(cur_inst, ClientBallot, r)
        OBVIOUS
      <4>2. n \in msgs'
        BY <1>4, <4>1 DEF Number, Send
      <4>3. n.msgtype = "ACCEPT" /\ n.inst = v /\ n.value = r
        BY <4>1 DEF Accept
      <4> QED
        BY <4>2, <4>3 DEF Proposed
    <3>2. \A w \in Value : Proposed(v, w)' => w = r
      BY <3>1 DEF NumberedOnce, Proposed
    <3>3. Numbered(v)' = CHOOSE w \in Value : Proposed(v, w)'
      BY DEF Numbered, Proposed
    <3> QED
      BY <2>1, <3>1, <3>2, <3>3 DEF Value
  <2>3. order' = Append(order, r)
    <3>1. order' = [i \in 1 .. cur_inst |-> Numbered(i)']
      BY <1>2, <2>1
    <3>2. \A i \in 1 .. cur_inst : Numbered(i)' = Append(order, r)[i]
      BY <1>1, <1>2, <2>2
    <3>3. Append(order, r) = [i \in 1 .. cur_inst |-> Append(order, r)[i]]
      BY <1>2
    <3> QED
      BY <3>1, <3>2, <3>3
  <2>4. \A i \in 1 .. Len(order) : order[i] # r
    <3> TAKE i \in 1 .. Len(order)
    <3>1. PICK v \in Request : Proposed(i, v)
      BY <1>2 DEF NumberedOnce
    <3>2. order[i] = v
      BY <1>2, <3>1, NumberedIs DEF Value
    <3>3. v # r
      BY <3>1 DEF IInv, RequestsHeldOnce, Proposed
    <3> QED
      BY <3>2, <3>3
  <2>5. Order!Place(r)
    BY <2>1, <2>3, <2>4 DEF Order!Place
  <2> QED
    BY <2>1, <2>5 DEF Order!Next
<1>5. ASSUME NEW l \in Learner, NEW v, UNCHANGED cur_inst,
             delivered' = [delivered EXCEPT ![l] = Append(@, v)]
      PROVE  Order!Next
  <2>1. order' = order
    BY <1>1, <1>5
  <2>2. delivered[l] \in Seq(Value) /\ Len(delivered[l]) \in Nat
    BY DEF IInv, TypeOK
  <2> DEFINE n == Len(delivered[l]) + 1
  <2>3. /\ n \in 1 .. Len(delivered'[l]) /\ delivered'[l][n] = v
        /\ n \in Nat /\ n >= 1
    <3>1. delivered'[l] = Append(delivered[l], v)
      BY <1>5 DEF IInv, TypeOK
    <3> QED
      BY <2>2, <3>1
  <2>4. \A k : k = n => k < cur_inst /\ Numbered(k)' = v
    <3> TAKE k
    <3> HAVE k = n
    <3>1. (k < cur_inst /\ delivered[l][k] = Numbered(k))'
      <4>1. k \in 1 .. Len(delivered'[l])
        BY <2>3
      <4>2. Backed(k, delivered[l][k])'
        BY <4>1 DEF IInv, DeliveryHasQuorum
      <4>3. PICK m \in msgs' : m.inst = k /\ m.value = delivered'[l][k]
        BY <4>2 DEF Backed, VotesFor
      <4>4. m.value \in Request /\ Proposed(k, m.value)' /\ m.inst < cur_inst'
        BY <4>3 DEF IInv, RequestsTraceable, NumberedOnce
      <4>5. \A w \in Value : Proposed(k, w)' => w = m.value
        BY <4>4 DEF NumberedOnce, Proposed
      <4>6. Numbered(k)' = CHOOSE w \in Value : Proposed(k, w)'
        BY DEF Numbered, Proposed
      <4> QED
        BY <4>3, <4>4, <4>5, <4>6 DEF Value
    <3> QED
      BY <1>5, <2>3, <3>1
  <2>5. n < cur_inst /\ order[n] = v
    <3>1. n < cur_inst
      BY <2>4
    <3>2. n \in 1 .. cur_inst - 1
      BY <1>2, <2>3, <3>1
    <3>3. \A k : k = n => Numbered(k)' = Numbered(k)
      BY <1>1, <3>2
    <3> QED
      BY <2>4, <3>1, <3>2, <3>3
  <2>6. Len(delivered[l]) < Len(order)
    BY <1>2, <2>2, <2>5
  <2>7. Order!Execute(l)
    BY <1>5, <2>1, <2>5, <2>6 DEF Order!Execute
  <2> QED
    BY <2>7 DEF Order!Next
<1>6. CASE Coordinate
  BY <1>4, <1>6 DEF Coordinate
<1>7. CASE Deliver
  <2>1. UNCHANGED cur_inst
    BY <1>7 DEF Deliver, coordVars
  <2>2. PICK l \in Learner : \E tab : deliver_next(l, tab) \/ deliver_nothing(l, tab)
    BY <1>7 DEF Deliver, Learn
  <2> QED
    BY <1>3, <1>5, <2>1, <2>2 DEF deliver_next, deliver, deliver_nothing
<1>8. CASE Failover \/ Restart \/ Backup
  BY <1>8 DEF Undisturbed, Failover, Restart, RestartCoordinator, Backup, IInv, TypeOK
<1>9. CASE Vote \/ UNCHANGED vars
  BY <1>3, <1>9 DEF Vote, vars, coordVars, learnerVars
<1> QED
  BY <1>6, <1>7, <1>8, <1>9 DEF Next

\* Without a backup and restarts, the coordinator, acceptors and learners of
\* src/dpdk implement TotalOrder: the learners deliver, each at its own speed,
\* the requests in the order in which the coordinator numbered them.
THEOREM Refinement == Undisturbed => (Spec => ImplementsTotalOrder)
<1> SUFFICES ASSUME Undisturbed PROVE Spec => ImplementsTotalOrder
    OBVIOUS
<1>1. Init => Order!Init /\ NumberedOnce
  <2> SUFFICES ASSUME Init PROVE Order!Init /\ NumberedOnce
      OBVIOUS
  <2>1. cur_inst = 1 /\ msgs = {} /\ delivered = [l \in Learner |-> <<>>]
    BY DEF Init, CoordInit, NetInit, LearnersInit
  <2>2. [i \in 1 .. cur_inst - 1 |-> Numbered(i)] = <<>>
    BY <2>1
  <2> QED
    BY <2>1, <2>2 DEF Order!Init, NumberedOnce
<1>2. IInv /\ NumberedOnce /\ [Next]_vars => NumberedOnce'
  BY NumberedOnceStep
<1>3. IInv /\ IInv' /\ NumberedOnce /\ NumberedOnce' /\ [Next]_vars
      => [Order!Next]_(Order!vars)
  BY NumberedOnceStep, OrderStep
<1> QED
  BY <1>1, <1>2, <1>3, Invariance, PTL DEF Spec, ImplementsTotalOrder, Order!Spec

\* The same deployment keeps decisions: the votes of an instance are for one
\* value.  With a backup this fails, see the run dpdk_recovery.
THEOREM UndisturbedKeepsDecision == Undisturbed => (Spec => []RecoveryKeepsDecision)
<1> SUFFICES ASSUME Undisturbed PROVE Spec => []RecoveryKeepsDecision
    OBVIOUS
<1>1. Init => NumberedOnce
  BY DEF Init, CoordInit, NetInit, NumberedOnce
<1>2. IInv /\ NumberedOnce /\ [Next]_vars => NumberedOnce'
  BY NumberedOnceStep
<1>3. IInv /\ NumberedOnce => RecoveryKeepsDecision
  <2> SUFFICES ASSUME IInv, NumberedOnce, NEW i \in Iid, NEW v \in Value, NEW w \in Value,
                      Chosen(i, v), Chosen(i, w)
               PROVE  v = w
      BY DEF RecoveryKeepsDecision
  <2>1. ASSUME NEW u \in Value, Chosen(i, u) PROVE u \in Request /\ Proposed(i, u)
    <3>1. PICK b \in Ballots :
            Majority({m.acptid : m \in {n \in VotesFor(i, b) : n.value = u}})
      BY <2>1 DEF Chosen
    <3>2. {m.acptid : m \in {n \in VotesFor(i, b) : n.value = u}} # {}
      BY <3>1, FS_EmptySet DEF Majority
    <3>3. PICK m \in msgs : m.inst = i /\ m.value = u
      BY <3>2 DEF VotesFor
    <3> QED
      BY <3>3 DEF IInv, RequestsTraceable, NumberedOnce
  <2> QED
    BY <2>1 DEF NumberedOnce, Proposed
<1> QED
  BY <1>1, <1>2, <1>3, Invariance, PTL DEF Spec
=============================================================================
