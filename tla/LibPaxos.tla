------------------------------ MODULE LibPaxos ------------------------------
(***************************************************************************)
(* The functions of libpaxos that the programs of src/dpdk call.  The      *)
(* library is external: dpdk/lib holds a binary and dpdk/include its       *)
(* headers.  Each operator maps the state before a call to the state after *)
(* it.                                                                     *)
(***************************************************************************)
EXTENDS RtePaxos

paxos_quorum == NumAcceptors \div 2 + 1

-----------------------------------------------------------------------------
(* The acceptor's record of an instance.                                   *)

Record == [ballot : Nat, value_ballot : Nat, value : Value]
NoRecord == [ballot |-> 0, value_ballot |-> 0, value |-> Empty]

\* The promise that is sent is the record after the call, also when the
\* prepare's ballot was too low.
acceptor_receive_prepare(rec, ballot) ==
    IF rec.ballot <= ballot THEN [rec EXCEPT !.ballot = ballot] ELSE rec

\* An accept of a lower ballot is answered by PREEMPTED.
acceptor_receive_accept(rec, ballot, v) ==
    IF rec.ballot <= ballot
    THEN [ballot |-> ballot, value_ballot |-> ballot, value |-> v]
    ELSE rec

-----------------------------------------------------------------------------
(* The learner's state of an instance: the last vote of each acceptor, the *)
(* ballot of the vote stored last, the value once there was a quorum.      *)

NoVote == [ballot |-> 0, value |-> NoValue]
NoInstance == [last_update_ballot |-> 0,
               acks |-> [a \in AcceptorId |-> NoVote],
               final_value |-> NoValue]
Instance ==
    [last_update_ballot : Nat,
     acks : [AcceptorId -> [ballot : Nat, value : Value \cup {NoValue}]],
     final_value : Value \cup {NoValue}]

Closed(inst) == inst.final_value # NoValue

instance_update(inst, aid, ballot, v) ==
    IF inst.acks[aid].ballot >= ballot
    THEN inst
    ELSE [inst EXCEPT !.last_update_ballot = ballot,
                      !.acks[aid] = [ballot |-> ballot, value |-> v]]

\* The votes that count: those of the ballot stored last, whatever they are for.
Counted(inst) ==
    {a \in AcceptorId : inst.acks[a].ballot = inst.last_update_ballot}
LastCounted(inst) ==
    CHOOSE a \in Counted(inst) : \A b \in Counted(inst) : b <= a

\* A vote for an instance that is already closed deletes the instance.
learner_receive_accepted(inst, aid, ballot, v) ==
    LET updated == instance_update(inst, aid, ballot, v)
    IN IF Closed(inst) THEN NoInstance
       ELSE IF Cardinality(Counted(updated)) >= paxos_quorum
       THEN [updated EXCEPT
               !.final_value = updated.acks[LastCounted(updated)].value]
       ELSE updated

-----------------------------------------------------------------------------
(* The learner's gaps: instances it runs phase 1 for.                      *)

Gap == [ballot : Nat, value_ballot : Nat, value : Value,
        promises : SUBSET AcceptorId]
NoGap == [ballot |-> 0, value_ballot |-> 0, value |-> Empty, promises |-> {}]

\* A new gap starts at ballot 3; an old one starts again, 11 ballots higher.
learner_prepare(gap) ==
    [NoGap EXCEPT !.ballot = IF gap.ballot = 0 THEN 3 ELSE gap.ballot + 11]

\* A promise counts once per acceptor; its ballot is not looked at.
PromiseCounts(gap, aid) == gap.ballot # 0 /\ aid \notin gap.promises

learner_receive_promise(gap, aid, vballot, v) ==
    [gap EXCEPT
       !.promises = @ \cup {aid},
       !.value_ballot = IF @ < vballot THEN vballot ELSE @,
       !.value = IF gap.value_ballot < vballot /\ v # Empty THEN v ELSE @]

\* True for the promise that completes a majority and for every later one.
MajorityPromised(gap) == Cardinality(gap.promises) >= paxos_quorum

-----------------------------------------------------------------------------
(* The proposer's tables of open instances: those in phase 1 and those in  *)
(* phase 2.  A slot holds the ballot of an instance and the acceptors that *)
(* answered in it.                                                         *)

Slot == [ballot : Nat, quorum : SUBSET AcceptorId]
NoSlot == [ballot |-> 0, quorum |-> {}]

Open(table) == {i \in Iid : table[i] # NoSlot}
quorum_reached(slot) == Cardinality(slot.quorum) >= paxos_quorum

\* The ballots of proposer 0.
FirstBallot == 10
proposer_next_ballot(ballot) == ballot + 10

\* True if the promise makes the proposer start phase 1 again.
Preempts(slot, ballot) == slot # NoSlot /\ ballot > slot.ballot

proposer_receive_promise(slot, aid, ballot) ==
    IF Preempts(slot, ballot)
    THEN [NoSlot EXCEPT !.ballot = proposer_next_ballot(slot.ballot)]
    ELSE IF slot # NoSlot /\ ballot = slot.ballot
    THEN [slot EXCEPT !.quorum = @ \cup {aid}]
    ELSE slot

\* What repeated calls of proposer_accept take: from the lowest instance on, as
\* long as the instance was promised and a value is left for it.
proposer_accept_all(table, nb_values) ==
    LET UpTo(i) == {j \in Open(table) : j <= i}
    IN {i \in Open(table) :
          /\ \A j \in UpTo(i) : quorum_reached(table[j])
          /\ Cardinality(UpTo(i)) <= nb_values}

\* A vote counts once per acceptor and in the instance's ballot only.
VoteCounts(slot, aid, ballot) ==
    slot # NoSlot /\ slot.ballot = ballot /\ aid \notin slot.quorum

\* The vote that completes the quorum closes the instance.
proposer_receive_accepted(slot, aid) ==
    LET added == [slot EXCEPT !.quorum = @ \cup {aid}]
    IN IF quorum_reached(added) THEN NoSlot ELSE added
=============================================================================
