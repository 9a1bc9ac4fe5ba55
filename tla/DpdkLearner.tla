---------------------------- MODULE DpdkLearner -----------------------------
(***************************************************************************)
(* dpdk/learner/main.c as it is built, without ORDER_DELIVERY: no timer    *)
(* runs, so a learner acts on packets only.  It opens no gap, and so       *)
(* ignores promises.                                                       *)
(***************************************************************************)
EXTENDS LibPaxos

CONSTANTS Learner, FirstLearner     \* FirstLearner runs with learner_id 0

VARIABLES
    current_iid,    \* current_iid[l]: the instance l delivers next
    instances,      \* instances[l][i]: l's votes for instance i
    delivered,      \* delivered[l]: the values l delivered, in order
    running,        \* running[l]: l has not crashed
    answers         \* the requests the clients got an answer to

learnerVars == <<current_iid, instances, delivered, running, answers>>

LearnersInit ==
    /\ current_iid = [l \in Learner |-> 1]
    /\ instances = [l \in Learner |-> [i \in Iid |-> NoInstance]]
    /\ delivered = [l \in Learner |-> <<>>]
    /\ running = [l \in Learner |-> TRUE]
    /\ answers = {}

\* learner_receive_accepted ignores instances that were delivered.
Votes(l, m) ==
    IF m.inst < current_iid[l] THEN instances[l]
    ELSE [instances[l] EXCEPT
            ![m.inst] = learner_receive_accepted(@, m.acptid, m.rnd, m.value)]

\* deliver: the first learner answers the client.  A value that is no request
\* has no client address in it: the answer goes nowhere or reading it fails.
deliver(l, v) ==
    /\ delivered' = [delivered EXCEPT ![l] = Append(@, v)]
    /\ answers' = IF l = FirstLearner /\ v \in Request
                  THEN answers \cup {v} ELSE answers
    /\ running' \in IF l = FirstLearner /\ v \notin Request
                    THEN {running, [running EXCEPT ![l] = FALSE]}
                    ELSE {running}

\* Mutant: any closed instance is delivered.
deliver_nextAny(l, votes) ==
    \E i \in Iid :
        /\ Closed(votes[i])
        /\ instances' = [instances EXCEPT ![l] = [votes EXCEPT ![i] = NoInstance]]
        /\ current_iid' = [current_iid EXCEPT ![l] = @ + 1]
        /\ deliver(l, votes[i].final_value)

\* Mutant: the first vote is enough.
deliver_nextEarly(l, votes) ==
    LET i == current_iid[l]
    IN /\ i \in Iid
       /\ \E a \in AcceptorId :
            /\ votes[i].acks[a] # NoVote
            /\ deliver(l, votes[i].acks[a].value)
       /\ instances' = [instances EXCEPT ![l] = [votes EXCEPT ![i] = NoInstance]]
       /\ current_iid' = [current_iid EXCEPT ![l] = i + 1]

\* learner_deliver_next has an instance: it is deleted and delivered.
deliver_next(l, votes) ==
    LET i == current_iid[l]
    IN /\ i \in Iid
       /\ Closed(votes[i])
       /\ instances' = [instances EXCEPT ![l] = [votes EXCEPT ![i] = NoInstance]]
       /\ current_iid' = [current_iid EXCEPT ![l] = i + 1]
       /\ deliver(l, votes[i].final_value)

\* learner_deliver_next has none.
deliver_nothing(l, votes) ==
    /\ current_iid[l] \in Iid => ~Closed(votes[current_iid[l]])
    /\ instances' = [instances EXCEPT ![l] = votes]
    /\ UNCHANGED <<current_iid, delivered, running, answers>>

\* paxos_rx_process, PAXOS_ACCEPTED: one vote in, at most one instance out.
Learn(l) ==
    /\ running[l]
    /\ \E m \in msgs :
        /\ m.msgtype = "ACCEPTED"
        /\ \/ deliver_next(l, Votes(l, m))
           \/ deliver_nothing(l, Votes(l, m))
    /\ UNCHANGED netVars
=============================================================================
