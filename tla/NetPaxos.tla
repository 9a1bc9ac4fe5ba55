------------------------------ MODULE NetPaxos ------------------------------
(***************************************************************************)
(* The bmv2 demo: a key-value store replicated by Paxos in the network.    *)
(* The proposer on h1 sends a request to the coordinator switch s1, which  *)
(* numbers it; the acceptor switches s2, s3, s4 vote; the learners on h2   *)
(* and h3 count the votes, execute the commands in the order of their      *)
(* numbers, and answer.  A learner that finds a hole in its log runs       *)
(* Paxos's phase 1 and phase 2 for the missing instance itself.            *)
(***************************************************************************)
EXTENDS Coordinator, Acceptor, Learner, Proposer

CONSTANT Crashed        \* the acceptors and replicas that are down from the start

ASSUME CommandsAssumption == Commands \subseteq HttpCommands
ASSUME CrashedAssumption == Crashed \subseteq Acceptors \cup Learners

vars == <<network, instance_register, acceptorVars, learnerVars, proposerVars>>

Init ==
    /\ NetworkInit
    /\ CoordinatorInit
    /\ AcceptorInit
    /\ LearnerInit
    /\ ProposerInit

-----------------------------------------------------------------------------
Submit == \E cmd \in Commands :
    submit(cmd) /\ UNCHANGED <<instance_register, acceptorVars, learnerVars>>

Lose ==
    LoseRequest
    /\ UNCHANGED <<instance_register, acceptorVars, learnerVars, proposerVars>>

Coordinate ==
    Sequence /\ UNCHANGED <<acceptorVars, learnerVars, proposerVars>>

Promise(a) == \E m \in msgs :
    handle_1a(a, m) /\ UNCHANGED <<instance_register, learnerVars, proposerVars>>

Vote(a) == \E m \in msgs :
    handle_2a(a, m) /\ UNCHANGED <<instance_register, learnerVars, proposerVars>>

Learn(l) == \E m \in msgs :
    handle_pkt(l, m) /\ UNCHANGED <<instance_register, acceptorVars, proposerVars>>

RestartLearner(l) ==
    Restart(l) /\ UNCHANGED <<instance_register, acceptorVars, proposerVars>>

Answer == \E r \in responses :
    datagramReceived(r) /\ UNCHANGED <<instance_register, acceptorVars, learnerVars>>

Next ==
    \/ Submit
    \/ Lose
    \/ Coordinate
    \/ \E a \in Acceptors \ Crashed : Promise(a) \/ Vote(a)
    \/ \E l \in Learners \ Crashed : Learn(l) \/ RestartLearner(l)
    \/ Answer

Spec == Init /\ [][Next]_vars

(***************************************************************************)
(* Fairness.  A replica handles what reaches it: the sniffer calls         *)
(* handle_pkt for every packet.  A switch that is up processes the packets *)
(* of a link that does not lose them; that is assumed of the packets a     *)
(* learner sends and of its answers, not of the coordinator's 2A.          *)
(***************************************************************************)
VoteOn(a, i, src) == \E m \in msgs :
    /\ m.inst = i /\ m.src = src
    /\ handle_2a(a, m)
    /\ UNCHANGED <<instance_register, learnerVars, proposerVars>>

Recovery ==
    /\ \A a \in Acceptors \ Crashed :
          /\ WF_vars(Promise(a))
          /\ \A i \in Instance : WF_vars(VoteOn(a, i, "learner"))
    /\ \A l \in Learners \ Crashed : WF_vars(Learn(l))
    /\ WF_vars(Answer)

RecoverySpec == Spec /\ Recovery

-----------------------------------------------------------------------------
\* Every variable has its type, with Instance and Round as wide as their
\* header fields.  What the database and the answers hold is the subject of
\* DatabaseIsPrefix and AnswersAreLinearized.
TypeOK ==
    /\ msgs \subseteq Paxos
    /\ uplink \in Seq(Paxos)
    /\ \A r \in responses : r.req \in 1 .. MAX_REQ_ID
    /\ instance_register \in Instance
    /\ rounds_register \in [Acceptors -> [Instance -> Round]]
    /\ vrounds_register \in [Acceptors -> [Instance -> Round]]
    /\ values_register \in [Acceptors -> [Instance -> PaxosValue]]
    /\ logs \in [Learners -> [Instance -> Commands \cup {Empty, NoValue}]]
    /\ states \in [Learners -> [Instance -> LearnerState]]
    /\ proposerState \in [Learners -> [Instance -> ProposerState]]
    /\ minUncommitedIndex \in [Learners -> 1 .. INSTANCE_COUNT]
    /\ maxInstance \in [Learners -> Instance]
    /\ alive \in [Learners -> BOOLEAN]
    /\ captured \in [Learners -> 0 .. Count]
    /\ restarts \in 0 .. MaxRestarts
    /\ req_id \in 0 .. MaxSubmits
    /\ DOMAIN defers = 1 .. MAX_REQ_ID

-----------------------------------------------------------------------------
\* The coordinator gave instance i to command c (with request id r).
SequencedAs(i, r, c) == \E m \in msgs :
    /\ m.msgtype = "2A" /\ m.src = "proposer"
    /\ m.inst = i /\ m.val.req = r /\ m.val.cmd = c

Sequenced(i, c) == \E r \in 1 .. MAX_REQ_ID : SequencedAs(i, r, c)

\* Some learner asked for instance i again.
Retried(i) == \E m \in msgs : m.msgtype = "1A" /\ m.inst = i

\* The acceptors that voted for command c in round r of instance i.
Voters(i, r, c) == {a \in Acceptors : \E m \in msgs :
    m.msgtype = "2B" /\ m.inst = i /\ m.rnd = r /\ m.acptid = a /\ m.val.cmd = c}

-----------------------------------------------------------------------------
\* The command two learners executed as their i-th is the same, and it is the
\* one the coordinator numbered i: deliverInstance of learner.py, over every
\* loss, retry, lost vote and restart.
Executed(l, i) == i \in 1 .. minUncommitedIndex[l] - 1

ReplicasAgree ==
    /\ \A l \in Learners, i \in Instance :
          Executed(l, i) => Sequenced(i, logs[l][i])
    /\ \A l1, l2 \in Learners, i \in Instance :
          Executed(l1, i) /\ Executed(l2, i) => logs[l1][i] = logs[l2][i]

\* The store after the coordinator's first n commands.
Order(i) == CHOOSE c \in Commands : Sequenced(i, c)

DbAfter(n) == ExecuteAll(InitialDb, [i \in 1 .. n |-> Order(i)])

\* A replica's database is the one that executing a prefix of the
\* coordinator's order leaves, however many instances one packet released
\* (SimpleDatabase.execute under deliverInstance).
DatabaseIsPrefix == \A l \in Learners :
    db[l] = DbAfter(minUncommitedIndex[l] - 1)

\* An answer other than "Retry" is the result of the request it answers, run
\* after everything the coordinator ordered before it: respond pairs the
\* request id of the packet that completed the decision with the result of
\* the first command the packet released, and these are the same request.
AnswersAreLinearized == \A r \in responses :
    r.result # "Retry" =>
        \E i \in Instance \ {0}, c \in Commands :
            /\ SequencedAs(i, r.req, c)
            /\ r.result = Result(DbAfter(i - 1), c)

\* A promise reports the acceptor's earlier vote: no acceptor votes in round
\* 0 after it sent a 1B for round 1, and the 1B carries the vote
\* (paxos_acceptor.p4, the round check and handle_1a).
PromisesReportVotes == \A p, v \in msgs :
    p.msgtype = "1B" /\ v.msgtype = "2B" /\ p.acptid = v.acptid
        /\ p.inst = v.inst /\ v.rnd < p.rnd
    => v.rnd <= p.vrnd /\ (p.vrnd = v.rnd => p.val = v.val)

\* A value chosen in round 0 is visible to whoever collects a majority of
\* promises: one of them carries it, or a vote of a later round.
ChosenIsReported == \A i \in Instance, c \in Commands, Q \in SUBSET Acceptors :
    /\ Cardinality(Voters(i, 0, c)) >= majority
    /\ Cardinality(Q) >= majority
    /\ \A a \in Q : \E p \in msgs :
          p.msgtype = "1B" /\ p.inst = i /\ p.acptid = a
    => \E p \in msgs :
          /\ p.msgtype = "1B" /\ p.inst = i /\ p.acptid \in Q
          /\ p.vrnd > 0 \/ p.val.cmd = c

\* A value in a log was voted for in a round in which a majority voted; in
\* an instance nobody retried, the majority voted for that very value
\* (handle_p2b).
DecisionHasQuorum == \A l \in Learners, i \in Instance :
    logs[l][i] # NoValue =>
        /\ \E r \in {0, 1} :
              /\ Voters(i, r, logs[l][i]) # {}
              /\ Cardinality(UNION {Voters(i, r, c) : c \in Commands \cup {Empty}})
                     >= majority
        /\ ~Retried(i) => Cardinality(Voters(i, 0, logs[l][i])) >= majority

\* A running replica never sits on a command it could execute, and it has
\* asked for the first instance it misses if it knows of a later one
\* (deliverInstance, retryInstance).
HolesAreRetried == \A l \in Learners :
    LET min == minUncommitedIndex[l] IN
    alive[l] /\ min \in Instance =>
        /\ ~Executable(logs[l][min])
        /\ (\E i \in Instance : i > min /\ logs[l][i] # NoValue) => Retried(min)

\* A step that is not a restart never takes back a decision, an execution,
\* or an answer the browser has (finished, minUncommitedIndex, Deferred).
DecisionsAreFinal == [][
    /\ restarts' = restarts =>
         \A l \in Learners :
            /\ minUncommitedIndex'[l] >= minUncommitedIndex[l]
            /\ \A i \in Instance : logs[l][i] # NoValue => logs'[l][i] = logs[l][i]
    /\ \A r \in 1 .. MAX_REQ_ID :
         defers[r] \notin {NoRequest, Waiting} => defers'[r] = defers[r]]_vars

\* A replica that knows of a later decision than the first one it misses gets
\* the missing one, or dies of it: the 1A of retryInstance, the promises, the
\* 2A of handle_p1b and its votes are enough, although the coordinator's own
\* 2A may be lost.
HolesAreFilled == \A l \in Learners, i \in Instance \ {0} :
    (/\ minUncommitedIndex[l] = i
     /\ \E j \in Instance : j > i /\ logs[l][j] # NoValue)
    ~> (logs[l][i] # NoValue \/ ~alive[l])

\* "The service is still alive if any one of switches or replicas crash": with
\* one acceptor and one replica down, a request that the remaining acceptors
\* voted for is answered, unless a learner took its instance over or no replica
\* is left (handle_p2b, respond, and proposer.py's Deferred).
VotedByAllLive(i, c) == Acceptors \ Crashed \subseteq Voters(i, 0, c)

RequestsAreAnswered == \A r \in 1 .. MAX_REQ_ID, i \in Instance :
    (\E c \in Commands : SequencedAs(i, r, c) /\ VotedByAllLive(i, c))
    ~> (defers[r] # Waiting \/ Retried(i) \/ \A l \in Learners \ Crashed : ~alive[l])

-----------------------------------------------------------------------------
(***************************************************************************)
(* What the repository says and the code does not do.                      *)
(***************************************************************************)

\* learner.py: "If a decision has been made, the learner delivers that decision
\* to the application": a value a majority accepted is the one learned.
LearnsTheDecision == \A l \in Learners, i \in Instance, c \in Commands :
    Cardinality(Voters(i, 0, c)) >= majority => logs[l][i] \in {NoValue, c}

-----------------------------------------------------------------------------
(***************************************************************************)
(* The inductive invariant behind ReplicasAgree and PromisesReportVotes.   *)
(***************************************************************************)

\* The coordinator has numbered no more requests than were sent, so it never
\* wraps around; the instances it gave out are 1 .. instance_register, each to
\* one request.
Numbering ==
    /\ instance_register + Len(uplink) <= req_id
    /\ instance_register + Len(uplink) <= MAX_REQ_ID
    /\ \A j \in 1 .. Len(uplink) :
          /\ uplink[j].src = "proposer"
          /\ uplink[j].val.req \in 1 .. MAX_REQ_ID
          /\ uplink[j].val.cmd \in Commands
    /\ \A m \in msgs : m.src = "proposer" => m.inst <= instance_register
    /\ \A m, n \in msgs :
          m.src = "proposer" /\ n.src = "proposer" /\ m.inst = n.inst
              => m.val = n.val

\* What a vote or a promise for instance i may carry: nothing but what the
\* coordinator numbered i, or the zeros of a register never written.
Known(i, c) == c = Empty \/ Sequenced(i, c)

Traceable(m) ==
    /\ m.inst >= 1
    /\ m.msgtype \in {"1B", "2B"} => m.acptid \in Acceptors
    /\ m.src = "proposer" =>
          /\ m.msgtype \in {"2A", "2B"}
          /\ m.rnd = 0
          /\ m.val.req \in 1 .. MAX_REQ_ID
          /\ m.val.cmd \in Commands
          /\ SequencedAs(m.inst, m.val.req, m.val.cmd)
    /\ m.src = "learner" => m.rnd = 1
    /\ Known(m.inst, m.val.cmd)

Provenance ==
    /\ \A m \in msgs : Traceable(m)
    /\ \A a \in Acceptors, i \in Instance : Known(i, values_register[a][i].cmd)

\* A learner counts and logs only such values, and executes only those that
\* are not zeros; it never decides an executed instance again.
LearnerKnows == \A l \in Learners, i \in Instance :
    /\ states[l][i].val # NoValue => Known(i, states[l][i].val)
    /\ logs[l][i] # NoValue => states[l][i].finished /\ Known(i, logs[l][i])
    /\ proposerState[l][i].hvrnd = 0
    /\ Executed(l, i) => Executable(logs[l][i])

\* An acceptor's registers never fall behind what it has sent.
Remembered(m) ==
    /\ m.msgtype = "1B" => m.rnd <= rounds_register[m.acptid][m.inst]
    /\ m.msgtype = "2B" =>
          /\ m.rnd <= vrounds_register[m.acptid][m.inst]
          /\ vrounds_register[m.acptid][m.inst] = 0
                 => values_register[m.acptid][m.inst] = m.val

RegistersRemember ==
    /\ \A a \in Acceptors, i \in Instance :
          vrounds_register[a][i] <= rounds_register[a][i]
    /\ \A m \in msgs : Remembered(m)

\* The parts together: no step can break one while all hold.
IInv ==
    /\ TypeOK
    /\ Numbering
    /\ Provenance
    /\ LearnerKnows
    /\ RegistersRemember
    /\ PromisesReportVotes

-----------------------------------------------------------------------------
(***************************************************************************)
(* What a learner's tables say of the votes, which DecisionHasQuorum and   *)
(* HolesAreRetried add to IInv.                                            *)
(***************************************************************************)

\* A packet a learner started, or an answer to one, follows the 1A of
\* retryInstance: nothing but the coordinator's 2A opens an instance.
TakeoversBeginWith1A == \A m \in msgs : m.src = "learner" => Retried(m.inst)

\* The acceptors an entry for instance i counts voted in the entry's round,
\* one of them for its value; it is finished when they are a majority.
CountsVotes(i, s) ==
    /\ s.nids = {} => s.val = NoValue
    /\ \A a \in s.nids :
          s.crnd \in {0, 1} /\ \E c \in Commands \cup {Empty} : a \in Voters(i, s.crnd, c)
    /\ s.val # NoValue => Voters(i, s.crnd, s.val) # {}
    /\ s.finished => Cardinality(s.nids) >= majority

EntriesCountVotes == \A l \in Learners, i \in Instance :
    /\ CountsVotes(i, states[l][i])
    /\ logs[l][i] # NoValue => logs[l][i] = states[l][i].val

\* maxInstance bounds the log.
MaxBoundsLog == \A l \in Learners, i \in Instance :
    logs[l][i] # NoValue => i <= maxInstance[l]

\* No Deferred waits under an id that was not used yet.
IdsAreNew == \A r \in 1 .. MAX_REQ_ID : r > req_id => defers[r] = NoRequest

LInv ==
    /\ IInv
    /\ TakeoversBeginWith1A
    /\ EntriesCountVotes
    /\ MaxBoundsLog
    /\ HolesAreRetried
    /\ IdsAreNew

-----------------------------------------------------------------------------
(***************************************************************************)
(* What DatabaseIsPrefix and AnswersAreLinearized add: the store's state,  *)
(* in terms of the log.                                                    *)
(***************************************************************************)

\* Every number the coordinator gave out is on a command.
NumbersAreUsed == \A i \in 1 .. instance_register :
    \E c \in Commands : Sequenced(i, c)

\* A replica's database is what its own log leaves, as far as it executed it.
DatabaseFollowsLog ==
    /\ DOMAIN db = Learners
    /\ \A l \in Learners :
          db[l] = ExecuteAll(InitialDb,
                             [i \in 1 .. minUncommitedIndex[l] - 1 |-> logs[l][i]])

\* Acceptors, learners, databases and answers follow the order in which
\* handle_request numbered the commands, through losses, retries and restarts.
SInv ==
    /\ LInv
    /\ NumbersAreUsed
    /\ DatabaseFollowsLog
    /\ AnswersAreLinearized
=============================================================================
