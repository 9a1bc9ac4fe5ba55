---------------------------- MODULE ProposerPaxos ----------------------------
(***************************************************************************)
(* The proposer of src/dpdk, its acceptors and a network that may lose or  *)
(* repeat packets.  `msgs' holds the packets on their way: unlike in       *)
(* DpdkPaxos, a received packet is gone, unless the network repeats it.    *)
(* Only so do the proposer's retries matter.  ACCEPTOR_ADDR is a multicast *)
(* address: a packet sent to it arrives at all acceptors, unless copies of *)
(* it are lost or late.                                                    *)
(***************************************************************************)
EXTENDS DpdkProposer

CONSTANTS
    OtherBallot,        \* the ballot of another program's phase 1 ...
    OtherInst,          \* ... and the instances it runs it for
    MaxFaults           \* bound: how often packets are lost, late or repeated

ASSUME NetworkAssumption ==
    OtherBallot \in Nat /\ OtherInst \subseteq Iid /\ MaxFaults \in Nat

VARIABLES
    records,            \* the acceptors' storage
    answers,            \* history: every PROMISE and ACCEPTED that was sent
    faults              \* how often packets were lost, late or repeated

acceptorVars == <<records, answers>>
vars == <<netVars, proposerVars, acceptorVars, faults>>

Init ==
    /\ requests = Request /\ msgs = {} /\ port = "primary"
    /\ ProposerInit
    /\ records = [a \in AcceptorId |-> [i \in Iid |-> NoRecord]]
    /\ answers = {}
    /\ faults = 0

\* m is received; the network may keep a copy of it.
Taken(m, net) ==
    \/ net = msgs \ {m} /\ UNCHANGED faults
    \/ net = msgs /\ faults < MaxFaults /\ faults' = faults + 1

Lose(m) ==
    /\ m \in msgs
    /\ faults < MaxFaults
    /\ faults' = faults + 1
    /\ msgs' = msgs \ {m}
    /\ UNCHANGED <<requests, port, proposerVars, acceptorVars>>

-----------------------------------------------------------------------------
(* The proposer.                                                           *)

\* lcore_main, before its loop.
Start ==
    /\ ~started
    /\ started' = TRUE
    /\ proposer_preexecute(proposer, msgs)
    /\ UNCHANGED <<requests, port, first_time, acceptorVars, faults>>

\* Clients' packets are alike, so it does not matter which one comes first.
ReceiveRequest ==
    /\ started
    /\ requests # {}
    /\ requests' = requests \ {CHOOSE r \in requests : TRUE}
    /\ proposer_handle_accept(msgs)
    /\ UNCHANGED <<port, started, acceptorVars, faults>>

\* Packets of the other types are dropped.
ReceiveAnswer(m) ==
    /\ started
    /\ \E net \in {msgs \ {m}, msgs} :
        /\ Taken(m, net)
        /\ \/ m.msgtype = "PROMISE" /\ proposer_handle_promise(m, net)
           \/ m.msgtype = "ACCEPTED" /\ proposer_handle_accepted(m, net)
    /\ UNCHANGED <<requests, port, first_time, started, acceptorVars>>

\* A step of check_timeout for instance i, a second or more after the packets of
\* the instance that are still on their way were sent: they are late.
Timeout(i) ==
    /\ timed_out(i) # {}
    /\ msgs' = msgs \cup timed_out(i)
    /\ \/ (\A m \in msgs : m.inst # i) /\ UNCHANGED faults
       \/ faults < MaxFaults /\ faults' = faults + 1
    /\ UNCHANGED <<requests, port, proposerVars, acceptorVars>>

-----------------------------------------------------------------------------
(* The acceptors and the other program.                                    *)

\* The acceptors in A receive m and answer.  The others lose their copies, or
\* get them later, when the network still has m.
Answer(A, m, sent) ==
    \E net \in {msgs \ {m}, msgs} :
        /\ \/ A = AcceptorId /\ Taken(m, net)
           \/ faults < MaxFaults /\ faults' = faults + 1
        /\ msgs' = net \cup sent
        /\ answers' = answers \cup sent

Update(A, i, rec(_)) ==
    records' = [a \in AcceptorId |->
                  IF a \in A THEN [records[a] EXCEPT ![i] = rec(@)] ELSE records[a]]

\* The ballot and the value of an earlier vote, which a promise also carries,
\* mean nothing to the proposer and are left out.
ReceivePrepare(A, m) ==
    LET rec(old) == acceptor_receive_prepare(old, m.rnd)
    IN /\ m.msgtype = "PREPARE"
       /\ Update(A, m.inst, rec)
       /\ Answer(A, m, {[m EXCEPT !.msgtype = "PROMISE", !.acptid = a,
                           !.rnd = rec(records[a][m.inst]).ballot] : a \in A})
       /\ UNCHANGED <<requests, port, proposerVars>>

\* The proposer drops PREEMPTED, so it is not sent here.
ReceiveAccept(A, m) ==
    LET rec(old) == acceptor_receive_accept(old, m.rnd, m.value)
    IN /\ m.msgtype = "ACCEPT"
       /\ Update(A, m.inst, rec)
       /\ Answer(A, m, {[m EXCEPT !.msgtype = "ACCEPTED", !.acptid = a] :
                          a \in {b \in A : records[b][m.inst].ballot <= m.rnd}})
       /\ UNCHANGED <<requests, port, proposerVars>>

\* Another program, a backup say, runs phase 1 for an instance until it has its
\* promises.
OtherPrepare(i) ==
    /\ \E a \in AcceptorId : records[a][i].ballot < OtherBallot
    /\ msgs' = msgs \cup {Prepare(i, OtherBallot)}
    /\ UNCHANGED <<requests, port, proposerVars, acceptorVars, faults>>

-----------------------------------------------------------------------------
\* A packet of instance i arrives at acceptors; one of acceptor a's at the proposer.
AcceptorsReceive(i) ==
    \E m \in msgs : /\ m.inst = i
                    /\ \E A \in SUBSET AcceptorId \ {{}} :
                           ReceivePrepare(A, m) \/ ReceiveAccept(A, m)
ProposerReceives(i, a) ==
    \E m \in msgs : m.inst = i /\ m.acptid = a /\ ReceiveAnswer(m)

Next ==
    \/ Start
    \/ ReceiveRequest
    \/ \E m \in msgs : Lose(m)
    \/ \E i \in Iid : AcceptorsReceive(i) \/ Timeout(i)
    \/ \E i \in Iid, a \in AcceptorId : ProposerReceives(i, a)
    \/ \E i \in OtherInst : OtherPrepare(i)

\* The lcores run, the timer fires again and again, and of the packets of one
\* sender in an instance that are not lost one after the other arrives.  Clients
\* and the other program need not do anything.
Fairness ==
    /\ WF_vars(Start)
    /\ \A i \in Iid : /\ WF_vars(Timeout(i))
                      /\ WF_vars(AcceptorsReceive(i))
                      /\ \A a \in AcceptorId : WF_vars(ProposerReceives(i, a))

Spec == Init /\ [][Next]_vars /\ Fairness

-----------------------------------------------------------------------------
\* Every variable keeps its type.
TypeOK ==
    /\ requests \subseteq Request
    /\ msgs \subseteq PaxosHdr
    /\ first_time \in BOOLEAN
    /\ started \in BOOLEAN
    /\ proposer \in Proposer
    /\ records \in [AcceptorId -> [Iid -> Record]]
    /\ answers \subseteq PaxosHdr
    /\ faults \in 0 .. MaxFaults

Received == Cardinality(Request \ requests)
Accepted == {i \in 1 .. proposer.next_prepare_iid :
              i \notin Open(proposer.prepare) \cup Open(proposer.accept)}

\* The acceptors that answered with a promise of ballot b, with a vote in ballot b.
Answerers(sent, type, i, b) ==
    {a \in AcceptorId : \E m \in sent : /\ m.msgtype = type /\ m.acptid = a
                                        /\ m.inst = i /\ m.rnd = b}
Promised(sent, i, b) == Answerers(sent, "PROMISE", i, b)
Voted(sent, i, b) == Answerers(sent, "ACCEPTED", i, b)
Quorum(S) == Cardinality(S) >= paxos_quorum
Chosen(sent, i) == \E m \in sent : Quorum(Voted(sent, i, m.rnd))

\* No ACCEPT goes out before a quorum of the acceptors promised its very ballot:
\* a promise the network repeats counts once, promises of the ballot before a
\* preemption and those of another program's higher ballot do not count.
AcceptAfterPromises ==
    \A m \in msgs :
        m.msgtype = "ACCEPT" => Quorum(Promised(answers, m.inst, m.rnd))

\* Every client's packet is queued, proposed or accepted, and counted once, in
\* whatever order promises, votes and preemptions arrive.
RequestsConserved ==
    proposer.values + Cardinality(Open(proposer.accept)) + Cardinality(Accepted)
        = Received

\* "Reach Quorum": an instance is closed only when a quorum of the acceptors
\* voted in it, all in one ballot: a repeated vote counts once.
ClosedByVotes ==
    \A i \in Accepted : Chosen(answers, i)

\* Between two handlers the window of instances in phase 1 is full and slides
\* in the order of the instances: none is left behind or skipped.
WindowSlides ==
    LET next == proposer.next_prepare_iid
        size == Cardinality(Open(proposer.prepare))
    IN /\ Open(proposer.prepare) = (next - size + 1) .. next
       /\ started /\ next < MaxInst => size = BURST_SIZE

-----------------------------------------------------------------------------
\* An acceptor promised a higher ballot than that of an open proposal.  The
\* proposer drops the PREEMPTED it gets, so this proposal never closes.
Overtaken ==
    \E a \in AcceptorId : \E i \in Open(proposer.accept) :
        records[a][i].ballot > proposer.accept[i].ballot

\* Every client's packet the proposer received is accepted in the end, although
\* the network loses prepares, promises, accepts and votes: the timer repeats
\* what is missing.
RequestsAreAccepted ==
    \A n \in 1 .. Cardinality(Request) :
        Received >= n ~> Cardinality(Accepted) >= n \/ Overtaken

-----------------------------------------------------------------------------
(***************************************************************************)
(* The inductive invariant behind the properties.  Its parts are stated of *)
(* any proposer p, packets net and answers sent, so that they can be       *)
(* followed through a handler.                                             *)
(***************************************************************************)

\* An instance is in one table, with a ballot, and the window slides.
Ordered(p) ==
    /\ \A i \in Open(p.prepare) : p.prepare[i].ballot > 0
    /\ \A i \in Open(p.accept) : p.accept[i].ballot > 0
    /\ Open(p.accept) \subseteq (1 .. p.next_prepare_iid) \ Open(p.prepare)
    /\ Cardinality(Open(p.prepare)) <= BURST_SIZE
    /\ Open(p.prepare) = p.next_prepare_iid - Cardinality(Open(p.prepare)) + 1
                           .. p.next_prepare_iid

\* The acceptors a table names did answer, and an instance that left a table had
\* its quorum.
Backed(p, sent) ==
    /\ \A i \in Open(p.prepare) :
          p.prepare[i].quorum \subseteq Promised(sent, i, p.prepare[i].ballot)
    /\ \A i \in Open(p.accept) :
          /\ p.accept[i].quorum \subseteq Voted(sent, i, p.accept[i].ballot)
          /\ Quorum(Promised(sent, i, p.accept[i].ballot))
    /\ \A i \in 1 .. p.next_prepare_iid :
          i \notin Open(p.prepare) \cup Open(p.accept) => Chosen(sent, i)

\* What the packets on their way say is true.
Truthful(net, sent) ==
    \A m \in net :
        /\ m.msgtype = "ACCEPT" => Quorum(Promised(sent, m.inst, m.rnd))
        /\ m.msgtype = "PROMISE" => m.acptid \in Promised(sent, m.inst, m.rnd)
        /\ m.msgtype = "ACCEPTED" => m.acptid \in Voted(sent, m.inst, m.rnd)

\* The clients' packets in the queue and in the instances that left phase 1.
Total(p) == p.values + (p.next_prepare_iid - Cardinality(Open(p.prepare)))

\* No instance is missing in the window.
Full(p) ==
    p.next_prepare_iid < MaxInst => Cardinality(Open(p.prepare)) = BURST_SIZE

\* Between two handlers the proposer's tables, the acceptors' records and the
\* packets, lost and repeated as they may be, agree on who promised and who voted,
\* and every client's packet is accounted for.
IInv ==
    /\ TypeOK
    /\ Ordered(proposer)
    /\ Backed(proposer, answers)
    /\ Truthful(msgs, answers)
    /\ Total(proposer) = Received
    /\ started => Full(proposer)
=============================================================================
