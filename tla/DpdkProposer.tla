---------------------------- MODULE DpdkProposer -----------------------------
(***************************************************************************)
(* dpdk/proposer/main.c: a proposer that keeps a window of instances in    *)
(* phase 1 and gives each client's packet the lowest instance that was     *)
(* promised.  Packets are handled on one lcore and timeouts on another,    *)
(* without a lock.  A timeout that reads an instance and sends its message *)
(* later cannot be told from one whose message the network delayed, so     *)
(* each message a timeout sends is one step.                               *)
(*                                                                         *)
(* value_len has 32 bits and the program reads 16 of them, so every value  *)
(* it gets has length 0: clients' values are counted, and promises report  *)
(* none.                                                                   *)
(***************************************************************************)
EXTENDS LibPaxos

CONSTANT BURST_SIZE     \* 32: the instances kept in phase 1

ASSUME ProposerAssumption == BURST_SIZE \in Nat \ {0} /\ IsFiniteSet(Request)

VARIABLES
    first_time,         \* no client's packet came yet
    started,            \* lcore_main has prepared the first instances
    proposer            \* struct proposer

proposerVars == <<first_time, started, proposer>>

Proposer ==
    [next_prepare_iid : 0 .. MaxInst, values : 0 .. Cardinality(Request),
     prepare : [Iid -> Slot], accept : [Iid -> Slot]]

ProposerInit ==
    /\ first_time = TRUE
    /\ started = FALSE
    /\ proposer = [next_prepare_iid |-> 0, values |-> 0,
                   prepare |-> [i \in Iid |-> NoSlot],
                   accept |-> [i \in Iid |-> NoSlot]]

NewSlot(ballot) == [NoSlot EXCEPT !.ballot = ballot]
Put(table, S, slot) == [i \in Iid |-> IF i \in S THEN slot ELSE table[i]]

(* A handler passes on the proposer p as changed so far and `net', the     *)
(* packets on their way with those it sent.                                *)

\* The instances that fill the window; a run ends with instance MaxInst.
Missing(p) ==
    {i \in Iid : i - p.next_prepare_iid
                   \in 1 .. BURST_SIZE - Cardinality(Open(p.prepare))}

\* Mutant: the next instance is skipped.
proposer_prepareSkipping(p, new) ==
    [p EXCEPT !.next_prepare_iid = @ + Cardinality(new) + 1,
              !.prepare = Put(@, new, NewSlot(FirstBallot))]

proposer_prepare(p, new) ==
    [p EXCEPT !.next_prepare_iid = @ + Cardinality(new),
              !.prepare = Put(@, new, NewSlot(FirstBallot))]
Prepares(new) == {Prepare(i, FirstBallot) : i \in new}

proposer_preexecute(p, net) ==
    \E new \in {Missing(p)} :
        /\ proposer' = proposer_prepare(p, new)
        /\ msgs' = net \cup Prepares(new)

\* Mutant: the queue keeps the values that were proposed.
proposeKeeping(p, net, taken) ==
    \E q \in {[p EXCEPT
                 !.prepare = Put(@, taken, NoSlot),
                 !.accept = [i \in Iid |-> IF i \in taken
                               THEN NewSlot(p.prepare[i].ballot) ELSE @[i]]]} :
        proposer_preexecute(
            q, net \cup {Accept(i, q.accept[i].ballot, Empty) : i \in taken})

\* Mutant: the instance is not put into the table of phase 2.
proposeForgetting(p, net, taken) ==
    \E q \in {[p EXCEPT !.values = @ - Cardinality(taken),
                        !.prepare = Put(@, taken, NoSlot)]} :
        proposer_preexecute(
            q, net \cup {Accept(i, p.prepare[i].ballot, Empty) : i \in taken})

\* Mutant: the window is not refilled.
proposeStopping(p, net, taken) ==
    \E q \in {[p EXCEPT
                 !.values = @ - Cardinality(taken),
                 !.prepare = Put(@, taken, NoSlot),
                 !.accept = [i \in Iid |-> IF i \in taken
                               THEN NewSlot(p.prepare[i].ballot) ELSE @[i]]]} :
        /\ proposer' = q
        /\ msgs' = net \cup {Accept(i, q.accept[i].ballot, Empty) : i \in taken}

\* The instances in `taken' go from phase 1 to phase 2, with a value each.  The
\* value in the ACCEPT is what the packet buffer held before, left out here.
propose(p, net, taken) ==
    \E q \in {[p EXCEPT
                 !.values = @ - Cardinality(taken),
                 !.prepare = Put(@, taken, NoSlot),
                 !.accept = [i \in Iid |-> IF i \in taken
                               THEN NewSlot(p.prepare[i].ballot) ELSE @[i]]]} :
        proposer_preexecute(
            q, net \cup {Accept(i, q.accept[i].ballot, Empty) : i \in taken})

\* Mutant: the promises are not waited for.
try_acceptEarly(p, net) ==
    \E taken \in {{i \in Open(p.prepare) :
                     Cardinality({j \in Open(p.prepare) : j <= i}) <= p.values}} :
        propose(p, net, taken)

\* Propose whatever can be proposed, then refill the window.
try_accept(p, net) ==
    \E taken \in {proposer_accept_all(p.prepare, p.values)} :
        propose(p, net, taken)

-----------------------------------------------------------------------------
(* The cases of paxos_rx_process.                                          *)

proposer_handle_promise(m, net) ==
    LET old == proposer.prepare[m.inst]
    IN \E slot \in {proposer_receive_promise(old, m.acptid, m.rnd)} :
        try_accept([proposer EXCEPT !.prepare[m.inst] = slot],
                   IF Preempts(old, m.rnd)
                   THEN net \cup {Prepare(m.inst, slot.ballot)} ELSE net)

\* A client's packet; the very first one prepares instances before.
proposer_handle_accept(net) ==
    /\ first_time' = FALSE
    /\ \E new \in {IF first_time THEN Missing(proposer) ELSE {}} :
       \E p \in {[proposer_prepare(proposer, new) EXCEPT !.values = @ + 1]} :
           try_accept(p, net \cup Prepares(new))

proposer_handle_accepted(m, net) ==
    IF VoteCounts(proposer.accept[m.inst], m.acptid, m.rnd)
    THEN \E p \in {[proposer EXCEPT !.accept[m.inst] =
                        proposer_receive_accepted(@, m.acptid)]} :
            try_accept(p, net)
    ELSE msgs' = net /\ UNCHANGED proposer

-----------------------------------------------------------------------------
(* check_timeout: an instance without a quorum sends its message again.    *)

\* Mutant: only phase 1 is retried.
timed_outPrepares(i) ==
    LET slot == proposer.prepare[i]
    IN IF slot # NoSlot /\ ~quorum_reached(slot)
       THEN {Prepare(i, slot.ballot)} ELSE {}

\* What the two loops may send for instance i.
timed_out(i) ==
    LET slot == proposer.prepare[i]
    IN IF slot # NoSlot /\ ~quorum_reached(slot) THEN {Prepare(i, slot.ballot)}
       ELSE IF i \in Open(proposer.accept)
       THEN {Accept(i, proposer.accept[i].ballot, Empty)}
       ELSE {}
=============================================================================
