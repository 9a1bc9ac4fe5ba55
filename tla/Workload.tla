------------------------------ MODULE Workload --------------------------------
(***************************************************************************)
(* A load generator and the program it tests.  client and gen_packet get   *)
(* every packet back.  pktgen4learner tests the learner of dpdk/learner,   *)
(* playing its only acceptor: a learner that delivers in order, at most    *)
(* one instance for each packet.  The network reorders packets.            *)
(***************************************************************************)
EXTENDS PacketGen

VARIABLES
    closed,             \* the instances the learner has a vote for
    current_iid         \* the instance the learner delivers next

vars == <<program, window, started, cur_inst, tx_buffer, wire, replies,
          received, statVars, faults, closed, current_iid>>

Init ==
    /\ client_main \/ gen_packet_main \/ pktgen4learner_main
    /\ closed = {} /\ current_iid = 1

Generator ==
    /\ Start \/ Drain \/ Receive \/ report_read \/ report_reset
    /\ UNCHANGED <<closed, current_iid>>

\* An answer, unless the network loses it.
Answer(S) ==
    \/ replies' = replies \cup S /\ UNCHANGED faults
    \/ /\ S # {} /\ faults < MaxFaults
       /\ faults' = faults + 1
       /\ UNCHANGED replies

Echo(i) ==
    /\ program # "pktgen4learner"
    /\ i \in wire
    /\ wire' = wire \ {i}
    /\ Answer({i})
    /\ UNCHANGED <<program, window, started, cur_inst, tx_buffer, received,
                   statVars, closed, current_iid>>

\* Mutant: a packet can only deliver its own instance.
deliverOwn(i, S) == IF i = current_iid THEN {i} ELSE {}

\* What the learner delivers on a packet of instance i, the closed ones being S.
deliver(i, S) == S \cap {current_iid}

Learn(i) ==
    /\ program = "pktgen4learner"
    /\ i \in wire
    /\ wire' = wire \ {i}
    /\ \E S \in {deliver(i, closed \cup {i})} :
        /\ closed' = (closed \cup {i}) \ S
        /\ current_iid' = current_iid + Cardinality(S)
        /\ Answer(S)
    /\ UNCHANGED <<program, window, started, cur_inst, tx_buffer, received,
                   statVars>>

Next == Generator \/ \E i \in Inst : Echo(i) \/ Learn(i)

\* The lcore of the generator runs and what is not lost arrives.  An iteration of
\* its loop that is long enough to drain the buffer comes again and again.  The
\* timer need not fire.
Fairness ==
    /\ WF_vars(Generator /\ (Start \/ Drain))
    /\ WF_vars(Generator /\ Receive)
    /\ \A i \in Inst : WF_vars(Echo(i) \/ Learn(i))

Spec == Init /\ [][Next]_vars /\ Fairness

-----------------------------------------------------------------------------
\* Every variable keeps its type.
TypeOK ==
    /\ program \in Programs
    /\ window \in {BURST_SIZE, outstanding}
    /\ started \in BOOLEAN
    /\ cur_inst \in 1 .. MaxInst + 1
    /\ tx_buffer \subseteq Inst /\ Cardinality(tx_buffer) < BURST_SIZE
    /\ wire \subseteq Inst /\ replies \subseteq Inst /\ closed \subseteq Inst
    /\ received \in 0 .. MaxInst
    /\ rx_counter \in 0 .. MaxInst
    /\ reported \in 0 .. MaxInst
    /\ reporting \in BOOLEAN
    /\ faults \in 0 .. MaxFaults
    /\ current_iid \in 1 .. MaxInst + 1

InFlight == Cardinality(tx_buffer) + Cardinality(wire) + Cardinality(closed)
              + Cardinality(replies)

\* "the number of outstanding packets": client and pktgen4learner keep as many
\* packets on their way as in their first burst, less those that were lost,
\* whatever the order of the answers and the sizes of the bursts.
WindowConserved ==
    started /\ program # "gen_packet" => InFlight + faults = window

\* However the network reorders the packets, the learner holds fewer instances
\* back than the generator has outstanding, although each packet makes it
\* deliver one instance at most.
LagBelowWindow == started => Cardinality(closed) < window

\* Answers that arrive while the timer's lcore reports are missing from the
\* statistics, but none is reported twice.
NeverReportedTwice ==
    reported + (IF reporting THEN 0 ELSE rx_counter) <= received

\* The load does not dry up before a packet is lost: an instance the learner
\* holds back is delivered by a packet that comes later.
LoadGoesOn == <>(faults > 0 \/ cur_inst = MaxInst + 1)

-----------------------------------------------------------------------------
(***************************************************************************)
(* The inductive invariant behind the properties.                          *)
(***************************************************************************)

\* A packet is in one place, and has been numbered.
InOnePlace ==
    /\ tx_buffer \cup wire \cup closed \cup replies \subseteq 1 .. cur_inst - 1
    /\ tx_buffer \cap wire = {} /\ tx_buffer \cap closed = {}
    /\ tx_buffer \cap replies = {} /\ wire \cap closed = {}
    /\ wire \cap replies = {} /\ closed \cap replies = {}

\* Every packet sent is on its way, lost or received; client and pktgen4learner
\* send one for each they received, after the first burst.
Accounted ==
    /\ received + InFlight + faults = cur_inst - 1
    /\ ~started => cur_inst = 1
    /\ started /\ program # "gen_packet" => cur_inst = 1 + window + received

\* As long as nothing is lost, the instances from current_iid on are those the
\* learner has a vote for or will get one.
InOrder ==
    /\ current_iid <= cur_inst
    /\ program # "pktgen4learner" => closed = {}
    /\ program = "pktgen4learner" =>
          /\ tx_buffer = {}
          /\ faults = 0 => wire \cup closed = current_iid .. cur_inst - 1

\* Every packet a generator numbered is in one of its buffers, on the wire, lost or
\* counted as received, however bursts, drains and reports interleave.
IInv ==
    /\ TypeOK
    /\ InOnePlace
    /\ Accounted
    /\ InOrder
    /\ LagBelowWindow
    /\ rx_counter <= received
    /\ NeverReportedTwice
=============================================================================
