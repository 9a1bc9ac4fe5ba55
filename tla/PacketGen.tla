------------------------------ MODULE PacketGen -------------------------------
(***************************************************************************)
(* The load generators of src/dpdk: client, gen_packet and pktgen4learner. *)
(* Each sends a first window of packets and then new ones for the answers  *)
(* it gets.  A packet is the number of its instance.  Counters are read    *)
(* and reset by a timer on another lcore; tx_counter and the latency are   *)
(* treated as rx_counter is and are left out.                              *)
(***************************************************************************)
EXTENDS Integers, FiniteSets

CONSTANTS
    BURST_SIZE,         \* 32: the packets of one receive, and of the tx buffer
    outstanding,        \* -o of gen_packet and pktgen4learner
    MaxInst,            \* bound: the packets of a run
    MaxFaults           \* bound: the packets the NIC refuses or the net loses

ASSUME GenAssumption ==
    /\ BURST_SIZE \in Nat \ {0} /\ outstanding \in Nat \ {0}
    /\ MaxInst \in Nat /\ MaxFaults \in Nat

VARIABLES
    program,            \* which of the three programs runs
    window,             \* the packets of its first burst
    started,            \* lcore_main has sent them
    cur_inst,           \* the next instance number
    tx_buffer,          \* the packets waiting for a burst
    wire,               \* the packets on their way to the tested program
    replies,            \* the answers on their way back
    received,           \* the answers received so far
    rx_counter,         \* those counted since the last report
    reported,           \* those reported
    reporting,          \* report_stat has read the counter and not reset it
    faults              \* the packets refused or lost so far

statVars == <<rx_counter, reported, reporting>>

Programs == {"client", "gen_packet", "pktgen4learner"}
Inst == 1 .. MaxInst

-----------------------------------------------------------------------------
(* The main functions.                                                     *)

Fresh ==
    /\ started = FALSE /\ cur_inst = 1
    /\ tx_buffer = {} /\ wire = {} /\ replies = {}
    /\ received = 0 /\ rx_counter = 0 /\ reported = 0 /\ reporting = FALSE
    /\ faults = 0

client_main == program = "client" /\ window = BURST_SIZE /\ Fresh
gen_packet_main == program = "gen_packet" /\ window = outstanding /\ Fresh
pktgen4learner_main == program = "pktgen4learner" /\ window = outstanding /\ Fresh

-----------------------------------------------------------------------------
(* Sending.                                                                *)

\* The NIC takes all of S but some packets; the others never arrive.  Those the
\* buffered programs drop are freed, the one pktgen4learner keeps is leaked.
Transmit(S) ==
    \E bad \in SUBSET S :
        /\ faults + Cardinality(bad) <= MaxFaults
        /\ faults' = faults + Cardinality(bad)
        /\ wire' = wire \cup (S \ bad)

\* n new packets, while the run has room for them.
NewPackets(n) == cur_inst .. cur_inst + n - 1
HasRoom(n) == cur_inst + n <= MaxInst + 1

\* Mutant: the buffer is flushed one packet too late.
generate_packetsLate(n) ==
    LET all == tx_buffer \cup NewPackets(n)
        rest == Cardinality(all) % (BURST_SIZE + 1)
        waiting == {i \in all : i + rest >= cur_inst + n}
    IN /\ HasRoom(n)
       /\ cur_inst' = cur_inst + n
       /\ tx_buffer' = waiting
       /\ Transmit(all \ waiting)

\* generate_packets of client and gen_packet: a full buffer is flushed at once,
\* what is left waits.
generate_packets(n) ==
    LET all == tx_buffer \cup NewPackets(n)
        rest == Cardinality(all) % BURST_SIZE
        waiting == {i \in all : i + rest >= cur_inst + n}
    IN /\ HasRoom(n)
       /\ cur_inst' = cur_inst + n
       /\ tx_buffer' = waiting
       /\ Transmit(all \ waiting)

\* generate_packet of pktgen4learner, n times: the number is used up also when
\* the NIC does not take the packet.
generate_packet(n) ==
    /\ HasRoom(n)
    /\ cur_inst' = cur_inst + n
    /\ Transmit(NewPackets(n))
    /\ UNCHANGED tx_buffer

\* The drain of the tx buffer in the loops of client and gen_packet.
Drain ==
    /\ started
    /\ tx_buffer # {}
    /\ tx_buffer' = {}
    /\ Transmit(tx_buffer)
    /\ UNCHANGED <<program, window, started, cur_inst, replies, received, statVars>>

\* lcore_main, up to its loop.
Start ==
    /\ ~started
    /\ started' = TRUE
    /\ IF program = "pktgen4learner" THEN generate_packet(window)
                                     ELSE generate_packets(window)
    /\ UNCHANGED <<program, window, replies, received, statVars>>

-----------------------------------------------------------------------------
(* Receiving a burst.                                                      *)

Burst(S) == /\ started
            /\ S # {} /\ Cardinality(S) <= BURST_SIZE
            /\ replies' = replies \ S
            /\ received' = received + Cardinality(S)

\* As many new packets as answers.
client_receive(S) ==
    /\ program = "client"
    /\ Burst(S)
    /\ rx_counter' = rx_counter + Cardinality(S)
    /\ generate_packets(Cardinality(S))

\* check_return: for each answer as many new packets as there are answers.
gen_packet_receive(S) ==
    /\ program = "gen_packet"
    /\ Burst(S)
    /\ rx_counter' = rx_counter + Cardinality(S)
    /\ generate_packets(Cardinality(S) * Cardinality(S))

\* Mutant: as gen_packet does it.
on_receiveSquared(S) ==
    /\ program = "pktgen4learner"
    /\ Burst(S)
    /\ rx_counter' \in rx_counter .. rx_counter + Cardinality(S)
    /\ generate_packet(Cardinality(S) * Cardinality(S))

\* One new packet for each answer.  An answer is not counted if the clock was
\* set back since its request was sent.
on_receive(S) ==
    /\ program = "pktgen4learner"
    /\ Burst(S)
    /\ rx_counter' \in rx_counter .. rx_counter + Cardinality(S)
    /\ generate_packet(Cardinality(S))

Receive ==
    /\ \E S \in SUBSET replies :
           client_receive(S) \/ gen_packet_receive(S) \/ on_receive(S)
    /\ UNCHANGED <<program, window, started, reported, reporting>>

-----------------------------------------------------------------------------
(* report_stat, on its own lcore: read and print, then reset.              *)

others == <<program, window, started, cur_inst, tx_buffer, wire, replies,
            received, faults>>

report_read ==
    /\ ~reporting
    /\ reporting' = TRUE
    /\ reported' = reported + rx_counter
    /\ UNCHANGED <<others, rx_counter>>

\* Mutant: the counter is not reset.
report_resetNot ==
    /\ reporting
    /\ reporting' = FALSE
    /\ UNCHANGED <<others, rx_counter, reported>>

report_reset ==
    /\ reporting
    /\ reporting' = FALSE
    /\ rx_counter' = 0
    /\ UNCHANGED <<others, reported>>
=============================================================================
