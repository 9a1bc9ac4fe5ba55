----------------------------- MODULE PaxosHeader -----------------------------
(***************************************************************************)
(* The Paxos header every component of the bmv2 demo parses, and the       *)
(* network between them.                                                   *)
(*                                                                         *)
(* A switch never drops a Paxos packet it does not transform, except a     *)
(* stale one: it broadcasts it to all its other ports.  So a packet can    *)
(* reach a receiver over several paths, in any order, any number of times  *)
(* or never.  `msgs' holds every Paxos packet sent so far; receiving one   *)
(* leaves it there (duplication, reordering), and a lost packet is one     *)
(* that is never received.  The link from the proposer's host to the       *)
(* coordinator switch is the one point-to-point FIFO link of the topology. *)
(***************************************************************************)
EXTENDS Integers, FiniteSets, Sequences

CONSTANTS
    Acceptors,      \* the acceptor switches s2, s3, s4
    Learners,       \* the replicas h2, h3
    NoAcceptor,     \* the acceptor field of a packet no acceptor has stamped
    Commands,       \* the values a proposer submits
    Empty,          \* the all-zero value field of a register never written
    INSTANCE_COUNT, \* 65536: the instances a 16-bit instance field can name
    MAX_REQ_ID      \* 255: the largest request id a one-byte field can hold

ASSUME HeaderAssumption ==
    /\ IsFiniteSet(Acceptors)
    /\ NoAcceptor \notin Acceptors
    /\ Empty \notin Commands
    /\ INSTANCE_COUNT \in Nat \ {0, 1}
    /\ MAX_REQ_ID \in Nat

(***************************************************************************)
(* Requests run out before instances do: 255 request ids per proposer      *)
(* process against 65535 instances.  No instance number is used twice.     *)
(***************************************************************************)
ASSUME NoWrapAssumption == MAX_REQ_ID < INSTANCE_COUNT

Instance == 0 .. INSTANCE_COUNT - 1
Round == 0 .. 255               \* ROUND_SIZE is 8 bits

\* The 64-byte value: Python's one-byte request id and the 63-byte command.
PaxosValue == [req : Nat, cmd : Commands \cup {Empty}]

\* What a register reads before it is written: every bit 0.
ZeroValue == [req |-> 0, cmd |-> Empty]

\* src is the IP source address, kept by the switches: the proposer's host or
\* a learner's, which is all that anybody who reads it tells apart.
Paxos == [msgtype : {"1A", "1B", "2A", "2B"}, inst : Instance, rnd : Round,
          vrnd : Round, acptid : Acceptors \cup {NoAcceptor},
          val : PaxosValue, src : {"proposer", "learner"}]

VARIABLES
    msgs,           \* the Paxos packets sent so far
    uplink,         \* the requests on the wire from the proposer to s1
    responses       \* the datagrams the learners sent to the proposer

network == <<msgs, uplink, responses>>

NetworkInit ==
    /\ msgs = {}
    /\ uplink = << >>
    /\ responses = {}

Send(m) == msgs' = msgs \cup {m}

\* The link drops the packet at its head.
LoseRequest ==
    /\ uplink # << >>
    /\ uplink' = Tail(uplink)
    /\ UNCHANGED <<msgs, responses>>
=============================================================================
