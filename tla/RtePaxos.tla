------------------------------ MODULE RtePaxos ------------------------------
(***************************************************************************)
(* What the programs of src/dpdk share: the header of rte_paxos.h, as      *)
(* add_paxos_message fills it, and the network between the programs.       *)
(*                                                                         *)
(* `msgs' is the set of all Paxos packets ever sent.  Receiving leaves a   *)
(* packet in it, so a packet may be received late, twice or never.         *)
(* `requests' holds the clients' packets that no coordinator received yet  *)
(* (a lost one stays there);                                               *)
(* `port' is the live bucket of the switch's fast-failover group, which    *)
(* sends a request to the primary coordinator or to the backup.  UDP ports *)
(* are left out.                                                           *)
(***************************************************************************)
EXTENDS Integers, Sequences, FiniteSets

CONSTANTS
    NumAcceptors,   \* -a nb_acceptors of the learners
    Request,        \* the clients' values
    Empty,          \* a value of length 0
    Garbage,        \* what a use after free may leave of a value
    NoValue,        \* NULL where libpaxos keeps a value
    MaxInst         \* bound: the instances of a run

ASSUME RteAssumption ==
    /\ NumAcceptors \in Nat \ {0}
    /\ MaxInst \in Nat
    /\ {Empty, Garbage} \cap Request = {}
    /\ Empty # Garbage
    /\ NoValue \notin Request \cup {Empty, Garbage}

VARIABLES requests, msgs, port

netVars == <<requests, msgs, port>>

AcceptorId == 0 .. NumAcceptors - 1
Iid == 1 .. MaxInst
Value == Request \cup {Empty, Garbage}

\* The ballot the clients write into their packets.
ClientBallot == 1

\* paxos_message of paxos_types.h, in the layout of struct paxos_hdr: the five
\* kinds the programs exchange, which all have the same fields.
PaxosHdr == [msgtype : {"PREPARE", "PROMISE", "ACCEPT", "ACCEPTED", "PREEMPTED"},
             inst : Iid, rnd : Nat, vrnd : Nat, acptid : AcceptorId, value : Value]

\* add_paxos_message for a prepare and for an accept.  Nobody reads the vrnd and
\* the acptid of these, which are left at 0 here.
Prepare(iid, ballot) ==
    [msgtype |-> "PREPARE", inst |-> iid, rnd |-> ballot, vrnd |-> 0,
     acptid |-> 0, value |-> Empty]
Accept(iid, ballot, v) ==
    [msgtype |-> "ACCEPT", inst |-> iid, rnd |-> ballot, vrnd |-> 0,
     acptid |-> 0, value |-> v]

NetInit ==
    /\ requests = Request
    /\ msgs = {}
    /\ port = "primary"

Send(m) == msgs' = msgs \cup {m}

\* The switch's fast-failover group follows the state of the primary's port.
SwitchOver ==
    /\ port' = IF port = "primary" THEN "backup" ELSE "primary"
    /\ UNCHANGED <<requests, msgs>>
=============================================================================
