------------------------------ MODULE P4Switch ------------------------------
(***************************************************************************)
(* Paxos with nothing but switches: the leader and the acceptors of p4-16, *)
(* which repeat the logic of p4src's coordinator and acceptors (and add a  *)
(* reset), and the later rounds that paxos_test.py -r injects.  No server  *)
(* takes part.                                                             *)
(*                                                                         *)
(* The instance field of p4src has 16 bits, as many numbers as the         *)
(* register arrays have entries; that of p4-16 has 32.  The number of a    *)
(* packet may so be outside the arrays: a write there has no effect and a  *)
(* read returns anything, so such packets are not followed any further.    *)
(*                                                                         *)
(* `msgs' holds every packet a switch sent.  A packet stays there when it  *)
(* is received, so it may be received late, twice or never.                *)
(***************************************************************************)
EXTENDS Integers, FiniteSets

CONSTANTS
    Acc0, Acc1, Acc2,   \* the acceptors with id 0, 1 and 2
    NoAcc,              \* the acceptor field of a packet no acceptor answered
    Value,              \* the values a packet carries
    Zero,               \* the contents of a register never written
    INSTANCE_COUNT,     \* 65536: the size of the register arrays
    WideInstances,      \* 2^32: the instance numbers of p4-16's header
    MaxRound,           \* bound: the rounds in use are 0 .. MaxRound
    MaxInjected         \* bound: the 1A and 2A of later rounds in a run

ASSUME P4Assumption ==
    /\ Cardinality({Acc0, Acc1, Acc2, NoAcc}) = 4
    /\ Zero \notin Value
    /\ INSTANCE_COUNT \in Nat \ {0}
    /\ WideInstances \in Nat /\ WideInstances >= INSTANCE_COUNT
    /\ MaxRound \in Nat
    /\ MaxInjected \in Nat

Acceptor == {Acc0, Acc1, Acc2}
Inst == 0 .. INSTANCE_COUNT - 1
Round == 0 .. MaxRound

\* paxos_t.  The acceptor field of a packet is 0 until an acceptor answers.
Packet == [msgtype : {"1A", "1B", "2A", "2B"}, inst : Inst, rnd : Round,
           vrnd : Round, acptid : Acceptor \cup {NoAcc},
           paxosval : Value \cup {Zero}]

VARIABLES
    program,            \* which programs the switches run: "p4src" or "p4_16"
    msgs,               \* the packets sent so far
    registerInstance,   \* the leader's last instance
    registerRound,      \* [a][i]: the highest round a has seen in i
    registerVRound,     \* [a][i]: the round of a's last vote in i
    registerValue       \* [a][i]: the value of a's last vote in i

acceptorVars == <<registerRound, registerVRound, registerValue>>

LeaderInit == registerInstance = 0

AcceptorInit ==
    /\ registerRound  = [a \in Acceptor |-> [i \in Inst |-> 0]]
    /\ registerVRound = [a \in Acceptor |-> [i \in Inst |-> 0]]
    /\ registerValue  = [a \in Acceptor |-> [i \in Inst |-> Zero]]

Send(m) == msgs' = msgs \cup {m}

Phase1A(i, r) ==
    [msgtype |-> "1A", inst |-> i, rnd |-> r, vrnd |-> 0, acptid |-> NoAcc,
     paxosval |-> Zero]
Phase2A(i, r, v) ==
    [msgtype |-> "2A", inst |-> i, rnd |-> r, vrnd |-> 0, acptid |-> NoAcc,
     paxosval |-> v]

-----------------------------------------------------------------------------
(* The leader.                                                             *)

InstanceNumbers == IF program = "p4src" THEN INSTANCE_COUNT ELSE WideInstances
NextInstance == (registerInstance + 1) % InstanceNumbers

\* A client's 2A of round 0 gets the next instance.  Nothing keeps the leader
\* from leaving the arrays, or from starting again when the numbers are used up.
increase_instance(v) ==
    /\ registerInstance' = NextInstance
    /\ msgs' = msgs \cup {Phase2A(i, 0, v) : i \in Inst \cap {NextInstance}}

reset_instance ==
    /\ registerInstance' = 0
    /\ UNCHANGED msgs

-----------------------------------------------------------------------------
(* A later round: a 1A or a 2A sent to the acceptors past the leader.      *)

Injected == {m \in msgs : m.rnd > 0 /\ m.acptid = NoAcc}

InjectRound(i, r) ==
    /\ r > 0
    /\ Cardinality(Injected) < MaxInjected
    /\ \/ Send(Phase1A(i, r))
       \/ \E v \in Value : Send(Phase2A(i, r, v))

-----------------------------------------------------------------------------
(* The acceptors.                                                          *)

\* Mutant: no round check.
CurrentAlways(a, m) == TRUE

\* The condition of the apply block.  A packet that fails it changes nothing; in
\* p4-16 it also leaves unmodified, on port 0, since no table drops it.
Current(a, m) == m.rnd >= registerRound[a][m.inst]

handle_1a(a, m) ==
    /\ m.msgtype = "1A"
    /\ Current(a, m)
    /\ Send([m EXCEPT !.msgtype = "1B", !.acptid = a,
                      !.vrnd = registerVRound[a][m.inst],
                      !.paxosval = registerValue[a][m.inst]])
    /\ registerRound' = [registerRound EXCEPT ![a][m.inst] = m.rnd]
    /\ UNCHANGED <<registerVRound, registerValue>>

\* Mutant: the vote is not entered into the round register.
handle_2aForgetting(a, m) ==
    /\ m.msgtype = "2A"
    /\ Current(a, m)
    /\ Send([m EXCEPT !.msgtype = "2B", !.acptid = a])
    /\ registerVRound' = [registerVRound EXCEPT ![a][m.inst] = m.rnd]
    /\ registerValue'  = [registerValue  EXCEPT ![a][m.inst] = m.paxosval]
    /\ UNCHANGED registerRound

handle_2a(a, m) ==
    /\ m.msgtype = "2A"
    /\ Current(a, m)
    /\ Send([m EXCEPT !.msgtype = "2B", !.acptid = a])
    /\ registerRound'  = [registerRound  EXCEPT ![a][m.inst] = m.rnd]
    /\ registerVRound' = [registerVRound EXCEPT ![a][m.inst] = m.rnd]
    /\ registerValue'  = [registerValue  EXCEPT ![a][m.inst] = m.paxosval]
=============================================================================
