------------------------------ MODULE Netronome -------------------------------
(***************************************************************************)
(* netrodemo/paxos.c: coordinator and acceptor as C functions that a P4    *)
(* program calls on the threads of a network processor.  The threads of a  *)
(* core share pkt_inst, cur_instance and the register arrays.  A core      *)
(* switches threads where one accesses external memory, that is at every   *)
(* access to an array and nowhere else, and each access looks at pkt_inst  *)
(* anew.                                                                   *)
(*                                                                         *)
(* The eight arrays of a value are one array here, accessed in one step,   *)
(* and a reset clears the ten registers of an instance in one step.  What  *)
(* a thread could see in between concerns only packets of an instance that *)
(* is handled or reset at the same time, which no property speaks of.  The *)
(* functions are modelled as the rules for paxos_tbl call them.            *)
(***************************************************************************)
EXTENDS Integers, FiniteSets

CONSTANTS
    Thread,             \* the threads of a core
    Value,              \* the values packets carry
    Zero,               \* the contents of a register that was reset
    MAX_INST,           \* 2000000: the size of the arrays
    InstanceNumbers,    \* 2^32: the values of cur_instance
    MaxRound,           \* bound: the rounds of packets are 1 .. MaxRound
    MaxPackets          \* bound: the packets of a run

ASSUME NetronomeAssumption ==
    /\ MAX_INST \in Nat \ {0} /\ InstanceNumbers \in Nat \ {0}
    /\ MaxRound \in Nat /\ MaxPackets \in Nat
    /\ Zero \notin Value

VARIABLES
    pkt_inst,           \* the instance of the packet that came in last
    cur_instance,       \* the next instance number
    rnds, vrnds, values,
    thread,             \* thread[t]: where t is and the packet it handles
    sent,               \* the acceptor's answers since the last reset
    packets,            \* the number of packets so far
    disturbed           \* the instances of packets handled at the same time

vars == <<pkt_inst, cur_instance, rnds, vrnds, values, thread, sent, packets,
          disturbed>>

Inst == 0 .. MAX_INST - 1
Round == 0 .. MaxRound

Packet == [msgtype : {"Phase1A", "Phase1B", "Phase2A", "Phase2B"}, inst : Inst,
           rnd : Round, vrnd : Round, val : Value \cup {Zero}]
NoPacket == [msgtype |-> "Phase2A", inst |-> 0, rnd |-> 0, vrnd |-> 0,
             val |-> Zero]

Idle == [pc |-> "idle", m |-> NoPacket, rnd |-> 0, i |-> 0]
Threads == [pc : {"idle", "check", "vrnd", "value", "reset"}, m : Packet,
            rnd : Round, i : 0 .. MAX_INST]

Active == {t \in Thread : thread[t].pc # "idle"}
Resetting == {t \in Thread : thread[t].pc = "reset"}

Init ==
    /\ pkt_inst = 0 /\ cur_instance = 0
    /\ rnds = [i \in Inst |-> 0]
    /\ vrnds = [i \in Inst |-> 0]
    /\ values = [i \in Inst |-> Zero]
    /\ thread = [t \in Thread |-> Idle]
    /\ sent = {} /\ packets = 0 /\ disturbed = {}

Input == packets < MaxPackets /\ packets' = packets + 1

-----------------------------------------------------------------------------
(* The coordinator, pif_plugin_seq_func: no access to external memory.     *)

\* A client's packet gets cur_instance as its number and goes on to acceptors on
\* other cards; the ones that come in here are any of `Requests'.
seq_func ==
    /\ Input
    /\ cur_instance' = (cur_instance + 1) % InstanceNumbers
    /\ UNCHANGED <<pkt_inst, rnds, vrnds, values, thread, sent, disturbed>>

-----------------------------------------------------------------------------
(* The acceptor, pif_plugin_paxos_phase1a and _phase2a, access by access.  *)

\* pkt_inst is set and the round of the instance is read.
Enter(t, m) ==
    /\ Input
    /\ thread[t] = Idle
    /\ pkt_inst' = m.inst
    /\ thread' = [thread EXCEPT ![t] = [pc |-> "check", m |-> m,
                                        rnd |-> rnds[m.inst], i |-> 0]]
    /\ disturbed' = IF Active = {} THEN disturbed
                    ELSE disturbed \cup {m.inst}
                           \cup {thread[u].m.inst : u \in Active \ Resetting}
    /\ UNCHANGED <<cur_instance, rnds, vrnds, values, sent>>

\* Mutant: the round is not compared.
TooLowNever(t) == FALSE

TooLow(t) == thread[t].m.rnd < thread[t].rnd

Drop(t) ==
    /\ thread[t].pc = "check"
    /\ TooLow(t)
    /\ thread' = [thread EXCEPT ![t] = Idle]
    /\ UNCHANGED <<pkt_inst, cur_instance, rnds, vrnds, values, sent, packets,
                   disturbed>>

WriteRound(t) ==
    /\ thread[t].pc = "check"
    /\ ~TooLow(t)
    /\ rnds' = [rnds EXCEPT ![pkt_inst] = thread[t].m.rnd]
    /\ thread' = [thread EXCEPT ![t].pc = "vrnd"]
    /\ UNCHANGED <<pkt_inst, cur_instance, vrnds, values, sent, packets, disturbed>>

\* Phase 1 reads the value round, phase 2 writes it.
AccessVRound(t) ==
    LET m == thread[t].m
    IN /\ thread[t].pc = "vrnd"
       /\ IF m.msgtype = "Phase1A"
          THEN /\ thread' = [thread EXCEPT ![t].pc = "value",
                                           ![t].m.vrnd = vrnds[pkt_inst]]
               /\ UNCHANGED vrnds
          ELSE /\ thread' = [thread EXCEPT ![t].pc = "value"]
               /\ vrnds' = [vrnds EXCEPT ![pkt_inst] = m.rnd]
       /\ UNCHANGED <<pkt_inst, cur_instance, rnds, values, sent, packets, disturbed>>

\* Likewise the value; the packet is forwarded.
AccessValue(t) ==
    LET m == thread[t].m
    IN /\ thread[t].pc = "value"
       /\ IF m.msgtype = "Phase1A"
          THEN /\ sent' = sent \cup {[m EXCEPT !.msgtype = "Phase1B",
                                               !.val = values[pkt_inst]]}
               /\ UNCHANGED values
          ELSE /\ sent' = sent \cup {[m EXCEPT !.msgtype = "Phase2B"]}
               /\ values' = [values EXCEPT ![pkt_inst] = m.val]
       /\ thread' = [thread EXCEPT ![t] = Idle]
       /\ UNCHANGED <<pkt_inst, cur_instance, rnds, vrnds, packets, disturbed>>

-----------------------------------------------------------------------------
(* pif_plugin_reset_registers: one instance after the other.  What was     *)
(* sent before no longer counts, and only packets handled during the reset *)
(* and the instance they write to are disturbed.                           *)

EnterReset(t) ==
    /\ Input
    /\ thread[t] = Idle
    /\ cur_instance' = 0
    /\ thread' = [thread EXCEPT ![t] = [Idle EXCEPT !.pc = "reset"]]
    /\ sent' = {}
    /\ disturbed' = IF Active \subseteq Resetting THEN {}
                    ELSE {pkt_inst} \cup {thread[u].m.inst : u \in Active \ Resetting}
    /\ UNCHANGED <<pkt_inst, rnds, vrnds, values>>

\* Mutant: the last instance is left out.
LastIndexShort == MAX_INST - 1

\* Mutant: one index past the last.
LastIndexPast == MAX_INST + 1

LastIndex == MAX_INST

\* Mutant: the promised rounds stay.
ResetNextKeeping(t) ==
    LET i == thread[t].i
    IN /\ thread[t].pc = "reset"
       /\ IF i < LastIndex
          THEN /\ vrnds' = [vrnds EXCEPT ![i] = 0]
               /\ values' = [values EXCEPT ![i] = Zero]
               /\ thread' = [thread EXCEPT ![t].i = i + 1]
          ELSE /\ thread' = [thread EXCEPT ![t] = Idle]
               /\ UNCHANGED <<vrnds, values>>
       /\ UNCHANGED <<pkt_inst, cur_instance, rnds, sent, packets, disturbed>>

ResetNext(t) ==
    LET i == thread[t].i
    IN /\ thread[t].pc = "reset"
       /\ IF i < LastIndex
          THEN /\ rnds' = [rnds EXCEPT ![i] = 0]
               /\ vrnds' = [vrnds EXCEPT ![i] = 0]
               /\ values' = [values EXCEPT ![i] = Zero]
               /\ thread' = [thread EXCEPT ![t].i = i + 1]
          ELSE /\ thread' = [thread EXCEPT ![t] = Idle]
               /\ UNCHANGED <<rnds, vrnds, values>>
       /\ UNCHANGED <<pkt_inst, cur_instance, sent, packets, disturbed>>

-----------------------------------------------------------------------------
\* What comes in for the acceptor.  paxos.c checks neither the instance nor the
\* round of a packet; the ones of generate_packets.py have an instance within the
\* arrays and a round above 0, and only these are modelled.
Requests == {m \in Packet : m.msgtype \in {"Phase1A", "Phase2A"} /\ m.rnd > 0
                /\ m.vrnd = 0 /\ (m.val = Zero <=> m.msgtype = "Phase1A")}

Next ==
    \/ seq_func
    \/ \E t \in Thread :
          \/ \E m \in Requests : Enter(t, m)
          \/ Drop(t) \/ WriteRound(t) \/ AccessVRound(t) \/ AccessValue(t)
          \/ EnterReset(t) \/ ResetNext(t)

Spec == Init /\ [][Next]_vars

-----------------------------------------------------------------------------
\* Every variable keeps its type.
TypeOK ==
    /\ pkt_inst \in Inst
    /\ cur_instance \in 0 .. InstanceNumbers - 1
    /\ rnds \in [Inst -> Round] /\ vrnds \in [Inst -> Round]
    /\ values \in [Inst -> Value \cup {Zero}]
    /\ thread \in [Thread -> Threads]
    /\ sent \subseteq Packet
    /\ packets \in 0 .. MaxPackets
    /\ disturbed \subseteq Inst

Votes(i) == {m \in sent : m.msgtype = "Phase2B" /\ m.inst = i}
Promises(i) == {m \in sent : m.msgtype = "Phase1B" /\ m.inst = i}

\* The harm of sharing pkt_inst and of the unlocked arrays is confined to the
\* instances whose packets were handled at the same time as another packet: in
\* every other instance a promise is kept, and it reports a vote that was cast,
\* although other threads wrote elsewhere meanwhile and before.
SerialPromises ==
    \A i \in Inst \ disturbed : \A p \in Promises(i) :
        /\ \A v \in Votes(i) : v.rnd < p.rnd => v.rnd <= p.vrnd
        /\ p.vrnd > 0 => \E v \in Votes(i) : v.rnd = p.vrnd /\ v.val = p.val

\* Likewise, between packets and outside a reset, such an instance has in its
\* registers its last vote since the reset, or nothing.
SerialRegisters ==
    Resetting = {} =>
        \A i \in Inst \ disturbed :
            (\A t \in Active : thread[t].m.inst # i) =>
                /\ vrnds[i] <= rnds[i]
                /\ IF vrnds[i] = 0 THEN Votes(i) = {}
                   ELSE \E v \in Votes(i) : v.rnd = vrnds[i] /\ v.val = values[i]

\* Likewise, such an instance has in its round register the round of an answer
\* given since the reset, or 0: no promise outlives the reset, a second reset that
\* overlaps it included, and no round is kept without an answer.
NoOrphanRounds ==
    Resetting = {} =>
        \A i \in Inst \ disturbed :
            (\A t \in Active : thread[t].m.inst # i) =>
                \/ rnds[i] = 0
                \/ \E m \in Votes(i) \cup Promises(i) : m.rnd = rnds[i]

-----------------------------------------------------------------------------
(***************************************************************************)
(* The inductive invariant behind the properties.                          *)
(***************************************************************************)

\* The threads that handle a packet, and those that handle one of instance i.
Busy == Active \ Resetting
Handling(i) == {t \in Busy : thread[t].m.inst = i}

\* A thread handles a packet alone, and so writes to its packet's instance, or
\* both its packet's instance and the one it writes to are disturbed.
Alone ==
    \A t \in Busy :
        \/ Active = {t} /\ pkt_inst = thread[t].m.inst
        \/ {pkt_inst, thread[t].m.inst} \subseteq disturbed

\* What a busy thread handles.
Handled ==
    \A t \in Busy : /\ thread[t].m.rnd > 0
                    /\ thread[t].m.msgtype \in {"Phase1A", "Phase2A"}

\* During a reset nothing counts in an undisturbed instance, and either some
\* thread that resets has left only zeros behind it, or one that did has finished.
ResetsClear ==
    Resetting # {} =>
        /\ \A i \in Inst \ disturbed : Votes(i) = {} /\ Promises(i) = {}
        /\ \E n \in {MAX_INST} \cup {thread[t].i : t \in Resetting} :
              \A i \in Inst \ disturbed : i < n => rnds[i] = 0 /\ vrnds[i] = 0

\* A vote that is being written: its round is in the register, its value not.
Voting(i) == {t \in Handling(i) : thread[t].pc = "value"
                                    /\ thread[t].m.msgtype = "Phase2A"}

\* A packet whose round is in the register, and which is not answered yet.
Answering(i) == {t \in Handling(i) : thread[t].pc \in {"vrnd", "value"}}

\* The registers of an instance bound what was sent in it ...
Bounding(i) ==
    /\ vrnds[i] <= rnds[i]
    /\ \A v \in Votes(i) : v.rnd <= vrnds[i]
    /\ \A p \in Promises(i) : p.rnd <= rnds[i]

\* ... and hold the last vote ...
Recorded(i) ==
    IF vrnds[i] = 0 THEN Votes(i) = {}
    ELSE \E v \in Votes(i) : v.rnd = vrnds[i] /\ v.val = values[i]

\* ... and the round of an answer ...
Answered(i) ==
    rnds[i] = 0 \/ \E m \in Votes(i) \cup Promises(i) : m.rnd = rnds[i]

\* ... and a thread has read and written them.
Followed(t) ==
    LET m == thread[t].m
    IN /\ thread[t].pc = "check" => thread[t].rnd = rnds[m.inst]
       /\ thread[t].pc \in {"vrnd", "value"} => rnds[m.inst] = m.rnd
       /\ thread[t].pc = "value" =>
             vrnds[m.inst] = IF m.msgtype = "Phase1A" THEN m.vrnd ELSE m.rnd

RegistersHold ==
    Resetting = {} =>
        \A i \in Inst \ disturbed :
            /\ Bounding(i)
            /\ Voting(i) = {} => Recorded(i)
            /\ Answering(i) = {} => Answered(i)
            /\ \A t \in Handling(i) : Followed(t)

\* A thread inside pif_plugin_paxos_acceptor or the reset handles its instance alone
\* or has it marked as disturbed, and what it read before it gave up the core is
\* still in the registers of every other instance.
IInv ==
    /\ TypeOK
    /\ Alone
    /\ Handled
    /\ ResetsClear
    /\ RegistersHold
    /\ SerialPromises
=============================================================================
