--------------------------- MODULE Netronome_proofs ---------------------------
(***************************************************************************)
(* Theorems about Netronome, for any number of threads, instances, rounds  *)
(* and values: what the threads of netrodemo/paxos.c do to each other does *)
(* not reach an instance whose packets were handled alone.                 *)
(***************************************************************************)
EXTENDS Netronome, TLAPS

USE NetronomeAssumption

-----------------------------------------------------------------------------
(* Threads and packets.                                                    *)

\* Thread t goes to state x; no other thread moves.
Moves(t, x) == thread' = [thread EXCEPT ![t] = x]

LEMMA ThreadsAfter ==
    ASSUME TypeOK, NEW t \in Thread, NEW x \in Threads, Moves(t, x)
    PROVE  /\ thread' \in [Thread -> Threads]
           /\ thread'[t] = x
           /\ \A u \in Thread \ {t} : thread'[u] = thread[u]
           /\ Active' = IF x.pc = "idle" THEN Active \ {t} ELSE Active \cup {t}
           /\ Resetting' = IF x.pc = "reset" THEN Resetting \cup {t}
                                             ELSE Resetting \ {t}
<1>1. thread \in [Thread -> Threads]
    BY DEF TypeOK
<1>2. /\ thread' \in [Thread -> Threads] /\ thread'[t] = x
      /\ \A u \in Thread \ {t} : thread'[u] = thread[u]
    BY <1>1 DEF Moves
<1>3. Active' = IF x.pc = "idle" THEN Active \ {t} ELSE Active \cup {t}
    BY <1>2 DEF Active
<1>4. Resetting' = IF x.pc = "reset" THEN Resetting \cup {t} ELSE Resetting \ {t}
    BY <1>2 DEF Resetting
<1> QED
    BY <1>2, <1>3, <1>4

LEMMA ConstantTypes ==
    /\ NoPacket \in Packet /\ Idle \in Threads
    /\ Idle.pc = "idle" /\ 0 \in Inst /\ 0 \in Round
<1>1. 0 \in Inst /\ 0 \in Round
    BY DEF Inst, Round
<1>2. NoPacket \in Packet
    BY <1>1 DEF NoPacket, Packet
<1> QED
    BY <1>1, <1>2 DEF Idle, Threads

\* The fields of a thread and of its packet.
LEMMA ThreadFields ==
    ASSUME TypeOK, NEW t \in Thread
    PROVE  /\ thread[t] \in Threads /\ thread[t].m \in Packet
           /\ thread[t].m.inst \in Inst /\ thread[t].m.rnd \in Round
           /\ thread[t].m.vrnd \in Round /\ thread[t].m.val \in Value \cup {Zero}
           /\ thread[t].rnd \in Round /\ thread[t].i \in 0 .. MAX_INST
BY DEF TypeOK, Threads, Packet

-----------------------------------------------------------------------------
(* Type correctness.                                                       *)

LEMMA TypeStep == TypeOK /\ [Next]_vars => TypeOK'
<1> SUFFICES ASSUME TypeOK, [Next]_vars PROVE TypeOK'
    OBVIOUS
<1>1. ASSUME seq_func PROVE TypeOK'
    <2>1. (cur_instance + 1) % InstanceNumbers \in 0 .. InstanceNumbers - 1
        BY DEF TypeOK
    <2> QED
        BY <1>1, <2>1 DEF seq_func, Input, TypeOK
<1>2. ASSUME NEW t \in Thread, NEW m \in Requests, Enter(t, m) PROVE TypeOK'
    <2>1. m \in Packet /\ m.inst \in Inst
        BY DEF Requests, Packet
    <2>2. [pc |-> "check", m |-> m, rnd |-> rnds[m.inst], i |-> 0] \in Threads
        BY <2>1 DEF TypeOK, Threads
    <2>3. disturbed' \subseteq Inst
        <3>1. {thread[u].m.inst : u \in Active \ Resetting} \subseteq Inst
            BY ThreadFields DEF Active
        <3> QED
            BY <1>2, <2>1, <3>1 DEF Enter, TypeOK
    <2> QED
        BY <1>2, <2>1, <2>2, <2>3 DEF Enter, Input, TypeOK
<1>3. ASSUME NEW t \in Thread, Drop(t) PROVE TypeOK'
    BY <1>3, ConstantTypes DEF Drop, TypeOK
<1>4. ASSUME NEW t \in Thread, WriteRound(t) PROVE TypeOK'
    <2>1. [thread[t] EXCEPT !.pc = "vrnd"] \in Threads
        BY ThreadFields DEF Threads
    <2> QED
        BY <1>4, <2>1, ThreadFields DEF WriteRound, TypeOK
<1>5. ASSUME NEW t \in Thread, AccessVRound(t) PROVE TypeOK'
    <2>1. vrnds[pkt_inst] \in Round /\ thread[t] \in Threads
        BY ThreadFields DEF TypeOK
    <2>2. /\ [thread[t] EXCEPT !.pc = "value"] \in Threads
          /\ [thread[t] EXCEPT !.pc = "value", !.m.vrnd = vrnds[pkt_inst]] \in Threads
        BY <2>1 DEF Threads, Packet
    <2> QED
        BY <1>5, <2>2, ThreadFields DEF AccessVRound, TypeOK
<1>6. ASSUME NEW t \in Thread, AccessValue(t) PROVE TypeOK'
    <2>1. /\ values[pkt_inst] \in Value \cup {Zero} /\ thread[t].m \in Packet
          /\ thread[t].m.val \in Value \cup {Zero}
        BY ThreadFields DEF TypeOK
    <2>2. /\ [thread[t].m EXCEPT !.msgtype = "Phase1B", !.val = values[pkt_inst]] \in Packet
          /\ [thread[t].m EXCEPT !.msgtype = "Phase2B"] \in Packet
        BY <2>1 DEF Packet
    <2> QED
        BY <1>6, <2>1, <2>2, ConstantTypes DEF AccessValue, TypeOK
<1>7. ASSUME NEW t \in Thread, EnterReset(t) PROVE TypeOK'
    <2>1. [Idle EXCEPT !.pc = "reset"] \in Threads
        BY ConstantTypes DEF Threads
    <2>2. {thread[u].m.inst : u \in Active \ Resetting} \subseteq Inst
        BY ThreadFields DEF Active
    <2> QED
        BY <1>7, <2>1, <2>2 DEF EnterReset, Input, TypeOK
<1>8. ASSUME NEW t \in Thread, ResetNext(t) PROVE TypeOK'
    <2>1. thread[t] \in Threads /\ thread[t].i \in 0 .. MAX_INST
        BY ThreadFields
    <2>2. CASE thread[t].i < LastIndex
        <3>1. thread[t].i + 1 \in 0 .. MAX_INST /\ thread[t].i \in Inst
            BY <2>1, <2>2 DEF LastIndex, Inst
        <3>2. [thread[t] EXCEPT !.i = thread[t].i + 1] \in Threads
            BY <2>1, <3>1 DEF Threads
        <3> QED
            BY <1>8, <2>2, <3>1, <3>2, ConstantTypes DEF ResetNext, TypeOK
    <2>3. CASE ~(thread[t].i < LastIndex)
        BY <1>8, <2>3, ConstantTypes DEF ResetNext, TypeOK
    <2> QED
        BY <2>2, <2>3
<1>9. CASE UNCHANGED vars
    BY <1>9 DEF vars, TypeOK
<1> QED
    BY <1>1, <1>2, <1>3, <1>4, <1>5, <1>6, <1>7, <1>8, <1>9 DEF Next

-----------------------------------------------------------------------------
(* One instance.                                                           *)

\* What RegistersHold and SerialPromises say of one instance.
RegistersAt(i) ==
    /\ Bounding(i)
    /\ Voting(i) = {} => Recorded(i)
    /\ Answering(i) = {} => Answered(i)
    /\ \A t \in Handling(i) : Followed(t)

PromisesAt(i) ==
    \A p \in Promises(i) :
        /\ \A v \in Votes(i) : v.rnd < p.rnd => v.rnd <= p.vrnd
        /\ p.vrnd > 0 => \E v \in Votes(i) : v.rnd = p.vrnd /\ v.val = p.val

\* A step that leaves instance i alone: its registers, the packets sent in it and
\* the threads that handle it.
Untouched(i) ==
    /\ rnds'[i] = rnds[i] /\ vrnds'[i] = vrnds[i] /\ values'[i] = values[i]
    /\ Votes(i)' = Votes(i) /\ Promises(i)' = Promises(i)
    /\ Handling(i)' = Handling(i)
    /\ \A u \in Handling(i) : thread'[u] = thread[u]

LEMMA UntouchedHolds ==
    ASSUME NEW i \in Inst, Untouched(i)
    PROVE  /\ RegistersAt(i) => RegistersAt(i)'
           /\ PromisesAt(i) => PromisesAt(i)'
<1>1. /\ rnds'[i] = rnds[i] /\ vrnds'[i] = vrnds[i] /\ values'[i] = values[i]
      /\ Votes(i)' = Votes(i) /\ Promises(i)' = Promises(i)
      /\ Handling(i)' = Handling(i)
      /\ \A u \in Handling(i) : thread'[u] = thread[u]
    BY DEF Untouched
<1>2. PromisesAt(i) => PromisesAt(i)'
    BY <1>1 DEF PromisesAt
<1>3. ASSUME RegistersAt(i) PROVE RegistersAt(i)'
    <2>1. Bounding(i)' /\ (Recorded(i) => Recorded(i)') /\ (Answered(i) => Answered(i)')
        BY <1>1, <1>3 DEF RegistersAt, Bounding, Recorded, Answered
    <2>2. Voting(i)' = Voting(i) /\ Answering(i)' = Answering(i)
        BY <1>1 DEF Voting, Answering
    <2>3. ASSUME NEW t \in Handling(i) PROVE Followed(t)'
        <3>1. thread'[t] = thread[t] /\ thread[t].m.inst = i /\ Followed(t)
            BY <1>1, <1>3 DEF RegistersAt, Handling
        <3> QED
            BY <1>1, <3>1 DEF Followed
    <2> QED
        BY <1>1, <1>3, <2>1, <2>2, <2>3 DEF RegistersAt
<1> QED
    BY <1>2, <1>3

\* The two properties, instance by instance.
LEMMA ByInstance ==
    /\ RegistersHold <=> (Resetting = {} => \A i \in Inst \ disturbed : RegistersAt(i))
    /\ SerialPromises <=> \A i \in Inst \ disturbed : PromisesAt(i)
BY DEF RegistersHold, RegistersAt, SerialPromises, PromisesAt

-----------------------------------------------------------------------------
(* The steps of a thread that handles a packet.                            *)

\* Thread t handles a packet and goes on or finishes.  It writes to instance
\* pkt_inst and sends packets of its packet's instance.
BusyStep(t, x) ==
    /\ t \in Busy /\ x \in Threads /\ Moves(t, x)
    /\ x.pc \notin {"reset"}
    /\ x.pc # "idle" => /\ x.m.inst = thread[t].m.inst
                        /\ x.m.rnd = thread[t].m.rnd
                        /\ x.m.msgtype = thread[t].m.msgtype
    /\ \A i \in Inst \ {pkt_inst} :
          rnds'[i] = rnds[i] /\ vrnds'[i] = vrnds[i] /\ values'[i] = values[i]
    /\ sent \subseteq sent'
    /\ \A p \in sent' \ sent : /\ p.inst = thread[t].m.inst
                               /\ p.msgtype \in {"Phase1B", "Phase2B"}
    /\ UNCHANGED <<pkt_inst, disturbed>>

\* The threads after such a step.
LEMMA BusyThreads ==
    ASSUME TypeOK, NEW t, NEW x, BusyStep(t, x)
    PROVE  /\ t \in Thread /\ thread'[t] = x
           /\ \A u \in Thread \ {t} : thread'[u] = thread[u]
           /\ Resetting' = Resetting /\ t \notin Resetting
           /\ Active' = IF x.pc = "idle" THEN Active \ {t} ELSE Active
           /\ Busy' = IF x.pc = "idle" THEN Busy \ {t} ELSE Busy
<1>1. t \in Thread /\ t \in Active /\ t \notin Resetting /\ x \in Threads /\ Moves(t, x)
      /\ x.pc # "reset"
    BY DEF BusyStep, Busy, Active
<1>2. /\ thread'[t] = x
      /\ \A u \in Thread \ {t} : thread'[u] = thread[u]
      /\ Active' = IF x.pc = "idle" THEN Active \ {t} ELSE Active \cup {t}
      /\ Resetting' = IF x.pc = "reset" THEN Resetting \cup {t} ELSE Resetting \ {t}
    BY <1>1, ThreadsAfter
<1>3. Resetting' = Resetting
    BY <1>1, <1>2
<1>4. Active' = IF x.pc = "idle" THEN Active \ {t} ELSE Active
    BY <1>1, <1>2
<1> QED
    BY <1>1, <1>2, <1>3, <1>4 DEF Busy

\* It leaves alone every instance it neither handles nor writes to.
LEMMA BusyLeavesAlone ==
    ASSUME TypeOK, NEW t, NEW x, BusyStep(t, x),
           NEW i \in Inst, i # pkt_inst, i # thread[t].m.inst
    PROVE  Untouched(i)
<1>1. /\ t \in Thread /\ thread'[t] = x
      /\ \A u \in Thread \ {t} : thread'[u] = thread[u]
      /\ Busy' = IF x.pc = "idle" THEN Busy \ {t} ELSE Busy
    BY BusyThreads
<1>2. rnds'[i] = rnds[i] /\ vrnds'[i] = vrnds[i] /\ values'[i] = values[i]
    BY DEF BusyStep
<1>3. Votes(i)' = Votes(i) /\ Promises(i)' = Promises(i)
    BY DEF BusyStep, Votes, Promises
<1>4. t \notin Handling(i) /\ Busy \subseteq Thread
    BY DEF Handling, Busy, Active
<1>5. Handling(i)' = Handling(i)
    <2>1. t \notin Handling(i)'
        BY <1>1 DEF Handling, BusyStep
    <2> QED
        BY <1>1, <1>4, <2>1 DEF Handling
<1> QED
    BY <1>1, <1>2, <1>3, <1>4, <1>5 DEF Untouched, Handling

\* So such a step keeps the invariant, if it does for the instance of a packet
\* that is handled alone.
LEMMA BusyKeeps ==
    ASSUME IInv, TypeOK', NEW t, NEW x, BusyStep(t, x),
           ASSUME Active = {t}, pkt_inst = thread[t].m.inst,
                  pkt_inst \notin disturbed, Resetting = {},
                  RegistersAt(pkt_inst), PromisesAt(pkt_inst)
           PROVE  RegistersAt(pkt_inst)' /\ PromisesAt(pkt_inst)'
    PROVE  IInv'
<1>1. TypeOK /\ Alone /\ Handled /\ ResetsClear /\ RegistersHold /\ SerialPromises
    BY DEF IInv
<1>2. /\ t \in Thread /\ thread'[t] = x
      /\ \A u \in Thread \ {t} : thread'[u] = thread[u]
      /\ Resetting' = Resetting /\ t \notin Resetting /\ t \in Busy
      /\ Active' = IF x.pc = "idle" THEN Active \ {t} ELSE Active
      /\ Busy' = IF x.pc = "idle" THEN Busy \ {t} ELSE Busy
      /\ Busy \subseteq Thread /\ Resetting \subseteq Thread
    BY <1>1, BusyThreads DEF BusyStep, Busy, Active, Resetting
<1>3. pkt_inst' = pkt_inst /\ disturbed' = disturbed
    BY DEF BusyStep
<1>4. \/ Active = {t} /\ pkt_inst = thread[t].m.inst
      \/ {pkt_inst, thread[t].m.inst} \subseteq disturbed
    BY <1>1, <1>2 DEF Alone
<1>5. Alone'
    <2> SUFFICES ASSUME NEW u \in Busy'
                 PROVE  \/ Active' = {u} /\ pkt_inst = thread'[u].m.inst
                        \/ {pkt_inst, thread'[u].m.inst} \subseteq disturbed
        BY <1>3 DEF Alone
    <2>1. u \in Busy /\ u \in Thread /\ thread'[u].m.inst = thread[u].m.inst
        BY <1>2 DEF BusyStep
    <2>2. CASE {pkt_inst, thread[u].m.inst} \subseteq disturbed
        BY <2>1, <2>2
    <2>3. CASE Active = {u} /\ pkt_inst = thread[u].m.inst
        <3>1. u = t
            BY <1>2, <2>3 DEF Busy
        <3> QED
            BY <1>2, <2>1, <2>3, <3>1
    <2> QED
        BY <1>1, <2>1, <2>2, <2>3 DEF Alone
<1>6. Handled'
    <2>1. ASSUME NEW u \in Busy'
          PROVE  thread'[u].m.rnd > 0 /\ thread'[u].m.msgtype \in {"Phase1A", "Phase2A"}
        BY <1>1, <1>2 DEF BusyStep, Handled
    <2> QED
        BY <2>1 DEF Handled
<1>8. ASSUME NEW i \in Inst \ disturbed, ~(Active = {t} /\ i = pkt_inst)
      PROVE  Untouched(i)
    <2>1. i # pkt_inst /\ i # thread[t].m.inst
        BY <1>4, <1>8
    <2> QED
        BY <1>1, <2>1, BusyLeavesAlone
<1>9. ASSUME Active = {t}
      PROVE  Resetting = {} /\ (pkt_inst = thread[t].m.inst \/ pkt_inst \in disturbed)
    BY <1>2, <1>4, <1>9 DEF Active, Resetting
<1>10. ResetsClear'
    <2> SUFFICES ASSUME Resetting # {}
                 PROVE  /\ \A i \in Inst \ disturbed : Votes(i)' = {} /\ Promises(i)' = {}
                        /\ \E n \in {MAX_INST} \cup {thread'[u].i : u \in Resetting} :
                              \A i \in Inst \ disturbed :
                                  i < n => rnds'[i] = 0 /\ vrnds'[i] = 0
        BY <1>2, <1>3 DEF ResetsClear
    <2>1. Active # {t}
        BY <1>2 DEF Active, Resetting
    <2>2. \A i \in Inst \ disturbed : Untouched(i)
        BY <1>8, <2>1
    <2>3. /\ \A i \in Inst \ disturbed : Votes(i) = {} /\ Promises(i) = {}
          /\ \E n \in {MAX_INST} \cup {thread[u].i : u \in Resetting} :
                \A i \in Inst \ disturbed : i < n => rnds[i] = 0 /\ vrnds[i] = 0
        BY <1>1 DEF ResetsClear
    <2>4. {thread'[u].i : u \in Resetting} = {thread[u].i : u \in Resetting}
        BY <1>2
    <2> QED
        BY <2>2, <2>3, <2>4 DEF Untouched
<1>11. RegistersHold'
    <2> SUFFICES ASSUME Resetting = {}, NEW i \in Inst \ disturbed
                 PROVE  RegistersAt(i)'
        BY <1>2, <1>3 DEF RegistersHold, RegistersAt
    <2>1. RegistersAt(i) /\ PromisesAt(i)
        BY <1>1, ByInstance
    <2>2. CASE Active = {t} /\ i = pkt_inst
        <3>1. pkt_inst = thread[t].m.inst /\ pkt_inst \notin disturbed
            BY <1>4, <2>2
        <3>2. RegistersAt(pkt_inst)'
            BY <2>1, <2>2, <3>1
        <3> QED
            BY <1>3, <2>2, <3>2
    <2>3. CASE ~(Active = {t} /\ i = pkt_inst)
        BY <1>8, <2>1, <2>3, UntouchedHolds
    <2> QED
        BY <2>2, <2>3
<1>12. SerialPromises'
    <2> SUFFICES ASSUME NEW i \in Inst \ disturbed
                 PROVE  PromisesAt(i)'
        BY <1>3 DEF SerialPromises, PromisesAt
    <2>1. PromisesAt(i)
        BY <1>1, ByInstance
    <2>2. CASE Active = {t} /\ i = pkt_inst
        <3>1. pkt_inst = thread[t].m.inst /\ pkt_inst \notin disturbed /\ Resetting = {}
            BY <1>4, <1>9, <2>2
        <3>2. RegistersAt(i)
            BY <1>1, <3>1, ByInstance
        <3> QED
            BY <1>3, <2>1, <2>2, <3>1, <3>2
    <2>3. CASE ~(Active = {t} /\ i = pkt_inst)
        BY <1>8, <2>1, <2>3, UntouchedHolds
    <2> QED
        BY <2>2, <2>3
<1> QED
    BY <1>5, <1>6, <1>10, <1>11, <1>12 DEF IInv

\* The one thread that handles a packet, and the packet's instance.
LEMMA AloneHandles ==
    ASSUME TypeOK, NEW t, NEW i \in Inst, Active = {t}, t \in Busy,
           i = thread[t].m.inst, RegistersAt(i)
    PROVE  /\ Handling(i) = {t} /\ Followed(t) /\ Bounding(i)
           /\ Voting(i) = {} => Recorded(i)
           /\ Answering(i) = {} => Answered(i)
<1>1. Handling(i) = {t}
    BY DEF Handling, Busy
<1> QED
    BY <1>1 DEF RegistersAt

LEMMA DropKeeps ==
    ASSUME IInv, TypeOK', NEW t \in Thread, Drop(t)
    PROVE  IInv'
<1>1. /\ thread[t].pc = "check" /\ Moves(t, Idle)
      /\ UNCHANGED <<pkt_inst, cur_instance, rnds, vrnds, values, sent, packets,
                     disturbed>>
    BY DEF Drop, Moves
<1>2. TypeOK
    BY DEF IInv
<1>3. BusyStep(t, Idle)
    BY <1>1, ConstantTypes DEF BusyStep, Busy, Active, Resetting
<1>4. ASSUME Active = {t}, pkt_inst = thread[t].m.inst, pkt_inst \notin disturbed,
             Resetting = {}, RegistersAt(pkt_inst), PromisesAt(pkt_inst)
      PROVE  RegistersAt(pkt_inst)' /\ PromisesAt(pkt_inst)'
    <2>1. PICK i \in Inst : i = pkt_inst
        BY <1>2 DEF TypeOK
    <2>2. t \in Busy /\ pkt_inst' = i
        BY <1>1, <1>3, <2>1 DEF BusyStep
    <2>3. /\ Handling(i) = {t} /\ Bounding(i) /\ (Voting(i) = {} => Recorded(i))
          /\ Answering(i) = {} => Answered(i)
        BY <1>2, <1>4, <2>1, <2>2, AloneHandles
    <2>4. Voting(i) = {} /\ Answering(i) = {}
        BY <1>1, <2>3 DEF Voting, Answering
    <2>5. Handling(i)' = {}
        BY <1>2, <1>3, <1>4, BusyThreads, ConstantTypes DEF Handling, Busy
    <2>6. /\ Votes(i)' = Votes(i) /\ Promises(i)' = Promises(i)
          /\ rnds' = rnds /\ vrnds' = vrnds /\ values' = values
        BY <1>1 DEF Votes, Promises
    <2>7. RegistersAt(i)'
        <3>1. Bounding(i)'
            BY <2>3, <2>6 DEF Bounding
        <3>2. Recorded(i)' /\ Answered(i)'
            BY <2>3, <2>4, <2>6 DEF Recorded, Answered
        <3> QED
            BY <2>5, <3>1, <3>2 DEF RegistersAt
    <2>8. PromisesAt(i)'
        BY <1>4, <2>1, <2>6 DEF PromisesAt
    <2> QED
        BY <2>1, <2>2, <2>7, <2>8
<1> QED
    BY <1>2, <1>3, <1>4, BusyKeeps

\* A round that is written is not below one that was promised or voted in.
LEMMA WriteRoundKeeps ==
    ASSUME IInv, TypeOK', NEW t \in Thread, WriteRound(t)
    PROVE  IInv'
<1> DEFINE x == [thread[t] EXCEPT !.pc = "vrnd"]
<1>1. /\ thread[t].pc = "check" /\ ~TooLow(t) /\ Moves(t, x)
      /\ rnds' = [rnds EXCEPT ![pkt_inst] = thread[t].m.rnd]
      /\ UNCHANGED <<pkt_inst, cur_instance, vrnds, values, sent, packets, disturbed>>
    BY DEF WriteRound, Moves
<1>2. TypeOK /\ thread[t] \in Threads /\ thread[t].m.rnd \in Round
    BY ThreadFields DEF IInv
<1>3. /\ x \in Threads /\ x.pc = "vrnd" /\ x.m = thread[t].m
    BY <1>2 DEF Threads
<1> HIDE DEF x
<1>4. BusyStep(t, x)
    <2>1. \A i \in Inst \ {pkt_inst} : rnds'[i] = rnds[i]
        BY <1>1, <1>2 DEF TypeOK
    <2> QED
        BY <1>1, <1>3, <2>1 DEF BusyStep, Busy, Active, Resetting
<1>5. ASSUME Active = {t}, pkt_inst = thread[t].m.inst, pkt_inst \notin disturbed,
             Resetting = {}, RegistersAt(pkt_inst), PromisesAt(pkt_inst)
      PROVE  RegistersAt(pkt_inst)' /\ PromisesAt(pkt_inst)'
    <2>1. PICK i \in Inst : i = pkt_inst
        BY <1>2 DEF TypeOK
    <2>2. t \in Busy /\ pkt_inst' = i
        BY <1>1, <1>4, <2>1 DEF BusyStep
    <2>3. /\ Handling(i) = {t} /\ Bounding(i) /\ (Voting(i) = {} => Recorded(i))
          /\ Followed(t)
        BY <1>2, <1>5, <2>1, <2>2, AloneHandles
    <2>4. Voting(i) = {}
        BY <1>1, <2>3 DEF Voting
    <2>5. Handling(i)' = {t} /\ Voting(i)' = {} /\ Answering(i)' # {}
        <3>1. thread'[t] = x /\ Busy' = Busy
            BY <1>2, <1>3, <1>4, BusyThreads
        <3>2. Handling(i)' = {t}
            BY <1>3, <1>5, <2>1, <2>2, <3>1 DEF Handling, Busy
        <3> QED
            BY <1>3, <3>1, <3>2 DEF Voting, Answering
    <2>6. /\ Votes(i)' = Votes(i) /\ Promises(i)' = Promises(i)
          /\ vrnds' = vrnds /\ values' = values
          /\ rnds'[i] = thread[t].m.rnd
        BY <1>1, <1>2, <2>1 DEF Votes, Promises, TypeOK
    <2>7. rnds[i] <= rnds'[i] /\ rnds[i] \in Nat /\ rnds'[i] \in Nat /\ vrnds[i] \in Nat
        <3>1. thread[t].rnd = rnds[i]
            BY <1>1, <1>5, <2>1, <2>3 DEF Followed
        <3> QED
            BY <1>1, <1>2, <2>6, <3>1 DEF TooLow, TypeOK, Round
    <2>8. RegistersAt(i)'
        <3>1. Bounding(i)'
            <4>1. \A p \in Promises(i) : p.rnd \in Nat /\ p.rnd <= rnds[i]
                BY <1>2, <2>3 DEF Bounding, Promises, TypeOK, Packet, Round
            <4>2. vrnds[i] <= rnds[i] /\ \A v \in Votes(i) : v.rnd <= vrnds[i]
                BY <2>3 DEF Bounding
            <4> QED
                BY <2>6, <2>7, <4>1, <4>2 DEF Bounding
        <3>2. Recorded(i)'
            BY <2>3, <2>4, <2>6 DEF Recorded
        <3>3. Followed(t)'
            BY <1>2, <1>3, <1>4, <1>5, <2>1, <2>6, BusyThreads DEF Followed
        <3> QED
            BY <2>5, <3>1, <3>2, <3>3 DEF RegistersAt
    <2>9. PromisesAt(i)'
        BY <1>5, <2>1, <2>6 DEF PromisesAt
    <2> QED
        BY <2>1, <2>2, <2>8, <2>9
<1> QED
    BY <1>2, <1>4, <1>5, BusyKeeps

\* Phase 1 takes over the round of the last vote; phase 2 raises it.
LEMMA AccessVRoundKeeps ==
    ASSUME IInv, TypeOK', NEW t \in Thread, AccessVRound(t)
    PROVE  IInv'
<1> DEFINE m == thread[t].m
           x1 == [thread[t] EXCEPT !.pc = "value", !.m.vrnd = vrnds[pkt_inst]]
           x2 == [thread[t] EXCEPT !.pc = "value"]
           first == m.msgtype = "Phase1A"
<1>1. /\ thread[t].pc = "vrnd"
      /\ UNCHANGED <<pkt_inst, cur_instance, rnds, values, sent, packets, disturbed>>
      /\ first => Moves(t, x1) /\ vrnds' = vrnds
      /\ ~first => Moves(t, x2) /\ vrnds' = [vrnds EXCEPT ![pkt_inst] = m.rnd]
    BY DEF AccessVRound, Moves
<1>2. TypeOK /\ Handled /\ thread[t] \in Threads /\ m \in Packet
      /\ pkt_inst \in Inst /\ vrnds[pkt_inst] \in Round
    BY ThreadFields DEF IInv, TypeOK
<1>3. /\ x1 \in Threads /\ x1.pc = "value" /\ x1.m.inst = m.inst
      /\ x1.m.rnd = m.rnd /\ x1.m.msgtype = m.msgtype /\ x1.m.vrnd = vrnds[pkt_inst]
      /\ x2 \in Threads /\ x2.pc = "value" /\ x2.m = m
    BY <1>2 DEF Threads, Packet
<1> DEFINE x == IF first THEN x1 ELSE x2
<1>4. /\ x \in Threads /\ Moves(t, x) /\ x.pc = "value" /\ x.m.inst = m.inst
      /\ x.m.rnd = m.rnd /\ x.m.msgtype = m.msgtype
      /\ first => x.m.vrnd = vrnds[pkt_inst]
    BY <1>1, <1>3
<1> HIDE DEF x, x1, x2
<1>5. BusyStep(t, x)
    <2>1. \A i \in Inst \ {pkt_inst} : vrnds'[i] = vrnds[i]
        BY <1>1, <1>2 DEF TypeOK
    <2> QED
        BY <1>1, <1>4, <2>1 DEF BusyStep, Busy, Active, Resetting
<1>6. ASSUME Active = {t}, pkt_inst = thread[t].m.inst, pkt_inst \notin disturbed,
             Resetting = {}, RegistersAt(pkt_inst), PromisesAt(pkt_inst)
      PROVE  RegistersAt(pkt_inst)' /\ PromisesAt(pkt_inst)'
    <2>1. PICK i \in Inst : i = pkt_inst
        BY <1>2
    <2>2. t \in Busy /\ pkt_inst' = i
        BY <1>1, <1>5, <2>1 DEF BusyStep
    <2>3. /\ Handling(i) = {t} /\ Bounding(i) /\ (Voting(i) = {} => Recorded(i))
          /\ Followed(t)
        BY <1>2, <1>6, <2>1, <2>2, AloneHandles
    <2>4. Voting(i) = {} /\ rnds[i] = m.rnd
        BY <1>1, <1>6, <2>1, <2>3 DEF Voting, Followed
    <2>5. Handling(i)' = {t} /\ thread'[t] = x /\ Answering(i)' # {}
        <3>1. thread'[t] = x /\ Busy' = Busy
            BY <1>2, <1>4, <1>5, BusyThreads
        <3>2. Handling(i)' = {t}
            BY <1>4, <1>6, <2>1, <2>2, <3>1 DEF Handling, Busy
        <3> QED
            BY <1>4, <3>1, <3>2 DEF Answering
    <2>6. /\ Votes(i)' = Votes(i) /\ Promises(i)' = Promises(i)
          /\ rnds' = rnds /\ values' = values
          /\ vrnds'[i] = IF first THEN vrnds[i] ELSE m.rnd
        BY <1>1, <1>2, <2>1 DEF Votes, Promises, TypeOK
    <2>7. /\ vrnds[i] <= vrnds'[i] /\ vrnds'[i] <= rnds'[i]
          /\ vrnds[i] \in Nat /\ vrnds'[i] \in Nat /\ rnds[i] \in Nat
        BY <1>2, <2>3, <2>4, <2>6 DEF Bounding, TypeOK, Round
    <2>8. RegistersAt(i)'
        <3>1. Bounding(i)'
            <4>1. \A v \in Votes(i) : v.rnd \in Nat /\ v.rnd <= vrnds[i]
                BY <1>2, <2>3 DEF Bounding, Votes, TypeOK, Packet, Round
            <4>2. \A p \in Promises(i) : p.rnd <= rnds[i]
                BY <2>3 DEF Bounding
            <4> QED
                BY <2>6, <2>7, <4>1, <4>2 DEF Bounding
        <3>2. Voting(i)' = {} => Recorded(i)'
            <4>1. CASE first
                BY <2>3, <2>4, <2>6, <4>1 DEF Recorded
            <4>2. CASE ~first
                <5>1. m.msgtype = "Phase2A"
                    BY <1>2, <2>2, <4>2 DEF Handled
                <5>2. t \in Voting(i)'
                    BY <1>4, <2>5, <5>1 DEF Voting
                <5> QED
                    BY <5>2
            <4> QED
                BY <4>1, <4>2
        <3>3. Followed(t)'
            BY <1>2, <1>4, <1>6, <2>1, <2>4, <2>5, <2>6 DEF Followed
        <3> QED
            BY <2>5, <3>1, <3>2, <3>3 DEF RegistersAt
    <2>9. PromisesAt(i)'
        BY <1>6, <2>1, <2>6 DEF PromisesAt
    <2> QED
        BY <2>1, <2>2, <2>8, <2>9
<1> QED
    BY <1>2, <1>5, <1>6, BusyKeeps

\* Phase 1 sends its promise with the last vote in it, phase 2 its vote.
LEMMA AccessValueKeeps ==
    ASSUME IInv, TypeOK', NEW t \in Thread, AccessValue(t)
    PROVE  IInv'
<1> DEFINE m == thread[t].m
           p1 == [m EXCEPT !.msgtype = "Phase1B", !.val = values[pkt_inst]]
           p2 == [m EXCEPT !.msgtype = "Phase2B"]
           first == m.msgtype = "Phase1A"
<1>1. /\ thread[t].pc = "value" /\ Moves(t, Idle)
      /\ UNCHANGED <<pkt_inst, cur_instance, rnds, vrnds, packets, disturbed>>
      /\ first => sent' = sent \cup {p1} /\ values' = values
      /\ ~first => sent' = sent \cup {p2} /\ values' = [values EXCEPT ![pkt_inst] = m.val]
    BY DEF AccessValue, Moves
<1>2. TypeOK /\ Handled /\ thread[t] \in Threads /\ m \in Packet
      /\ pkt_inst \in Inst /\ m.rnd \in Round /\ m.vrnd \in Round
    BY ThreadFields DEF IInv, TypeOK
<1>3. /\ p1.msgtype = "Phase1B" /\ p1.inst = m.inst /\ p1.rnd = m.rnd
      /\ p1.vrnd = m.vrnd /\ p1.val = values[pkt_inst]
      /\ p2.msgtype = "Phase2B" /\ p2.inst = m.inst /\ p2.rnd = m.rnd
      /\ p2.val = m.val
    BY <1>2 DEF Packet
<1> HIDE DEF p1, p2
<1>4. BusyStep(t, Idle)
    <2>1. \A i \in Inst \ {pkt_inst} : values'[i] = values[i]
        BY <1>1, <1>2 DEF TypeOK
    <2>2. /\ sent \subseteq sent'
          /\ \A p \in sent' \ sent : p.inst = m.inst /\ p.msgtype \in {"Phase1B", "Phase2B"}
        BY <1>1, <1>3
    <2> QED
        BY <1>1, <2>1, <2>2, ConstantTypes DEF BusyStep, Busy, Active, Resetting
<1>5. ASSUME Active = {t}, pkt_inst = thread[t].m.inst, pkt_inst \notin disturbed,
             Resetting = {}, RegistersAt(pkt_inst), PromisesAt(pkt_inst)
      PROVE  RegistersAt(pkt_inst)' /\ PromisesAt(pkt_inst)'
    <2>1. PICK i \in Inst : i = pkt_inst
        BY <1>2
    <2>2. t \in Busy /\ pkt_inst' = i
        BY <1>1, <1>4, <2>1 DEF BusyStep
    <2>3. /\ Handling(i) = {t} /\ Bounding(i) /\ (Voting(i) = {} => Recorded(i))
          /\ Followed(t)
        BY <1>2, <1>5, <2>1, <2>2, AloneHandles
    <2>4. /\ rnds[i] = m.rnd /\ vrnds[i] = IF first THEN m.vrnd ELSE m.rnd
          /\ rnds[i] \in Nat /\ vrnds[i] \in Nat
        BY <1>1, <1>2, <1>5, <2>1, <2>3 DEF Followed, TypeOK, Round
    <2>5. Handling(i)' = {} /\ Voting(i)' = {}
        BY <1>2, <1>4, <1>5, BusyThreads, ConstantTypes DEF Handling, Busy, Voting
    <2>6. /\ \A v \in Votes(i) : v.rnd \in Nat /\ v.rnd <= vrnds[i]
          /\ \A p \in Promises(i) : p.rnd \in Nat /\ p.rnd <= rnds[i]
          /\ vrnds[i] <= rnds[i] /\ rnds' = rnds /\ vrnds' = vrnds
        BY <1>1, <1>2, <2>3 DEF Bounding, Votes, Promises, TypeOK, Packet, Round
    <2>7. PromisesAt(i)
        BY <1>5, <2>1
    <2>8. CASE first
        <3>1. /\ Votes(i)' = Votes(i) /\ Promises(i)' = Promises(i) \cup {p1}
              /\ values' = values
            BY <1>1, <1>3, <1>5, <2>1, <2>8 DEF Votes, Promises
        <3>2. Recorded(i)
            BY <2>3, <2>8 DEF Voting
        <3>3. Bounding(i)' /\ Recorded(i)'
            <4>1. \A p \in Promises(i)' : p.rnd <= rnds'[i]
                BY <1>3, <2>4, <2>6, <3>1
            <4> QED
                BY <2>6, <3>1, <3>2, <4>1 DEF Bounding, Recorded
        <3>4. /\ \A v \in Votes(i) : v.rnd <= p1.vrnd
              /\ p1.vrnd > 0 => \E v \in Votes(i) : v.rnd = p1.vrnd /\ v.val = p1.val
            BY <1>3, <2>1, <2>4, <2>6, <2>8, <3>2 DEF Recorded
        <3>5. PromisesAt(i)'
            BY <2>7, <3>1, <3>4 DEF PromisesAt
        <3>6. Answered(i)'
            BY <1>3, <2>4, <2>6, <3>1 DEF Answered
        <3> QED
            BY <2>1, <2>2, <2>5, <3>3, <3>5, <3>6 DEF RegistersAt
    <2>9. CASE ~first
        <3>1. /\ Votes(i)' = Votes(i) \cup {p2} /\ Promises(i)' = Promises(i)
              /\ values'[i] = m.val
            BY <1>1, <1>2, <1>3, <1>5, <2>1, <2>9 DEF Votes, Promises, TypeOK
        <3>2. m.rnd > 0
            BY <1>2, <2>2 DEF Handled
        <3>3. Bounding(i)'
            <4>1. \A v \in Votes(i)' : v.rnd <= vrnds'[i]
                BY <1>3, <2>4, <2>6, <2>9, <3>1
            <4> QED
                BY <2>6, <3>1, <4>1 DEF Bounding
        <3>4. Recorded(i)'
            BY <1>3, <2>4, <2>6, <2>9, <3>1, <3>2 DEF Recorded
        <3>5. PromisesAt(i)'
            <4> SUFFICES ASSUME NEW p \in Promises(i)
                         PROVE  /\ \A v \in Votes(i)' : v.rnd < p.rnd => v.rnd <= p.vrnd
                                /\ p.vrnd > 0 => \E v \in Votes(i)' :
                                        v.rnd = p.vrnd /\ v.val = p.val
                BY <3>1 DEF PromisesAt
            <4>1. ~(p2.rnd < p.rnd)
                BY <1>3, <2>4, <2>6
            <4> QED
                BY <2>7, <3>1, <4>1 DEF PromisesAt
        <3>6. Answered(i)'
            BY <1>3, <2>4, <2>6, <3>1 DEF Answered
        <3> QED
            BY <2>1, <2>2, <2>5, <3>3, <3>4, <3>5, <3>6 DEF RegistersAt
    <2> QED
        BY <2>8, <2>9
<1> QED
    BY <1>2, <1>4, <1>5, BusyKeeps

-----------------------------------------------------------------------------
(* The coordinator.                                                        *)

LEMMA SeqFuncKeeps ==
    ASSUME IInv, TypeOK', seq_func
    PROVE  IInv'
<1>1. UNCHANGED <<pkt_inst, rnds, vrnds, values, thread, sent, disturbed>>
    BY DEF seq_func
<1>3. TypeOK /\ Alone /\ Handled /\ ResetsClear /\ RegistersHold /\ SerialPromises
    BY DEF IInv
<1>4. /\ Active' = Active /\ Resetting' = Resetting /\ Busy' = Busy
    BY <1>1 DEF Active, Resetting, Busy
<1>5. \A i \in Inst : Untouched(i)
    BY <1>1, <1>4 DEF Untouched, Votes, Promises, Handling
<1>8. Handled'
    BY <1>1, <1>3, <1>4 DEF Handled
<1>10. Alone'
    BY <1>1, <1>3, <1>4 DEF Alone
<1>11. ResetsClear'
    <2>1. \A i \in Inst : Votes(i)' = Votes(i) /\ Promises(i)' = Promises(i)
        BY <1>5 DEF Untouched
    <2> QED
        BY <1>1, <1>3, <1>4, <2>1 DEF ResetsClear
<1>12. SerialPromises'
    <2> SUFFICES ASSUME NEW i \in Inst \ disturbed PROVE PromisesAt(i)'
        BY <1>1 DEF SerialPromises, PromisesAt
    <2> QED
        BY <1>3, <1>5, ByInstance, UntouchedHolds
<1>13. RegistersHold'
    <2> SUFFICES ASSUME Resetting = {}, NEW i \in Inst \ disturbed PROVE RegistersAt(i)'
        BY <1>1, <1>4 DEF RegistersHold, RegistersAt
    <2> QED
        BY <1>3, <1>5, ByInstance, UntouchedHolds
<1> QED
    BY <1>8, <1>10, <1>11, <1>12, <1>13 DEF IInv

-----------------------------------------------------------------------------
(* A packet comes in.                                                      *)

LEMMA EnterKeeps ==
    ASSUME IInv, TypeOK', NEW t \in Thread, NEW m \in Requests, Enter(t, m)
    PROVE  IInv'
<1> DEFINE x == [pc |-> "check", m |-> m, rnd |-> rnds[m.inst], i |-> 0]
<1>1. /\ thread[t] = Idle /\ pkt_inst' = m.inst /\ Moves(t, x)
      /\ disturbed' = IF Active = {} THEN disturbed
                      ELSE disturbed \cup {m.inst}
                             \cup {thread[u].m.inst : u \in Active \ Resetting}
      /\ UNCHANGED <<cur_instance, rnds, vrnds, values, sent>>
    BY DEF Enter, Moves
<1>2. TypeOK /\ Alone /\ Handled /\ ResetsClear /\ RegistersHold /\ SerialPromises
    BY DEF IInv
<1>3. m \in Packet /\ m.inst \in Inst /\ m.rnd > 0 /\ m.msgtype \in {"Phase1A", "Phase2A"}
    BY DEF Requests, Packet
<1>4. x \in Threads
    BY <1>2, <1>3 DEF TypeOK, Threads
<1>5. x.pc = "check" /\ x.m = m /\ x.rnd = rnds[m.inst]
    OBVIOUS
<1> HIDE DEF x
<1>6. /\ t \notin Active /\ t \notin Resetting
    BY <1>1 DEF Idle, Active, Resetting
<1>7. /\ thread'[t] = x
      /\ \A u \in Thread \ {t} : thread'[u] = thread[u]
      /\ Active' = Active \cup {t} /\ Resetting' = Resetting
      /\ Busy' = Busy \cup {t} /\ Busy \subseteq Thread /\ Resetting \subseteq Thread
      /\ t \notin Busy
    <2>1. /\ thread'[t] = x
          /\ \A u \in Thread \ {t} : thread'[u] = thread[u]
          /\ Active' = Active \cup {t} /\ Resetting' = Resetting \ {t}
        BY <1>1, <1>2, <1>4, <1>5, ThreadsAfter
    <2> QED
        BY <1>6, <2>1 DEF Busy, Active, Resetting
<1>8. disturbed \subseteq disturbed'
    BY <1>1
<1>9. Alone'
    <2>1. CASE Active = {}
        BY <1>1, <1>5, <1>7, <2>1 DEF Alone, Busy
    <2>2. CASE Active # {}
        BY <1>1, <1>5, <1>7, <2>2 DEF Alone, Busy
    <2> QED
        BY <2>1, <2>2
<1>10. Handled'
    BY <1>1, <1>2, <1>3, <1>5, <1>7 DEF Handled
<1>12. \A i \in Inst : Votes(i)' = Votes(i) /\ Promises(i)' = Promises(i)
    BY <1>1 DEF Votes, Promises
<1>13. ResetsClear'
    <2> SUFFICES ASSUME Resetting # {}
                 PROVE  /\ \A i \in Inst \ disturbed' : Votes(i) = {} /\ Promises(i) = {}
                        /\ \E n \in {MAX_INST} \cup {thread'[u].i : u \in Resetting} :
                              \A i \in Inst \ disturbed' :
                                  i < n => rnds[i] = 0 /\ vrnds[i] = 0
        BY <1>1, <1>7, <1>12 DEF ResetsClear
    <2>1. {thread'[u].i : u \in Resetting} = {thread[u].i : u \in Resetting}
        BY <1>6, <1>7
    <2> QED
        BY <1>2, <1>8, <2>1 DEF ResetsClear
<1>14. SerialPromises'
    BY <1>2, <1>8, <1>12 DEF SerialPromises
<1>15. RegistersHold'
    <2> SUFFICES ASSUME Resetting = {}, NEW i \in Inst \ disturbed' PROVE RegistersAt(i)'
        BY <1>7 DEF RegistersHold, RegistersAt
    <2>1. i \notin disturbed /\ RegistersAt(i)
        BY <1>2, <1>8, ByInstance
    <2>2. /\ rnds'[i] = rnds[i] /\ vrnds'[i] = vrnds[i] /\ values'[i] = values[i]
          /\ Votes(i)' = Votes(i) /\ Promises(i)' = Promises(i)
        BY <1>1, <1>12
    <2>3. CASE i # m.inst
        <3>1. Handling(i)' = Handling(i) /\ \A u \in Handling(i) : thread'[u] = thread[u]
            BY <1>5, <1>7, <2>3 DEF Handling
        <3> QED
            BY <2>1, <2>2, <3>1, UntouchedHolds DEF Untouched
    <2>4. CASE i = m.inst
        <3>1. Active = {}
            BY <1>1, <2>4
        <3>2. Handling(i) = {} /\ Handling(i)' = {t}
            BY <1>5, <1>7, <2>4, <3>1 DEF Handling, Busy
        <3>3. Bounding(i) /\ Recorded(i) /\ Answered(i)
            BY <2>1, <3>2 DEF RegistersAt, Voting, Answering
        <3>4. Bounding(i)' /\ Recorded(i)' /\ Answered(i)'
            BY <2>2, <3>3 DEF Bounding, Recorded, Answered
        <3>5. Followed(t)'
            BY <1>5, <1>7, <2>2, <2>4 DEF Followed
        <3> QED
            BY <3>2, <3>4, <3>5 DEF RegistersAt
    <2> QED
        BY <2>3, <2>4
<1> QED
    BY <1>9, <1>10, <1>13, <1>14, <1>15 DEF IInv

-----------------------------------------------------------------------------
(* The reset of the registers.                                             *)

LEMMA EnterResetKeeps ==
    ASSUME IInv, TypeOK', NEW t \in Thread, EnterReset(t)
    PROVE  IInv'
<1> DEFINE x == [Idle EXCEPT !.pc = "reset"]
<1>1. /\ thread[t] = Idle /\ Moves(t, x) /\ sent' = {}
      /\ disturbed' = IF Active \subseteq Resetting THEN {}
                      ELSE {pkt_inst} \cup {thread[u].m.inst : u \in Active \ Resetting}
      /\ UNCHANGED <<pkt_inst, rnds, vrnds, values>>
    BY DEF EnterReset, Moves
<1>2. TypeOK /\ Handled
    BY DEF IInv
<1>3. x \in Threads /\ x.pc = "reset" /\ x.i = 0
    BY ConstantTypes DEF Idle, Threads
<1> HIDE DEF x
<1>4. t \notin Active /\ t \notin Resetting
    BY <1>1 DEF Idle, Active, Resetting
<1>5. /\ thread'[t] = x
      /\ \A u \in Thread \ {t} : thread'[u] = thread[u]
      /\ Resetting' = Resetting \cup {t}
      /\ Busy' = Busy /\ Busy \subseteq Thread /\ t \notin Busy
    <2>1. /\ thread'[t] = x
          /\ \A u \in Thread \ {t} : thread'[u] = thread[u]
          /\ Active' = Active \cup {t} /\ Resetting' = Resetting \cup {t}
        BY <1>1, <1>2, <1>3, ThreadsAfter
    <2> QED
        BY <1>4, <2>1 DEF Busy, Active, Resetting
<1>6. Alone'
    BY <1>1, <1>5 DEF Alone, Busy
<1>7. Handled'
    BY <1>1, <1>2, <1>5 DEF Handled
<1>8. \A i \in Inst : Votes(i)' = {} /\ Promises(i)' = {}
    BY <1>1 DEF Votes, Promises
<1>9. SerialPromises' /\ RegistersHold'
    BY <1>5, <1>8 DEF SerialPromises, RegistersHold
<1>10. ResetsClear'
    <2>1. 0 \in {MAX_INST} \cup {thread'[u].i : u \in Resetting'}
        BY <1>3, <1>5
    <2>2. \A i \in Inst \ disturbed' : i < 0 => rnds'[i] = 0 /\ vrnds'[i] = 0
        BY DEF Inst
    <2> QED
        BY <1>8, <2>1, <2>2 DEF ResetsClear
<1> QED
    BY <1>6, <1>7, <1>9, <1>10 DEF IInv

LEMMA ResetNextKeeps ==
    ASSUME IInv, TypeOK', NEW t \in Thread, ResetNext(t)
    PROVE  IInv'
<1>1. TypeOK /\ Alone /\ Handled /\ ResetsClear /\ SerialPromises
    BY DEF IInv
<1>2. /\ thread[t].pc = "reset"
      /\ UNCHANGED <<pkt_inst, cur_instance, sent, packets, disturbed>>
    BY DEF ResetNext
<1>3. /\ t \in Resetting /\ t \in Active /\ t \notin Busy
      /\ Busy \subseteq Thread /\ Resetting \subseteq Thread
    BY <1>2 DEF Resetting, Active, Busy
<1>4. thread[t] \in Threads /\ thread[t].i \in 0 .. MAX_INST
    BY <1>1, ThreadFields
<1>5. \A u \in Busy : {pkt_inst, thread[u].m.inst} \subseteq disturbed
    BY <1>1, <1>3 DEF Alone
<1>6. \A i \in Inst : Votes(i)' = Votes(i) /\ Promises(i)' = Promises(i)
    BY <1>2 DEF Votes, Promises
<1>7. \A i \in Inst \ disturbed : Votes(i) = {} /\ Promises(i) = {}
    BY <1>1, <1>3 DEF ResetsClear
<1>8. PICK n \in {MAX_INST} \cup {thread[u].i : u \in Resetting} :
         \A i \in Inst \ disturbed : i < n => rnds[i] = 0 /\ vrnds[i] = 0
    BY <1>1, <1>3 DEF ResetsClear
<1>9. SerialPromises'
    BY <1>1, <1>2, <1>6 DEF SerialPromises
<1>10. CASE thread[t].i < MAX_INST
    <2> DEFINE k == thread[t].i
               x == [thread[t] EXCEPT !.i = k + 1]
    <2>1. /\ Moves(t, x) /\ vrnds' = [vrnds EXCEPT ![k] = 0]
          /\ rnds' = [rnds EXCEPT ![k] = 0]
        BY <1>10 DEF ResetNext, LastIndex, Moves
    <2>2. x \in Threads /\ x.pc = "reset" /\ x.i = k + 1 /\ k \in Inst
        BY <1>2, <1>4, <1>10 DEF Threads, Inst
    <2> HIDE DEF x
    <2>3. /\ thread'[t] = x
          /\ \A u \in Thread \ {t} : thread'[u] = thread[u]
          /\ Active' = Active \cup {t} /\ Resetting' = Resetting \cup {t}
        BY <1>1, <2>1, <2>2, ThreadsAfter
    <2>4. Active' = Active /\ Resetting' = Resetting /\ Busy' = Busy
        BY <1>3, <2>3 DEF Busy
    <2>5. Alone' /\ Handled'
        BY <1>1, <1>2, <1>3, <1>5, <2>3, <2>4 DEF Alone, Handled
    <2>6. RegistersHold'
        BY <1>3, <2>4 DEF RegistersHold
    <2>7. \A i \in Inst : /\ vrnds'[i] = IF i = k THEN 0 ELSE vrnds[i]
                          /\ rnds'[i] = IF i = k THEN 0 ELSE rnds[i]
        BY <1>1, <2>1, <2>2 DEF TypeOK
    <2>8. \E n1 \in {MAX_INST} \cup {thread'[u].i : u \in Resetting} :
             \A i \in Inst \ disturbed : i < n1 => rnds'[i] = 0 /\ vrnds'[i] = 0
        <3>1. CASE n = k
            <4>1. \A i \in Inst \ disturbed :
                     i < k + 1 => rnds'[i] = 0 /\ vrnds'[i] = 0
                <5> TAKE i \in Inst \ disturbed
                <5>1. i < k + 1 => i = k \/ i < k
                    BY <2>2 DEF Inst
                <5> QED
                    BY <1>8, <2>7, <3>1, <5>1
            <4>2. k + 1 \in {thread'[u].i : u \in Resetting}
                BY <1>3, <2>2, <2>3
            <4> QED
                BY <4>1, <4>2
        <3>2. CASE n # k
            <4>1. n \in {MAX_INST} \cup {thread'[u].i : u \in Resetting}
                BY <1>3, <1>8, <2>3, <3>2
            <4> QED
                BY <1>8, <2>7, <4>1
        <3> QED
            BY <3>1, <3>2
    <2>9. ResetsClear'
        BY <1>2, <1>6, <1>7, <2>4, <2>8 DEF ResetsClear
    <2> QED
        BY <1>9, <2>5, <2>6, <2>9 DEF IInv
<1>11. CASE ~(thread[t].i < MAX_INST)
    <2>1. thread[t].i = MAX_INST
        BY <1>4, <1>11
    <2>2. Moves(t, Idle) /\ UNCHANGED <<rnds, vrnds, values>>
        BY <1>11 DEF ResetNext, LastIndex, Moves
    <2>3. /\ thread'[t] = Idle
          /\ \A u \in Thread \ {t} : thread'[u] = thread[u]
          /\ Active' = Active \ {t} /\ Resetting' = Resetting \ {t}
        BY <1>1, <2>2, ConstantTypes, ThreadsAfter
    <2>4. Busy' = Busy
        BY <1>3, <2>3 DEF Busy
    <2>5. Alone' /\ Handled'
        BY <1>1, <1>2, <1>3, <1>5, <2>3, <2>4 DEF Alone, Handled
    <2>6. ResetsClear'
        <3>1. n \in {MAX_INST} \cup {thread'[u].i : u \in Resetting'}
            BY <1>3, <1>8, <2>1, <2>3
        <3> QED
            BY <1>2, <1>6, <1>7, <1>8, <2>2, <3>1 DEF ResetsClear
    <2>7. RegistersHold'
        <3> SUFFICES ASSUME Resetting' = {}, NEW i \in Inst \ disturbed
                     PROVE  RegistersAt(i)'
            BY <1>2 DEF RegistersHold, RegistersAt
        <3>1. n = MAX_INST
            BY <1>8, <2>1, <2>3
        <3>2. vrnds'[i] = 0 /\ rnds'[i] = 0
            BY <1>8, <2>2, <3>1 DEF Inst
        <3>4. Handling(i)' = {}
            BY <1>3, <1>5, <2>3, <2>4 DEF Handling
        <3>5. Votes(i)' = {} /\ Promises(i)' = {}
            BY <1>6, <1>7
        <3> QED
            BY <3>2, <3>4, <3>5 DEF RegistersAt, Bounding, Recorded, Answered
    <2> QED
        BY <1>9, <2>5, <2>6, <2>7 DEF IInv
<1> QED
    BY <1>10, <1>11

-----------------------------------------------------------------------------
(* The theorems.                                                           *)

LEMMA InitHolds == Init => IInv
<1> SUFFICES ASSUME Init PROVE IInv
    OBVIOUS
<1>1. TypeOK
    BY ConstantTypes DEF Init, TypeOK
<1>2. Active = {} /\ Resetting = {} /\ Busy = {} /\ sent = {}
    BY DEF Init, Idle, Active, Resetting, Busy
<1>3. \A i \in Inst : Votes(i) = {} /\ Promises(i) = {} /\ Handling(i) = {}
    BY <1>2 DEF Votes, Promises, Handling
<1>4. \A i \in Inst : vrnds[i] = 0 /\ rnds[i] = 0
    BY DEF Init
<1>5. Alone /\ Handled /\ ResetsClear /\ SerialPromises
    BY <1>2, <1>3 DEF Alone, Handled, ResetsClear, SerialPromises
<1>6. RegistersHold
    BY <1>3, <1>4 DEF RegistersHold, Bounding, Recorded, Answered
<1> QED
    BY <1>1, <1>5, <1>6 DEF IInv

LEMMA NextStep == IInv /\ [Next]_vars => IInv'
<1> SUFFICES ASSUME IInv, [Next]_vars PROVE IInv'
    OBVIOUS
<1>1. TypeOK'
    BY TypeStep DEF IInv
<1>2. ASSUME seq_func PROVE IInv'
    BY <1>1, <1>2, SeqFuncKeeps
<1>3. ASSUME NEW t \in Thread, NEW m \in Requests, Enter(t, m) PROVE IInv'
    BY <1>1, <1>3, EnterKeeps
<1>4. ASSUME NEW t \in Thread, Drop(t) PROVE IInv'
    BY <1>1, <1>4, DropKeeps
<1>5. ASSUME NEW t \in Thread, WriteRound(t) PROVE IInv'
    BY <1>1, <1>5, WriteRoundKeeps
<1>6. ASSUME NEW t \in Thread, AccessVRound(t) PROVE IInv'
    BY <1>1, <1>6, AccessVRoundKeeps
<1>7. ASSUME NEW t \in Thread, AccessValue(t) PROVE IInv'
    BY <1>1, <1>7, AccessValueKeeps
<1>8. ASSUME NEW t \in Thread, EnterReset(t) PROVE IInv'
    BY <1>1, <1>8, EnterResetKeeps
<1>9. ASSUME NEW t \in Thread, ResetNext(t) PROVE IInv'
    BY <1>1, <1>9, ResetNextKeeps
<1>10. CASE UNCHANGED vars
    <2>1. /\ Active' = Active /\ Resetting' = Resetting /\ Busy' = Busy
          /\ \A i : (Votes(i)' = Votes(i)) /\ (Promises(i)' = Promises(i))
        BY <1>10 DEF vars, Active, Resetting, Busy, Votes, Promises
    <2>2. \A i : /\ Handling(i)' = Handling(i)
                /\ Voting(i)' = Voting(i) /\ Answering(i)' = Answering(i)
        BY <1>10, <2>1 DEF vars, Handling, Voting, Answering
    <2>3. \A t : Followed(t) => Followed(t)'
        BY <1>10 DEF vars, Followed
    <2>4. \A i : /\ (Bounding(i) => Bounding(i)')
                /\ (Recorded(i) => Recorded(i)')
                /\ (Answered(i) => Answered(i)')
        BY <1>10, <2>1 DEF vars, Bounding, Recorded, Answered
    <2>5. Alone' /\ Handled' /\ SerialPromises' /\ ResetsClear'
        BY <1>10, <2>1 DEF vars, IInv, Alone, Handled, SerialPromises, ResetsClear
    <2>6. RegistersHold'
        BY <1>10, <2>1, <2>2, <2>3, <2>4 DEF vars, IInv, RegistersHold
    <2> QED
        BY <1>1, <2>5, <2>6 DEF IInv
<1> QED
    BY <1>2, <1>3, <1>4, <1>5, <1>6, <1>7, <1>8, <1>9, <1>10 DEF Next

\* The inductive invariant holds in every behaviour: a thread handles its packet
\* alone or what it reads and writes is in disturbed instances.
THEOREM Invariance == Spec => []IInv
BY InitHolds, NextStep, PTL DEF Spec

\* The threads that share pkt_inst without a lock cannot make the acceptor break a
\* promise, or report a vote never cast, in an instance whose packets were handled
\* one at a time, however many threads there are.
THEOREM PromisesConfined == Spec => []SerialPromises
<1>1. IInv => SerialPromises
    BY DEF IInv
<1> QED
    BY <1>1, Invariance, PTL

\* In such an instance the registers hold the last vote since the reset, or
\* nothing, also after several resets that ran at the same time.
THEOREM RegistersConfined == Spec => []SerialRegisters
<1>1. IInv => SerialRegisters
    <2> SUFFICES ASSUME IInv, Resetting = {}, NEW i \in Inst \ disturbed,
                        \A t \in Active : thread[t].m.inst # i
                 PROVE  vrnds[i] <= rnds[i] /\ Recorded(i)
        BY DEF SerialRegisters, Recorded
    <2>1. Voting(i) = {}
        BY DEF Voting, Handling, Busy
    <2> QED
        BY <2>1 DEF IInv, RegistersHold, Bounding
<1> QED
    BY <1>1, Invariance, PTL

\* The round register of such an instance holds 0 or the round of an answer since
\* the reset: pif_plugin_reset_registers leaves no promise behind, also when two of
\* them run at the same time.
THEOREM ResetForgets == Spec => []NoOrphanRounds
<1>1. IInv => NoOrphanRounds
    <2> SUFFICES ASSUME IInv, Resetting = {}, NEW i \in Inst \ disturbed,
                        \A t \in Active : thread[t].m.inst # i
                 PROVE  Answered(i)
        BY DEF NoOrphanRounds, Answered
    <2>1. Answering(i) = {}
        BY DEF Answering, Handling, Busy
    <2> QED
        BY <2>1 DEF IInv, RegistersHold
<1> QED
    BY <1>1, Invariance, PTL
=============================================================================
