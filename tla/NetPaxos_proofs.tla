--------------------------- MODULE NetPaxos_proofs ---------------------------
(***************************************************************************)
(* Theorems about NetPaxos: IInv is inductive; so the replicas execute the *)
(* same commands, and promises report votes, for any number of switches,   *)
(* replicas, requests and restarts.                                        *)
(***************************************************************************)
EXTENDS NetPaxos, SequenceTheorems, FiniteSetTheorems, TLAPS

USE HeaderAssumption, NoWrapAssumption

\* The initial states satisfy every part of the invariant.
LEMMA InitIInv == Init => IInv
<1> SUFFICES ASSUME Init PROVE IInv
    OBVIOUS
<1> USE DEF Init, NetworkInit, CoordinatorInit, AcceptorInit, LearnerInit,
            ProposerInit
<1>1. TypeOK
  BY LearnerAssumption, ProposerAssumption
  DEF TypeOK, Instance, Round, PaxosValue, ZeroValue, LearnerState, ProposerState,
      NoLearnerState, NoProposerState
<1>2. Numbering
  BY DEF Numbering
<1>3. Provenance
  BY DEF Provenance, Known, ZeroValue, Traceable
<1>4. LearnerKnows
  BY DEF LearnerKnows, NoLearnerState, NoProposerState, Executed, Instance
<1>5. RegistersRemember
  BY DEF RegistersRemember, Remembered
<1>6. PromisesReportVotes
  BY DEF PromisesReportVotes
<1> QED
  BY <1>1, <1>2, <1>3, <1>4, <1>5, <1>6 DEF IInv

\* More messages never make a known value unknown.
LEMMA KnownStable ==
  ASSUME msgs \subseteq msgs', NEW i, NEW c
  PROVE  /\ Known(i, c) => Known(i, c)'
         /\ \A r : SequencedAs(i, r, c) => SequencedAs(i, r, c)'
BY DEF Known, Sequenced, SequencedAs

\* Nor do they take away where a message came from.
LEMMA TraceableStable ==
  ASSUME msgs \subseteq msgs', NEW m, Traceable(m)
  PROVE  Traceable(m)'
BY KnownStable DEF Traceable

\* What the invariant says of one message.
LEMMA MsgFacts ==
  ASSUME IInv, NEW m \in msgs
  PROVE  /\ m \in Paxos /\ m.inst \in Instance /\ m.inst \in Nat
         /\ m.rnd \in Round /\ m.rnd \in Nat /\ m.vrnd \in Round /\ m.vrnd \in Nat
         /\ m.val \in PaxosValue /\ m.src \in {"proposer", "learner"}
         /\ m.msgtype \in {"1B", "2B"} => m.acptid \in Acceptors
         /\ Traceable(m) /\ Remembered(m)
<1>1. m \in Paxos /\ Traceable(m) /\ Remembered(m)
  BY DEF IInv, TypeOK, Provenance, RegistersRemember
<1>2. m.inst \in Instance /\ m.rnd \in Round /\ m.vrnd \in Round
      /\ m.val \in PaxosValue /\ m.src \in {"proposer", "learner"}
  BY <1>1 DEF Paxos
<1> QED
  BY <1>1, <1>2 DEF Instance, Round, Traceable

\* Rounds are numbers (ROUND_SIZE of paxos_headers.p4).
LEMMA RoundNat == \A r \in Round : r \in Nat
BY DEF Round

\* Writing one entry of a table of tables.
LEMMA TableUpdate ==
  ASSUME NEW A, NEW B, NEW R, NEW f \in [A -> [B -> R]], NEW a \in A, NEW b \in B,
         NEW v \in R
  PROVE  LET g == [f EXCEPT ![a][b] = v] IN
         /\ g \in [A -> [B -> R]]
         /\ g[a][b] = v
         /\ \A x \in A, y \in B : ~(x = a /\ y = b) => g[x][y] = f[x][y]
OBVIOUS

-----------------------------------------------------------------------------
\* Submit appends to the uplink one request the coordinator can still number.
LEMMA SubmitStep == IInv /\ Submit => IInv'
<1> SUFFICES ASSUME IInv, NEW cmd \in Commands, submit(cmd),
                    UNCHANGED <<instance_register, acceptorVars, learnerVars>>
             PROVE  IInv'
    BY DEF Submit
<1> USE DEF IInv, acceptorVars, learnerVars
<1>0. req_id \in Nat /\ req_id' = req_id + 1 /\ req_id' \in 0 .. MaxSubmits
  BY ProposerAssumption DEF TypeOK, submit
<1> DEFINE new == [msgtype |-> "2A", inst |-> 0, rnd |-> 0, vrnd |-> 0,
                   acptid |-> NoAcceptor,
                   val |-> [req |-> req_id', cmd |-> cmd], src |-> "proposer"]
<1>01. new \in Paxos /\ (req_id' <= MAX_REQ_ID => uplink' = Append(uplink, new))
  BY <1>0 DEF Paxos, PaxosValue, Instance, Round, submit
<1>02. ~(req_id' <= MAX_REQ_ID) => uplink' = uplink
  BY DEF submit
<1>03. UNCHANGED <<msgs, responses>>
  BY DEF submit
<1> HIDE DEF new
<1>1. TypeOK'
  <2>1. uplink' \in Seq(Paxos)
    <3>1. CASE req_id' <= MAX_REQ_ID
      <4>1. uplink \in Seq(Paxos)
        BY DEF TypeOK
      <4> QED BY <1>01, <3>1, <4>1, AppendProperties
    <3>2. CASE ~(req_id' <= MAX_REQ_ID)
      BY <1>02, <3>2 DEF TypeOK
    <3> QED BY <3>1, <3>2
  <2>2. (DOMAIN defers)' = 1 .. MAX_REQ_ID
    BY DEF TypeOK, submit
  <2> QED
    BY <1>0, <1>03, <2>1, <2>2 DEF TypeOK
<1>2. Numbering'
  <2>1. CASE req_id' <= MAX_REQ_ID
    <3>2. /\ Len(uplink') = Len(uplink) + 1
          /\ uplink'[Len(uplink) + 1] = new
          /\ \A j \in 1 .. Len(uplink) : uplink'[j] = uplink[j]
      BY <1>01, <2>1 DEF TypeOK
    <3>3. Len(uplink) \in Nat /\ instance_register \in Nat
      BY DEF TypeOK, Instance
    <3>4. \A j \in 1 .. Len(uplink') :
              /\ uplink'[j].src = "proposer"
              /\ uplink'[j].val.req \in 1 .. MAX_REQ_ID
              /\ uplink'[j].val.cmd \in Commands
      <4> SUFFICES ASSUME NEW j \in 1 .. Len(uplink')
                   PROVE  /\ uplink'[j].src = "proposer"
                          /\ uplink'[j].val.req \in 1 .. MAX_REQ_ID
                          /\ uplink'[j].val.cmd \in Commands
          OBVIOUS
      <4>1. CASE j \in 1 .. Len(uplink)
        BY <4>1, <3>2 DEF Numbering
      <4>2. CASE j = Len(uplink) + 1
        BY <4>2, <3>2, <2>1, <1>0 DEF new
      <4> QED BY <4>1, <4>2, <3>2, <3>3
    <3> QED
      BY <1>0, <1>03, <2>1, <3>2, <3>3, <3>4 DEF Numbering
  <2>2. CASE ~(req_id' <= MAX_REQ_ID)
    <3>1. Len(uplink) \in Nat /\ instance_register \in Nat
      BY DEF TypeOK, Instance
    <3> QED BY <1>0, <1>02, <1>03, <2>2, <3>1 DEF Numbering
  <2> QED BY <2>1, <2>2
<1>3. Provenance' /\ LearnerKnows' /\ RegistersRemember' /\ PromisesReportVotes'
  BY <1>03 DEF Provenance, LearnerKnows, RegistersRemember, PromisesReportVotes, Known,
         Traceable, Remembered, Sequenced, SequencedAs, Executed
<1> QED BY <1>1, <1>2, <1>3

\* A lost request shortens the uplink and changes nothing else.
LEMMA LoseStep == IInv /\ Lose => IInv'
<1> SUFFICES ASSUME IInv, Lose PROVE IInv'
    OBVIOUS
<1> USE DEF IInv
<1>0. /\ uplink # << >> /\ uplink' = Tail(uplink) /\ uplink \in Seq(Paxos)
      /\ UNCHANGED <<msgs, responses, instance_register, rounds_register,
                     vrounds_register, values_register, learnerVars, req_id, defers>>
  BY DEF Lose, LoseRequest, acceptorVars, proposerVars, TypeOK
<1>1. /\ uplink' \in Seq(Paxos)
      /\ Len(uplink') = Len(uplink) - 1
      /\ Len(uplink) \in Nat
      /\ \A j \in 1 .. Len(uplink') : j + 1 \in 1 .. Len(uplink) /\ uplink'[j] = uplink[j + 1]
  BY <1>0, HeadTailProperties
<1>2. TypeOK'
  BY <1>0, <1>1 DEF TypeOK, learnerVars
<1>3. Numbering'
  <2>1. instance_register \in Nat /\ req_id \in Nat
    BY DEF TypeOK, Instance
  <2> QED
    BY <1>0, <1>1, <2>1 DEF Numbering
<1>4. Provenance' /\ LearnerKnows' /\ RegistersRemember' /\ PromisesReportVotes'
  BY <1>0 DEF Provenance, LearnerKnows, RegistersRemember, PromisesReportVotes,
     Known, Traceable, Remembered, Sequenced, SequencedAs, Executed, learnerVars
<1> QED BY <1>2, <1>3, <1>4

\* The coordinator gives a number never given before to a request.
LEMMA CoordinateStep == IInv /\ Coordinate => IInv'
<1> SUFFICES ASSUME IInv, Coordinate PROVE IInv'
    OBVIOUS
<1> USE DEF IInv
<1>a. PICK i : i = instance_register + 1
  OBVIOUS
<1>b. PICK head : head = Head(uplink)
  OBVIOUS
<1>c. PICK new : new = [head EXCEPT !.msgtype = "2A", !.rnd = 0, !.inst = i]
  OBVIOUS
<1>0. /\ uplink # << >> /\ uplink' = Tail(uplink) /\ uplink \in Seq(Paxos)
      /\ UNCHANGED <<responses, rounds_register, vrounds_register, values_register,
                     learnerVars, req_id, defers>>
  BY DEF Coordinate, Sequence, acceptorVars, proposerVars, TypeOK
<1>1. /\ uplink' \in Seq(Paxos)
      /\ Len(uplink') = Len(uplink) - 1
      /\ Len(uplink) \in Nat \ {0}
      /\ head = uplink[1] /\ head \in Paxos
      /\ \A j \in 1 .. Len(uplink') : j + 1 \in 1 .. Len(uplink) /\ uplink'[j] = uplink[j + 1]
  BY <1>0, <1>b, HeadTailProperties
<1>2. /\ instance_register \in Nat /\ req_id \in Nat
      /\ i <= MAX_REQ_ID /\ i \in Instance
      /\ instance_register' = i
      /\ msgs' = msgs \cup {new}
  <2>1. instance_register \in Nat /\ req_id \in Nat
    BY DEF TypeOK, Instance
  <2>2. i <= MAX_REQ_ID /\ i \in Instance
    BY <1>a, <2>1, <1>1 DEF Numbering, Instance
  <2>3. NextInstance(instance_register) = i
    BY <1>a, <2>1, <2>2 DEF NextInstance, Instance
  <2> QED
    BY <1>b, <1>c, <2>1, <2>2, <2>3 DEF Coordinate, Sequence, handle_request, Send
<1>3. /\ head.src = "proposer" /\ head.val.req \in 1 .. MAX_REQ_ID
      /\ head.val.cmd \in Commands /\ head.val \in PaxosValue
  BY <1>1 DEF Numbering, Paxos
<1>4. /\ new \in Paxos /\ new.msgtype = "2A" /\ new.rnd = 0 /\ new.inst = i
      /\ new.src = "proposer" /\ new.val = head.val
  <2>1. new = [msgtype |-> "2A", inst |-> i, rnd |-> 0, vrnd |-> head.vrnd,
               acptid |-> head.acptid, val |-> head.val, src |-> head.src]
    BY <1>c, <1>1 DEF Paxos
  <2>2. /\ head.vrnd \in Round /\ head.acptid \in Acceptors \cup {NoAcceptor}
        /\ head.src \in {"proposer", "learner"} /\ 0 \in Round
    BY <1>1 DEF Paxos, Round
  <2> QED
    BY <2>1, <2>2, <1>2, <1>3 DEF Paxos
<1>5. TypeOK'
  BY <1>0, <1>1, <1>2, <1>4 DEF TypeOK, learnerVars
<1>6. Numbering'
  <2>1. \A m \in msgs' : m.src = "proposer" => m.inst <= instance_register'
    <3>1. \A m \in msgs : m.inst \in Nat
      BY DEF TypeOK, Paxos, Instance
    <3> QED BY <1>a, <1>2, <1>4, <3>1 DEF Numbering
  <2>2. ASSUME NEW m \in msgs', NEW n \in msgs', m.src = "proposer",
               n.src = "proposer", m.inst = n.inst
        PROVE  m.val = n.val
    <3>1. \A x \in msgs : x.inst \in Nat /\ (x.src = "proposer" => x.inst # i)
      BY <1>a, <1>2 DEF Numbering, TypeOK, Paxos, Instance
    <3> QED BY <2>2, <3>1, <1>2, <1>4 DEF Numbering
  <2>3. \A j \in 1 .. Len(uplink') :
            /\ uplink'[j].src = "proposer"
            /\ uplink'[j].val.req \in 1 .. MAX_REQ_ID
            /\ uplink'[j].val.cmd \in Commands
    BY <1>1 DEF Numbering
  <2>4. /\ instance_register' + Len(uplink') <= req_id'
        /\ instance_register' + Len(uplink') <= MAX_REQ_ID
    BY <1>a, <1>0, <1>1, <1>2 DEF Numbering
  <2> QED BY <2>1, <2>2, <2>3, <2>4 DEF Numbering
<1>7. Provenance'
  <2>1. SequencedAs(i, head.val.req, head.val.cmd)'
    <3>1. new \in msgs'
      BY <1>2
    <3> QED BY <3>1, <1>4 DEF SequencedAs
  <2>2. Traceable(new)'
    BY <1>a, <1>2, <1>3, <1>4, <2>1 DEF Traceable, Known, Sequenced
  <2>3. \A m \in msgs' : Traceable(m)'
    BY <1>2, <2>2, TraceableStable DEF Provenance
  <2> QED
    BY <1>0, <1>2, <2>3, KnownStable DEF Provenance
<1>8. LearnerKnows'
  BY <1>0, <1>2, KnownStable DEF LearnerKnows, learnerVars, Executed
<1>9. RegistersRemember' /\ PromisesReportVotes'
  BY <1>0, <1>2, <1>4 DEF RegistersRemember, Remembered, PromisesReportVotes
<1> QED BY <1>5, <1>6, <1>7, <1>8, <1>9

\* A promise answers a learner's 1A: it carries what the vote register holds,
\* and raises the round so that no vote of round 0 can follow it.
LEMMA PromiseStep ==
  ASSUME NEW a \in Acceptors, Promise(a), IInv PROVE IInv'
<1> USE DEF IInv
<1>a. PICK m \in msgs : handle_1a(a, m)
                        /\ UNCHANGED <<instance_register, learnerVars, proposerVars>>
  BY DEF Promise
<1>b. PICK i : i = m.inst
  OBVIOUS
<1>c. PICK val : val = values_register[a][i]
  OBVIOUS
<1>d. PICK vrnd : vrnd = vrounds_register[a][i]
  OBVIOUS
<1>e. PICK new : new = [m EXCEPT !.msgtype = "1B", !.vrnd = vrnd, !.val = val,
                                 !.acptid = a]
  OBVIOUS
<1>0. /\ m \in Paxos /\ i \in Instance /\ i \in Nat /\ val \in PaxosValue
      /\ vrnd \in Round /\ m.rnd \in Round /\ m.msgtype = "1A"
  BY <1>a, <1>b, <1>c, <1>d DEF TypeOK, Paxos, handle_1a, Instance
<1>1. /\ msgs' = msgs \cup {new}
      /\ rounds_register' = [rounds_register EXCEPT ![a][i] = m.rnd]
      /\ rounds_register[a][i] <= m.rnd
      /\ UNCHANGED <<uplink, responses, instance_register, vrounds_register,
                     values_register, learnerVars, req_id, defers>>
  BY <1>a, <1>b, <1>c, <1>d, <1>e DEF handle_1a, Fresh, Send, proposerVars
<1>2. m.src = "learner" /\ m.rnd = 1 /\ i >= 1
  <2>1. Traceable(m) /\ m.src \in {"proposer", "learner"}
    BY <1>0 DEF Provenance, Paxos
  <2> QED BY <1>0, <1>b, <2>1 DEF Traceable
<1>3. /\ new \in Paxos /\ new.msgtype = "1B" /\ new.rnd = 1 /\ new.inst = i
      /\ new.vrnd = vrnd /\ new.val = val /\ new.acptid = a /\ new.src = "learner"
  <2>1. new = [msgtype |-> "1B", inst |-> i, rnd |-> m.rnd, vrnd |-> vrnd,
               acptid |-> a, val |-> val, src |-> m.src]
    BY <1>b, <1>e, <1>0 DEF Paxos
  <2> QED
    BY <2>1, <1>0, <1>2 DEF Paxos
<1>11. /\ rounds_register \in [Acceptors -> [Instance -> Round]]
       /\ vrounds_register \in [Acceptors -> [Instance -> Round]]
  BY DEF TypeOK
<1>12. /\ rounds_register' \in [Acceptors -> [Instance -> Round]]
       /\ rounds_register'[a][i] = m.rnd
       /\ \A b \in Acceptors, j \in Instance : ~(b = a /\ j = i) =>
             rounds_register'[b][j] = rounds_register[b][j]
  BY <1>0, <1>1, <1>11, TableUpdate
<1>4. TypeOK'
  <2>1. rounds_register' \in [Acceptors -> [Instance -> Round]]
    BY <1>12
  <2> QED
    BY <2>1, <1>1, <1>3 DEF TypeOK, learnerVars
<1>5. Numbering'
  BY <1>1, <1>3 DEF Numbering
<1>6. Provenance'
  <2>1. Known(i, val.cmd)
    BY <1>0, <1>c DEF Provenance
  <2>2. Known(i, val.cmd)'
    BY <1>1, <2>1, KnownStable
  <2>3. Traceable(new)'
    BY <1>2, <1>3, <2>2 DEF Traceable
  <2>4. \A x \in msgs' : Traceable(x)'
    BY <1>1, <2>3, TraceableStable DEF Provenance
  <2> QED
    BY <1>1, <2>4, KnownStable DEF Provenance
<1>7. LearnerKnows'
  BY <1>1, KnownStable DEF LearnerKnows, learnerVars, Executed
<1>8. RegistersRemember'
  <2>1. ASSUME NEW b \in Acceptors, NEW j \in Instance
        PROVE  /\ rounds_register[b][j] <= rounds_register'[b][j]
               /\ rounds_register[b][j] \in Nat /\ rounds_register'[b][j] \in Nat
               /\ vrounds_register[b][j] \in Nat
    <3>1. /\ rounds_register[b][j] \in Round /\ rounds_register'[b][j] \in Round
          /\ vrounds_register[b][j] \in Round
      BY <1>11, <1>12
    <3>2. CASE b = a /\ j = i
      BY <3>1, <3>2, <1>1, <1>12, RoundNat
    <3>3. CASE ~(b = a /\ j = i)
      BY <3>1, <3>3, <1>12, RoundNat
    <3> QED BY <3>2, <3>3
  <2>2. ASSUME NEW x \in msgs PROVE Remembered(x)'
    <3>1. /\ x.inst \in Instance /\ x.rnd \in Nat
          /\ x.msgtype \in {"1B", "2B"} => x.acptid \in Acceptors
          /\ Remembered(x)
      BY MsgFacts
    <3> QED
      BY <3>1, <2>1, <1>1 DEF Remembered
  <2>3. Remembered(new)'
    BY <1>0, <1>1, <1>2, <1>3, <1>12 DEF Remembered
  <2>4. \A b \in Acceptors, j \in Instance :
            vrounds_register'[b][j] <= rounds_register'[b][j]
    BY <1>1, <2>1 DEF RegistersRemember
  <2> QED
    BY <1>1, <2>2, <2>3, <2>4 DEF RegistersRemember
<1>9. PromisesReportVotes'
  <2>1. ASSUME NEW v \in msgs, v.msgtype = "2B", v.acptid = a, v.inst = i, v.rnd < 1
        PROVE  v.rnd <= vrnd /\ (vrnd = v.rnd => val = v.val)
    <3>1. Remembered(v) /\ v.rnd \in Nat
      BY MsgFacts
    <3> QED
      BY <1>c, <1>d, <2>1, <3>1 DEF Remembered
  <2> QED
    BY <1>1, <1>3, <2>1 DEF PromisesReportVotes
<1> QED BY <1>4, <1>5, <1>6, <1>7, <1>8, <1>9

\* A vote copies a 2A into the registers; in round 0 it is the one value the
\* coordinator numbered.
LEMMA VoteStep ==
  ASSUME NEW a \in Acceptors, Vote(a), IInv PROVE IInv'
<1> USE DEF IInv
<1>a. PICK m \in msgs : handle_2a(a, m)
                        /\ UNCHANGED <<instance_register, learnerVars, proposerVars>>
  BY DEF Vote
<1>b. PICK i : i = m.inst
  OBVIOUS
<1>c. PICK new : new = [m EXCEPT !.msgtype = "2B", !.acptid = a]
  OBVIOUS
<1>0. m \in Paxos /\ i \in Instance /\ m.rnd \in Round /\ m.msgtype = "2A"
      /\ m.val \in PaxosValue
  BY <1>a, <1>b DEF TypeOK, Paxos, handle_2a
<1>1. /\ msgs' = msgs \cup {new}
      /\ rounds_register' = [rounds_register EXCEPT ![a][i] = m.rnd]
      /\ vrounds_register' = [vrounds_register EXCEPT ![a][i] = m.rnd]
      /\ values_register' = [values_register EXCEPT ![a][i] = m.val]
      /\ rounds_register[a][i] <= m.rnd
      /\ UNCHANGED <<uplink, responses, instance_register, learnerVars, req_id, defers>>
  BY <1>a, <1>b, <1>c DEF handle_2a, Fresh, Send, proposerVars
<1>2. Traceable(m)
  BY DEF Provenance
<1>3. /\ new \in Paxos /\ new.msgtype = "2B" /\ new.rnd = m.rnd /\ new.inst = i
      /\ new.vrnd = m.vrnd /\ new.val = m.val /\ new.acptid = a /\ new.src = m.src
  <2>1. new = [msgtype |-> "2B", inst |-> i, rnd |-> m.rnd, vrnd |-> m.vrnd,
               acptid |-> a, val |-> m.val, src |-> m.src]
    BY <1>b, <1>c, <1>0 DEF Paxos
  <2>2. m.vrnd \in Round /\ m.src \in {"proposer", "learner"}
    BY <1>0 DEF Paxos
  <2> QED
    BY <2>1, <2>2, <1>0 DEF Paxos
<1>11. /\ rounds_register \in [Acceptors -> [Instance -> Round]]
       /\ vrounds_register \in [Acceptors -> [Instance -> Round]]
       /\ values_register \in [Acceptors -> [Instance -> PaxosValue]]
  BY DEF TypeOK
<1>12. /\ rounds_register' \in [Acceptors -> [Instance -> Round]]
       /\ rounds_register'[a][i] = m.rnd
       /\ \A b \in Acceptors, j \in Instance : ~(b = a /\ j = i) =>
             rounds_register'[b][j] = rounds_register[b][j]
  BY <1>0, <1>1, <1>11, TableUpdate
<1>13. /\ vrounds_register' \in [Acceptors -> [Instance -> Round]]
       /\ vrounds_register'[a][i] = m.rnd
       /\ \A b \in Acceptors, j \in Instance : ~(b = a /\ j = i) =>
             vrounds_register'[b][j] = vrounds_register[b][j]
  BY <1>0, <1>1, <1>11, TableUpdate
<1>14. /\ values_register' \in [Acceptors -> [Instance -> PaxosValue]]
       /\ values_register'[a][i] = m.val
       /\ \A b \in Acceptors, j \in Instance : ~(b = a /\ j = i) =>
             values_register'[b][j] = values_register[b][j]
  BY <1>0, <1>1, <1>11, TableUpdate
<1>4. TypeOK'
  BY <1>1, <1>3, <1>12, <1>13, <1>14 DEF TypeOK, learnerVars
<1>5. Numbering'
  <2>1. \A x \in msgs' : x.src = "proposer" =>
            \E y \in msgs : y.src = "proposer" /\ y.inst = x.inst /\ y.val = x.val
    BY <1>1, <1>3, <1>b
  <2> QED
    BY <1>1, <2>1 DEF Numbering
<1>6. Provenance'
  <2>1. Traceable(m)'
    BY <1>1, <1>2, TraceableStable
  <2>2. Traceable(new)'
    BY <2>1, <1>3, <1>0, <1>b DEF Traceable
  <2>3. \A x \in msgs' : Traceable(x)'
    BY <1>1, <2>2, TraceableStable DEF Provenance
  <2>4. \A b \in Acceptors, j \in Instance : Known(j, values_register[b][j].cmd)'
    <3> SUFFICES ASSUME NEW b \in Acceptors, NEW j \in Instance
                 PROVE  Known(j, values_register[b][j].cmd)'
        OBVIOUS
    <3>1. CASE b = a /\ j = i
      <4>1. values_register'[b][j] = m.val
        BY <3>1, <1>14
      <4> QED
        BY <4>1, <3>1, <2>1, <1>b DEF Traceable
    <3>2. CASE ~(b = a /\ j = i)
      <4>1. values_register'[b][j] = values_register[b][j]
        BY <3>2, <1>14
      <4>2. PICK c : c = values_register[b][j].cmd
        OBVIOUS
      <4>3. Known(j, c)
        BY <4>2 DEF Provenance
      <4>4. Known(j, c)'
        BY <4>3, <1>1, KnownStable
      <4> QED
        BY <4>1, <4>2, <4>4
    <3> QED BY <3>1, <3>2
  <2> QED
    BY <2>3, <2>4 DEF Provenance
<1>7. LearnerKnows'
  BY <1>1, KnownStable DEF LearnerKnows, learnerVars, Executed
<1>8. RegistersRemember'
  <2>1. ASSUME NEW b \in Acceptors, NEW j \in Instance
        PROVE  /\ rounds_register[b][j] \in Nat /\ rounds_register'[b][j] \in Nat
               /\ vrounds_register[b][j] \in Nat /\ vrounds_register'[b][j] \in Nat
               /\ rounds_register[b][j] <= rounds_register'[b][j]
               /\ vrounds_register[b][j] <= vrounds_register'[b][j]
               /\ vrounds_register'[b][j] <= rounds_register'[b][j]
    <3>1. vrounds_register[b][j] <= rounds_register[b][j]
      BY DEF RegistersRemember
    <3>2. /\ rounds_register[b][j] \in Nat /\ rounds_register'[b][j] \in Nat
          /\ vrounds_register[b][j] \in Nat /\ vrounds_register'[b][j] \in Nat
      BY <1>11, <1>12, <1>13, RoundNat
    <3>3. CASE b = a /\ j = i
      BY <3>1, <3>2, <3>3, <1>0, <1>1, <1>12, <1>13
    <3>4. CASE ~(b = a /\ j = i)
      BY <3>1, <3>2, <3>4, <1>12, <1>13
    <3> QED BY <3>2, <3>3, <3>4
  <2>2. ASSUME NEW x \in msgs PROVE Remembered(x)'
    <3>1. /\ x.inst \in Instance /\ x.rnd \in Nat
          /\ x.msgtype \in {"1B", "2B"} => x.acptid \in Acceptors
          /\ Remembered(x)
      BY MsgFacts
    <3>2. ASSUME x.msgtype = "1B" PROVE x.rnd <= rounds_register'[x.acptid][x.inst]
      BY <3>1, <3>2, <2>1 DEF Remembered
    <3>3. ASSUME x.msgtype = "2B"
          PROVE  /\ x.rnd <= vrounds_register'[x.acptid][x.inst]
                 /\ vrounds_register'[x.acptid][x.inst] = 0
                        => values_register'[x.acptid][x.inst] = x.val
      <4>1. x.rnd <= vrounds_register'[x.acptid][x.inst]
        BY <3>1, <3>3, <2>1 DEF Remembered
      <4>2. CASE x.acptid = a /\ x.inst = i /\ m.rnd = 0
        <5>1. values_register'[a][i] = m.val /\ vrounds_register'[a][i] = 0
          BY <4>2, <1>13, <1>14
        <5>2. x.rnd = 0
          BY <5>1, <4>1, <4>2, <3>1
        <5>3. x.src = "proposer" /\ m.src = "proposer"
          <6>1. Traceable(x) /\ x.src \in {"proposer", "learner"}
            BY MsgFacts
          <6>2. m.src \in {"proposer", "learner"}
            BY <1>0 DEF Paxos
          <6> QED
            BY <6>1, <6>2, <5>2, <4>2, <1>2 DEF Traceable
        <5> QED
          BY <5>1, <5>3, <4>1, <4>2, <1>b DEF Numbering
      <4>3. CASE x.acptid = a /\ x.inst = i /\ m.rnd # 0
        BY <4>1, <4>3, <1>13
      <4>4. CASE ~(x.acptid = a /\ x.inst = i)
        <5>1. /\ values_register'[x.acptid][x.inst] = values_register[x.acptid][x.inst]
              /\ vrounds_register'[x.acptid][x.inst] = vrounds_register[x.acptid][x.inst]
          BY <4>4, <3>1, <3>3, <1>13, <1>14
        <5> QED
          BY <4>1, <5>1, <3>1, <3>3 DEF Remembered
      <4> QED BY <4>2, <4>3, <4>4
    <3> QED
      BY <3>2, <3>3 DEF Remembered
  <2>3. Remembered(new)'
    BY <1>0, <1>3, <1>12, <1>13, <1>14 DEF Remembered, Round
  <2> QED
    BY <1>1, <2>1, <2>2, <2>3 DEF RegistersRemember
<1>9. PromisesReportVotes'
  <2>1. ASSUME NEW p \in msgs, p.msgtype = "1B", p.acptid = a, p.inst = i
        PROVE  ~(m.rnd < p.rnd)
    <3>1. Remembered(p) /\ p.rnd \in Nat /\ m.rnd \in Nat
      BY MsgFacts
    <3>2. rounds_register[a][i] \in Nat
      BY <1>0, <1>11, RoundNat
    <3> QED
      BY <2>1, <3>1, <3>2, <1>1 DEF Remembered
  <2> QED
    BY <1>1, <1>3, <2>1 DEF PromisesReportVotes
<1> QED BY <1>4, <1>5, <1>6, <1>7, <1>8, <1>9

-----------------------------------------------------------------------------
\* A learner sends nothing, or a 1A or 2A of round 1 with a known value.
Sends(m) == \E typ \in {"1A", "2A"}, i \in Instance, vrnd \in Round,
               c \in Commands \cup {Empty} :
    /\ i >= 1
    /\ Known(i, c)
    /\ m = make_paxos(typ, i, 1, vrnd, c)

\* Such a message leaves everything but the learners' own state as it was.
LEMMA LearnerSends ==
  ASSUME IInv, msgs' = msgs \/ \E m : Sends(m) /\ msgs' = msgs \cup {m},
         UNCHANGED <<uplink, instance_register, acceptorVars, req_id>>
  PROVE  /\ msgs \subseteq msgs' /\ msgs' \subseteq Paxos
         /\ Numbering' /\ Provenance' /\ RegistersRemember' /\ PromisesReportVotes'
<1> USE DEF IInv
<1>1. CASE msgs' = msgs
  <2>1. Numbering'
    BY <1>1 DEF Numbering
  <2>2. Provenance' /\ RegistersRemember' /\ PromisesReportVotes'
    BY <1>1 DEF Provenance, RegistersRemember, PromisesReportVotes, acceptorVars,
                Traceable, Remembered, Known, Sequenced, SequencedAs
  <2> QED
    BY <1>1, <2>1, <2>2 DEF TypeOK
<1>2. CASE \E m : Sends(m) /\ msgs' = msgs \cup {m}
  <2>0. PICK new : Sends(new) /\ msgs' = msgs \cup {new}
    BY <1>2
  <2>1. PICK typ \in {"1A", "2A"}, i \in Instance, vrnd \in Round,
             c \in Commands \cup {Empty} :
             /\ i >= 1 /\ Known(i, c) /\ new = make_paxos(typ, i, 1, vrnd, c)
             /\ msgs' = msgs \cup {new}
    BY <2>0 DEF Sends
  <2>2. /\ new \in Paxos /\ new.msgtype = typ /\ new.inst = i /\ new.rnd = 1
        /\ new.src = "learner" /\ new.val.cmd = c
    BY <2>1 DEF make_paxos, Paxos, PaxosValue, Round
  <2>3. msgs \subseteq msgs' /\ msgs' \subseteq Paxos
    BY <2>1, <2>2 DEF TypeOK
  <2>4. Numbering'
    BY <2>1, <2>2 DEF Numbering
  <2>5. Provenance'
    <3>1. Known(i, c)'
      BY <2>1, <2>3, KnownStable
    <3>2. Traceable(new)'
      BY <2>1, <2>2, <3>1 DEF Traceable
    <3>3. \A x \in msgs' : Traceable(x)'
      BY <2>1, <2>3, <3>2, TraceableStable DEF Provenance
    <3> QED
      BY <2>3, <3>3, KnownStable DEF Provenance, acceptorVars
  <2>6. RegistersRemember'
    BY <2>1, <2>2 DEF RegistersRemember, Remembered, acceptorVars
  <2>7. PromisesReportVotes'
    BY <2>1, <2>2 DEF PromisesReportVotes
  <2> QED BY <2>3, <2>4, <2>5, <2>6, <2>7
<1> QED BY <1>1, <1>2

\* Every packet a running learner captures fits under Count.
LEMMA CaptureType ==
  ASSUME IInv, NEW l \in Learners, Running(l), Capture(l)
  PROVE  captured' \in [Learners -> 0 .. Count]
<1>1. captured \in [Learners -> 0 .. Count] /\ Count \in Nat
  BY LearnerAssumption DEF IInv, TypeOK
<1>2. (IF Count = 0 THEN 0 ELSE captured[l] + 1) \in 0 .. Count
  BY <1>1 DEF Running
<1> QED
  BY <1>1, <1>2 DEF Capture

\* The test for a majority is a test of two numbers.
LEMMA QuorumTest ==
  ASSUME NEW Q \in SUBSET Acceptors
  PROVE  /\ IsFiniteSet(Q) /\ Cardinality(Q) \in Nat /\ majority \in Nat
         /\ (Cardinality(Q) >= majority) \in BOOLEAN
<1>1. IsFiniteSet(Q) /\ Cardinality(Q) \in Nat
  BY FS_Subset, FS_CardinalityType
<1>2. num_acceptors \in Nat
  BY LearnerAssumption, FS_CardinalityType
<1>3. majority \in Nat
  BY <1>2 DEF majority
<1> QED BY <1>1, <1>3

\* What counting a 2B makes of an entry.
LEMMA AfterP2bFacts ==
  ASSUME IInv, NEW l \in Learners, NEW m \in msgs, m.msgtype = "2B", Counts2b(l, m),
         NEW s, s = AfterP2b(Entry(states[l][m.inst], m.rnd), m)
  PROVE  /\ s \in LearnerState
         /\ s.val # NoValue /\ Known(m.inst, s.val)
         /\ s.val \in Commands \cup {Empty}
         /\ ~states[l][m.inst].finished
<1>1. /\ m.inst \in Instance /\ m.rnd \in Round /\ m.acptid \in Acceptors
      /\ m.val.cmd \in Commands \cup {Empty} /\ Known(m.inst, m.val.cmd)
  BY MsgFacts DEF Traceable, PaxosValue
<1>2. PICK t : t = states[l][m.inst]
  OBVIOUS
<1>3. t \in LearnerState /\ (t.val # NoValue => Known(m.inst, t.val))
  BY <1>1, <1>2 DEF IInv, TypeOK, LearnerKnows
<1>4. PICK e : e = Entry(t, m.rnd)
  OBVIOUS
<1>5. e \in LearnerState /\ e.val = t.val /\ e.finished = t.finished
  BY <1>1, <1>3, <1>4 DEF Entry, LearnerState
<1>6. ~t.finished
  BY <1>2, <1>4, <1>5 DEF Counts2b
<1>7. PICK nids : nids = e.nids \cup {m.acptid}
  OBVIOUS
<1>71. nids \in SUBSET Acceptors
  BY <1>1, <1>5, <1>7 DEF LearnerState
<1>8. PICK fin \in BOOLEAN : fin = (Cardinality(nids) >= majority)
  BY <1>71, QuorumTest
<1>9. s = [crnd |-> e.crnd, nids |-> nids,
           val |-> IF e.val = NoValue THEN m.val.cmd ELSE e.val, finished |-> fin]
  BY <1>2, <1>4, <1>5, <1>7, <1>8 DEF AfterP2b, LearnerState
<1>10. nids \in SUBSET Acceptors /\ e.crnd \in Round
       /\ e.val \in Commands \cup {Empty, NoValue}
  BY <1>1, <1>5, <1>7 DEF LearnerState
<1>11. NoValue \notin Commands \cup {Empty}
  BY LearnerAssumption
<1>12. s \in LearnerState
  BY <1>1, <1>9, <1>10 DEF LearnerState
<1>13. /\ s.val # NoValue /\ Known(m.inst, s.val) /\ s.val \in Commands \cup {Empty}
  BY <1>1, <1>3, <1>5, <1>9, <1>10, <1>11
<1> QED BY <1>2, <1>6, <1>12, <1>13

\* The same for a 1B.
LEMMA AfterP1bFacts ==
  ASSUME IInv, NEW l \in Learners, NEW m \in msgs, m.msgtype = "1B", Counts1b(l, m),
         NEW s, s = AfterP1b(Entry(proposerState[l][m.inst], m.rnd), m)
  PROVE  /\ s \in ProposerState /\ s.hvrnd = 0 /\ s.crnd = 1
         /\ s.hval \in Commands \cup {Empty} /\ Known(m.inst, s.hval)
<1>1. /\ m.inst \in Instance /\ m.rnd \in Round /\ m.acptid \in Acceptors
      /\ m.val.cmd \in Commands \cup {Empty} /\ Known(m.inst, m.val.cmd)
      /\ m.vrnd \in Nat
  BY MsgFacts DEF Traceable, PaxosValue
<1>2. m.rnd = 1
  BY MsgFacts DEF Traceable
<1>3. PICK t : t = proposerState[l][m.inst]
  OBVIOUS
<1>4. t \in ProposerState /\ t.hvrnd = 0
  BY <1>1, <1>3 DEF IInv, TypeOK, LearnerKnows
<1>5. PICK e : e = Entry(t, m.rnd)
  OBVIOUS
<1>6. e \in ProposerState /\ e.hvrnd = 0
  BY <1>1, <1>4, <1>5 DEF Entry, ProposerState
<1>7. e.crnd = 1
  BY <1>2, <1>3, <1>5 DEF Counts1b
<1>8. PICK nids : nids = e.nids \cup {m.acptid}
  OBVIOUS
<1>81. nids \in SUBSET Acceptors
  BY <1>1, <1>6, <1>8 DEF ProposerState
<1>9. PICK fin \in BOOLEAN : fin = (Cardinality(nids) >= majority)
  BY <1>81, QuorumTest
<1>10. s = [crnd |-> e.crnd, nids |-> nids, hval |-> m.val.cmd, hvrnd |-> e.hvrnd,
            finished |-> fin]
  <2>1. e.hvrnd <= m.vrnd
    BY <1>1, <1>6
  <2>2. s = [e EXCEPT !.nids = nids, !.hval = m.val.cmd, !.finished = fin]
    BY <1>3, <1>5, <1>8, <1>9, <2>1 DEF AfterP1b
  <2> QED
    BY <2>2, <1>6 DEF ProposerState
<1>11. nids \in SUBSET Acceptors /\ e.crnd \in Round
  BY <1>1, <1>6, <1>8 DEF ProposerState
<1> QED
  BY <1>1, <1>6, <1>7, <1>10, <1>11 DEF ProposerState

-----------------------------------------------------------------------------
\* The learner's handlers, one by one.  Each leaves the other components'
\* variables alone.
Elsewhere == UNCHANGED <<uplink, instance_register, acceptorVars, proposerVars>>

\* Counting a promise, and the 2A that the last one of a majority triggers.
LEMMA P1bStep ==
  ASSUME IInv, NEW l \in Learners, NEW m \in msgs, handle_p1b(l, m), Elsewhere
  PROVE  IInv'
<1>1. PICK s : s = AfterP1b(Entry(proposerState[l][m.inst], m.rnd), m)
  OBVIOUS
<1>2. /\ Running(l) /\ m.msgtype = "1B" /\ Counts1b(l, m) /\ Capture(l)
      /\ proposerState' = [proposerState EXCEPT ![l][m.inst] = s]
      /\ msgs' = IF s.finished
                 THEN msgs \cup {make_paxos("2A", m.inst, s.crnd, s.hvrnd, s.hval)}
                 ELSE msgs
      /\ UNCHANGED <<logs, states, minUncommitedIndex, maxInstance, db, alive,
                     restarts, uplink, responses>>
  BY <1>1 DEF handle_p1b, Send
<1>3. /\ s \in ProposerState /\ s.hvrnd = 0 /\ s.crnd = 1
      /\ s.hval \in Commands \cup {Empty} /\ Known(m.inst, s.hval)
  BY <1>1, <1>2, AfterP1bFacts
<1>4. m.inst \in Instance /\ m.inst >= 1
  BY MsgFacts DEF Traceable
<1>5. msgs' = msgs \/ \E x : Sends(x) /\ msgs' = msgs \cup {x}
  <2>1. ASSUME s.finished
        PROVE  \E x : Sends(x) /\ msgs' = msgs \cup {x}
    <3>1. PICK x : x = make_paxos("2A", m.inst, 1, 0, s.hval)
      OBVIOUS
    <3>2. Sends(x)
      BY <3>1, <1>3, <1>4 DEF Sends, Round
    <3> QED BY <3>1, <3>2, <2>1, <1>2, <1>3
  <2> QED BY <2>1, <1>2
<1>6. /\ msgs \subseteq msgs' /\ msgs' \subseteq Paxos
      /\ Numbering' /\ Provenance' /\ RegistersRemember' /\ PromisesReportVotes'
  BY <1>5, LearnerSends DEF Elsewhere, proposerVars
<1>7. proposerState \in [Learners -> [Instance -> ProposerState]]
  BY DEF IInv, TypeOK
<1>8. /\ proposerState' \in [Learners -> [Instance -> ProposerState]]
      /\ proposerState'[l][m.inst] = s
      /\ \A x \in Learners, y \in Instance : ~(x = l /\ y = m.inst) =>
            proposerState'[x][y] = proposerState[x][y]
  BY <1>2, <1>3, <1>4, <1>7, TableUpdate
<1>9. TypeOK'
  BY <1>2, <1>6, <1>8, CaptureType DEF IInv, TypeOK, Elsewhere, proposerVars, acceptorVars
<1>10. LearnerKnows'
  <2>1. \A x \in Learners, y \in Instance : proposerState'[x][y].hvrnd = 0
    BY <1>3, <1>8 DEF IInv, LearnerKnows
  <2> QED
    BY <1>2, <1>6, <2>1, KnownStable DEF IInv, LearnerKnows, Executed
<1> QED BY <1>6, <1>9, <1>10 DEF IInv

\* Counting a vote that does not yet make a majority.
LEMMA P2bVoteStep ==
  ASSUME IInv, NEW l \in Learners, NEW m \in msgs, handle_p2b_vote(l, m), Elsewhere
  PROVE  IInv'
<1>1. PICK s : s = AfterP2b(Entry(states[l][m.inst], m.rnd), m)
  OBVIOUS
<1>2. /\ Running(l) /\ m.msgtype = "2B" /\ Counts2b(l, m) /\ Capture(l)
      /\ states' = [states EXCEPT ![l][m.inst] = s]
      /\ UNCHANGED <<logs, proposerState, minUncommitedIndex, maxInstance, db, alive,
                     restarts, msgs, uplink, responses>>
  BY <1>1 DEF handle_p2b_vote, network
<1>3. /\ s \in LearnerState /\ Known(m.inst, s.val) /\ ~states[l][m.inst].finished
  BY <1>1, <1>2, AfterP2bFacts
<1>4. m.inst \in Instance
  BY MsgFacts
<1>5. /\ msgs' \subseteq Paxos
      /\ Numbering' /\ Provenance' /\ RegistersRemember' /\ PromisesReportVotes'
  BY <1>2, LearnerSends DEF Elsewhere, proposerVars
<1>6. states \in [Learners -> [Instance -> LearnerState]]
  BY DEF IInv, TypeOK
<1>7. /\ states' \in [Learners -> [Instance -> LearnerState]]
      /\ states'[l][m.inst] = s
      /\ \A x \in Learners, y \in Instance : ~(x = l /\ y = m.inst) =>
            states'[x][y] = states[x][y]
  BY <1>2, <1>3, <1>4, <1>6, TableUpdate
<1>8. TypeOK'
  BY <1>2, <1>5, <1>7, CaptureType DEF IInv, TypeOK, Elsewhere, proposerVars, acceptorVars
<1>9. LearnerKnows'
  <2> SUFFICES ASSUME NEW x \in Learners, NEW y \in Instance
               PROVE  /\ states'[x][y].val # NoValue => Known(y, states[x][y].val)'
                      /\ logs[x][y] # NoValue => states'[x][y].finished
    BY <1>2, KnownStable DEF IInv, LearnerKnows, Executed
  <2>1. CASE x = l /\ y = m.inst
    <3>1. logs[x][y] = NoValue
      BY <2>1, <1>3 DEF IInv, LearnerKnows
    <3>2. Known(m.inst, s.val)'
      BY <1>2, <1>3, KnownStable
    <3>3. Known(y, states[x][y].val)'
      BY <3>2, <2>1, <1>7
    <3> QED BY <3>1, <3>3
  <2>2. CASE ~(x = l /\ y = m.inst)
    <3>1. PICK c : c = states[x][y].val
      OBVIOUS
    <3>2. states'[x][y] = states[x][y]
      BY <2>2, <1>7
    <3>3. c # NoValue => Known(y, c)'
      BY <3>1, <1>2, KnownStable DEF IInv, LearnerKnows
    <3> QED
      BY <3>1, <3>2, <3>3 DEF IInv, LearnerKnows
  <2> QED BY <2>1, <2>2
<1> QED BY <1>5, <1>8, <1>9 DEF IInv

\* A crash of the process, or a packet that is only counted.
LEMMA P2bErrorStep ==
  ASSUME IInv, NEW l \in Learners, NEW m \in msgs,
         handle_p2b_error(l, m) \/ handle_pkt_ignore(l, m), Elsewhere
  PROVE  IInv'
<1>1. /\ Running(l) /\ Capture(l)
      /\ alive' \in [Learners -> BOOLEAN]
      /\ UNCHANGED <<logs, states, proposerState, minUncommitedIndex, maxInstance, db,
                     restarts, msgs, uplink, responses>>
  BY DEF handle_p2b_error, handle_pkt_ignore, network, IInv, TypeOK
<1>2. /\ msgs' \subseteq Paxos
      /\ Numbering' /\ Provenance' /\ RegistersRemember' /\ PromisesReportVotes'
  BY <1>1, LearnerSends DEF Elsewhere, proposerVars
<1>3. TypeOK'
  BY <1>1, <1>2, CaptureType DEF IInv, TypeOK, Elsewhere, proposerVars, acceptorVars
<1>4. LearnerKnows'
  BY <1>1, KnownStable DEF IInv, LearnerKnows, Executed
<1> QED BY <1>2, <1>3, <1>4 DEF IInv

\* A decision: the log gains an instance that was not executed before, and
\* what it releases for execution are values of the coordinator.
LEMMA P2bDecideStep ==
  ASSUME IInv, NEW l \in Learners, NEW m \in msgs, handle_p2b_decide(l, m), Elsewhere
  PROVE  IInv'
<1>a. PICK s : s = AfterP2b(Entry(states[l][m.inst], m.rnd), m)
  OBVIOUS
<1>b. PICK log : log = [logs[l] EXCEPT ![m.inst] = s.val]
  OBVIOUS
<1>c. PICK max : max = IF maxInstance[l] < m.inst THEN m.inst ELSE maxInstance[l]
  OBVIOUS
<1>d. PICK min : min = minUncommitedIndex[l]
  OBVIOUS
<1>1. /\ Running(l) /\ m.msgtype = "2B" /\ Counts2b(l, m) /\ Capture(l) /\ s.finished
      /\ states' = [states EXCEPT ![l][m.inst] = s]
      /\ logs' = [logs EXCEPT ![l] = log]
      /\ maxInstance' = [maxInstance EXCEPT ![l] = max]
      /\ deliverInstance(l, m, log, max)
      /\ UNCHANGED <<proposerState, restarts, uplink>>
  BY <1>a, <1>b, <1>c DEF handle_p2b_decide
<1>2. PICK stop \in min .. max + 1 :
        /\ \A j \in min .. stop - 1 : Executable(log[j])
        /\ minUncommitedIndex' = [minUncommitedIndex EXCEPT ![l] = stop]
        /\ alive' = alive \/ alive' = [alive EXCEPT ![l] = FALSE]
        /\ msgs' = msgs \/ (stop <= max /\ retryInstance(stop))
        /\ responses' = responses \/ \E res : respond(m, res)
  BY <1>1, <1>d DEF deliverInstance
<1>3. /\ s \in LearnerState /\ Known(m.inst, s.val) /\ s.val # NoValue
      /\ ~states[l][m.inst].finished /\ s.val \in Commands \cup {Empty}
  BY <1>a, <1>1, AfterP2bFacts
<1>4. m.inst \in Instance /\ m.inst \in Nat /\ m.inst >= 1
  BY MsgFacts DEF Traceable
<1>5. /\ minUncommitedIndex \in [Learners -> 1 .. INSTANCE_COUNT]
      /\ maxInstance \in [Learners -> Instance]
      /\ logs \in [Learners -> [Instance -> Commands \cup {Empty, NoValue}]]
      /\ states \in [Learners -> [Instance -> LearnerState]]
      /\ alive \in [Learners -> BOOLEAN]
      /\ \A r \in responses : r.req \in 1 .. MAX_REQ_ID
  BY DEF IInv, TypeOK
<1>6. max \in Instance /\ min \in 1 .. INSTANCE_COUNT /\ stop \in 1 .. INSTANCE_COUNT
  <2>1. max \in Instance
    BY <1>c, <1>4, <1>5
  <2>2. min \in 1 .. INSTANCE_COUNT
    BY <1>d, <1>5
  <2>3. stop \in 1 .. INSTANCE_COUNT
    BY <1>2, <2>1, <2>2 DEF Instance
  <2> QED BY <2>1, <2>2, <2>3
<1>7. msgs' = msgs \/ \E x : Sends(x) /\ msgs' = msgs \cup {x}
  <2>1. ASSUME stop <= max, retryInstance(stop)
        PROVE  \E x : Sends(x) /\ msgs' = msgs \cup {x}
    <3>1. PICK x : x = make_paxos("1A", stop, 1, 0, Empty)
      OBVIOUS
    <3>2. stop \in Instance /\ stop >= 1
      BY <2>1, <1>6 DEF Instance
    <3>3. Sends(x)
      BY <3>1, <3>2 DEF Sends, Round, Known
    <3> QED BY <3>1, <3>3, <2>1 DEF retryInstance, Send
  <2> QED BY <2>1, <1>2
<1>8. /\ msgs \subseteq msgs' /\ msgs' \subseteq Paxos
      /\ Numbering' /\ Provenance' /\ RegistersRemember' /\ PromisesReportVotes'
  BY <1>7, LearnerSends DEF Elsewhere, proposerVars
<1>9. /\ states' \in [Learners -> [Instance -> LearnerState]]
      /\ states'[l][m.inst] = s
      /\ \A x \in Learners, y \in Instance : ~(x = l /\ y = m.inst) =>
            states'[x][y] = states[x][y]
  BY <1>1, <1>3, <1>4, <1>5, TableUpdate
<1>10. /\ logs' \in [Learners -> [Instance -> Commands \cup {Empty, NoValue}]]
       /\ logs'[l] = log /\ log[m.inst] = s.val
       /\ \A x \in Learners, y \in Instance : ~(x = l /\ y = m.inst) =>
             logs'[x][y] = logs[x][y]
  BY <1>b, <1>1, <1>3, <1>4, <1>5
<1>11. \A r \in responses' : r.req \in 1 .. MAX_REQ_ID
  <2>1. m.src = "proposer" => m.val.req \in 1 .. MAX_REQ_ID
    BY MsgFacts DEF Traceable
  <2> QED BY <2>1, <1>2, <1>5 DEF respond
<1>12. TypeOK'
  <2>1. minUncommitedIndex' \in [Learners -> 1 .. INSTANCE_COUNT]
        /\ maxInstance' \in [Learners -> Instance]
    BY <1>1, <1>2, <1>5, <1>6
  <2>2. alive' \in [Learners -> BOOLEAN]
    BY <1>2, <1>5
  <2>3. captured' \in [Learners -> 0 .. Count]
    BY <1>1, CaptureType
  <2> QED
    BY <2>1, <2>2, <2>3, <1>1, <1>8, <1>9, <1>10, <1>11
    DEF IInv, TypeOK, Elsewhere, proposerVars, acceptorVars
<1>13. LearnerKnows'
  <2> SUFFICES ASSUME NEW x \in Learners, NEW y \in Instance
               PROVE  /\ states'[x][y].val # NoValue => Known(y, states[x][y].val)'
                      /\ logs'[x][y] # NoValue =>
                            states'[x][y].finished /\ Known(y, logs[x][y])'
                      /\ Executed(x, y)' => Executable(logs'[x][y])
    BY <1>1 DEF IInv, LearnerKnows, Executed
  <2>0. Known(m.inst, s.val)'
    BY <1>3, <1>8, KnownStable
  <2>1. states'[x][y].val # NoValue => Known(y, states[x][y].val)'
    <3>1. CASE x = l /\ y = m.inst
      BY <3>1, <2>0, <1>9
    <3>2. CASE ~(x = l /\ y = m.inst)
      <4>1. PICK c : c = states[x][y].val
        OBVIOUS
      <4>2. c # NoValue => Known(y, c)'
        BY <4>1, <1>8, KnownStable DEF IInv, LearnerKnows
      <4> QED BY <4>1, <4>2, <3>2, <1>9
    <3> QED BY <3>1, <3>2
  <2>2. logs'[x][y] # NoValue => states'[x][y].finished /\ Known(y, logs[x][y])'
    <3>1. CASE x = l /\ y = m.inst
      <4>1. Known(y, logs[x][y])'
        BY <3>1, <2>0, <1>10
      <4> QED BY <3>1, <4>1, <1>1, <1>9
    <3>2. CASE ~(x = l /\ y = m.inst)
      <4>1. PICK c : c = logs[x][y]
        OBVIOUS
      <4>2. c # NoValue => Known(y, c)' /\ states[x][y].finished
        BY <4>1, <1>8, KnownStable DEF IInv, LearnerKnows
      <4> QED BY <4>1, <4>2, <3>2, <1>9, <1>10
    <3> QED BY <3>1, <3>2
  <2>3. ASSUME Executed(x, y)' PROVE Executable(logs'[x][y])
    <3>1. CASE x # l
      <4>1. Executed(x, y) /\ logs'[x][y] = logs[x][y]
        BY <2>3, <3>1, <1>2, <1>5, <1>10 DEF Executed
      <4> QED BY <4>1 DEF IInv, LearnerKnows
    <3>2. CASE x = l /\ y < min
      <4>1. Executed(l, y) /\ y >= 1
        BY <2>3, <3>2, <1>d, <1>6 DEF Executed, Instance
      <4>2. Executable(logs[l][y])
        BY <4>1 DEF IInv, LearnerKnows
      <4>3. states[l][y].finished
        BY <4>2 DEF IInv, LearnerKnows, Executable
      <4>4. y # m.inst
        BY <4>3, <1>3
      <4> QED BY <4>2, <4>4, <3>2, <1>10
    <3>3. CASE x = l /\ ~(y < min)
      <4>1. y \in min .. stop - 1
        BY <2>3, <3>3, <1>2, <1>5, <1>6 DEF Executed, Instance
      <4> QED BY <4>1, <3>3, <1>2, <1>10
    <3> QED BY <3>1, <3>2, <3>3
  <2> QED BY <2>1, <2>2, <2>3
<1> QED BY <1>8, <1>12, <1>13 DEF IInv

\* Whatever a learner does with a packet.
LEMMA LearnStep ==
  ASSUME IInv, NEW l \in Learners, Learn(l) PROVE IInv'
<1>1. PICK m \in msgs :
        /\ handle_pkt(l, m)
        /\ UNCHANGED <<instance_register, acceptorVars, proposerVars>>
  BY DEF Learn
<1>2. Elsewhere
  BY <1>1 DEF Elsewhere, handle_pkt, handle_p1b, handle_p2b_vote, handle_p2b_decide,
              handle_p2b_error, handle_pkt_ignore, network
<1> QED
  BY <1>1, <1>2, P1bStep, P2bVoteStep, P2bDecideStep, P2bErrorStep DEF handle_pkt

\* A restarted learner knows nothing, which is always true.
LEMMA RestartStep ==
  ASSUME IInv, NEW l \in Learners, RestartLearner(l) PROVE IInv'
<1>1. /\ restarts < MaxRestarts /\ restarts' = restarts + 1
      /\ logs' = [logs EXCEPT ![l] = [i \in Instance |-> NoValue]]
      /\ states' = [states EXCEPT ![l] = [i \in Instance |-> NoLearnerState]]
      /\ proposerState' =
            [proposerState EXCEPT ![l] = [i \in Instance |-> NoProposerState]]
      /\ minUncommitedIndex' = [minUncommitedIndex EXCEPT ![l] = 1]
      /\ maxInstance' = [maxInstance EXCEPT ![l] = 1]
      /\ alive' = [alive EXCEPT ![l] = TRUE]
      /\ captured' = [captured EXCEPT ![l] = 0]
      /\ UNCHANGED <<msgs, uplink, responses, instance_register, acceptorVars,
                     proposerVars>>
  BY DEF RestartLearner, Restart, network
<1>2. /\ msgs' \subseteq Paxos
      /\ Numbering' /\ Provenance' /\ RegistersRemember' /\ PromisesReportVotes'
  BY <1>1, LearnerSends DEF proposerVars
<1>3. TypeOK'
  <2>1. NoLearnerState \in LearnerState /\ NoProposerState \in ProposerState
    BY DEF NoLearnerState, NoProposerState, LearnerState, ProposerState, Round
  <2>2. 1 \in Instance /\ 1 \in 1 .. INSTANCE_COUNT /\ 0 \in 0 .. Count
    BY LearnerAssumption DEF Instance
  <2>3. restarts' \in 0 .. MaxRestarts
    BY <1>1, LearnerAssumption DEF IInv, TypeOK
  <2>4. /\ logs' \in [Learners -> [Instance -> Commands \cup {Empty, NoValue}]]
        /\ states' \in [Learners -> [Instance -> LearnerState]]
        /\ proposerState' \in [Learners -> [Instance -> ProposerState]]
    BY <1>1, <2>1 DEF IInv, TypeOK
  <2>5. /\ minUncommitedIndex' \in [Learners -> 1 .. INSTANCE_COUNT]
        /\ maxInstance' \in [Learners -> Instance]
        /\ alive' \in [Learners -> BOOLEAN]
        /\ captured' \in [Learners -> 0 .. Count]
    BY <1>1, <2>2 DEF IInv, TypeOK
  <2> QED
    BY <2>3, <2>4, <2>5, <1>1, <1>2 DEF IInv, TypeOK, proposerVars, acceptorVars
<1>4. LearnerKnows'
  <2> SUFFICES ASSUME NEW x \in Learners, NEW y \in Instance
               PROVE  /\ states'[x][y].val # NoValue => Known(y, states[x][y].val)'
                      /\ logs'[x][y] # NoValue =>
                            states'[x][y].finished /\ Known(y, logs[x][y])'
                      /\ proposerState'[x][y].hvrnd = 0
                      /\ Executed(x, y)' => Executable(logs'[x][y])
    BY DEF LearnerKnows
  <2>1. CASE x = l
    <3>1. /\ states'[x][y] = NoLearnerState /\ logs'[x][y] = NoValue
          /\ proposerState'[x][y] = NoProposerState
          /\ minUncommitedIndex'[x] = 1
      BY <1>1, <2>1 DEF IInv, TypeOK
    <3> QED BY <3>1 DEF NoLearnerState, NoProposerState, Executed, Instance
  <2>2. CASE x # l
    <3>1. /\ states'[x][y] = states[x][y] /\ logs'[x][y] = logs[x][y]
          /\ proposerState'[x][y] = proposerState[x][y]
          /\ minUncommitedIndex'[x] = minUncommitedIndex[x]
      BY <1>1, <2>2 DEF IInv, TypeOK
    <3> QED
      BY <3>1, <1>1, KnownStable DEF IInv, LearnerKnows, Executed
  <2> QED BY <2>1, <2>2
<1> QED BY <1>2, <1>3, <1>4 DEF IInv

\* An answer changes nothing but the proposer's table.
LEMMA AnswerStep == ASSUME IInv, Answer PROVE IInv'
<1>1. PICK r \in responses :
        /\ defers' = [defers EXCEPT ![r.req] = r.result]
        /\ UNCHANGED <<req_id, msgs, uplink, responses, instance_register, acceptorVars,
                       learnerVars>>
  BY DEF Answer, datagramReceived, network
<1>2. /\ msgs' \subseteq Paxos
      /\ Numbering' /\ Provenance' /\ RegistersRemember' /\ PromisesReportVotes'
  BY <1>1, LearnerSends
<1>3. TypeOK'
  BY <1>1, <1>2 DEF IInv, TypeOK, acceptorVars, learnerVars
<1>4. LearnerKnows'
  BY <1>1, KnownStable DEF IInv, LearnerKnows, Executed, learnerVars
<1> QED BY <1>2, <1>3, <1>4 DEF IInv

-----------------------------------------------------------------------------
\* No step of any switch, replica or client breaks IInv.
LEMMA NextStep == IInv /\ [Next]_vars => IInv'
<1>1. IInv /\ UNCHANGED vars => IInv'
  <2> SUFFICES ASSUME IInv, UNCHANGED vars PROVE IInv'
      OBVIOUS
  <2>1. UNCHANGED <<msgs, uplink, responses, instance_register, acceptorVars, learnerVars,
                    req_id, defers>>
    BY DEF vars, network, proposerVars
  <2>2. /\ msgs' \subseteq Paxos
        /\ Numbering' /\ Provenance' /\ RegistersRemember' /\ PromisesReportVotes'
    BY <2>1, LearnerSends
  <2>3. TypeOK'
    BY <2>1, <2>2 DEF IInv, TypeOK, acceptorVars, learnerVars
  <2>4. LearnerKnows'
    BY <2>1, KnownStable DEF IInv, LearnerKnows, Executed, learnerVars
  <2> QED BY <2>2, <2>3, <2>4 DEF IInv
<1> QED
  BY <1>1, SubmitStep, LoseStep, CoordinateStep, PromiseStep, VoteStep, LearnStep,
     RestartStep, AnswerStep DEF Next

\* IInv is an invariant of the demo, over every interleaving of the switches,
\* the replicas and the client.
THEOREM Invariance == Spec => []IInv
BY InitIInv, NextStep, PTL DEF Spec

\* The variables keep their types (paxos_headers.p4 widths included).
THEOREM TypeCorrect == Spec => []TypeOK
<1>1. IInv => TypeOK
  BY DEF IInv
<1> QED BY <1>1, Invariance, PTL

\* Replicas execute the coordinator's commands in the coordinator's order
\* (deliverInstance), whatever is lost, retried or restarted.
THEOREM Consistency == Spec => []ReplicasAgree
<1>1. IInv => ReplicasAgree
  <2> SUFFICES ASSUME IInv PROVE ReplicasAgree
      OBVIOUS
  <2>1. ASSUME NEW l \in Learners, NEW i \in Instance, Executed(l, i)
        PROVE  Sequenced(i, logs[l][i])
    BY <2>1 DEF IInv, LearnerKnows, Executable, Known
  <2>2. ASSUME NEW i \in Instance, NEW c, NEW d, Sequenced(i, c), Sequenced(i, d)
        PROVE  c = d
    BY <2>2 DEF IInv, Numbering, Sequenced, SequencedAs
  <2> QED BY <2>1, <2>2 DEF ReplicasAgree
<1> QED BY <1>1, Invariance, PTL

\* A promise carries the acceptor's vote of an earlier round (handle_1a).
THEOREM PromisesAreHonest == Spec => []PromisesReportVotes
<1>1. IInv => PromisesReportVotes
  BY DEF IInv
<1> QED BY <1>1, Invariance, PTL

\* Two sets the learner would call a majority have a member in common if the
\* number of acceptors is odd; with an even number, ceil((n + 1) / 2) in
\* integer arithmetic is only half of them.
LEMMA QuorumsMeet ==
  ASSUME num_acceptors % 2 = 1,
         NEW P \in SUBSET Acceptors, NEW Q \in SUBSET Acceptors,
         Cardinality(P) >= majority, Cardinality(Q) >= majority
  PROVE  P \cap Q # {}
<1> SUFFICES ASSUME P \cap Q = {} PROVE FALSE
    OBVIOUS
<1>1. /\ IsFiniteSet(P) /\ IsFiniteSet(Q) /\ IsFiniteSet(P \cup Q)
      /\ Cardinality(P) \in Nat /\ Cardinality(Q) \in Nat
      /\ Cardinality(P \cup Q) \in Nat /\ num_acceptors \in Nat
  BY QuorumTest, LearnerAssumption, FS_CardinalityType, FS_Subset
<1>2. Cardinality(P \cup Q) <= num_acceptors
  BY FS_Subset, LearnerAssumption
<1>3. Cardinality(P \cup Q) = Cardinality(P) + Cardinality(Q)
  <2>1. Cardinality(P \cap Q) = 0
    BY FS_EmptySet
  <2> QED BY <1>1, <2>1, FS_Union
<1>4. 2 * majority = num_acceptors + 1
  BY <1>1 DEF majority
<1>5. majority \in Nat
  BY QuorumTest
<1> QED BY <1>1, <1>2, <1>3, <1>4, <1>5

\* Whoever collects promises from a majority sees what round 0 chose
\* (paxos_acceptor.p4), for every odd number of acceptors.
THEOREM ChosenSurvives ==
  ASSUME num_acceptors % 2 = 1
  PROVE  Spec => []ChosenIsReported
<1>1. IInv => ChosenIsReported
  <2> SUFFICES ASSUME IInv, NEW i \in Instance, NEW c \in Commands,
                      NEW Q \in SUBSET Acceptors,
                      Cardinality(Voters(i, 0, c)) >= majority,
                      Cardinality(Q) >= majority,
                      \A a \in Q : \E p \in msgs :
                         p.msgtype = "1B" /\ p.inst = i /\ p.acptid = a
               PROVE  \E p \in msgs :
                         /\ p.msgtype = "1B" /\ p.inst = i /\ p.acptid \in Q
                         /\ p.vrnd > 0 \/ p.val.cmd = c
      BY DEF ChosenIsReported
  <2>1. PICK a : a \in Voters(i, 0, c) \cap Q
    <3>1. Voters(i, 0, c) \in SUBSET Acceptors
      BY DEF Voters
    <3> QED BY <3>1, QuorumsMeet
  <2>2. PICK v \in msgs : v.msgtype = "2B" /\ v.inst = i /\ v.rnd = 0
                          /\ v.acptid = a /\ v.val.cmd = c
    BY <2>1 DEF Voters
  <2>3. PICK p \in msgs : p.msgtype = "1B" /\ p.inst = i /\ p.acptid = a
    BY <2>1
  <2>4. p.rnd = 1 /\ p.vrnd \in Nat
    BY <2>3, MsgFacts DEF Traceable
  <2>5. p.vrnd = 0 => p.val = v.val
    BY <2>2, <2>3, <2>4 DEF IInv, PromisesReportVotes
  <2> QED BY <2>1, <2>2, <2>3, <2>4, <2>5
<1> QED BY <1>1, Invariance, PTL
=============================================================================
