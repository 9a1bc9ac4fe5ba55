----------------------- MODULE NetPaxosLearner_proofs -----------------------
(***************************************************************************)
(* Theorems about the learners of NetPaxos: every decision rests on a      *)
(* majority of votes, a hole in the log has been asked for, and no step    *)
(* but a restart takes a decision back.  LInv adds to IInv what a          *)
(* learner's tables say of the votes on the wire.                          *)
(***************************************************************************)
EXTENDS NetPaxos_proofs

\* What the initial tables say of the votes: nothing.
LEMMA InitLInv == Init => LInv
<1> SUFFICES ASSUME Init PROVE LInv
    OBVIOUS
<1>1. IInv
  BY InitIInv
<1> USE DEF Init, NetworkInit, LearnerInit, ProposerInit
<1>2. TakeoversBeginWith1A
  BY DEF TakeoversBeginWith1A
<1>3. EntriesCountVotes /\ MaxBoundsLog
  BY DEF EntriesCountVotes, CountsVotes, MaxBoundsLog, NoLearnerState
<1>4. HolesAreRetried
  BY DEF HolesAreRetried, Executable
<1>5. IdsAreNew
  BY DEF IdsAreNew
<1> QED BY <1>1, <1>2, <1>3, <1>4, <1>5 DEF LInv

\* Packets are never taken back.
LEMMA MsgsGrow == [Next]_vars => msgs \subseteq msgs'
<1> SUFFICES ASSUME [Next]_vars PROVE msgs \subseteq msgs'
    OBVIOUS
<1>1. CASE Submit
  BY <1>1 DEF Submit, submit
<1>2. CASE Lose
  BY <1>2 DEF Lose, LoseRequest
<1>3. CASE Coordinate
  BY <1>3 DEF Coordinate, Sequence, handle_request, Send
<1>4. ASSUME NEW a \in Acceptors, Promise(a) \/ Vote(a) PROVE msgs \subseteq msgs'
  BY <1>4 DEF Promise, Vote, handle_1a, handle_2a, Send
<1>5. ASSUME NEW l \in Learners, Learn(l) PROVE msgs \subseteq msgs'
  <2>1. PICK m \in msgs : handle_pkt(l, m)
    BY <1>5 DEF Learn
  <2>2. CASE handle_p1b(l, m)
    BY <2>2 DEF handle_p1b, Send
  <2>3. CASE handle_p2b_decide(l, m)
    BY <2>3 DEF handle_p2b_decide, deliverInstance, retryInstance, Send
  <2>4. CASE handle_p2b_vote(l, m) \/ handle_p2b_error(l, m) \/ handle_pkt_ignore(l, m)
    BY <2>4 DEF handle_p2b_vote, handle_p2b_error, handle_pkt_ignore, network
  <2> QED BY <2>1, <2>2, <2>3, <2>4 DEF handle_pkt
<1>6. ASSUME NEW l \in Learners, RestartLearner(l) PROVE msgs \subseteq msgs'
  BY <1>6 DEF RestartLearner, Restart, network
<1>7. CASE Answer
  BY <1>7 DEF Answer, datagramReceived, network
<1>8. CASE UNCHANGED vars
  BY <1>8 DEF vars, network
<1> QED
  BY <1>1, <1>2, <1>3, <1>4, <1>5, <1>6, <1>7, <1>8 DEF Next

\* So a vote stays a vote, and a retried instance a retried one.
LEMMA VotesStable ==
  ASSUME msgs \subseteq msgs'
  PROVE  /\ \A i : Retried(i) => Retried(i)'
         /\ \A i, r, c : Voters(i, r, c) \subseteq Voters(i, r, c)'
         /\ \A i, s : CountsVotes(i, s) => CountsVotes(i, s)'
<1>1. \A i : Retried(i) => Retried(i)'
  BY DEF Retried
<1>2. \A i, r, c : Voters(i, r, c) \subseteq Voters(i, r, c)'
  BY DEF Voters
<1>3. ASSUME NEW i, NEW s, CountsVotes(i, s) PROVE CountsVotes(i, s)'
  BY <1>2, <1>3 DEF CountsVotes
<1> QED BY <1>1, <1>2, <1>3

-----------------------------------------------------------------------------
\* Every packet of a learner's takeover follows a 1A.
LEMMA TakeoverStep == LInv /\ [Next]_vars => TakeoversBeginWith1A'
<1> SUFFICES ASSUME LInv, [Next]_vars PROVE TakeoversBeginWith1A'
    OBVIOUS
<1>0. IInv /\ \A m \in msgs : m.src = "learner" => Retried(m.inst)'
  BY MsgsGrow, VotesStable DEF LInv, TakeoversBeginWith1A
<1>a. ASSUME msgs' = msgs PROVE TakeoversBeginWith1A'
  BY <1>0, <1>a DEF TakeoversBeginWith1A
<1>b. ASSUME NEW x, msgs' = msgs \cup {x}, x.src = "learner" => Retried(x.inst)'
      PROVE  TakeoversBeginWith1A'
  BY <1>0, <1>b DEF TakeoversBeginWith1A
<1>1. CASE Submit
  BY <1>1, <1>a DEF Submit, submit
<1>2. CASE Lose
  BY <1>2, <1>a DEF Lose, LoseRequest
<1>3. CASE Coordinate
  <2>1. PICK head : head = Head(uplink)
    OBVIOUS
  <2>2. PICK i : i = NextInstance(instance_register)
    OBVIOUS
  <2>3. PICK x : x = [head EXCEPT !.msgtype = "2A", !.rnd = 0, !.inst = i]
    OBVIOUS
  <2>4. msgs' = msgs \cup {x} /\ uplink # << >>
    BY <1>3, <2>1, <2>2, <2>3 DEF Coordinate, Sequence, handle_request, Send
  <2>5. uplink \in Seq(Paxos)
    BY <1>0 DEF IInv, TypeOK
  <2>6. head \in Paxos /\ head.src = "proposer"
    <3>1. head = uplink[1] /\ 1 \in 1 .. Len(uplink) /\ head \in Paxos
      BY <2>1, <2>4, <2>5, HeadTailProperties
    <3> QED BY <3>1, <1>0 DEF IInv, Numbering
  <2>7. x.src = head.src
    BY <2>3, <2>6 DEF Paxos
  <2> QED BY <2>4, <2>6, <2>7, <1>b
<1>4. ASSUME NEW a \in Acceptors, Promise(a) PROVE TakeoversBeginWith1A'
  <2>1. PICK m \in msgs : handle_1a(a, m)
    BY <1>4 DEF Promise
  <2>2. PICK x : x = [m EXCEPT !.msgtype = "1B", !.vrnd = vrounds_register[a][m.inst],
                               !.val = values_register[a][m.inst], !.acptid = a]
    OBVIOUS
  <2>3. m \in Paxos
    BY <1>0, MsgFacts
  <2>4. msgs' = msgs \cup {x} /\ x.src = m.src /\ x.inst = m.inst
    BY <2>1, <2>2, <2>3 DEF handle_1a, Send, Paxos
  <2> QED BY <2>4, <1>0, <1>b
<1>5. ASSUME NEW a \in Acceptors, Vote(a) PROVE TakeoversBeginWith1A'
  <2>1. PICK m \in msgs : handle_2a(a, m)
    BY <1>5 DEF Vote
  <2>2. PICK x : x = [m EXCEPT !.msgtype = "2B", !.acptid = a]
    OBVIOUS
  <2>3. m \in Paxos
    BY <1>0, MsgFacts
  <2>4. msgs' = msgs \cup {x} /\ x.src = m.src /\ x.inst = m.inst
    BY <2>1, <2>2, <2>3 DEF handle_2a, Send, Paxos
  <2> QED BY <2>4, <1>0, <1>b
<1>6. ASSUME NEW l \in Learners, Learn(l) PROVE TakeoversBeginWith1A'
  <2>1. PICK m \in msgs : handle_pkt(l, m)
    BY <1>6 DEF Learn
  <2>2. CASE handle_p1b(l, m)
    <3>1. PICK s : s = AfterP1b(Entry(proposerState[l][m.inst], m.rnd), m)
      OBVIOUS
    <3>2. PICK x : x = make_paxos("2A", m.inst, s.crnd, s.hvrnd, s.hval)
      OBVIOUS
    <3>3. m.msgtype = "1B" /\ (msgs' = msgs \/ msgs' = msgs \cup {x})
      BY <2>2, <3>1, <3>2 DEF handle_p1b, Send
    <3>4. m.src = "learner"
      BY <1>0, <3>3, MsgFacts DEF Traceable
    <3>5. x.inst = m.inst
      BY <3>2 DEF make_paxos
    <3> QED BY <3>3, <3>4, <3>5, <1>0, <1>a, <1>b
  <2>3. CASE handle_p2b_decide(l, m)
    <3>1. msgs' = msgs \/ \E stop : retryInstance(stop)
      BY <2>3 DEF handle_p2b_decide, deliverInstance
    <3>2. ASSUME NEW stop, retryInstance(stop) PROVE TakeoversBeginWith1A'
      <4>1. PICK x : x = make_paxos("1A", stop, 1, 0, Empty)
        OBVIOUS
      <4>2. msgs' = msgs \cup {x} /\ x.msgtype = "1A"
        BY <3>2, <4>1 DEF retryInstance, Send, make_paxos
      <4>3. Retried(x.inst)'
        BY <4>2 DEF Retried
      <4> QED BY <4>2, <4>3, <1>b
    <3> QED BY <3>1, <3>2, <1>a
  <2>4. CASE handle_p2b_vote(l, m) \/ handle_p2b_error(l, m) \/ handle_pkt_ignore(l, m)
    BY <2>4, <1>a DEF handle_p2b_vote, handle_p2b_error, handle_pkt_ignore, network
  <2> QED BY <2>1, <2>2, <2>3, <2>4 DEF handle_pkt
<1>7. ASSUME NEW l \in Learners, RestartLearner(l) PROVE TakeoversBeginWith1A'
  BY <1>7, <1>a DEF RestartLearner, Restart, network
<1>8. CASE Answer
  BY <1>8, <1>a DEF Answer, datagramReceived, network
<1>9. CASE UNCHANGED vars
  BY <1>9, <1>a DEF vars, network
<1> QED
  BY <1>1, <1>2, <1>3, <1>4, <1>5, <1>6, <1>7, <1>8, <1>9 DEF Next

-----------------------------------------------------------------------------
\* An entry that counts one more 2B still counts votes only (handle_p2b).
LEMMA CountedVote ==
  ASSUME LInv, NEW l \in Learners, NEW m \in msgs, m.msgtype = "2B", Counts2b(l, m),
         NEW s, s = AfterP2b(Entry(states[l][m.inst], m.rnd), m)
  PROVE  CountsVotes(m.inst, s)
<1>0. IInv /\ EntriesCountVotes
  BY DEF LInv
<1>1. /\ m.inst \in Instance /\ m.rnd \in Round /\ m.acptid \in Acceptors
      /\ m.val.cmd \in Commands \cup {Empty} /\ m.rnd \in {0, 1}
  BY <1>0, MsgFacts DEF Traceable, PaxosValue
<1>2. PICK i : i = m.inst
  OBVIOUS
<1>3. PICK t : t = states[l][i]
  OBVIOUS
<1>4. t \in LearnerState /\ CountsVotes(i, t)
  BY <1>0, <1>1, <1>2, <1>3 DEF IInv, TypeOK, EntriesCountVotes
<1>5. PICK e : e = Entry(t, m.rnd)
  OBVIOUS
<1>6. /\ e \in LearnerState /\ e.val = t.val /\ e.nids = t.nids
      /\ t.nids # {} => e.crnd = t.crnd
  BY <1>1, <1>4, <1>5 DEF Entry, LearnerState
<1>7. e.crnd = m.rnd
  BY <1>2, <1>3, <1>5 DEF Counts2b
<1>8. PICK nids : nids = t.nids \cup {m.acptid}
  OBVIOUS
<1>9. nids \in SUBSET Acceptors
  BY <1>1, <1>4, <1>8 DEF LearnerState
<1>10. PICK fin \in BOOLEAN : fin = (Cardinality(nids) >= majority)
  BY <1>9, QuorumTest
<1>11. s = [crnd |-> m.rnd, nids |-> nids,
            val |-> IF t.val = NoValue THEN m.val.cmd ELSE t.val, finished |-> fin]
  BY <1>2, <1>3, <1>5, <1>6, <1>7, <1>8, <1>10 DEF AfterP2b, LearnerState
<1>12. m.acptid \in Voters(i, m.rnd, m.val.cmd)
  BY <1>1, <1>2 DEF Voters
<1>13. \A a \in nids : \E c \in Commands \cup {Empty} : a \in Voters(i, m.rnd, c)
  <2> SUFFICES ASSUME NEW a \in nids
               PROVE  \E c \in Commands \cup {Empty} : a \in Voters(i, m.rnd, c)
      OBVIOUS
  <2>1. CASE a \in t.nids
    BY <2>1, <1>4, <1>6, <1>7 DEF CountsVotes
  <2>2. CASE a = m.acptid
    BY <2>2, <1>1, <1>12
  <2> QED BY <2>1, <2>2, <1>8
<1>14. Voters(i, m.rnd, s.val) # {}
  <2>1. CASE t.val = NoValue
    BY <2>1, <1>11, <1>12
  <2>2. CASE t.val # NoValue
    <3>1. t.nids # {} /\ Voters(i, t.crnd, t.val) # {}
      BY <2>2, <1>4 DEF CountsVotes
    <3> QED BY <3>1, <2>2, <1>6, <1>7, <1>11
  <2> QED BY <2>1, <2>2
<1>15. /\ s.nids = nids /\ s.nids # {} /\ s.crnd = m.rnd /\ s.finished = fin
  BY <1>8, <1>11
<1> QED
  BY <1>1, <1>2, <1>10, <1>13, <1>14, <1>15 DEF CountsVotes

\* The learners' tables after any step that is not the counting of a 2B or a
\* restart.
LEMMA TablesStay ==
  ASSUME LInv, msgs \subseteq msgs', UNCHANGED <<logs, states, minUncommitedIndex,
         maxInstance>>, \A l \in Learners : alive'[l] => alive[l]
  PROVE  EntriesCountVotes' /\ MaxBoundsLog' /\ HolesAreRetried'
<1>0. EntriesCountVotes /\ MaxBoundsLog /\ HolesAreRetried
  BY DEF LInv
<1>1. EntriesCountVotes'
  <2> SUFFICES ASSUME NEW l \in Learners, NEW i \in Instance
               PROVE  /\ CountsVotes(i, states[l][i])'
                      /\ logs'[l][i] # NoValue => logs'[l][i] = states'[l][i].val
      BY DEF EntriesCountVotes
  <2>1. PICK s : s = states[l][i]
    OBVIOUS
  <2>2. CountsVotes(i, s)'
    BY <1>0, <2>1, VotesStable DEF EntriesCountVotes
  <2>3. states'[l][i] = s
    BY <2>1
  <2> QED BY <1>0, <2>2, <2>3 DEF EntriesCountVotes
<1>2. MaxBoundsLog'
  BY <1>0 DEF MaxBoundsLog
<1>3. HolesAreRetried'
  <2> SUFFICES ASSUME NEW l \in Learners, NEW min, min = minUncommitedIndex[l],
                      alive'[l], min \in Instance
               PROVE  /\ ~Executable(logs[l][min])
                      /\ (\E i \in Instance : i > min /\ logs[l][i] # NoValue)
                            => Retried(min)'
      BY DEF HolesAreRetried
  <2> QED BY <1>0, VotesStable DEF HolesAreRetried
<1> QED BY <1>1, <1>2, <1>3

\* Counting a 2B that makes no majority.
LEMMA VoteCounted ==
  ASSUME LInv, NEW l \in Learners, NEW m \in msgs, handle_p2b_vote(l, m)
  PROVE  EntriesCountVotes' /\ MaxBoundsLog' /\ HolesAreRetried'
<1>0. IInv /\ EntriesCountVotes /\ MaxBoundsLog /\ HolesAreRetried
  BY DEF LInv
<1>1. PICK s : s = AfterP2b(Entry(states[l][m.inst], m.rnd), m)
  OBVIOUS
<1>2. /\ m.msgtype = "2B" /\ Counts2b(l, m)
      /\ states' = [states EXCEPT ![l][m.inst] = s]
      /\ UNCHANGED <<logs, minUncommitedIndex, maxInstance, alive, msgs>>
  BY <1>1 DEF handle_p2b_vote, network
<1>3. s \in LearnerState /\ ~states[l][m.inst].finished
  BY <1>0, <1>1, <1>2, AfterP2bFacts
<1>4. CountsVotes(m.inst, s)
  BY <1>1, <1>2, CountedVote
<1>5. m.inst \in Instance
  BY <1>0, MsgFacts
<1>6. states \in [Learners -> [Instance -> LearnerState]]
  BY <1>0 DEF IInv, TypeOK
<1>7. /\ states'[l][m.inst] = s
      /\ \A x \in Learners, y \in Instance : ~(x = l /\ y = m.inst) =>
            states'[x][y] = states[x][y]
  BY <1>2, <1>3, <1>5, <1>6, TableUpdate
<1>8. EntriesCountVotes'
  <2> SUFFICES ASSUME NEW x \in Learners, NEW y \in Instance
               PROVE  /\ CountsVotes(y, states[x][y])'
                      /\ logs'[x][y] # NoValue => logs'[x][y] = states'[x][y].val
      BY DEF EntriesCountVotes
  <2>1. CASE x = l /\ y = m.inst
    <3>1. CountsVotes(m.inst, s)'
      BY <1>2, <1>4, VotesStable
    <3>2. logs[x][y] = NoValue
      BY <2>1, <1>0, <1>3, <1>5 DEF IInv, LearnerKnows
    <3>3. CountsVotes(y, states[x][y])'
      BY <2>1, <3>1, <1>7
    <3> QED BY <3>2, <3>3, <1>2
  <2>2. CASE ~(x = l /\ y = m.inst)
    <3>1. PICK t : t = states[x][y]
      OBVIOUS
    <3>2. CountsVotes(y, t)'
      BY <3>1, <1>0, <1>2, VotesStable DEF EntriesCountVotes
    <3>3. states'[x][y] = t
      BY <3>1, <2>2, <1>7
    <3>4. logs'[x][y] # NoValue => logs'[x][y] = t.val
      BY <3>1, <1>0, <1>2 DEF EntriesCountVotes
    <3> QED BY <3>2, <3>3, <3>4
  <2> QED BY <2>1, <2>2
<1>9. MaxBoundsLog'
  BY <1>0, <1>2 DEF MaxBoundsLog
<1>10. HolesAreRetried'
  BY <1>0, <1>2 DEF HolesAreRetried, Retried
<1> QED BY <1>8, <1>9, <1>10

\* What a decision does to the learner that makes it: an undecided instance
\* is decided, execution stops at the first instance it cannot execute, and
\* that one is asked for again unless it ends the process (deliverInstance).
LEMMA DecideFacts ==
  ASSUME IInv, NEW l \in Learners, NEW m \in msgs, handle_p2b_decide(l, m)
  PROVE  \E s, max, stop :
           /\ s = AfterP2b(Entry(states[l][m.inst], m.rnd), m)
           /\ m.msgtype = "2B" /\ Counts2b(l, m)
           /\ s \in LearnerState /\ s.finished /\ s.val # NoValue
           /\ logs[l][m.inst] = NoValue
           /\ max \in Instance /\ max >= maxInstance[l] /\ max >= m.inst
           /\ stop \in Nat /\ stop >= minUncommitedIndex[l]
           /\ stop <= max \/ stop = max + 1
           /\ states'[l][m.inst] = s /\ logs'[l][m.inst] = s.val
           /\ maxInstance'[l] = max /\ minUncommitedIndex'[l] = stop
           /\ stop <= max => ~Executable(logs'[l][stop])
           /\ stop <= max => ~alive'[l] \/ Retried(stop)'
           /\ \A x \in Learners, y \in Instance : ~(x = l /\ y = m.inst) =>
                 states'[x][y] = states[x][y] /\ logs'[x][y] = logs[x][y]
           /\ \A x \in Learners \ {l} :
                 /\ maxInstance'[x] = maxInstance[x]
                 /\ minUncommitedIndex'[x] = minUncommitedIndex[x]
                 /\ alive'[x] = alive[x]
<1>a. PICK s : s = AfterP2b(Entry(states[l][m.inst], m.rnd), m)
  OBVIOUS
<1>b. PICK log : log = [logs[l] EXCEPT ![m.inst] = s.val]
  OBVIOUS
<1>c. PICK max : max = IF maxInstance[l] < m.inst THEN m.inst ELSE maxInstance[l]
  OBVIOUS
<1>d. PICK min : min = minUncommitedIndex[l]
  OBVIOUS
<1>1. /\ m.msgtype = "2B" /\ Counts2b(l, m) /\ s.finished
      /\ states' = [states EXCEPT ![l][m.inst] = s]
      /\ logs' = [logs EXCEPT ![l] = log]
      /\ maxInstance' = [maxInstance EXCEPT ![l] = max]
      /\ deliverInstance(l, m, log, max)
  BY <1>a, <1>b, <1>c DEF handle_p2b_decide
<1>2. PICK stop \in min .. max + 1 :
        /\ stop <= max => ~Executable(log[stop])
        /\ minUncommitedIndex' = [minUncommitedIndex EXCEPT ![l] = stop]
        /\ \/ alive' = [alive EXCEPT ![l] = FALSE]
           \/ alive' = alive /\ (stop <= max => retryInstance(stop))
  BY <1>1, <1>d DEF deliverInstance
<1>3. s \in LearnerState /\ s.val # NoValue /\ ~states[l][m.inst].finished
  BY <1>a, <1>1, AfterP2bFacts
<1>4. m.inst \in Instance /\ m.inst \in Nat
  BY MsgFacts
<1>5. /\ minUncommitedIndex \in [Learners -> 1 .. INSTANCE_COUNT]
      /\ maxInstance \in [Learners -> Instance]
      /\ logs \in [Learners -> [Instance -> Commands \cup {Empty, NoValue}]]
      /\ states \in [Learners -> [Instance -> LearnerState]]
      /\ alive \in [Learners -> BOOLEAN]
  BY DEF IInv, TypeOK
<1>6. logs[l][m.inst] = NoValue
  BY <1>3, <1>4 DEF IInv, LearnerKnows
<1>7. maxInstance[l] \in Nat /\ max \in Instance /\ max \in Nat
      /\ max >= maxInstance[l] /\ max >= m.inst
  BY <1>c, <1>4, <1>5 DEF Instance
<1>8. min \in Nat
  BY <1>d, <1>5
<1>9. stop \in Nat /\ stop >= min /\ (stop <= max \/ stop = max + 1)
  BY <1>2, <1>7, <1>8
<1>10. /\ states'[l][m.inst] = s
       /\ \A x \in Learners, y \in Instance : ~(x = l /\ y = m.inst) =>
             states'[x][y] = states[x][y]
  BY <1>1, <1>3, <1>4, <1>5, TableUpdate
<1>11. /\ logs'[l] = log /\ log[m.inst] = s.val
       /\ \A x \in Learners, y \in Instance : ~(x = l /\ y = m.inst) =>
             logs'[x][y] = logs[x][y]
  BY <1>b, <1>1, <1>4, <1>5
<1>12. /\ maxInstance'[l] = max /\ minUncommitedIndex'[l] = stop
       /\ \A x \in Learners \ {l} :
             /\ maxInstance'[x] = maxInstance[x]
             /\ minUncommitedIndex'[x] = minUncommitedIndex[x]
             /\ alive'[x] = alive[x]
  BY <1>1, <1>2, <1>5
<1>13. stop <= max => ~alive'[l] \/ Retried(stop)'
  <2>1. ASSUME retryInstance(stop) PROVE Retried(stop)'
    <3>1. PICK x : x = make_paxos("1A", stop, 1, 0, Empty)
      OBVIOUS
    <3>2. x \in msgs' /\ x.msgtype = "1A" /\ x.inst = stop
      BY <2>1, <3>1 DEF retryInstance, Send, make_paxos
    <3> QED BY <3>2 DEF Retried
  <2>2. ASSUME alive' = [alive EXCEPT ![l] = FALSE] PROVE ~alive'[l]
    BY <2>2, <1>5
  <2> QED BY <2>1, <2>2, <1>2
<1>14. stop <= max => ~Executable(logs'[l][stop])
  BY <1>2, <1>11
<1>15. stop >= minUncommitedIndex[l]
  BY <1>9, <1>d
<1> QED
  BY <1>a, <1>1, <1>3, <1>6, <1>7, <1>9, <1>10, <1>11, <1>12, <1>13, <1>14, <1>15

\* Counting the 2B that makes the majority.
LEMMA VoteDecides ==
  ASSUME LInv, NEW l \in Learners, NEW m \in msgs, handle_p2b_decide(l, m),
         msgs \subseteq msgs'
  PROVE  EntriesCountVotes' /\ MaxBoundsLog' /\ HolesAreRetried'
<1>0. IInv /\ EntriesCountVotes /\ MaxBoundsLog /\ HolesAreRetried
  BY DEF LInv
<1>1. PICK s, max, stop :
           /\ s = AfterP2b(Entry(states[l][m.inst], m.rnd), m)
           /\ m.msgtype = "2B" /\ Counts2b(l, m)
           /\ max \in Instance /\ max >= maxInstance[l] /\ max >= m.inst
           /\ stop \in Nat
           /\ stop <= max \/ stop = max + 1
           /\ states'[l][m.inst] = s /\ logs'[l][m.inst] = s.val
           /\ maxInstance'[l] = max /\ minUncommitedIndex'[l] = stop
           /\ stop <= max => ~Executable(logs'[l][stop])
           /\ stop <= max => ~alive'[l] \/ Retried(stop)'
           /\ \A x \in Learners, y \in Instance : ~(x = l /\ y = m.inst) =>
                 states'[x][y] = states[x][y] /\ logs'[x][y] = logs[x][y]
           /\ \A x \in Learners \ {l} :
                 /\ maxInstance'[x] = maxInstance[x]
                 /\ minUncommitedIndex'[x] = minUncommitedIndex[x]
                 /\ alive'[x] = alive[x]
  BY <1>0, DecideFacts
<1>2. CountsVotes(m.inst, s)'
  <2>1. CountsVotes(m.inst, s)
    BY <1>1, CountedVote
  <2> QED BY <2>1, VotesStable
<1>3. m.inst \in Instance /\ m.inst \in Nat
  BY <1>0, MsgFacts
<1>4. \A x \in Learners, y \in Instance : maxInstance[x] \in Nat /\ y \in Nat /\ max \in Nat
  BY <1>0, <1>1 DEF IInv, TypeOK, Instance
<1>5. EntriesCountVotes'
  <2> SUFFICES ASSUME NEW x \in Learners, NEW y \in Instance
               PROVE  /\ CountsVotes(y, states[x][y])'
                      /\ logs'[x][y] # NoValue => logs'[x][y] = states'[x][y].val
      BY DEF EntriesCountVotes
  <2>1. CASE x = l /\ y = m.inst
    <3>1. CountsVotes(y, states[x][y])'
      BY <2>1, <1>1, <1>2
    <3> QED BY <2>1, <3>1, <1>1
  <2>2. CASE ~(x = l /\ y = m.inst)
    <3>1. PICK t : t = states[x][y]
      OBVIOUS
    <3>2. CountsVotes(y, t)'
      BY <3>1, <1>0, VotesStable DEF EntriesCountVotes
    <3>3. states'[x][y] = t /\ logs'[x][y] = logs[x][y]
      BY <3>1, <2>2, <1>1
    <3>4. logs[x][y] # NoValue => logs[x][y] = t.val
      BY <3>1, <1>0 DEF EntriesCountVotes
    <3>5. CountsVotes(y, states[x][y])'
      BY <3>2, <3>3
    <3> QED BY <3>3, <3>4, <3>5
  <2> QED BY <2>1, <2>2
<1>6. MaxBoundsLog'
  <2> SUFFICES ASSUME NEW x \in Learners, NEW y \in Instance, logs'[x][y] # NoValue
               PROVE  y <= maxInstance'[x]
      BY DEF MaxBoundsLog
  <2>1. CASE x = l /\ y = m.inst
    BY <2>1, <1>1
  <2>2. CASE ~(x = l /\ y = m.inst)
    <3>1. y <= maxInstance[x]
      BY <2>2, <1>0, <1>1 DEF MaxBoundsLog
    <3>2. maxInstance[x] <= maxInstance'[x]
      BY <1>1, <1>4
    <3>3. maxInstance'[x] \in Nat
      BY <1>1, <1>4
    <3> QED BY <3>1, <3>2, <3>3, <1>4
  <2> QED BY <2>1, <2>2
<1>7. HolesAreRetried'
  <2> SUFFICES ASSUME NEW x \in Learners, NEW min, min = minUncommitedIndex'[x],
                      alive'[x], min \in Instance
               PROVE  /\ ~Executable(logs'[x][min])
                      /\ (\E i \in Instance : i > min /\ logs'[x][i] # NoValue)
                            => Retried(min)'
      BY DEF HolesAreRetried
  <2>1. CASE x # l
    <3>1. /\ min = minUncommitedIndex[x] /\ alive[x]
          /\ \A i \in Instance : logs'[x][i] = logs[x][i]
      BY <2>1, <1>1
    <3>2. /\ ~Executable(logs[x][min])
          /\ (\E i \in Instance : i > min /\ logs[x][i] # NoValue) => Retried(min)
      BY <3>1, <1>0 DEF HolesAreRetried
    <3> QED BY <3>1, <3>2, VotesStable
  <2>2. CASE x = l /\ stop <= max
    BY <2>2, <1>1
  <2>3. CASE x = l /\ ~(stop <= max)
    <3>1. min = max + 1 /\ max \in Nat
      BY <2>3, <1>1, <1>4
    <3>2. \A i \in Instance : i > max => logs'[x][i] = NoValue
      <4> SUFFICES ASSUME NEW i \in Instance, logs'[x][i] # NoValue PROVE ~(i > max)
          OBVIOUS
      <4>1. i <= maxInstance'[x]
        BY <1>6 DEF MaxBoundsLog
      <4> QED BY <4>1, <2>3, <1>1, <1>4
    <3>3. logs'[x][min] = NoValue
      BY <3>1, <3>2
    <3>4. \A i \in Instance : i > min => i > max
      BY <3>1, <1>4
    <3> QED BY <3>2, <3>3, <3>4 DEF Executable
  <2> QED BY <2>1, <2>2, <2>3
<1> QED BY <1>5, <1>6, <1>7

\* The empty tables of a new process say nothing.
LEMMA RestartTables ==
  ASSUME LInv, NEW l \in Learners, RestartLearner(l)
  PROVE  EntriesCountVotes' /\ MaxBoundsLog' /\ HolesAreRetried'
<1>0. IInv /\ EntriesCountVotes /\ MaxBoundsLog /\ HolesAreRetried
  BY DEF LInv
<1>1. /\ logs' = [logs EXCEPT ![l] = [i \in Instance |-> NoValue]]
      /\ states' = [states EXCEPT ![l] = [i \in Instance |-> NoLearnerState]]
      /\ minUncommitedIndex' = [minUncommitedIndex EXCEPT ![l] = 1]
      /\ maxInstance' = [maxInstance EXCEPT ![l] = 1]
      /\ alive' = [alive EXCEPT ![l] = TRUE]
      /\ UNCHANGED msgs
  BY DEF RestartLearner, Restart, network
<1>2. /\ \A i \in Instance : logs'[l][i] = NoValue /\ states'[l][i] = NoLearnerState
      /\ \A x \in Learners \ {l} :
            /\ logs'[x] = logs[x] /\ states'[x] = states[x]
            /\ minUncommitedIndex'[x] = minUncommitedIndex[x]
            /\ maxInstance'[x] = maxInstance[x] /\ alive'[x] = alive[x]
  BY <1>0, <1>1 DEF IInv, TypeOK
<1>3. EntriesCountVotes'
  <2> SUFFICES ASSUME NEW x \in Learners, NEW y \in Instance
               PROVE  /\ CountsVotes(y, states[x][y])'
                      /\ logs'[x][y] # NoValue => logs'[x][y] = states'[x][y].val
      BY DEF EntriesCountVotes
  <2>1. CASE x = l
    <3>1. states'[x][y] = NoLearnerState /\ logs'[x][y] = NoValue
      BY <2>1, <1>2
    <3> QED BY <3>1 DEF CountsVotes, NoLearnerState
  <2>2. CASE x # l
    <3>1. PICK t : t = states[x][y]
      OBVIOUS
    <3>2. CountsVotes(y, t)'
      BY <3>1, <1>0, <1>1, VotesStable DEF EntriesCountVotes
    <3>3. states'[x][y] = t /\ logs'[x][y] = logs[x][y]
      BY <3>1, <2>2, <1>2
    <3>4. CountsVotes(y, states[x][y])'
      BY <3>2, <3>3
    <3> QED BY <3>1, <3>3, <3>4, <1>0 DEF EntriesCountVotes
  <2> QED BY <2>1, <2>2
<1>4. MaxBoundsLog'
  BY <1>0, <1>2 DEF MaxBoundsLog
<1>5. HolesAreRetried'
  <2> SUFFICES ASSUME NEW x \in Learners, NEW min, min = minUncommitedIndex'[x],
                      alive'[x], min \in Instance
               PROVE  /\ ~Executable(logs'[x][min])
                      /\ (\E i \in Instance : i > min /\ logs'[x][i] # NoValue)
                            => Retried(min)'
      BY DEF HolesAreRetried
  <2>1. CASE x = l
    BY <2>1, <1>2 DEF Executable
  <2>2. CASE x # l
    <3>1. /\ ~Executable(logs[x][min])
          /\ (\E i \in Instance : i > min /\ logs[x][i] # NoValue) => Retried(min)
      BY <2>2, <1>0, <1>2 DEF HolesAreRetried
    <3> QED BY <3>1, <2>2, <1>1, <1>2, VotesStable
  <2> QED BY <2>1, <2>2
<1> QED BY <1>3, <1>4, <1>5

\* Only a request of a new id enters the proposer's table, and only an id
\* that waits is answered (proposer.py).
LEMMA DefersStep ==
  ASSUME LInv, [Next]_vars
  PROVE  /\ IdsAreNew'
         /\ \A r \in 1 .. MAX_REQ_ID :
               defers[r] \notin {NoRequest, Waiting} => defers'[r] = defers[r]
<1>0. /\ IdsAreNew /\ req_id \in Nat /\ DOMAIN defers = 1 .. MAX_REQ_ID
      /\ \A r \in responses : r.req \in 1 .. MAX_REQ_ID
  BY DEF LInv, IInv, TypeOK
<1>1. CASE Submit
  <2>1. /\ req_id' = req_id + 1
        /\ \/ defers' = defers
           \/ req_id' <= MAX_REQ_ID /\ defers' = [defers EXCEPT ![req_id'] = Waiting]
    <3>1. PICK cmd \in Commands : submit(cmd)
      BY <1>1 DEF Submit
    <3>2. CASE req_id' <= MAX_REQ_ID
      BY <3>1, <3>2 DEF submit
    <3>3. CASE ~(req_id' <= MAX_REQ_ID)
      BY <3>1, <3>3 DEF submit
    <3> QED BY <3>2, <3>3
  <2>2. \A r \in 1 .. MAX_REQ_ID : r # req_id' => defers'[r] = defers[r]
    BY <2>1, <1>0
  <2>3. req_id' <= MAX_REQ_ID => defers[req_id'] = NoRequest
    BY <2>1, <1>0 DEF IdsAreNew
  <2> QED BY <2>1, <2>2, <2>3, <1>0 DEF IdsAreNew
<1>2. CASE Answer
  <2>1. PICK r \in responses : /\ defers[r.req] = Waiting /\ req_id' = req_id
                               /\ defers' = [defers EXCEPT ![r.req] = r.result]
    BY <1>2 DEF Answer, datagramReceived
  <2>2. \A q \in 1 .. MAX_REQ_ID : q # r.req => defers'[q] = defers[q]
    BY <2>1, <1>0
  <2>3. ~(r.req > req_id)
    BY <2>1, <1>0, ProposerAssumption DEF IdsAreNew
  <2> QED BY <2>1, <2>2, <2>3, <1>0 DEF IdsAreNew
<1>3. CASE UNCHANGED proposerVars
  BY <1>0, <1>3 DEF proposerVars, IdsAreNew
<1> QED
  BY <1>1, <1>2, <1>3 DEF Next, Lose, Coordinate, Promise, Vote, Learn, RestartLearner, vars

\* LInv is inductive.
LEMMA NextLInv == LInv /\ [Next]_vars => LInv'
<1> SUFFICES ASSUME LInv, [Next]_vars PROVE LInv'
    OBVIOUS
<1>1. IInv' /\ TakeoversBeginWith1A' /\ IdsAreNew' /\ msgs \subseteq msgs'
  BY NextStep, TakeoverStep, DefersStep, MsgsGrow DEF LInv
<1>2. EntriesCountVotes' /\ MaxBoundsLog' /\ HolesAreRetried'
  <2>1. CASE UNCHANGED learnerVars
    BY <2>1, <1>1, TablesStay DEF learnerVars
  <2>2. ASSUME NEW l \in Learners, Learn(l)
        PROVE  EntriesCountVotes' /\ MaxBoundsLog' /\ HolesAreRetried'
    <3>1. PICK m \in msgs : handle_pkt(l, m)
      BY <2>2 DEF Learn
    <3>2. CASE handle_p1b(l, m)
      BY <3>2, <1>1, TablesStay DEF handle_p1b
    <3>3. CASE handle_p2b_error(l, m)
      <4>1. \A x \in Learners : alive'[x] => alive[x]
        BY <3>3 DEF handle_p2b_error, LInv, IInv, TypeOK
      <4> QED BY <3>3, <4>1, <1>1, TablesStay DEF handle_p2b_error
    <3>4. CASE handle_pkt_ignore(l, m)
      BY <3>4, <1>1, TablesStay DEF handle_pkt_ignore
    <3> QED
      BY <3>1, <3>2, <3>3, <3>4, <1>1, VoteCounted, VoteDecides DEF handle_pkt
  <2>3. CASE ~UNCHANGED learnerVars /\ ~\E l \in Learners : Learn(l)
    <3>1. PICK l \in Learners : RestartLearner(l)
      BY <2>3 DEF Next, Submit, Lose, Coordinate, Promise, Vote, Answer, vars
    <3> QED BY <3>1, RestartTables
  <2> QED BY <2>1, <2>2, <2>3
<1> QED BY <1>1, <1>2 DEF LInv

-----------------------------------------------------------------------------
\* LInv is an invariant of the demo: a learner's tables always agree with the
\* votes that were sent.
THEOREM LearnerInvariance == Spec => []LInv
BY InitLInv, NextLInv, PTL DEF Spec

\* A running replica never sits on a command it could execute and has asked
\* for the first instance it misses (deliverInstance, retryInstance).
THEOREM HolesRetried == Spec => []HolesAreRetried
<1>1. LInv => HolesAreRetried
  BY DEF LInv
<1> QED BY <1>1, LearnerInvariance, PTL

\* What a learner logs was voted for by a member of a majority of one round,
\* and by the whole majority where no learner took the instance over
\* (handle_p2b).
THEOREM DecisionsHaveQuorums == Spec => []DecisionHasQuorum
<1>1. LInv => DecisionHasQuorum
  <2> SUFFICES ASSUME LInv, NEW l \in Learners, NEW i \in Instance, logs[l][i] # NoValue
               PROVE  /\ \E r \in {0, 1} :
                            /\ Voters(i, r, logs[l][i]) # {}
                            /\ Cardinality(UNION {Voters(i, r, c) :
                                                    c \in Commands \cup {Empty}})
                                   >= majority
                      /\ ~Retried(i) => Cardinality(Voters(i, 0, logs[l][i])) >= majority
      BY DEF DecisionHasQuorum
  <2>0. IInv /\ EntriesCountVotes /\ TakeoversBeginWith1A
    BY DEF LInv
  <2>1. PICK s : s = states[l][i]
    OBVIOUS
  <2>2. PICK v : v = logs[l][i]
    OBVIOUS
  <2>3. /\ s \in LearnerState /\ s.finished /\ s.val = v /\ v # NoValue
        /\ CountsVotes(i, s)
    BY <2>0, <2>1, <2>2 DEF IInv, TypeOK, LearnerKnows, EntriesCountVotes
  <2>4. /\ s.nids \in SUBSET Acceptors /\ s.nids # {}
        /\ s.crnd \in {0, 1} /\ Cardinality(s.nids) >= majority
        /\ Voters(i, s.crnd, v) # {}
    <3>1. s.nids # {} /\ Cardinality(s.nids) >= majority /\ Voters(i, s.crnd, v) # {}
      BY <2>3 DEF CountsVotes
    <3> QED BY <2>3, <3>1 DEF CountsVotes, LearnerState
  <2>5. ASSUME NEW Q \in SUBSET Acceptors, s.nids \subseteq Q
        PROVE  Cardinality(Q) >= majority
    <3>1. Cardinality(s.nids) <= Cardinality(Q)
      BY <2>5, QuorumTest, FS_Subset
    <3>2. Cardinality(s.nids) \in Nat /\ Cardinality(Q) \in Nat /\ majority \in Nat
      BY <2>4, QuorumTest
    <3> QED BY <2>4, <3>1, <3>2
  <2>6. Cardinality(UNION {Voters(i, s.crnd, c) : c \in Commands \cup {Empty}}) >= majority
    <3>1. PICK Q : Q = UNION {Voters(i, s.crnd, c) : c \in Commands \cup {Empty}}
      OBVIOUS
    <3>2. s.nids \subseteq Q
      BY <2>3, <3>1 DEF CountsVotes
    <3>3. Q \in SUBSET Acceptors
      BY <3>1 DEF Voters
    <3> QED BY <3>1, <3>2, <3>3, <2>5
  <2>7. ASSUME ~Retried(i) PROVE Cardinality(Voters(i, 0, v)) >= majority
    <3>1. ASSUME NEW x \in msgs, x.msgtype = "2B", x.inst = i
          PROVE  x.rnd = 0 /\ x.src = "proposer"
      BY <3>1, <2>0, <2>7, MsgFacts DEF TakeoversBeginWith1A, Traceable
    <3>2. PICK b \in Acceptors, x \in msgs : x.msgtype = "2B" /\ x.inst = i
             /\ x.rnd = s.crnd /\ x.acptid = b /\ x.val.cmd = v
      BY <2>4 DEF Voters
    <3>3. s.crnd = 0
      BY <3>1, <3>2
    <3>4. s.nids \subseteq Voters(i, 0, v)
      <4> SUFFICES ASSUME NEW a \in s.nids PROVE a \in Voters(i, 0, v)
          OBVIOUS
      <4>0. PICK c \in Commands \cup {Empty} : a \in Voters(i, 0, c)
        BY <2>3, <3>3 DEF CountsVotes
      <4>1. PICK y \in msgs : y.msgtype = "2B" /\ y.inst = i
               /\ y.rnd = 0 /\ y.acptid = a /\ y.val.cmd = c
        BY <4>0 DEF Voters
      <4>2. y.val = x.val
        BY <3>1, <3>2, <4>1, <2>0 DEF IInv, Numbering
      <4>3. a \in Acceptors
        BY <2>4
      <4> QED BY <3>2, <4>1, <4>2, <4>3 DEF Voters
    <3>5. Voters(i, 0, v) \in SUBSET Acceptors
      BY DEF Voters
    <3> QED BY <3>4, <3>5, <2>5
  <2> QED BY <2>2, <2>4, <2>6, <2>7
<1> QED BY <1>1, LearnerInvariance, PTL

\* A step that is not a restart takes back no decision, no execution and no
\* answer (handle_p2b's finished, deliverInstance, AlreadyCalledError).
THEOREM Finality == Spec => DecisionsAreFinal
<1> DEFINE A ==
      /\ restarts' = restarts =>
           \A l \in Learners :
              /\ minUncommitedIndex'[l] >= minUncommitedIndex[l]
              /\ \A i \in Instance : logs[l][i] # NoValue => logs'[l][i] = logs[l][i]
      /\ \A r \in 1 .. MAX_REQ_ID :
           defers[r] \notin {NoRequest, Waiting} => defers'[r] = defers[r]
<1>1. LInv /\ [Next]_vars => A
  <2> SUFFICES ASSUME LInv, [Next]_vars, restarts' = restarts, NEW l \in Learners
               PROVE  /\ minUncommitedIndex'[l] >= minUncommitedIndex[l]
                      /\ \A i \in Instance : logs[l][i] # NoValue => logs'[l][i] = logs[l][i]
      BY DefersStep
  <2>0. IInv /\ minUncommitedIndex[l] \in Nat /\ restarts \in Nat
    BY DEF LInv, IInv, TypeOK
  <2>1. CASE UNCHANGED <<logs, minUncommitedIndex>>
    BY <2>0, <2>1
  <2>2. ASSUME NEW k \in Learners, NEW m \in msgs, handle_p2b_decide(k, m)
        PROVE  /\ minUncommitedIndex'[l] >= minUncommitedIndex[l]
               /\ \A i \in Instance : logs[l][i] # NoValue => logs'[l][i] = logs[l][i]
    <3>1. PICK stop :
            /\ logs[k][m.inst] = NoValue
            /\ stop \in Nat /\ stop >= minUncommitedIndex[k]
            /\ minUncommitedIndex'[k] = stop
            /\ \A x \in Learners, y \in Instance : ~(x = k /\ y = m.inst) =>
                  logs'[x][y] = logs[x][y]
            /\ \A x \in Learners \ {k} : minUncommitedIndex'[x] = minUncommitedIndex[x]
      BY <2>0, <2>2, DecideFacts
    <3> QED BY <3>1, <2>0
  <2>3. CASE ~UNCHANGED <<logs, minUncommitedIndex>>
    <3>1. ~UNCHANGED learnerVars
      BY <2>3 DEF learnerVars
    <3>2. ~\E k \in Learners : RestartLearner(k)
      BY <2>0 DEF RestartLearner, Restart
    <3>3. PICK k \in Learners : Learn(k)
      BY <3>1, <3>2 DEF Next, Submit, Lose, Coordinate, Promise, Vote, Answer, vars
    <3>4. PICK m \in msgs : handle_pkt(k, m)
      BY <3>3 DEF Learn
    <3>5. handle_p2b_decide(k, m)
      BY <2>3, <3>4 DEF handle_pkt, handle_p1b, handle_p2b_vote, handle_p2b_error,
                        handle_pkt_ignore
    <3> QED BY <3>5, <2>2
  <2> QED BY <2>1, <2>3
<1>2. LInv /\ [Next]_vars => [A]_vars
  BY <1>1
<1> HIDE DEF A
<1>3. Spec => [][A]_vars
  BY <1>2, LearnerInvariance, PTL DEF Spec
<1> QED BY <1>3 DEF A, DecisionsAreFinal
=============================================================================
