------------------------ MODULE NetPaxosStore_proofs ------------------------
(***************************************************************************)
(* Theorems about the replicated store of NetPaxos: a replica's database   *)
(* is the one a prefix of the coordinator's order leaves, and an answer is *)
(* the result of its request at its place in that order.                   *)
(***************************************************************************)
EXTENDS NetPaxosLearner_proofs, NaturalsInduction, WellFoundedInduction

-----------------------------------------------------------------------------
(* ExecuteAll, a recursive function over the commands of a sequence.       *)

\* dbs[k] is the database after the first k of n commands.
IsRun(dbs, d, cmds, n) ==
    dbs = [k \in 0 .. n |-> IF k = 0 THEN d ELSE Execute(dbs[k - 1], cmds[k])]

\* ExecuteAll's recursive function is such a run.
LEMMA ExecuteAllRun ==
  ASSUME NEW d, NEW cmds
  PROVE  ExecuteAll(d, cmds) =
            (CHOOSE dbs : IsRun(dbs, d, cmds, Len(cmds)))[Len(cmds)]
BY DEF ExecuteAll, IsRun

\* A set of numbers has a least member.
LEMMA LeastMember ==
  ASSUME NEW T, T \subseteq Nat, T # {}
  PROVE  \E x \in T : \A y \in T : x <= y
<1>1. IsWellFoundedOn(OpToRel(<, Nat), Nat)
  BY NatLessThanWellFounded
<1>2. PICK x \in T : \A y \in T : ~(<<y, x>> \in OpToRel(<, Nat))
  BY <1>1, WFMin
<1>3. \A y \in T : x \in Nat /\ y \in Nat /\ (<<y, x>> \in OpToRel(<, Nat) <=> y < x)
  BY DEF OpToRel
<1>4. \A y \in T : ~(y < x)
  BY <1>2, <1>3
<1>5. \A y \in T : x \in Nat /\ y \in Nat
  BY <1>3
<1>6. \A y \in T : x <= y
  BY <1>4, <1>5
<1> QED BY <1>2, <1>6

\* Every sequence of commands has a run.
LEMMA RunExists ==
  ASSUME NEW d, NEW cmds, NEW n \in Nat
  PROVE  \E dbs : IsRun(dbs, d, cmds, n)
<1> DEFINE T == {k \in Nat : ~\E dbs : IsRun(dbs, d, cmds, k)}
<1> SUFFICES ASSUME T # {} PROVE FALSE
    OBVIOUS
<1>0. T \subseteq Nat
  OBVIOUS
<1>1. PICK m \in T : \A k \in T : m <= k
  <2> HIDE DEF T
  <2> QED BY <1>0, LeastMember
<1>2. m # 0
  <2>1. IsRun([k \in 0 .. 0 |-> d], d, cmds, 0)
    BY DEF IsRun
  <2> QED BY <2>1
<1>3. m - 1 \in Nat /\ m - 1 \notin T
  BY <1>0, <1>1, <1>2
<1>4. PICK g : IsRun(g, d, cmds, m - 1)
  BY <1>3
<1>5. PICK f : f = [k \in 0 .. m |-> IF k = m THEN Execute(g[m - 1], cmds[m]) ELSE g[k]]
  OBVIOUS
<1>6. \A k \in 0 .. m - 1 : f[k] = g[k]
  BY <1>3, <1>5
<1>7. ASSUME NEW k \in 0 .. m
      PROVE  f[k] = IF k = 0 THEN d ELSE Execute(f[k - 1], cmds[k])
  <2>1. CASE k = m
    <3>1. f[k] = Execute(g[m - 1], cmds[m]) /\ f[m - 1] = g[m - 1]
      BY <2>1, <1>3, <1>5, <1>6
    <3> QED BY <2>1, <3>1, <1>2
  <2>2. CASE k # m
    <3>1. k \in 0 .. m - 1 /\ (k # 0 => k - 1 \in 0 .. m - 1)
      BY <2>2, <1>3
    <3>2. g[k] = IF k = 0 THEN d ELSE Execute(g[k - 1], cmds[k])
      BY <3>1, <1>4 DEF IsRun
    <3> QED BY <3>1, <3>2, <1>6
  <2> QED BY <2>1, <2>2
<1>8. IsRun(f, d, cmds, m)
  BY <1>5, <1>7 DEF IsRun
<1> QED BY <1>1, <1>8

\* Runs over sequences that begin alike go through the same databases.
LEMMA RunsAgree ==
  ASSUME NEW d, NEW s, NEW t, NEW n \in Nat, NEW m \in Nat, NEW f, NEW g,
         IsRun(f, d, s, n), IsRun(g, d, t, m),
         NEW k \in Nat, k <= n, k <= m, \A j \in 1 .. k : s[j] = t[j]
  PROVE  f[k] = g[k]
<1> DEFINE T == {j \in 0 .. k : f[j] # g[j]}
<1> SUFFICES ASSUME T # {} PROVE FALSE
    OBVIOUS
<1>0. T \subseteq Nat
  OBVIOUS
<1>1. PICK j \in T : \A i \in T : j <= i
  <2> HIDE DEF T
  <2> QED BY <1>0, LeastMember
<1>2. /\ j \in 0 .. n /\ j \in 0 .. m
      /\ f[j] = IF j = 0 THEN d ELSE Execute(f[j - 1], s[j])
      /\ g[j] = IF j = 0 THEN d ELSE Execute(g[j - 1], t[j])
  <2>1. j \in 0 .. n /\ j \in 0 .. m
    OBVIOUS
  <2> QED BY <2>1 DEF IsRun
<1>3. j # 0
  BY <1>1, <1>2
<1>4. j - 1 \in 0 .. k /\ j - 1 \notin T
  BY <1>1, <1>3
<1>5. f[j - 1] = g[j - 1] /\ s[j] = t[j]
  BY <1>1, <1>3, <1>4
<1> QED BY <1>1, <1>2, <1>5

\* So ExecuteAll is the last database of any run over the sequence.
LEMMA ExecuteAllIs ==
  ASSUME NEW d, NEW cmds, NEW n \in Nat, Len(cmds) = n, NEW f, IsRun(f, d, cmds, n)
  PROVE  ExecuteAll(d, cmds) = f[n]
<1> DEFINE g == CHOOSE dbs : IsRun(dbs, d, cmds, n)
<1>2. IsRun(g, d, cmds, n)
  BY Zenon
<1>3. ExecuteAll(d, cmds) = g[n]
  BY ExecuteAllRun, Zenon
<1> HIDE DEF g
<1>4. f[n] = g[n]
  BY <1>2, RunsAgree
<1> QED BY <1>3, <1>4

\* u is s, of length a, followed by t, of length b.
IsConcatenation(u, s, t, a, b) ==
    /\ Len(s) = a /\ Len(t) = b /\ Len(u) = a + b
    /\ \A j \in 1 .. a : u[j] = s[j]
    /\ \A j \in 1 .. b : u[a + j] = t[j]

\* Executing a sequence is executing its beginning and then its rest, which
\* is why a replica may execute in as many rounds as packets release.
LEMMA ExecuteInTwo ==
  ASSUME NEW d, NEW a \in Nat, NEW b \in Nat, NEW s, NEW t, NEW u,
         IsConcatenation(u, s, t, a, b)
  PROVE  ExecuteAll(d, u) = ExecuteAll(ExecuteAll(d, s), t)
<1> USE DEF IsConcatenation
<1>0. PICK n \in Nat : n = a + b
  OBVIOUS
<1>1. PICK f : IsRun(f, d, u, n)
  BY RunExists
<1>2. PICK g : IsRun(g, d, s, a)
  BY RunExists
<1>3. f[a] = g[a]
  <2>1. a <= n /\ a <= a
    BY <1>0
  <2>2. \A j \in 1 .. a : u[j] = s[j]
    OBVIOUS
  <2> QED BY ONLY a \in Nat, n \in Nat, <1>1, <1>2, <2>1, <2>2, RunsAgree
<1>a. PICK e : e = f[a]
  OBVIOUS
<1>4. ExecuteAll(d, s) = e
  <2>1. ExecuteAll(d, s) = g[a]
    BY ONLY a \in Nat, Len(s) = a, <1>2, ExecuteAllIs
  <2> QED BY <1>a, <1>3, <2>1
<1>5. PICK h : h = [k \in 0 .. b |-> f[a + k]]
  OBVIOUS
<1>6. ASSUME NEW k \in 0 .. b
      PROVE  h[k] = IF k = 0 THEN e ELSE Execute(h[k - 1], t[k])
  <2>1. CASE k = 0
    BY <2>1, <1>5, <1>a
  <2>2. CASE k # 0
    <3>1. a + k \in 0 .. n /\ a + k # 0 /\ (a + k) - 1 = a + (k - 1)
          /\ k - 1 \in 0 .. b /\ k \in 1 .. b
      BY <2>2, <1>0
    <3>2. f[a + k] = Execute(f[(a + k) - 1], u[a + k])
      BY <3>1, <1>1 DEF IsRun
    <3>3. h[k] = f[a + k] /\ h[k - 1] = f[a + (k - 1)] /\ u[a + k] = t[k]
      BY <3>1, <1>5
    <3> QED BY <2>2, <3>1, <3>2, <3>3
  <2> QED BY <2>1, <2>2
<1>7. IsRun(h, e, t, b)
  <2>1. h = [k \in 0 .. b |-> h[k]]
    BY <1>5
  <2> QED BY <1>6, <2>1, Zenon DEF IsRun
<1>8. ExecuteAll(e, t) = h[b]
  BY <1>7, ExecuteAllIs
<1>9. ExecuteAll(d, u) = f[n]
  BY <1>0, <1>1, ExecuteAllIs
<1>10. h[b] = f[n]
  BY <1>0, <1>5
<1> QED BY <1>4, <1>8, <1>9, <1>10

\* Executing nothing changes nothing.
LEMMA ExecuteNone ==
  ASSUME NEW d, NEW cmds, Len(cmds) = 0
  PROVE  ExecuteAll(d, cmds) = d
<1>1. PICK f : IsRun(f, d, cmds, 0)
  BY RunExists
<1>2. ExecuteAll(d, cmds) = f[0]
  BY <1>1, ExecuteAllIs
<1>3. f[0] = d
  BY <1>1 DEF IsRun
<1> QED BY <1>2, <1>3

\* A function over 1 .. n is a sequence of length n.
LEMMA LenIs ==
  ASSUME NEW n \in Nat, NEW f, f = [i \in 1 .. n |-> f[i]]
  PROVE  Len(f) = n
<1>1. PICK R : R = {f[i] : i \in 1 .. n}
  OBVIOUS
<1>2. f \in [1 .. n -> R]
  BY <1>1
<1>3. f \in Seq(R)
  BY <1>2, SeqDef
<1>4. Len(f) \in Nat /\ DOMAIN f = 1 .. Len(f)
  BY <1>3, LenProperties
<1>5. DOMAIN f = 1 .. n
  BY <1>2
<1> QED BY <1>4, <1>5

-----------------------------------------------------------------------------
\* The coordinator's order is what it numbered, and stays so.
LEMMA OrderIs ==
  ASSUME IInv, NEW i \in Instance, NEW c, Sequenced(i, c)
  PROVE  c \in Commands /\ Order(i) = c
<1>1. \A e : Sequenced(i, e) => e = c
  BY DEF IInv, Numbering, Sequenced, SequencedAs
<1>2. c \in Commands
  <2>1. PICK m \in msgs : m.src = "proposer" /\ m.val.cmd = c
    BY DEF Sequenced, SequencedAs
  <2> QED BY <2>1, MsgFacts DEF Traceable
<1>3. Sequenced(i, Order(i))
  BY <1>2, Zenon DEF Order
<1> QED BY <1>1, <1>2, <1>3

LEMMA OrderStable ==
  ASSUME IInv, IInv', NumbersAreUsed, msgs \subseteq msgs',
         NEW n \in Nat, n <= instance_register
  PROVE  DbAfter(n)' = DbAfter(n)
<1>1. ASSUME NEW i \in 1 .. n PROVE Order(i)' = Order(i)
  <2>1. instance_register \in Nat /\ instance_register <= INSTANCE_COUNT - 1
    BY DEF IInv, TypeOK, Instance
  <2>2. i \in Instance /\ i \in 1 .. instance_register
    BY <2>1, HeaderAssumption DEF Instance
  <2>3. PICK c : Sequenced(i, c)
    BY <2>2 DEF NumbersAreUsed
  <2>4. Sequenced(i, c)'
    BY <2>3 DEF Sequenced, SequencedAs
  <2>5. Order(i) = c
    BY <2>2, <2>3, OrderIs
  <2>6. Order(i)' = c
    <3>1. \A e : Sequenced(i, e)' => e = c
      BY <2>4 DEF IInv, Numbering, Sequenced, SequencedAs
    <3>2. c \in Commands
      BY <2>2, <2>3, OrderIs
    <3>3. (Sequenced(i, Order(i)))'
      BY <2>4, <3>2, Zenon DEF Order
    <3> QED BY <3>1, <3>3
  <2> QED BY <2>5, <2>6
<1>2. [i \in 1 .. n |-> Order(i)]' = [i \in 1 .. n |-> Order(i)]
  BY <1>1
<1> QED BY <1>2 DEF DbAfter

\* What a replica executed is what the coordinator ordered.
LEMMA PrefixOfOrder ==
  ASSUME SInv, NEW l \in Learners
  PROVE  db[l] = DbAfter(minUncommitedIndex[l] - 1)
<1>0. IInv /\ DatabaseFollowsLog
  BY DEF SInv, LInv
<1>1. minUncommitedIndex[l] \in 1 .. INSTANCE_COUNT
  BY <1>0 DEF IInv, TypeOK
<1>2. ASSUME NEW i \in 1 .. minUncommitedIndex[l] - 1 PROVE Order(i) = logs[l][i]
  <2>1. i \in Instance /\ Executed(l, i)
    BY <1>1, HeaderAssumption DEF Instance, Executed
  <2>2. Sequenced(i, logs[l][i])
    BY <2>1, <1>0 DEF IInv, LearnerKnows, Executable, Known
  <2> QED BY <2>1, <2>2, <1>0, OrderIs
<1>3. [i \in 1 .. minUncommitedIndex[l] - 1 |-> Order(i)] =
      [i \in 1 .. minUncommitedIndex[l] - 1 |-> logs[l][i]]
  BY <1>2
<1> QED BY <1>0, <1>3 DEF DatabaseFollowsLog, DbAfter

\* The initial store.
LEMMA InitSInv == Init => SInv
<1> SUFFICES ASSUME Init PROVE SInv
    OBVIOUS
<1>1. LInv
  BY InitLInv
<1>2. NumbersAreUsed
  BY DEF Init, CoordinatorInit, NumbersAreUsed
<1>3. DatabaseFollowsLog
  <2> SUFFICES ASSUME NEW l \in Learners
               PROVE  db[l] = ExecuteAll(InitialDb,
                                [i \in 1 .. minUncommitedIndex[l] - 1 |-> logs[l][i]])
      BY DEF Init, LearnerInit, DatabaseFollowsLog
  <2>1. db[l] = InitialDb /\ minUncommitedIndex[l] = 1
    BY DEF Init, LearnerInit
  <2>2. PICK f : f = [i \in 1 .. minUncommitedIndex[l] - 1 |-> logs[l][i]]
    OBVIOUS
  <2>3. f = [i \in 1 .. 0 |-> f[i]]
    BY <2>1, <2>2
  <2>4. Len(f) = 0
    BY <2>3, LenIs
  <2> QED BY <2>1, <2>2, <2>4, ExecuteNone
<1>4. AnswersAreLinearized
  BY DEF Init, NetworkInit, AnswersAreLinearized
<1> QED BY <1>1, <1>2, <1>3, <1>4 DEF SInv

\* The coordinator uses up its numbers one by one.
LEMMA NumbersStep == SInv /\ [Next]_vars => NumbersAreUsed'
<1> SUFFICES ASSUME SInv, [Next]_vars PROVE NumbersAreUsed'
    OBVIOUS
<1>0. IInv /\ IInv' /\ NumbersAreUsed /\ msgs \subseteq msgs'
  BY NextStep, MsgsGrow DEF SInv, LInv
<1>1. \A i, c : Sequenced(i, c) => Sequenced(i, c)'
  BY <1>0 DEF Sequenced, SequencedAs
<1>2. CASE instance_register' = instance_register
  BY <1>0, <1>1, <1>2 DEF NumbersAreUsed
<1>3. CASE Coordinate
  <2>1. PICK head : head = Head(uplink)
    OBVIOUS
  <2>2. PICK k : k = NextInstance(instance_register)
    OBVIOUS
  <2>3. PICK new : new = [head EXCEPT !.msgtype = "2A", !.rnd = 0, !.inst = k]
    OBVIOUS
  <2>4. uplink # << >> /\ new \in msgs' /\ instance_register' = k
    BY <1>3, <2>1, <2>2, <2>3 DEF Coordinate, Sequence, handle_request, Send
  <2>5. uplink \in Seq(Paxos) /\ instance_register \in Nat
    BY <1>0 DEF IInv, TypeOK, Instance
  <2>6. head = uplink[1] /\ 1 \in 1 .. Len(uplink) /\ head \in Paxos /\ Len(uplink) \in Nat
    BY <2>1, <2>4, <2>5, HeadTailProperties, LenProperties
  <2>7. /\ head.src = "proposer" /\ head.val.req \in 1 .. MAX_REQ_ID
        /\ head.val.cmd \in Commands
        /\ instance_register + Len(uplink) <= MAX_REQ_ID
    BY <2>6, <1>0 DEF IInv, Numbering
  <2>8. k = instance_register + 1
    BY <2>2, <2>5, <2>6, <2>7, HeaderAssumption, NoWrapAssumption DEF NextInstance
  <2>9. /\ new.msgtype = "2A" /\ new.inst = k /\ new.src = "proposer"
        /\ new.val = head.val
    BY <2>3, <2>6, <2>7 DEF Paxos
  <2>10. Sequenced(k, head.val.cmd)'
    BY <2>4, <2>7, <2>9 DEF Sequenced, SequencedAs
  <2>11. \A i \in 1 .. k : i \in 1 .. instance_register \/ i = k
    BY <2>5, <2>8
  <2> QED BY <2>4, <2>7, <2>10, <2>11, <1>0, <1>1 DEF NumbersAreUsed
<1> QED
  BY <1>2, <1>3 DEF Next, Submit, Lose, Promise, Vote, Learn, RestartLearner, Answer, vars

\* What a decision executes, in one piece, continues what was executed before.
LEMMA DecideExecutes ==
  ASSUME SInv, NEW l \in Learners, NEW m \in msgs, handle_p2b_decide(l, m)
  PROVE  DatabaseFollowsLog'
<1>0. IInv /\ DatabaseFollowsLog
  BY DEF SInv, LInv
<1>a. PICK min : min = minUncommitedIndex[l]
  OBVIOUS
<1>b. PICK max : max = IF maxInstance[l] < m.inst THEN m.inst ELSE maxInstance[l]
  OBVIOUS
<1>c. PICK log : log = [logs[l] EXCEPT ![m.inst] =
                           AfterP2b(Entry(states[l][m.inst], m.rnd), m).val]
  OBVIOUS
<1>1. deliverInstance(l, m, log, max) /\ logs' = [logs EXCEPT ![l] = log]
  BY <1>b, <1>c DEF handle_p2b_decide
<1>2. PICK stop \in minUncommitedIndex[l] .. max + 1 :
        /\ minUncommitedIndex' = [minUncommitedIndex EXCEPT ![l] = stop]
        /\ db' = [db EXCEPT ![l] = ExecuteAll(@,
                    [j \in 1 .. stop - minUncommitedIndex[l] |->
                        log[minUncommitedIndex[l] + j - 1]])]
  BY <1>1 DEF deliverInstance
<1>3. /\ minUncommitedIndex \in [Learners -> 1 .. INSTANCE_COUNT]
      /\ logs \in [Learners -> [Instance -> Commands \cup {Empty, NoValue}]]
      /\ maxInstance[l] \in Nat
  BY <1>0 DEF IInv, TypeOK, Instance
<1>4. m.inst \in Nat /\ logs[l][m.inst] = NoValue
  BY <1>0, MsgFacts, DecideFacts
<1>5. min \in Nat \ {0} /\ min <= INSTANCE_COUNT /\ max \in Nat
      /\ stop \in Nat /\ min <= stop
  <2>1. min \in 1 .. INSTANCE_COUNT
    BY <1>a, <1>3
  <2>2. max \in Nat
    BY <1>b, <1>3, <1>4
  <2> QED BY <2>1, <2>2, <1>a, <1>2, HeaderAssumption
<1>6. ASSUME NEW i \in 1 .. min - 1 PROVE log[i] = logs[l][i]
  <2>1. i \in Instance /\ Executed(l, i)
    BY <1>a, <1>5, HeaderAssumption DEF Instance, Executed
  <2>2. logs[l][i] # NoValue
    BY <2>1, <1>0 DEF IInv, LearnerKnows, Executable
  <2>3. i # m.inst
    BY <2>2, <1>4
  <2> QED BY <2>1, <2>3, <1>3, <1>c
<1>7. PICK s : s = [i \in 1 .. min - 1 |-> logs[l][i]]
  OBVIOUS
<1>8. PICK t : t = [j \in 1 .. stop - min |-> log[min + j - 1]]
  OBVIOUS
<1>9. PICK u : u = [i \in 1 .. stop - 1 |-> log[i]]
  OBVIOUS
<1>10. PICK a \in Nat : a = min - 1
  BY <1>5
<1>11. PICK b \in Nat : b = stop - min
  BY <1>5
<1>12. Len(s) = a /\ Len(t) = b /\ Len(u) = a + b
  <2>1. s = [i \in 1 .. a |-> s[i]]
    BY <1>7, <1>10
  <2>2. t = [i \in 1 .. b |-> t[i]]
    BY <1>8, <1>11
  <2>3. PICK n \in Nat : n = a + b
    OBVIOUS
  <2>4. u = [i \in 1 .. n |-> u[i]]
    <3>1. n = stop - 1
      BY <2>3, <1>5, <1>10, <1>11
    <3> QED BY <3>1, <1>9
  <2> QED BY <2>1, <2>2, <2>3, <2>4, LenIs
<1>13. \A j \in 1 .. a : u[j] = s[j]
  <2> SUFFICES ASSUME NEW j \in 1 .. a PROVE u[j] = s[j]
      OBVIOUS
  <2>1. j \in 1 .. min - 1 /\ j \in 1 .. stop - 1
    BY <1>5, <1>10
  <2> QED BY <2>1, <1>6, <1>7, <1>9
<1>14. \A j \in 1 .. b : u[a + j] = t[j]
  <2> SUFFICES ASSUME NEW j \in 1 .. b PROVE u[a + j] = t[j]
      OBVIOUS
  <2>1. j \in 1 .. stop - min /\ a + j \in 1 .. stop - 1 /\ min + j - 1 = a + j
    BY <1>5, <1>10, <1>11
  <2> QED BY <2>1, <1>8, <1>9
<1>15. ExecuteAll(InitialDb, u) = ExecuteAll(ExecuteAll(InitialDb, s), t)
  <2>1. PICK d : d = InitialDb
    OBVIOUS
  <2>2. IsConcatenation(u, s, t, a, b)
    BY <1>12, <1>13, <1>14 DEF IsConcatenation
  <2>3. ExecuteAll(d, u) = ExecuteAll(ExecuteAll(d, s), t)
    BY ONLY a \in Nat, b \in Nat, <2>2, ExecuteInTwo
  <2> QED BY <2>1, <2>3
<1>16. ExecuteAll(InitialDb, s) = db[l]
  BY <1>0, <1>a, <1>7 DEF DatabaseFollowsLog
<1> SUFFICES ASSUME NEW x \in Learners
             PROVE  db'[x] = ExecuteAll(InitialDb,
                               [i \in 1 .. minUncommitedIndex'[x] - 1 |-> logs'[x][i]])
    BY <1>0, <1>2 DEF DatabaseFollowsLog
<1>17. CASE x = l
  <2>1. minUncommitedIndex'[x] = stop /\ logs'[x] = log
    BY <1>1, <1>2, <1>3, <1>17
  <2>2. u = [i \in 1 .. minUncommitedIndex'[x] - 1 |-> logs'[x][i]]
    BY <2>1, <1>9
  <2>3. l \in DOMAIN db
    BY <1>0 DEF DatabaseFollowsLog
  <2>4. t = [j \in 1 .. stop - minUncommitedIndex[l] |->
                log[minUncommitedIndex[l] + j - 1]]
    BY <1>8, <1>a
  <2>5. db'[l] = ExecuteAll(db[l], t)
    BY <2>3, <2>4, <1>2
  <2> QED BY <2>2, <2>5, <1>15, <1>16, <1>17
<1>18. CASE x # l
  <2>1. /\ db'[x] = db[x] /\ logs'[x] = logs[x]
        /\ minUncommitedIndex'[x] = minUncommitedIndex[x]
    BY <1>0, <1>1, <1>2, <1>3, <1>18 DEF DatabaseFollowsLog
  <2> QED BY <2>1, <1>0 DEF DatabaseFollowsLog
<1> QED BY <1>17, <1>18

\* A new process starts with an empty store and an empty log.
LEMMA RestartStore ==
  ASSUME SInv, NEW l \in Learners, RestartLearner(l)
  PROVE  DatabaseFollowsLog'
<1>0. IInv /\ DatabaseFollowsLog
  BY DEF SInv, LInv
<1>1. /\ logs' = [logs EXCEPT ![l] = [i \in Instance |-> NoValue]]
      /\ minUncommitedIndex' = [minUncommitedIndex EXCEPT ![l] = 1]
      /\ db' = [db EXCEPT ![l] = InitialDb]
  BY DEF RestartLearner, Restart
<1>2. /\ DOMAIN db' = Learners /\ db'[l] = InitialDb /\ minUncommitedIndex'[l] = 1
      /\ \A x \in Learners \ {l} :
            /\ db'[x] = db[x] /\ logs'[x] = logs[x]
            /\ minUncommitedIndex'[x] = minUncommitedIndex[x]
  BY <1>0, <1>1 DEF IInv, TypeOK, DatabaseFollowsLog
<1> SUFFICES ASSUME NEW x \in Learners
             PROVE  db'[x] = ExecuteAll(InitialDb,
                               [i \in 1 .. minUncommitedIndex'[x] - 1 |-> logs'[x][i]])
    BY <1>2 DEF DatabaseFollowsLog
<1>3. CASE x = l
  <2>1. PICK f : f = [i \in 1 .. minUncommitedIndex'[x] - 1 |-> logs'[x][i]]
    OBVIOUS
  <2>2. f = [i \in 1 .. 0 |-> f[i]]
    BY <2>1, <1>2, <1>3
  <2>3. Len(f) = 0
    BY <2>2, LenIs
  <2> QED BY <2>1, <2>3, <1>2, <1>3, ExecuteNone
<1>4. CASE x # l
  BY <1>0, <1>2, <1>4 DEF DatabaseFollowsLog
<1> QED BY <1>3, <1>4

\* The database of a replica after any step.
LEMMA StoreStep == SInv /\ [Next]_vars => DatabaseFollowsLog'
<1> SUFFICES ASSUME SInv, [Next]_vars PROVE DatabaseFollowsLog'
    OBVIOUS
<1>1. CASE UNCHANGED <<db, logs, minUncommitedIndex>>
  BY <1>1 DEF SInv, DatabaseFollowsLog
<1>2. ASSUME NEW l \in Learners, Learn(l),
             ~UNCHANGED <<db, logs, minUncommitedIndex>>
      PROVE  DatabaseFollowsLog'
  <2>1. PICK m \in msgs : handle_pkt(l, m)
    BY <1>2 DEF Learn
  <2>2. handle_p2b_decide(l, m)
    BY <1>2, <2>1 DEF handle_pkt, handle_p1b, handle_p2b_vote, handle_p2b_error,
                      handle_pkt_ignore
  <2> QED BY <2>2, DecideExecutes
<1> QED
  BY <1>1, <1>2, RestartStore
  DEF Next, Submit, Lose, Coordinate, Promise, Vote, Answer, vars, learnerVars

-----------------------------------------------------------------------------
\* A number that is on a command was given out.
LEMMA SequencedBelow ==
  ASSUME IInv, NEW i, NEW q, NEW c, SequencedAs(i, q, c)
  PROVE  i <= instance_register /\ instance_register \in Nat
<1>1. PICK m \in msgs : m.msgtype = "2A" /\ m.src = "proposer" /\ m.inst = i
  BY DEF SequencedAs
<1>2. m.inst <= instance_register
  BY <1>1 DEF IInv, Numbering
<1>3. instance_register \in Nat
  BY HeaderAssumption DEF IInv, TypeOK, Instance
<1> QED BY <1>1, <1>2, <1>3

\* An answer that is right stays right, whatever else is numbered.
LEMMA AnswersStay ==
  ASSUME SInv, [Next]_vars, NEW r \in responses, r.result # "Retry"
  PROVE  \E i \in Instance \ {0}, c \in Commands :
            /\ SequencedAs(i, r.req, c)'
            /\ r.result = Result(DbAfter(i - 1)', c)
<1>0. IInv /\ IInv' /\ NumbersAreUsed /\ AnswersAreLinearized /\ msgs \subseteq msgs'
  BY NextStep, MsgsGrow DEF SInv, LInv
<1>1. PICK i \in Instance \ {0}, c \in Commands :
        SequencedAs(i, r.req, c) /\ r.result = Result(DbAfter(i - 1), c)
  BY <1>0 DEF AnswersAreLinearized
<1>2. SequencedAs(i, r.req, c)'
  BY <1>0, <1>1 DEF SequencedAs
<1>3. PICK n \in Nat : n = i - 1 /\ n <= instance_register
  <2>1. i <= instance_register /\ instance_register \in Nat
    BY <1>0, <1>1, SequencedBelow
  <2>2. i \in Nat /\ i # 0
    BY DEF Instance
  <2> QED BY <2>1, <2>2
<1>4. DbAfter(n)' = DbAfter(n)
  BY <1>0, <1>3, OrderStable
<1>5. DbAfter(i - 1)' = DbAfter(i - 1)
  BY <1>3, <1>4
<1> QED BY <1>1, <1>2, <1>5

\* The answer a decision gives: a replica that runs waits at an instance it
\* could not execute, so if the packet made it execute something, the first
\* command it executed is the packet's own.
LEMMA DecideAnswers ==
  ASSUME SInv, [Next]_vars, NEW l \in Learners, NEW m \in msgs, handle_p2b_decide(l, m),
         NEW r \in responses', r \notin responses, r.result # "Retry"
  PROVE  \E i \in Instance \ {0}, c \in Commands :
            /\ SequencedAs(i, r.req, c)'
            /\ r.result = Result(DbAfter(i - 1)', c)
<1>0. IInv /\ IInv' /\ NumbersAreUsed /\ HolesAreRetried /\ msgs \subseteq msgs'
  BY NextStep, MsgsGrow DEF SInv, LInv
<1>a. PICK min : min = minUncommitedIndex[l]
  OBVIOUS
<1>b. PICK max : max = IF maxInstance[l] < m.inst THEN m.inst ELSE maxInstance[l]
  OBVIOUS
<1>c. PICK s : s = AfterP2b(Entry(states[l][m.inst], m.rnd), m)
  OBVIOUS
<1>d. PICK log : log = [logs[l] EXCEPT ![m.inst] = s.val]
  OBVIOUS
<1>1. deliverInstance(l, m, log, max) /\ Running(l) /\ m.msgtype = "2B" /\ Counts2b(l, m)
  BY <1>b, <1>c, <1>d DEF handle_p2b_decide
<1>2. PICK stop \in min .. max + 1 :
        /\ \A j \in min .. stop - 1 : Executable(log[j])
        /\ \/ UNCHANGED responses
           \/ respond(m, IF stop = min THEN "Retry" ELSE Result(db[l], log[min]))
  BY <1>1, <1>a DEF deliverInstance
<1>3. /\ m.src = "proposer" /\ stop # min
      /\ r.req = m.val.req /\ r.result = Result(db[l], log[min])
  BY <1>2 DEF respond
<1>4. /\ m.inst \in Instance /\ m.inst \in Nat /\ Traceable(m)
      /\ min \in Nat \ {0} /\ maxInstance[l] \in Instance
      /\ logs[l] \in [Instance -> Commands \cup {Empty, NoValue}]
  <2>1. m.inst \in Instance /\ m.inst \in Nat /\ Traceable(m)
    BY <1>0, MsgFacts
  <2>2. min \in Nat \ {0} /\ maxInstance[l] \in Instance
        /\ logs[l] \in [Instance -> Commands \cup {Empty, NoValue}]
    BY <1>0, <1>a DEF IInv, TypeOK
  <2> QED BY <2>1, <2>2
<1>5. max \in Nat /\ max <= INSTANCE_COUNT - 1
  BY <1>b, <1>4, HeaderAssumption DEF Instance
<1>6. min \in min .. stop - 1 /\ min \in Instance
  BY <1>2, <1>3, <1>4, <1>5, HeaderAssumption DEF Instance
<1>7. Executable(log[min])
  BY <1>2, <1>6
<1>8. ~Executable(logs[l][min])
  BY <1>0, <1>1, <1>6, <1>a DEF HolesAreRetried, Running
<1>9. m.inst = min
  BY <1>4, <1>6, <1>7, <1>8, <1>d
<1>10. log[min] = s.val
  BY <1>4, <1>9, <1>d
<1>11. Known(min, s.val)
  BY <1>0, <1>1, <1>9, <1>c, AfterP2bFacts
<1>12. Sequenced(min, s.val)
  BY <1>7, <1>10, <1>11 DEF Known, Executable
<1>13. SequencedAs(min, m.val.req, m.val.cmd)
  BY <1>3, <1>4, <1>9 DEF Traceable
<1>14. m.val.cmd = s.val
  <2>1. Sequenced(min, m.val.cmd)
    BY <1>3, <1>4, <1>13 DEF Traceable, Sequenced
  <2> QED BY <2>1, <1>0, <1>6, <1>12, OrderIs
<1>15. s.val \in Commands
  BY <1>0, <1>6, <1>12, OrderIs
<1>16. SequencedAs(min, r.req, s.val)'
  BY <1>0, <1>3, <1>13, <1>14 DEF SequencedAs
<1>17. PICK n \in Nat : n = min - 1 /\ n <= instance_register
  <2>1. min <= instance_register /\ instance_register \in Nat
    BY <1>0, <1>13, SequencedBelow
  <2> QED BY <2>1, <1>4
<1>18. DbAfter(n)' = DbAfter(n) /\ db[l] = DbAfter(n)
  <2>1. DbAfter(n)' = DbAfter(n)
    BY <1>0, <1>17, OrderStable
  <2>2. db[l] = DbAfter(minUncommitedIndex[l] - 1)
    BY PrefixOfOrder
  <2>3. minUncommitedIndex[l] - 1 = n
    BY <1>17, <1>a
  <2> QED BY <2>1, <2>2, <2>3
<1>19. DbAfter(min - 1)' = db[l]
  BY <1>17, <1>18
<1>20. min \in Instance \ {0}
  BY <1>4, <1>6
<1> QED BY <1>3, <1>10, <1>15, <1>16, <1>19, <1>20

\* Every answer after any step is right.
LEMMA AnswersStep == SInv /\ [Next]_vars => AnswersAreLinearized'
<1> SUFFICES ASSUME SInv, [Next]_vars, NEW r \in responses', r.result # "Retry"
             PROVE  \E i \in Instance \ {0}, c \in Commands :
                       /\ SequencedAs(i, r.req, c)'
                       /\ r.result = Result(DbAfter(i - 1)', c)
    BY DEF AnswersAreLinearized, Result
<1>1. CASE r \in responses
  BY <1>1, AnswersStay
<1>2. CASE r \notin responses
  <2>1. responses' # responses
    BY <1>2
  <2>2. PICK l \in Learners : Learn(l)
    BY <2>1 DEF Next, Submit, submit, Lose, LoseRequest, Coordinate, Sequence, Promise,
         handle_1a, Vote, handle_2a, RestartLearner, Restart, Answer, datagramReceived,
         network, vars
  <2>3. PICK m \in msgs : handle_pkt(l, m)
    BY <2>2 DEF Learn
  <2>4. handle_p2b_decide(l, m)
    BY <2>1, <2>3 DEF handle_pkt, handle_p1b, handle_p2b_vote, handle_p2b_error,
                      handle_pkt_ignore, network
  <2> QED BY <1>2, <2>4, DecideAnswers
<1> QED BY <1>1, <1>2

-----------------------------------------------------------------------------
\* SInv is an invariant of the demo: the store of a replica follows its log,
\* and the log the coordinator's order.
THEOREM StoreInvariance == Spec => []SInv
<1>1. SInv /\ [Next]_vars => LInv'
  BY NextLInv DEF SInv
<1>2. SInv /\ [Next]_vars => SInv'
  BY <1>1, NumbersStep, StoreStep, AnswersStep DEF SInv
<1> QED BY <1>2, InitSInv, PTL DEF Spec

\* A replica's database is what a prefix of the coordinator's order leaves
\* (SimpleDatabase.execute under deliverInstance).
THEOREM StoreIsPrefix == Spec => []DatabaseIsPrefix
<1>1. SInv => DatabaseIsPrefix
  BY PrefixOfOrder DEF DatabaseIsPrefix
<1> QED BY <1>1, StoreInvariance, PTL

\* An answer is the result of its request after everything that was ordered
\* before it (respond).
THEOREM Linearized == Spec => []AnswersAreLinearized
<1>1. SInv => AnswersAreLinearized
  BY DEF SInv
<1> QED BY <1>1, StoreInvariance, PTL
=============================================================================
