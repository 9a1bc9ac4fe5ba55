------------------------- MODULE ProposerPaxos_proofs -------------------------
(***************************************************************************)
(* Theorems about ProposerPaxos, for any number of acceptors, requests and *)
(* instances, any window and any number of lost and repeated packets.      *)
(***************************************************************************)
EXTENDS ProposerPaxos, FiniteSetTheorems, NaturalsInduction, WellFoundedInduction,
        TLAPS

USE RteAssumption, ProposerAssumption, NetworkAssumption

-----------------------------------------------------------------------------
(* Sets of instances and of acceptors.                                     *)

\* A set of natural numbers has a least member.
LEMMA LeastMember ==
    ASSUME NEW T, T \subseteq Nat, T # {}
    PROVE  \E x \in T : \A y \in T : x <= y
<1>1. IsWellFoundedOn(OpToRel(<, Nat), Nat)
    BY NatLessThanWellFounded
<1>2. PICK x \in T : \A y \in T : ~(<<y, x>> \in OpToRel(<, Nat))
    BY <1>1, WFMin
<1>3. \A y \in T : x \in Nat /\ y \in Nat /\ (<<y, x>> \in OpToRel(<, Nat) <=> y < x)
    BY DEF OpToRel
<1>4. \A y \in T : ~(y < x) /\ x \in Nat /\ y \in Nat
    BY <1>2, <1>3
<1>5. \A y \in T : x <= y
    BY <1>4
<1> QED
    BY <1>5

\* A part of an interval that holds everything below its members is an interval.
LEMMA LowerPart ==
    ASSUME NEW lo \in Int, NEW hi \in Int, lo <= hi + 1, NEW T,
           T \subseteq lo .. hi,
           \A i \in T : \A j \in lo .. hi : j <= i => j \in T
    PROVE  \E n \in Nat : lo + n <= hi + 1 /\ T = lo .. lo + n - 1
<1> DEFINE N == {n \in Nat : lo + n <= hi + 1 /\ T \subseteq lo .. lo + n - 1}
<1>1. hi + 1 - lo \in N
    BY DEF N
<1>2. PICK n \in N : \A k \in N : n <= k
    BY <1>1, LeastMember
<1>3. n \in Nat /\ lo + n <= hi + 1 /\ T \subseteq lo .. lo + n - 1
    BY <1>2
<1>4. lo .. lo + n - 1 \subseteq T
    <2>1. CASE n = 0
        BY <2>1
    <2>2. CASE n # 0
        <3>1. n - 1 \in Nat /\ n - 1 \notin N
            BY <1>2, <1>3, <2>2
        <3>2. ~(T \subseteq lo .. lo + (n - 1) - 1)
            BY <1>3, <3>1
        <3>3. PICK i \in T : i \notin lo .. lo + (n - 1) - 1
            BY <3>2
        <3>4. i = lo + n - 1
            BY <1>3, <2>2, <3>3
        <3> QED
            BY <1>3, <3>4
    <2> QED
        BY <2>1, <2>2
<1> HIDE DEF N
<1> QED
    BY <1>3, <1>4

\* Sets of acceptors are finite, and a larger set of them is a quorum too.
LEMMA Quorums ==
    ASSUME NEW S \in SUBSET AcceptorId
    PROVE  /\ IsFiniteSet(S) /\ Cardinality(S) \in Nat
           /\ \A T \in SUBSET S : Quorum(T) => Quorum(S)
<1>1. IsFiniteSet(AcceptorId)
    BY FS_Interval DEF AcceptorId
<1>2. IsFiniteSet(S) /\ Cardinality(S) \in Nat
    BY <1>1, FS_Subset, FS_CardinalityType
<1>3. ASSUME NEW T \in SUBSET S, Quorum(T) PROVE Quorum(S)
    <2>1. Cardinality(T) <= Cardinality(S) /\ Cardinality(T) \in Nat
        BY <1>2, FS_Subset, FS_CardinalityType
    <2>2. paxos_quorum \in Int
        BY DEF paxos_quorum
    <2> QED
        BY <1>2, <1>3, <2>1, <2>2 DEF Quorum
<1> QED
    BY <1>2, <1>3

-----------------------------------------------------------------------------
(* The proposer's tables.                                                  *)

ProposerState ==
    [next_prepare_iid : 0 .. MaxInst, values : Nat,
     prepare : [Iid -> Slot], accept : [Iid -> Slot]]

Good(p, sent) == p \in ProposerState /\ Ordered(p) /\ Backed(p, sent)

\* The instances in phase 1, by the number of them.
LEMMA Window ==
    ASSUME NEW p \in ProposerState, Ordered(p)
    PROVE  LET size == Cardinality(Open(p.prepare))
               next == p.next_prepare_iid
           IN /\ size \in Nat /\ size <= BURST_SIZE /\ next \in 0 .. MaxInst
              /\ size <= next
              /\ Open(p.prepare) = next - size + 1 .. next
              /\ IsFiniteSet(Open(p.prepare))
<1> DEFINE size == Cardinality(Open(p.prepare))
           next == p.next_prepare_iid
<1>1. IsFiniteSet(Iid)
    BY FS_Interval DEF Iid
<1>2. IsFiniteSet(Open(p.prepare)) /\ size \in Nat
    BY <1>1, FS_Subset, FS_CardinalityType DEF Open
<1>3. next \in 0 .. MaxInst
    BY DEF ProposerState
<1>4. Open(p.prepare) = next - size + 1 .. next /\ size <= BURST_SIZE
    BY DEF Ordered
<1>5. size <= next
    <2>1. CASE size = 0
        BY <1>3, <2>1
    <2>2. CASE size # 0
        <3>1. next - size + 1 \in Open(p.prepare)
            <4> HIDE DEF size, next
            <4>1. next - size + 1 \in next - size + 1 .. next
                BY <1>2, <1>3, <2>2
            <4> QED
                BY <1>4, <4>1
        <3>2. next - size + 1 \in Iid
            BY <3>1 DEF Open
        <3> HIDE DEF size, next
        <3> QED
            BY <1>2, <1>3, <3>2 DEF Iid
    <2> QED
        BY <2>1, <2>2
<1> QED
    BY <1>2, <1>3, <1>4, <1>5

\* The instances that fill the window follow it, up to the bound of the run.
LEMMA MissingFollow ==
    ASSUME NEW p \in ProposerState, Ordered(p)
    PROVE  LET size == Cardinality(Open(p.prepare))
               next == p.next_prepare_iid
               k == Cardinality(Missing(p))
           IN /\ k \in Nat /\ Missing(p) = next + 1 .. next + k
              /\ next + k <= MaxInst /\ size + k <= BURST_SIZE
              /\ next + k < MaxInst => size + k = BURST_SIZE
<1> DEFINE size == Cardinality(Open(p.prepare))
           next == p.next_prepare_iid
<1>1. size \in Nat /\ size <= BURST_SIZE /\ next \in 0 .. MaxInst
    BY Window
<1>2. Missing(p) = {i \in Iid : i - next \in 1 .. BURST_SIZE - size}
    BY DEF Missing
<1> HIDE DEF size, next
<1>3. PICK k \in Nat : /\ next + k <= MaxInst /\ size + k <= BURST_SIZE
                       /\ next + k < MaxInst => size + k = BURST_SIZE
    <2>1. CASE next + (BURST_SIZE - size) <= MaxInst
        <3>1. BURST_SIZE - size \in Nat
            BY <1>1
        <3>2. /\ next + (BURST_SIZE - size) <= MaxInst /\ size + (BURST_SIZE - size) <= BURST_SIZE
              /\ next + (BURST_SIZE - size) < MaxInst => size + (BURST_SIZE - size) = BURST_SIZE
            BY <1>1, <2>1
        <3> QED
            BY <3>1, <3>2
    <2>2. CASE ~(next + (BURST_SIZE - size) <= MaxInst)
        <3>1. MaxInst - next \in Nat
            BY <1>1
        <3>2. /\ next + (MaxInst - next) <= MaxInst /\ size + (MaxInst - next) <= BURST_SIZE
              /\ next + (MaxInst - next) < MaxInst => size + (MaxInst - next) = BURST_SIZE
            BY <1>1, <2>2
        <3> QED
            BY <3>1, <3>2
    <2> QED
        BY <2>1, <2>2
<1>4. Missing(p) = next + 1 .. next + k
    <2>1. ASSUME NEW i \in Missing(p) PROVE i \in next + 1 .. next + k
        <3>1. i \in Int /\ i <= MaxInst /\ i - next >= 1 /\ i - next <= BURST_SIZE - size
            BY <1>2, <2>1 DEF Iid
        <3> QED
            BY <1>1, <1>3, <3>1
    <2>2. ASSUME NEW i \in next + 1 .. next + k PROVE i \in Missing(p)
        <3>1. i \in Iid /\ i - next \in 1 .. BURST_SIZE - size
            BY <1>1, <1>3, <2>2 DEF Iid
        <3> QED
            BY <1>2, <3>1
    <2> QED
        BY <2>1, <2>2
<1>5. Cardinality(Missing(p)) = k
    <2>1. Cardinality(next + 1 .. next + k) = k
        BY <1>1, <1>3, FS_Interval
    <2> QED
        BY <1>4, <2>1
<1> QED
    BY <1>3, <1>4, <1>5 DEF size, next

\* A slot that was just made.
LEMMA NewSlots ==
    ASSUME NEW b \in Nat
    PROVE  /\ NewSlot(b) \in Slot /\ NewSlot(b).ballot = b /\ NewSlot(b).quorum = {}
           /\ NewSlot(b) = NoSlot <=> b = 0
           /\ NoSlot \in Slot /\ NoSlot.quorum = {} /\ NoSlot.ballot = 0
BY DEF NewSlot, NoSlot, Slot

\* Filling the window keeps the tables in order, and the window is full then.
LEMMA PrepareKeeps ==
    ASSUME NEW p, NEW sent, Good(p, sent)
    PROVE  LET q == proposer_prepare(p, Missing(p))
           IN /\ Good(q, sent) /\ Full(q) /\ Total(q) = Total(p)
              /\ q.values = p.values
<1> DEFINE new == Missing(p)
           q == proposer_prepare(p, new)
           k == Cardinality(new)
           size == Cardinality(Open(p.prepare))
           next == p.next_prepare_iid
<1>1. p \in ProposerState /\ Ordered(p) /\ Backed(p, sent)
    BY DEF Good
<1>2. /\ p.values \in Nat /\ p.prepare \in [Iid -> Slot] /\ p.accept \in [Iid -> Slot]
    BY <1>1 DEF ProposerState
<1>3. /\ size \in Nat /\ size <= BURST_SIZE /\ next \in 0 .. MaxInst /\ size <= next
      /\ Open(p.prepare) = next - size + 1 .. next /\ IsFiniteSet(Open(p.prepare))
    BY <1>1, Window
<1>4. /\ k \in Nat /\ new = next + 1 .. next + k
      /\ next + k <= MaxInst /\ size + k <= BURST_SIZE
      /\ next + k < MaxInst => size + k = BURST_SIZE
    BY <1>1, MissingFollow
<1>5. /\ q.next_prepare_iid = next + k /\ q.values = p.values
      /\ q.prepare = Put(p.prepare, new, NewSlot(FirstBallot)) /\ q.accept = p.accept
    BY <1>1 DEF proposer_prepare, ProposerState
<1>6. FirstBallot \in Nat /\ FirstBallot # 0
    BY DEF FirstBallot
<1>7. \A i \in Iid : q.prepare[i] = IF i \in new THEN NewSlot(FirstBallot) ELSE p.prepare[i]
    BY <1>5 DEF Put
<1>8. q \in ProposerState
    <2>1. q.prepare \in [Iid -> Slot]
        BY <1>2, <1>5, <1>6, NewSlots DEF Put
    <2>2. next + k \in 0 .. MaxInst
        BY <1>3, <1>4
    <2> QED
        BY <1>1, <1>2, <1>5, <2>1, <2>2 DEF proposer_prepare, ProposerState
<1> HIDE DEF q, k, size, next, new
<1>9. Open(q.prepare) = Open(p.prepare) \cup new /\ new \subseteq Iid
    <2>1. new \subseteq Iid
        BY DEF new, Missing
    <2> QED
        BY <1>6, <1>7, <2>1, NewSlots DEF Open
<1>10. /\ Open(q.prepare) = next - size + 1 .. next + k
       /\ Cardinality(Open(q.prepare)) = size + k
    <2>1. Open(q.prepare) = next - size + 1 .. next + k
        BY <1>3, <1>4, <1>9
    <2>2. Cardinality(next - size + 1 .. next + k) = size + k
        BY <1>3, <1>4, FS_Interval
    <2> QED
        BY <2>1, <2>2
<1>11. (next + k) - (size + k) + 1 = next - size + 1
    BY <1>3, <1>4
<1>12. Open(q.accept) = Open(p.accept)
    BY <1>5
<1>13. Ordered(q)
    <2>1. \A i \in Open(q.prepare) : q.prepare[i].ballot > 0
        BY <1>1, <1>6, <1>7, <1>9, NewSlots DEF Ordered, Open
    <2>2. \A i \in Open(q.accept) : q.accept[i].ballot > 0
        BY <1>1, <1>5, <1>12 DEF Ordered
    <2>3. Open(q.accept) \subseteq (1 .. next + k) \ Open(q.prepare)
        <3>1. Open(p.accept) \subseteq (1 .. next) \ Open(p.prepare)
            BY <1>1 DEF Ordered, next
        <3> QED
            BY <1>3, <1>4, <1>9, <1>12, <3>1
    <2> QED
        BY <1>4, <1>5, <1>10, <1>11, <2>1, <2>2, <2>3 DEF Ordered
<1>14. Backed(q, sent)
    <2>1. \A i \in Open(q.prepare) :
             q.prepare[i].quorum \subseteq Promised(sent, i, q.prepare[i].ballot)
        BY <1>1, <1>6, <1>7, <1>9, NewSlots DEF Backed, Open
    <2>2. \A i \in 1 .. next + k : i \notin Open(q.prepare) => i \in 1 .. next
        BY <1>3, <1>4, <1>9
    <2>3. \A i \in 1 .. next : i \notin Open(p.prepare) \cup Open(p.accept)
                                  => Chosen(sent, i)
        BY <1>1 DEF Backed, next
    <2>4. \A i \in Open(p.accept) :
              /\ p.accept[i].quorum \subseteq Voted(sent, i, p.accept[i].ballot)
              /\ Quorum(Promised(sent, i, p.accept[i].ballot))
        BY <1>1 DEF Backed
    <2> QED
        BY <1>5, <1>9, <1>12, <2>1, <2>2, <2>3, <2>4 DEF Backed
<1>15. Full(q) /\ Total(q) = Total(p)
    <2>1. p.values + ((next + k) - (size + k)) = p.values + (next - size)
        BY <1>2, <1>3, <1>4
    <2>2. Total(q) = p.values + ((next + k) - (size + k))
        BY <1>5, <1>10 DEF Total
    <2>3. Total(p) = p.values + (next - size)
        BY DEF Total, next, size
    <2>4. Full(q)
        BY <1>4, <1>5, <1>10 DEF Full
    <2> QED
        BY <2>1, <2>2, <2>3, <2>4
<1> QED
    BY <1>5, <1>8, <1>13, <1>14, <1>15 DEF Good, q, new

\* The packets on their way stay truthful when prepares join them.
LEMMA PreparesAreTruthful ==
    ASSUME NEW net, NEW sent, Truthful(net, sent), net \subseteq PaxosHdr,
           NEW S \in SUBSET Iid, NEW b \in Nat
    PROVE  LET more == net \cup {Prepare(i, b) : i \in S}
           IN Truthful(more, sent) /\ more \subseteq PaxosHdr
<1>1. \A i \in S : Prepare(i, b) \in PaxosHdr /\ Prepare(i, b).msgtype = "PREPARE"
    BY DEF Prepare, PaxosHdr, AcceptorId, Value
<1> QED
    BY <1>1 DEF Truthful

\* What a handler that refills the window leaves behind.
Kept(sent, total) ==
    /\ Good(proposer', sent) /\ Full(proposer') /\ Total(proposer') = total
    /\ Truthful(msgs', sent) /\ msgs' \subseteq PaxosHdr

LEMMA PreexecuteKeeps ==
    ASSUME NEW p, NEW net, NEW sent, Good(p, sent), Truthful(net, sent),
           net \subseteq PaxosHdr, proposer_preexecute(p, net)
    PROVE  Kept(sent, Total(p))
<1>1. /\ proposer' = proposer_prepare(p, Missing(p))
      /\ msgs' = net \cup Prepares(Missing(p))
    BY DEF proposer_preexecute
<1>2. Missing(p) \subseteq Iid /\ FirstBallot \in Nat
    BY DEF Missing, FirstBallot
<1>3. Truthful(msgs', sent) /\ msgs' \subseteq PaxosHdr
    BY <1>1, <1>2, PreparesAreTruthful DEF Prepares
<1> QED
    BY <1>1, <1>3, PrepareKeeps DEF Kept

\* proposer_accept takes the lowest instances, no more than there are values.
LEMMA TakenAreLowest ==
    ASSUME NEW p \in ProposerState, Ordered(p)
    PROVE  LET taken == proposer_accept_all(p.prepare, p.values)
               k == Cardinality(taken)
               size == Cardinality(Open(p.prepare))
               next == p.next_prepare_iid
           IN /\ k \in Nat /\ k <= p.values /\ k <= size
              /\ taken \subseteq Open(p.prepare)
              /\ Open(p.prepare) \ taken = next - (size - k) + 1 .. next
              /\ \A i \in taken : quorum_reached(p.prepare[i])
<1> DEFINE open == Open(p.prepare)
           taken == proposer_accept_all(p.prepare, p.values)
           size == Cardinality(open)
           next == p.next_prepare_iid
           lo == next - size + 1
<1>1. /\ size \in Nat /\ next \in 0 .. MaxInst /\ size <= next
      /\ open = lo .. next /\ IsFiniteSet(open)
    BY Window
<1>2. p.values \in Nat
    BY DEF ProposerState
<1>3. \A i : i \in taken <=>
          /\ i \in open
          /\ \A j \in {j \in open : j <= i} : quorum_reached(p.prepare[j])
          /\ Cardinality({j \in open : j <= i}) <= p.values
    BY DEF proposer_accept_all
<1>4. taken \subseteq open /\ open \subseteq Int
    <2>1. taken \subseteq open
        BY <1>3
    <2>2. open \subseteq Int
        BY DEF Open, Iid
    <2> QED
        BY <2>1, <2>2
<1> HIDE DEF taken, open, size, next
<1>5. ASSUME NEW i \in taken, NEW j \in open, j <= i
      PROVE  j \in taken
    <2>1. i \in Int /\ j \in Int /\ open \subseteq Int
        BY <1>4
    <2>2. {l \in open : l <= j} \subseteq {l \in open : l <= i}
        <3>1. ASSUME NEW l \in open, l <= j PROVE l <= i
            BY <1>5, <2>1, <3>1
        <3> QED
            BY <3>1
    <2>3. IsFiniteSet({l \in open : l <= i})
        BY <1>1, FS_Subset
    <2>4. /\ Cardinality({l \in open : l <= j}) <= Cardinality({l \in open : l <= i})
          /\ Cardinality({l \in open : l <= j}) \in Nat
          /\ Cardinality({l \in open : l <= i}) \in Nat
        BY <2>2, <2>3, FS_Subset, FS_CardinalityType
    <2>5. Cardinality({l \in open : l <= i}) <= p.values
        BY <1>3
    <2>6. Cardinality({l \in open : l <= j}) <= p.values
        BY <1>2, <2>4, <2>5
    <2> QED
        BY <1>3, <2>2, <2>6
<1>6. lo \in Int /\ next \in Int /\ lo <= next + 1
    BY <1>1
<1>7. PICK k \in Nat : lo + k <= next + 1 /\ taken = lo .. lo + k - 1
    <2>1. taken \subseteq lo .. next
        BY <1>1, <1>3
    <2>2. \A i \in taken : \A j \in lo .. next : j <= i => j \in taken
        BY <1>1, <1>5
    <2> HIDE DEF lo
    <2> QED
        BY <1>6, <2>1, <2>2, LowerPart
<1>8. Cardinality(taken) = k
    <2>1. Cardinality(lo .. lo + k - 1) = k
        BY <1>6, <1>7, FS_Interval
    <2> QED
        BY <1>7, <2>1
<1>9. k <= p.values
    <2>1. CASE k = 0
        BY <1>2, <2>1
    <2>2. CASE k # 0
        <3>1. lo + k - 1 \in taken
            BY <1>6, <1>7, <2>2
        <3>2. {j \in open : j <= lo + k - 1} = taken
            BY <1>1, <1>6, <1>7
        <3> QED
            BY <1>3, <1>8, <3>1, <3>2
    <2> QED
        BY <2>1, <2>2
<1>10. k <= size /\ open \ taken = next - (size - k) + 1 .. next
    BY <1>1, <1>7
<1>11. taken \subseteq open /\ \A i \in taken : quorum_reached(p.prepare[i])
    <2>1. \A i \in taken : i \in {j \in open : j <= i}
        BY <1>4
    <2> QED
        BY <1>4, <1>3, <2>1
<1> QED
    BY <1>8, <1>9, <1>10, <1>11 DEF taken, open, size, next

\* The proposer between taking instances and filling the window.
Proposed(p, taken) ==
    [p EXCEPT !.values = @ - Cardinality(taken),
              !.prepare = Put(@, taken, NoSlot),
              !.accept = [i \in Iid |-> IF i \in taken
                            THEN NewSlot(p.prepare[i].ballot) ELSE @[i]]]

LEMMA ProposedIsGood ==
    ASSUME NEW p, NEW sent, Good(p, sent)
    PROVE  LET taken == proposer_accept_all(p.prepare, p.values)
               q == Proposed(p, taken)
           IN /\ Good(q, sent) /\ Total(q) = Total(p) /\ taken \subseteq Iid
              /\ \A i \in taken : /\ q.accept[i].ballot \in Nat
                                  /\ q.accept[i].ballot > 0
                                  /\ Quorum(Promised(sent, i, q.accept[i].ballot))
<1> DEFINE taken == proposer_accept_all(p.prepare, p.values)
           q == Proposed(p, taken)
           k == Cardinality(taken)
           size == Cardinality(Open(p.prepare))
           next == p.next_prepare_iid
<1>1. p \in ProposerState /\ Ordered(p) /\ Backed(p, sent)
    BY DEF Good
<1>2. /\ p.values \in Nat /\ p.prepare \in [Iid -> Slot] /\ p.accept \in [Iid -> Slot]
    BY <1>1 DEF ProposerState
<1>3. /\ size \in Nat /\ size <= BURST_SIZE /\ next \in 0 .. MaxInst /\ size <= next
      /\ Open(p.prepare) = next - size + 1 .. next /\ IsFiniteSet(Open(p.prepare))
    BY <1>1, Window
<1>4. /\ k \in Nat /\ k <= p.values /\ k <= size
      /\ taken \subseteq Open(p.prepare)
      /\ Open(p.prepare) \ taken = next - (size - k) + 1 .. next
      /\ \A i \in taken : quorum_reached(p.prepare[i])
    BY <1>1, TakenAreLowest
<1>5. /\ q.next_prepare_iid = next /\ q.values = p.values - k
      /\ q.prepare = Put(p.prepare, taken, NoSlot)
      /\ q.accept = [i \in Iid |-> IF i \in taken
                       THEN NewSlot(p.prepare[i].ballot) ELSE p.accept[i]]
    BY <1>1 DEF Proposed, ProposerState
<1>6. q = [p EXCEPT !.values = p.values - k, !.prepare = q.prepare, !.accept = q.accept]
    BY <1>1 DEF Proposed, ProposerState
<1> HIDE DEF q, k, size, next, taken
<1>7. /\ \A i \in Iid : q.prepare[i] = IF i \in taken THEN NoSlot ELSE p.prepare[i]
      /\ \A i \in Iid : q.accept[i] = IF i \in taken THEN NewSlot(p.prepare[i].ballot)
                                                     ELSE p.accept[i]
    BY <1>5 DEF Put
<1>8. taken \subseteq Iid /\ \A i \in taken :
          /\ p.prepare[i] \in Slot /\ p.prepare[i].ballot \in Nat /\ p.prepare[i].ballot > 0
    BY <1>1, <1>2, <1>4 DEF Ordered, Open, Slot
<1>9. q \in ProposerState
    <2>1. q.prepare \in [Iid -> Slot] /\ q.accept \in [Iid -> Slot]
        BY <1>2, <1>5, <1>8, NewSlots DEF Put
    <2>2. p.values - k \in Nat
        BY <1>2, <1>4
    <2> QED
        BY <1>1, <1>6, <2>1, <2>2 DEF ProposerState
<1>10. Open(q.prepare) = Open(p.prepare) \ taken
    BY <1>7 DEF Open
<1>11. Open(q.accept) = Open(p.accept) \cup taken
    BY <1>7, <1>8, NewSlots DEF Open
<1>12. /\ Open(q.prepare) = next - (size - k) + 1 .. next
       /\ Cardinality(Open(q.prepare)) = size - k
    <2>1. Cardinality(next - (size - k) + 1 .. next) = size - k
        <3>1. PICK j \in Nat : j = size - k
            BY <1>3, <1>4
        <3>2. Cardinality(next - j + 1 .. next) = j
            BY <1>3, FS_Interval
        <3> QED
            BY <3>1, <3>2
    <2> QED
        BY <1>4, <1>10, <2>1
<1>13. \A i \in taken : q.accept[i].ballot = p.prepare[i].ballot /\ q.accept[i].quorum = {}
    BY <1>7, <1>8, NewSlots
<1>14. Ordered(q)
    <2>1. \A i \in Open(q.prepare) : q.prepare[i].ballot > 0
        BY <1>1, <1>7, <1>10 DEF Ordered, Open
    <2>2. \A i \in Open(q.accept) : q.accept[i].ballot > 0
        BY <1>1, <1>7, <1>8, <1>11, <1>13 DEF Ordered, Open
    <2>3. Open(q.accept) \subseteq (1 .. next) \ Open(q.prepare)
        <3>1. Open(p.accept) \subseteq (1 .. next) \ Open(p.prepare)
            BY <1>1 DEF Ordered, next
        <3>2. Open(p.prepare) \subseteq 1 .. next
            BY <1>3
        <3> QED
            BY <1>4, <1>10, <1>11, <3>1, <3>2
    <2>4. size - k <= BURST_SIZE
        BY <1>3, <1>4
    <2> QED
        BY <1>5, <1>12, <2>1, <2>2, <2>3, <2>4 DEF Ordered
<1>15. \A i \in taken : Quorum(Promised(sent, i, q.accept[i].ballot))
    <2> TAKE i \in taken
    <2>1. p.prepare[i].quorum \subseteq Promised(sent, i, p.prepare[i].ballot)
        BY <1>1, <1>4 DEF Backed
    <2>2. Quorum(p.prepare[i].quorum)
        BY <1>4 DEF quorum_reached, Quorum
    <2>3. Promised(sent, i, p.prepare[i].ballot) \subseteq AcceptorId
        BY DEF Promised, Answerers
    <2> QED
        BY <1>13, <2>1, <2>2, <2>3, Quorums
<1>16. Backed(q, sent)
    <2>1. \A i \in Open(q.prepare) :
             q.prepare[i].quorum \subseteq Promised(sent, i, q.prepare[i].ballot)
        BY <1>1, <1>7, <1>10 DEF Backed, Open
    <2>2. ASSUME NEW i \in Open(q.accept)
          PROVE  /\ q.accept[i].quorum \subseteq Voted(sent, i, q.accept[i].ballot)
                 /\ Quorum(Promised(sent, i, q.accept[i].ballot))
        <3>1. CASE i \in taken
            BY <1>13, <1>15, <3>1
        <3>2. CASE i \notin taken
            <4>1. i \in Open(p.accept) /\ q.accept[i] = p.accept[i]
                BY <1>7, <1>11, <3>2 DEF Open
            <4> QED
                BY <1>1, <4>1 DEF Backed
        <3> QED
            BY <3>1, <3>2
    <2>3. \A i \in 1 .. next : i \notin Open(q.prepare) \cup Open(q.accept)
                                  => Chosen(sent, i)
        BY <1>1, <1>10, <1>11 DEF Backed, next
    <2> QED
        BY <1>5, <2>1, <2>2, <2>3 DEF Backed
<1>17. Total(q) = Total(p)
    <2>1. (p.values - k) + (next - (size - k)) = p.values + (next - size)
        BY <1>2, <1>3, <1>4
    <2>2. Total(q) = (p.values - k) + (next - (size - k))
        BY <1>5, <1>12 DEF Total
    <2>3. Total(p) = p.values + (next - size)
        BY DEF Total, next, size
    <2> QED
        BY <2>1, <2>2, <2>3
<1>18. \A i \in taken : q.accept[i].ballot \in Nat /\ q.accept[i].ballot > 0
    BY <1>8, <1>13
<1> QED
    BY <1>8, <1>9, <1>14, <1>15, <1>16, <1>17, <1>18 DEF Good, q, taken

\* try_accept keeps the proposer good, loses no client's packet and sends accepts
\* only for instances that were promised.
LEMMA TryAcceptKeeps ==
    ASSUME NEW p, NEW net, NEW sent, Good(p, sent), Truthful(net, sent),
           net \subseteq PaxosHdr, try_accept(p, net)
    PROVE  Kept(sent, Total(p))
<1> DEFINE taken == proposer_accept_all(p.prepare, p.values)
           q == Proposed(p, taken)
           more == net \cup {Accept(i, q.accept[i].ballot, Empty) : i \in taken}
<1>1. proposer_preexecute(q, more)
    <2>1. propose(p, net, taken)
        BY Zenon DEF try_accept
    <2> HIDE DEF taken
    <2>2. \E r \in {Proposed(p, taken)} : proposer_preexecute(
              r, net \cup {Accept(i, r.accept[i].ballot, Empty) : i \in taken})
        BY <2>1, Zenon DEF propose, Proposed
    <2> QED
        BY <2>2, Zenon
<1>2. /\ Good(q, sent) /\ Total(q) = Total(p) /\ taken \subseteq Iid
      /\ \A i \in taken : /\ q.accept[i].ballot \in Nat
                          /\ Quorum(Promised(sent, i, q.accept[i].ballot))
    BY ProposedIsGood
<1> HIDE DEF q, taken
<1>3. \A i \in taken :
         LET m == Accept(i, q.accept[i].ballot, Empty)
         IN /\ m \in PaxosHdr /\ m.msgtype = "ACCEPT"
            /\ Quorum(Promised(sent, m.inst, m.rnd))
    BY <1>2 DEF Accept, PaxosHdr, AcceptorId, Value
<1>4. Truthful(more, sent) /\ more \subseteq PaxosHdr
    BY <1>3 DEF Truthful
<1> HIDE DEF more
<1>5. Kept(sent, Total(q))
    BY <1>1, <1>2, <1>4, PreexecuteKeeps
<1> QED
    BY <1>2, <1>5

-----------------------------------------------------------------------------
(* The steps of the proposer.                                              *)

\* The clients' packets received so far.
LEMMA ReceivedSize ==
    ASSUME NEW R \in SUBSET Request
    PROVE  /\ IsFiniteSet(Request \ R) /\ Cardinality(Request \ R) \in Nat
           /\ Cardinality(Request \ R) <= Cardinality(Request)
           /\ Cardinality(Request) \in Nat
<1>1. IsFiniteSet(Request \ R) /\ Cardinality(Request \ R) <= Cardinality(Request)
    BY FS_Subset
<1> QED
    BY <1>1, FS_CardinalityType

LEMMA InvariantIsGood ==
    ASSUME IInv
    PROVE  /\ Good(proposer, answers) /\ Truthful(msgs, answers)
           /\ msgs \subseteq PaxosHdr /\ Total(proposer) = Received
           /\ Cardinality(Request) \in Nat
<1>1. Cardinality(Request) \in Nat
    BY FS_CardinalityType
<1>2. proposer \in ProposerState
    BY <1>1 DEF IInv, TypeOK, Proposer, ProposerState
<1> QED
    BY <1>1, <1>2 DEF IInv, TypeOK, Good

\* What is left of a set of packets is truthful.
LEMMA FewerAreTruthful ==
    ASSUME NEW net, NEW fewer \in SUBSET net, NEW sent, Truthful(net, sent)
    PROVE  Truthful(fewer, sent)
BY DEF Truthful

\* A step of the proposer that counts the clients' packets right.
LEMMA KeptIsInvariant ==
    ASSUME IInv, Kept(answers, Cardinality(Request \ requests')), UNCHANGED acceptorVars,
           requests' \subseteq Request, started' \in BOOLEAN, first_time' \in BOOLEAN,
           faults' \in 0 .. MaxFaults
    PROVE  IInv'
<1>1. PICK q : q = proposer'
    OBVIOUS
<1>2. /\ Good(q, answers) /\ Full(q) /\ Total(q) = Cardinality(Request \ requests')
      /\ Truthful(msgs', answers) /\ msgs' \subseteq PaxosHdr
    BY <1>1 DEF Kept
<1>3. q \in ProposerState /\ Ordered(q) /\ Backed(q, answers)
    BY <1>2 DEF Good
<1>4. q \in Proposer
    <2> DEFINE size == Cardinality(Open(q.prepare))
               next == q.next_prepare_iid
               rec == Cardinality(Request \ requests')
               all == Cardinality(Request)
    <2>1. size \in Nat /\ next \in Nat /\ size <= next
        BY <1>3, Window
    <2>2. rec \in Nat /\ rec <= all /\ all \in Nat
        BY ReceivedSize
    <2>3. q.values + (next - size) = rec /\ q.values \in Nat
        BY <1>2, <1>3 DEF Total, ProposerState
    <2> HIDE DEF size, next, rec, all
    <2>4. q.values \in 0 .. all
        BY <2>1, <2>2, <2>3
    <2> QED
        BY <1>3, <2>4 DEF all, ProposerState, Proposer
<1> records' = records /\ answers' = answers
    BY DEF acceptorVars
<1>5. TypeOK'
    BY <1>1, <1>2, <1>4 DEF IInv, TypeOK
<1>6. Ordered(proposer)' /\ Backed(proposer, answers)' /\ Truthful(msgs, answers)'
    BY <1>1, <1>2, <1>3
<1>7. (Total(proposer) = Received)' /\ Full(proposer)'
    BY <1>1, <1>2 DEF Received
<1> QED
    BY <1>5, <1>6, <1>7 DEF IInv

LEMMA StartKeeps ==
    ASSUME IInv, Start
    PROVE  IInv'
<1>1. /\ started' = TRUE /\ proposer_preexecute(proposer, msgs)
      /\ UNCHANGED <<requests, port, first_time, acceptorVars, faults>>
    BY DEF Start
<1>2. Kept(answers, Total(proposer))
    <2>1. PICK p, net, sent : p = proposer /\ net = msgs /\ sent = answers
        OBVIOUS
    <2>2. /\ Good(p, sent) /\ Truthful(net, sent) /\ net \subseteq PaxosHdr
          /\ proposer_preexecute(p, net)
        BY <1>1, <2>1, InvariantIsGood
    <2>3. Kept(sent, Total(p))
        BY <2>2, PreexecuteKeeps
    <2> QED
        BY <2>1, <2>3
<1>3. Total(proposer) = Cardinality(Request \ requests')
    BY <1>1, InvariantIsGood DEF Received
<1>4. /\ requests' \subseteq Request /\ started' \in BOOLEAN
      /\ first_time' \in BOOLEAN /\ faults' \in 0 .. MaxFaults /\ UNCHANGED acceptorVars
    BY <1>1 DEF IInv, TypeOK
<1> QED
    BY <1>2, <1>3, <1>4, KeptIsInvariant

\* One more value in the queue.
LEMMA QueueKeeps ==
    ASSUME NEW p, NEW sent, Good(p, sent)
    PROVE  LET q == [p EXCEPT !.values = @ + 1]
           IN Good(q, sent) /\ Total(q) = Total(p) + 1
<1> DEFINE q == [p EXCEPT !.values = @ + 1]
<1>1. p \in ProposerState /\ Ordered(p) /\ Backed(p, sent)
    BY DEF Good
<1>2. /\ q \in ProposerState /\ q.values = p.values + 1 /\ q.prepare = p.prepare
      /\ q.accept = p.accept /\ q.next_prepare_iid = p.next_prepare_iid
    BY <1>1 DEF ProposerState
<1> HIDE DEF q
<1>3. Ordered(q) /\ Backed(q, sent)
    BY <1>1, <1>2 DEF Ordered, Backed
<1>4. Total(q) = Total(p) + 1
    <2> DEFINE d == p.next_prepare_iid - Cardinality(Open(p.prepare))
    <2>1. d \in Int /\ p.values \in Nat
        BY <1>1, Window DEF ProposerState
    <2>2. Total(q) = (p.values + 1) + d /\ Total(p) = p.values + d
        BY <1>2 DEF Total
    <2> HIDE DEF d
    <2> QED
        BY <2>1, <2>2
<1> QED
    BY <1>2, <1>3, <1>4 DEF Good, q

\* Preparing no instance changes nothing.
LEMMA PrepareNone ==
    ASSUME NEW p \in ProposerState
    PROVE  proposer_prepare(p, {}) = p
<1>1. Put(p.prepare, {}, NewSlot(FirstBallot)) = p.prepare
    BY DEF Put, ProposerState
<1>2. p.next_prepare_iid + Cardinality({}) = p.next_prepare_iid
    BY FS_EmptySet DEF ProposerState
<1> QED
    BY <1>1, <1>2 DEF proposer_prepare, ProposerState

LEMMA ReceiveRequestKeeps ==
    ASSUME IInv, ReceiveRequest
    PROVE  IInv'
<1>1. /\ requests # {} /\ requests' = requests \ {CHOOSE r \in requests : TRUE}
      /\ proposer_handle_accept(msgs)
      /\ UNCHANGED <<port, started, acceptorVars, faults>>
    BY DEF ReceiveRequest
<1>2. PICK r \in requests : requests' = requests \ {r}
    BY <1>1
<1>3. requests \subseteq Request
    BY DEF IInv, TypeOK
<1>4. Cardinality(Request \ requests') = Cardinality(Request \ requests) + 1
    <2>1. Request \ requests' = (Request \ requests) \cup {r} /\ r \notin Request \ requests
        BY <1>2, <1>3
    <2> QED
        BY <1>3, <2>1, ReceivedSize, FS_AddElement
<1>5. PICK sent : sent = answers
    OBVIOUS
<1>6. /\ Good(proposer, sent) /\ Truthful(msgs, sent) /\ msgs \subseteq PaxosHdr
      /\ Total(proposer) = Cardinality(Request \ requests)
    BY <1>5, InvariantIsGood DEF Received
<1>7. PICK new \in {IF first_time THEN Missing(proposer) ELSE {}} :
         \E p \in {[proposer_prepare(proposer, new) EXCEPT !.values = @ + 1]} :
             try_accept(p, msgs \cup Prepares(new))
    BY <1>1 DEF proposer_handle_accept
<1>8. PICK p : /\ p = [proposer_prepare(proposer, new) EXCEPT !.values = @ + 1]
               /\ try_accept(p, msgs \cup Prepares(new))
    BY <1>7
<1>9. PICK q : q = proposer_prepare(proposer, new)
    OBVIOUS
<1>10. Good(q, sent) /\ Total(q) = Total(proposer) /\ new \subseteq Iid
    <2>1. CASE first_time
        <3>1. new = Missing(proposer)
            BY <1>7, <2>1
        <3> QED
            BY <1>6, <1>9, <3>1, PrepareKeeps DEF Missing
    <2>2. CASE ~first_time
        <3>1. new = {}
            BY <1>7, <2>2
        <3> QED
            BY <1>6, <1>9, <3>1, PrepareNone DEF Good
    <2> QED
        BY <2>1, <2>2
<1>11. p = [q EXCEPT !.values = @ + 1]
    BY <1>8, <1>9
<1>12. Good(p, sent) /\ Total(p) = Total(q) + 1
    BY <1>10, <1>11, QueueKeeps
<1>13. PICK net : net = msgs \cup Prepares(new)
    OBVIOUS
<1>14. Truthful(net, sent) /\ net \subseteq PaxosHdr
    <2>1. FirstBallot \in Nat
        BY DEF FirstBallot
    <2> QED
        BY <1>6, <1>10, <1>13, <2>1, PreparesAreTruthful DEF Prepares
<1>15. try_accept(p, net)
    BY <1>8, <1>13
<1>16. Kept(sent, Total(p))
    BY <1>12, <1>14, <1>15, TryAcceptKeeps
<1>17. Total(p) = Cardinality(Request \ requests')
    BY <1>4, <1>6, <1>10, <1>12
<1>18. /\ requests' \subseteq Request /\ started' \in BOOLEAN
       /\ first_time' \in BOOLEAN /\ faults' \in 0 .. MaxFaults /\ UNCHANGED acceptorVars
    BY <1>1, <1>2 DEF IInv, TypeOK, proposer_handle_accept
<1> QED
    BY <1>5, <1>16, <1>17, <1>18, KeptIsInvariant

\* A promise counts for the acceptor that gave it, or starts phase 1 again.
LEMMA PromiseKeeps ==
    ASSUME NEW p, NEW sent, Good(p, sent), NEW i \in Iid, NEW aid \in AcceptorId,
           NEW b \in Nat, aid \in Promised(sent, i, b)
    PROVE  LET slot == proposer_receive_promise(p.prepare[i], aid, b)
               q == [p EXCEPT !.prepare[i] = slot]
           IN /\ Good(q, sent) /\ Total(q) = Total(p)
              /\ slot.ballot \in Nat
<1> DEFINE old == p.prepare[i]
           slot == proposer_receive_promise(old, aid, b)
           q == [p EXCEPT !.prepare[i] = slot]
<1>1. p \in ProposerState /\ Ordered(p) /\ Backed(p, sent)
    BY DEF Good
<1>2. old \in Slot /\ p.prepare \in [Iid -> Slot] /\ p.next_prepare_iid \in Nat
      /\ p.values \in Nat
    BY <1>1 DEF ProposerState
<1>3. old.ballot \in Nat /\ old.quorum \subseteq AcceptorId /\ old \in Slot
    BY <1>2 DEF Slot
<1>4. old # NoSlot => /\ old.ballot > 0
                      /\ old.quorum \subseteq Promised(sent, i, old.ballot)
    BY <1>1 DEF Ordered, Backed, Open
<1> HIDE DEF old
<1>5. /\ slot \in Slot
      /\ (slot = NoSlot) <=> (old = NoSlot)
      /\ slot # NoSlot => /\ slot.ballot > 0
                          /\ slot.quorum \subseteq Promised(sent, i, slot.ballot)
    <2>1. CASE Preempts(old, b)
        <3>1. old # NoSlot /\ slot = NewSlot(proposer_next_ballot(old.ballot))
            BY <2>1 DEF Preempts, proposer_receive_promise, NewSlot
        <3>2. proposer_next_ballot(old.ballot) \in Nat /\ proposer_next_ballot(old.ballot) > 0
            BY <1>3 DEF proposer_next_ballot
        <3> QED
            BY <3>1, <3>2, NewSlots
    <2>2. CASE ~Preempts(old, b) /\ old # NoSlot /\ b = old.ballot
        <3>1. slot = [old EXCEPT !.quorum = @ \cup {aid}]
            BY <2>2 DEF proposer_receive_promise
        <3>2. slot \in Slot /\ slot.ballot = old.ballot /\ slot.quorum = old.quorum \cup {aid}
            BY <1>3, <3>1 DEF Slot
        <3>3. slot # NoSlot
            BY <1>4, <2>2, <3>2 DEF NoSlot
        <3> QED
            BY <1>4, <2>2, <3>2, <3>3
    <2>3. CASE ~Preempts(old, b) /\ ~(old # NoSlot /\ b = old.ballot)
        <3>1. slot = old
            BY <2>3 DEF proposer_receive_promise
        <3> QED
            BY <1>3, <1>4, <3>1
    <2> QED
        BY <2>1, <2>2, <2>3
<1> HIDE DEF slot
<1>6. /\ q \in ProposerState /\ q.values = p.values /\ q.accept = p.accept
      /\ q.next_prepare_iid = p.next_prepare_iid
      /\ q.prepare = [p.prepare EXCEPT ![i] = slot]
    BY <1>1, <1>2, <1>5 DEF ProposerState
<1> HIDE DEF q
<1>7. \A j \in Iid : q.prepare[j] = IF j = i THEN slot ELSE p.prepare[j]
    BY <1>2, <1>6
<1>8. Open(q.prepare) = Open(p.prepare)
    BY <1>5, <1>7 DEF Open, old
<1>9. Ordered(q)
    <2>1. \A j \in Open(q.prepare) : q.prepare[j].ballot > 0
        BY <1>1, <1>5, <1>7, <1>8 DEF Ordered, Open
    <2> QED
        BY <1>1, <1>6, <1>8, <2>1 DEF Ordered
<1>10. Backed(q, sent)
    <2>1. \A j \in Open(q.prepare) :
             q.prepare[j].quorum \subseteq Promised(sent, j, q.prepare[j].ballot)
        BY <1>1, <1>5, <1>7, <1>8 DEF Backed, Open
    <2> QED
        BY <1>1, <1>6, <1>8, <2>1 DEF Backed
<1>11. Total(q) = Total(p)
    BY <1>6, <1>8 DEF Total
<1>12. slot.ballot \in Nat
    BY <1>5 DEF Slot
<1> QED
    BY <1>6, <1>9, <1>10, <1>11, <1>12 DEF Good, q, slot, old

\* A vote counts for the acceptor that cast it; the one that completes the quorum
\* closes the instance.
LEMMA VoteKeeps ==
    ASSUME NEW p, NEW sent, Good(p, sent), NEW i \in Iid, NEW aid \in AcceptorId,
           p.accept[i] # NoSlot, aid \in Voted(sent, i, p.accept[i].ballot)
    PROVE  LET slot == proposer_receive_accepted(p.accept[i], aid)
               q == [p EXCEPT !.accept[i] = slot]
           IN Good(q, sent) /\ Total(q) = Total(p)
<1> DEFINE old == p.accept[i]
           added == [old EXCEPT !.quorum = @ \cup {aid}]
           slot == proposer_receive_accepted(old, aid)
           q == [p EXCEPT !.accept[i] = slot]
<1>1. p \in ProposerState /\ Ordered(p) /\ Backed(p, sent)
    BY DEF Good
<1>2. /\ old \in Slot /\ p.accept \in [Iid -> Slot] /\ p.next_prepare_iid \in Nat
    BY <1>1 DEF ProposerState
<1>3. /\ old.ballot > 0 /\ old.quorum \subseteq Voted(sent, i, old.ballot)
      /\ Quorum(Promised(sent, i, old.ballot)) /\ i \in Open(p.accept)
    BY <1>1 DEF Ordered, Backed, Open
<1>4. /\ added \in Slot /\ added.ballot = old.ballot
      /\ added.quorum = old.quorum \cup {aid}
    BY <1>2 DEF Slot
<1>5. /\ added.quorum \subseteq Voted(sent, i, old.ballot)
      /\ Voted(sent, i, old.ballot) \subseteq AcceptorId
      /\ \E m \in sent : m.rnd = old.ballot
    BY <1>3, <1>4 DEF Voted, Answerers
<1>6. slot = IF quorum_reached(added) THEN NoSlot ELSE added
    BY DEF proposer_receive_accepted
<1> HIDE DEF old, added, slot
<1>7. slot \in Slot /\ NoSlot \in Slot /\ NoSlot.ballot = 0 /\ added # NoSlot
    <2>1. 0 \in Nat
        OBVIOUS
    <2> QED
        BY <1>3, <1>4, <1>6, <2>1, NewSlots
<1>8. /\ q \in ProposerState /\ q.values = p.values /\ q.prepare = p.prepare
      /\ q.next_prepare_iid = p.next_prepare_iid
      /\ q.accept = [p.accept EXCEPT ![i] = slot]
    BY <1>1, <1>2, <1>7 DEF ProposerState
<1> HIDE DEF q
<1>9. \A j \in Iid : q.accept[j] = IF j = i THEN slot ELSE p.accept[j]
    BY <1>2, <1>8
<1>10. Total(q) = Total(p)
    BY <1>8 DEF Total
<1>11. Open(q.accept) = IF quorum_reached(added) THEN Open(p.accept) \ {i} ELSE Open(p.accept)
    BY <1>3, <1>6, <1>7, <1>9 DEF Open
<1>12. Ordered(q)
    <2>1. \A j \in Open(q.accept) : q.accept[j].ballot > 0
        BY <1>1, <1>3, <1>4, <1>6, <1>9, <1>11 DEF Ordered, Open
    <2>2. Open(q.accept) \subseteq (1 .. p.next_prepare_iid) \ Open(p.prepare)
        BY <1>1, <1>11 DEF Ordered
    <2> QED
        BY <1>1, <1>8, <2>1, <2>2 DEF Ordered
<1>13. Backed(q, sent)
    <2>1. \A j \in Open(q.accept) :
             /\ q.accept[j].quorum \subseteq Voted(sent, j, q.accept[j].ballot)
             /\ Quorum(Promised(sent, j, q.accept[j].ballot))
        BY <1>1, <1>3, <1>4, <1>5, <1>6, <1>9, <1>11 DEF Backed, Open
    <2>2. quorum_reached(added) => Chosen(sent, i)
        BY <1>5, Quorums DEF quorum_reached, Quorum, Chosen
    <2>3. \A j \in 1 .. p.next_prepare_iid :
             j \notin Open(p.prepare) \cup Open(q.accept) => Chosen(sent, j)
        BY <1>1, <1>11, <2>2 DEF Backed
    <2>4. \A j \in Open(p.prepare) :
             p.prepare[j].quorum \subseteq Promised(sent, j, p.prepare[j].ballot)
        BY <1>1 DEF Backed
    <2> QED
        BY <1>8, <2>1, <2>3, <2>4 DEF Backed
<1> QED
    BY <1>8, <1>10, <1>12, <1>13 DEF Good, q, slot, old

LEMMA ReceiveAnswerKeeps ==
    ASSUME IInv, NEW m \in msgs, ReceiveAnswer(m)
    PROVE  IInv'
<1>1. PICK net \in {msgs \ {m}, msgs} :
         /\ Taken(m, net)
         /\ \/ m.msgtype = "PROMISE" /\ proposer_handle_promise(m, net)
            \/ m.msgtype = "ACCEPTED" /\ proposer_handle_accepted(m, net)
    BY DEF ReceiveAnswer
<1>2. UNCHANGED <<requests, port, first_time, started, acceptorVars>>
    BY DEF ReceiveAnswer
<1>3. PICK p, sent : p = proposer /\ sent = answers
    OBVIOUS
<1>4. /\ Good(p, sent) /\ Truthful(msgs, sent) /\ msgs \subseteq PaxosHdr
      /\ Total(p) = Cardinality(Request \ requests)
    BY <1>3, InvariantIsGood DEF Received
<1>5. Truthful(net, sent) /\ net \subseteq PaxosHdr
    BY <1>1, <1>4, FewerAreTruthful
<1>6. m.inst \in Iid /\ m.acptid \in AcceptorId /\ m.rnd \in Nat
    BY <1>4 DEF PaxosHdr
<1>7. /\ requests' \subseteq Request /\ started' \in BOOLEAN
      /\ first_time' \in BOOLEAN /\ faults' \in 0 .. MaxFaults /\ UNCHANGED acceptorVars
    <2>1. faults' \in 0 .. MaxFaults
        BY <1>1 DEF Taken, IInv, TypeOK
    <2> QED
        BY <1>2, <2>1 DEF IInv, TypeOK
<1>8. CASE m.msgtype = "PROMISE" /\ proposer_handle_promise(m, net)
    <2> DEFINE slot == proposer_receive_promise(p.prepare[m.inst], m.acptid, m.rnd)
               q == [p EXCEPT !.prepare[m.inst] = slot]
               more == IF Preempts(p.prepare[m.inst], m.rnd)
                       THEN net \cup {Prepare(m.inst, slot.ballot)} ELSE net
    <2>1. try_accept(q, more)
        BY <1>3, <1>8 DEF proposer_handle_promise
    <2>2. m.acptid \in Promised(sent, m.inst, m.rnd)
        BY <1>4, <1>8 DEF Truthful
    <2>3. Good(q, sent) /\ Total(q) = Total(p) /\ slot.ballot \in Nat
        BY <1>4, <1>6, <2>2, PromiseKeeps
    <2> HIDE DEF q, slot
    <2>4. Truthful(more, sent) /\ more \subseteq PaxosHdr
        <3>1. PICK S \in SUBSET Iid, c \in Nat : S = {m.inst} /\ c = slot.ballot
            BY <1>6, <2>3
        <3>2. /\ Truthful(net \cup {Prepare(i, c) : i \in S}, sent)
              /\ net \cup {Prepare(i, c) : i \in S} \subseteq PaxosHdr
            BY <1>5, PreparesAreTruthful
        <3>3. {Prepare(i, c) : i \in S} = {Prepare(m.inst, slot.ballot)}
            BY <3>1
        <3> QED
            BY <1>5, <3>2, <3>3
    <2> HIDE DEF more
    <2>5. Kept(sent, Total(q))
        BY <2>1, <2>3, <2>4, TryAcceptKeeps
    <2>6. Total(q) = Cardinality(Request \ requests')
        BY <1>2, <1>4, <2>3
    <2> QED
        BY <1>3, <1>7, <2>5, <2>6, KeptIsInvariant
<1>9. CASE m.msgtype = "ACCEPTED" /\ proposer_handle_accepted(m, net)
    <2>1. CASE VoteCounts(p.accept[m.inst], m.acptid, m.rnd)
        <3> DEFINE slot == proposer_receive_accepted(p.accept[m.inst], m.acptid)
                   q == [p EXCEPT !.accept[m.inst] = slot]
        <3>1. try_accept(q, net)
            BY <1>3, <1>9, <2>1 DEF proposer_handle_accepted
        <3>2. /\ m.acptid \in Voted(sent, m.inst, p.accept[m.inst].ballot)
              /\ p.accept[m.inst] # NoSlot
            BY <1>4, <1>9, <2>1 DEF Truthful, VoteCounts
        <3>3. Good(q, sent) /\ Total(q) = Total(p)
            BY <1>4, <1>6, <3>2, VoteKeeps
        <3> HIDE DEF q
        <3>4. Kept(sent, Total(q))
            BY <1>5, <3>1, <3>3, TryAcceptKeeps
        <3>5. Total(q) = Cardinality(Request \ requests')
            BY <1>2, <1>4, <3>3
        <3> QED
            BY <1>3, <1>7, <3>4, <3>5, KeptIsInvariant
    <2>2. CASE ~VoteCounts(p.accept[m.inst], m.acptid, m.rnd)
        <3>1. /\ msgs' = net /\ proposer' = proposer
              /\ records' = records /\ answers' = answers
            BY <1>2, <1>3, <1>9, <2>2 DEF proposer_handle_accepted, acceptorVars
        <3>2. Truthful(msgs, answers)'
            BY <1>2, <1>3, <1>5, <3>1
        <3>3. /\ Ordered(proposer)' /\ Backed(proposer, answers)'
              /\ (Total(proposer) = Received)' /\ (started => Full(proposer))'
            BY <1>2, <3>1 DEF IInv, Received
        <3>4. TypeOK'
            BY <1>2, <1>5, <1>7, <3>1 DEF IInv, TypeOK
        <3> QED
            BY <3>2, <3>3, <3>4 DEF IInv
    <2> QED
        BY <2>1, <2>2
<1> QED
    BY <1>1, <1>8, <1>9

-----------------------------------------------------------------------------
(* The timer, the network and the acceptors: the tables stay as they are.  *)

\* The acceptors only send more: who promised and who voted did so.
LEMMA MoreAnswers ==
    ASSUME NEW sent, NEW more, sent \subseteq more, NEW i, NEW b
    PROVE  /\ Promised(sent, i, b) \subseteq Promised(more, i, b)
           /\ Voted(sent, i, b) \subseteq Voted(more, i, b)
           /\ Quorum(Promised(sent, i, b)) => Quorum(Promised(more, i, b))
           /\ Quorum(Voted(sent, i, b)) => Quorum(Voted(more, i, b))
<1>1. /\ Promised(sent, i, b) \subseteq Promised(more, i, b)
      /\ Voted(sent, i, b) \subseteq Voted(more, i, b)
    BY DEF Promised, Voted, Answerers
<1>2. Promised(more, i, b) \subseteq AcceptorId /\ Voted(more, i, b) \subseteq AcceptorId
    BY DEF Promised, Voted, Answerers
<1> QED
    BY <1>1, <1>2, Quorums

LEMMA MoreStaysBacked ==
    ASSUME NEW p, NEW sent, NEW more, sent \subseteq more, Backed(p, sent)
    PROVE  Backed(p, more)
<1>1. ASSUME NEW i \in Open(p.prepare)
      PROVE  p.prepare[i].quorum \subseteq Promised(more, i, p.prepare[i].ballot)
    <2>1. p.prepare[i].quorum \subseteq Promised(sent, i, p.prepare[i].ballot)
        BY DEF Backed
    <2> QED
        BY <2>1, MoreAnswers
<1>2. ASSUME NEW i \in Open(p.accept)
      PROVE  /\ p.accept[i].quorum \subseteq Voted(more, i, p.accept[i].ballot)
             /\ Quorum(Promised(more, i, p.accept[i].ballot))
    <2>1. /\ p.accept[i].quorum \subseteq Voted(sent, i, p.accept[i].ballot)
          /\ Quorum(Promised(sent, i, p.accept[i].ballot))
        BY DEF Backed
    <2> QED
        BY <2>1, MoreAnswers
<1>3. ASSUME NEW i \in 1 .. p.next_prepare_iid,
             i \notin Open(p.prepare) \cup Open(p.accept)
      PROVE  Chosen(more, i)
    <2>1. PICK m \in sent : Quorum(Voted(sent, i, m.rnd))
        BY <1>3 DEF Backed, Chosen
    <2>2. Quorum(Voted(more, i, m.rnd))
        BY <2>1, MoreAnswers
    <2> QED
        BY <2>2 DEF Chosen
<1> QED
    BY <1>1, <1>2, <1>3 DEF Backed

LEMMA MoreStaysTruthful ==
    ASSUME NEW net, NEW sent, NEW more, sent \subseteq more, Truthful(net, sent)
    PROVE  Truthful(net, more)
<1>1. ASSUME NEW m \in net
      PROVE  /\ m.msgtype = "ACCEPT" => Quorum(Promised(more, m.inst, m.rnd))
             /\ m.msgtype = "PROMISE" => m.acptid \in Promised(more, m.inst, m.rnd)
             /\ m.msgtype = "ACCEPTED" => m.acptid \in Voted(more, m.inst, m.rnd)
    BY MoreAnswers DEF Truthful
<1> QED
    BY <1>1 DEF Truthful

\* A step of the acceptors or of the network that sends nothing untrue.
LEMMA NetworkKeeps ==
    ASSUME IInv, UNCHANGED <<requests, port, proposerVars>>,
           records' \in [AcceptorId -> [Iid -> Record]],
           answers \subseteq answers', answers' \subseteq PaxosHdr,
           faults' \in 0 .. MaxFaults,
           Truthful(msgs', answers'), msgs' \subseteq PaxosHdr
    PROVE  IInv'
<1>1. requests' = requests /\ first_time' = first_time /\ started' = started
      /\ proposer' = proposer
    BY DEF proposerVars
<1>2. Backed(proposer, answers)'
    <2>1. PICK p, sent, more : p = proposer /\ sent = answers /\ more = answers'
        OBVIOUS
    <2>2. Backed(p, sent) /\ sent \subseteq more
        BY <2>1 DEF IInv
    <2>3. Backed(p, more)
        BY <2>2, MoreStaysBacked
    <2> QED
        BY <1>1, <2>1, <2>3
<1>3. TypeOK'
    BY <1>1 DEF IInv, TypeOK
<1>4. Ordered(proposer)' /\ (Total(proposer) = Received)' /\ (started => Full(proposer))'
    BY <1>1 DEF IInv, Received
<1>5. Truthful(msgs, answers)'
    OBVIOUS
<1> QED
    BY <1>2, <1>3, <1>4, <1>5 DEF IInv

LEMMA LoseKeeps ==
    ASSUME IInv, NEW m \in msgs, Lose(m)
    PROVE  IInv'
<1>1. /\ msgs' \subseteq msgs /\ faults' \in 0 .. MaxFaults
      /\ records' = records /\ answers' = answers
      /\ UNCHANGED <<requests, port, proposerVars>>
    BY DEF Lose, IInv, TypeOK, acceptorVars
<1>2. Truthful(msgs', answers') /\ msgs' \subseteq PaxosHdr
    BY <1>1, InvariantIsGood, FewerAreTruthful
<1> QED
    BY <1>1, <1>2, NetworkKeeps DEF IInv, TypeOK

LEMMA OtherPrepareKeeps ==
    ASSUME IInv, NEW i \in OtherInst, OtherPrepare(i)
    PROVE  IInv'
<1>1. /\ msgs' = msgs \cup {Prepare(i, OtherBallot)}
      /\ records' = records /\ answers' = answers
      /\ faults' = faults /\ UNCHANGED <<requests, port, proposerVars>>
    BY DEF OtherPrepare, acceptorVars
<1>2. Truthful(msgs', answers') /\ msgs' \subseteq PaxosHdr
    <2>1. Prepare(i, OtherBallot) \in PaxosHdr /\ Prepare(i, OtherBallot).msgtype = "PREPARE"
        BY DEF Prepare, PaxosHdr, AcceptorId, Value
    <2> QED
        BY <1>1, <2>1, InvariantIsGood DEF Truthful
<1> QED
    BY <1>1, <1>2, NetworkKeeps DEF IInv, TypeOK

\* What the timer sends again was sent for good reason.
LEMMA TimeoutKeeps ==
    ASSUME IInv, NEW i \in Iid, Timeout(i)
    PROVE  IInv'
<1>1. /\ msgs' = msgs \cup timed_out(i) /\ records' = records /\ answers' = answers
      /\ faults' \in 0 .. MaxFaults /\ UNCHANGED <<requests, port, proposerVars>>
    BY DEF Timeout, acceptorVars, IInv, TypeOK
<1>2. proposer \in ProposerState /\ Ordered(proposer) /\ Backed(proposer, answers)
    BY InvariantIsGood DEF Good
<1>3. ASSUME NEW m \in timed_out(i)
      PROVE  /\ m \in PaxosHdr
             /\ \/ m.msgtype = "PREPARE"
                \/ /\ m.msgtype = "ACCEPT"
                   /\ Quorum(Promised(answers, m.inst, m.rnd))
    <2>1. proposer.prepare[i].ballot \in Nat /\ proposer.accept[i].ballot \in Nat
        BY <1>2 DEF ProposerState, Slot
    <2>2. \/ m = Prepare(i, proposer.prepare[i].ballot)
          \/ /\ i \in Open(proposer.accept)
             /\ m = Accept(i, proposer.accept[i].ballot, Empty)
        BY <1>3 DEF timed_out
    <2>3. CASE m = Prepare(i, proposer.prepare[i].ballot)
        BY <2>1, <2>3 DEF Prepare, PaxosHdr, AcceptorId, Value
    <2>4. CASE /\ i \in Open(proposer.accept)
               /\ m = Accept(i, proposer.accept[i].ballot, Empty)
        <3>1. Quorum(Promised(answers, i, proposer.accept[i].ballot))
            BY <1>2, <2>4 DEF Backed
        <3> QED
            BY <2>1, <2>4, <3>1 DEF Accept, PaxosHdr, AcceptorId, Value
    <2> QED
        BY <2>2, <2>3, <2>4
<1>4. Truthful(msgs', answers') /\ msgs' \subseteq PaxosHdr
    BY <1>1, <1>3, InvariantIsGood DEF Truthful
<1> QED
    BY <1>1, <1>4, NetworkKeeps DEF IInv, TypeOK

\* Acceptors that answer m truthfully.
LEMMA AnswerKeeps ==
    ASSUME IInv, NEW A, NEW m, NEW sent \in SUBSET PaxosHdr, Answer(A, m, sent),
           UNCHANGED <<requests, port, proposerVars>>,
           records' \in [AcceptorId -> [Iid -> Record]],
           \A n \in sent : /\ n.msgtype \in {"PROMISE", "ACCEPTED"}
                           /\ n.acptid \in AcceptorId
    PROVE  IInv'
<1>1. PICK net \in {msgs \ {m}, msgs} :
         /\ faults' \in 0 .. MaxFaults
         /\ msgs' = net \cup sent /\ answers' = answers \cup sent
    BY DEF Answer, Taken, IInv, TypeOK
<1>2. PICK more : more = answers \cup sent
    OBVIOUS
<1>3. Truthful(net, more) /\ net \subseteq PaxosHdr
    BY <1>1, <1>2, InvariantIsGood, FewerAreTruthful, MoreStaysTruthful
<1>4. \A n \in sent :
         /\ n.msgtype = "PROMISE" => n.acptid \in Promised(more, n.inst, n.rnd)
         /\ n.msgtype = "ACCEPTED" => n.acptid \in Voted(more, n.inst, n.rnd)
         /\ n.msgtype # "ACCEPT"
    BY <1>2 DEF Promised, Voted, Answerers
<1>5. Truthful(net \cup sent, more)
    BY <1>3, <1>4 DEF Truthful
<1>6. Truthful(msgs', answers') /\ msgs' \subseteq PaxosHdr
    BY <1>1, <1>2, <1>3, <1>5
<1>7. answers \subseteq answers' /\ answers' \subseteq PaxosHdr
    BY <1>1 DEF IInv, TypeOK
<1> QED
    BY <1>1, <1>6, <1>7, NetworkKeeps

LEMMA ReceivePrepareKeeps ==
    ASSUME IInv, NEW m \in msgs, NEW A \in SUBSET AcceptorId, ReceivePrepare(A, m)
    PROVE  IInv'
<1> DEFINE rec(a) == acceptor_receive_prepare(records[a][m.inst], m.rnd)
           answer(a) == [m EXCEPT !.msgtype = "PROMISE", !.acptid = a,
                                  !.rnd = rec(a).ballot]
<1>1. m \in PaxosHdr /\ m.inst \in Iid /\ m.rnd \in Nat
    BY InvariantIsGood DEF PaxosHdr
<1>2. records \in [AcceptorId -> [Iid -> Record]]
    BY DEF IInv, TypeOK
<1>3. \A old \in Record : acceptor_receive_prepare(old, m.rnd) \in Record
    BY <1>1 DEF acceptor_receive_prepare, Record
<1>4. records' \in [AcceptorId -> [Iid -> Record]]
    <2>1. records' = [a \in AcceptorId |->
             IF a \in A
             THEN [records[a] EXCEPT ![m.inst] = acceptor_receive_prepare(@, m.rnd)]
             ELSE records[a]]
        BY DEF ReceivePrepare, Update
    <2> QED
        BY <1>1, <1>2, <1>3, <2>1
<1>5. Answer(A, m, {answer(a) : a \in A}) /\ UNCHANGED <<requests, port, proposerVars>>
    BY DEF ReceivePrepare
<1>6. \A a \in A : rec(a).ballot \in Nat
    BY <1>1, <1>2, <1>3 DEF Record
<1> HIDE DEF rec
<1>7. \A a \in A : /\ answer(a) \in PaxosHdr /\ answer(a).msgtype = "PROMISE"
                   /\ answer(a).acptid \in AcceptorId
    BY <1>1, <1>6 DEF PaxosHdr
<1> HIDE DEF answer
<1>8. PICK sent \in SUBSET PaxosHdr : sent = {answer(a) : a \in A}
    BY <1>7
<1>9. \A n \in sent : n.msgtype \in {"PROMISE", "ACCEPTED"} /\ n.acptid \in AcceptorId
    BY <1>7, <1>8
<1> QED
    BY <1>4, <1>5, <1>8, <1>9, AnswerKeeps

LEMMA ReceiveAcceptKeeps ==
    ASSUME IInv, NEW m \in msgs, NEW A \in SUBSET AcceptorId, ReceiveAccept(A, m)
    PROVE  IInv'
<1> DEFINE voters == {b \in A : records[b][m.inst].ballot <= m.rnd}
           answer(a) == [m EXCEPT !.msgtype = "ACCEPTED", !.acptid = a]
<1>1. m \in PaxosHdr /\ m.inst \in Iid /\ m.rnd \in Nat /\ m.value \in Value
    BY InvariantIsGood DEF PaxosHdr
<1>2. records \in [AcceptorId -> [Iid -> Record]]
    BY DEF IInv, TypeOK
<1>3. \A old \in Record : acceptor_receive_accept(old, m.rnd, m.value) \in Record
    BY <1>1 DEF acceptor_receive_accept, Record
<1>4. records' \in [AcceptorId -> [Iid -> Record]]
    <2>1. records' = [a \in AcceptorId |->
             IF a \in A
             THEN [records[a] EXCEPT
                     ![m.inst] = acceptor_receive_accept(@, m.rnd, m.value)]
             ELSE records[a]]
        BY DEF ReceiveAccept, Update
    <2> QED
        BY <1>1, <1>2, <1>3, <2>1
<1>5. /\ Answer(A, m, {answer(a) : a \in voters})
      /\ UNCHANGED <<requests, port, proposerVars>>
    BY DEF ReceiveAccept
<1>6. \A a \in voters : /\ answer(a) \in PaxosHdr /\ answer(a).msgtype = "ACCEPTED"
                        /\ answer(a).acptid \in AcceptorId
    BY <1>1 DEF PaxosHdr
<1> HIDE DEF answer, voters
<1>7. PICK sent \in SUBSET PaxosHdr : sent = {answer(a) : a \in voters}
    BY <1>6
<1>8. \A n \in sent : n.msgtype \in {"PROMISE", "ACCEPTED"} /\ n.acptid \in AcceptorId
    BY <1>6, <1>7
<1> QED
    BY <1>4, <1>5, <1>7, <1>8, AnswerKeeps

-----------------------------------------------------------------------------
(* The theorems.                                                           *)

LEMMA InitHolds ==
    ASSUME Init
    PROVE  IInv
<1>1. /\ requests = Request /\ msgs = {} /\ first_time = TRUE /\ started = FALSE
      /\ proposer = [next_prepare_iid |-> 0, values |-> 0,
                     prepare |-> [i \in Iid |-> NoSlot],
                     accept |-> [i \in Iid |-> NoSlot]]
      /\ records = [a \in AcceptorId |-> [i \in Iid |-> NoRecord]]
      /\ answers = {} /\ faults = 0
    BY DEF Init, ProposerInit
<1>2. NoSlot \in Slot /\ NoRecord \in Record /\ Cardinality(Request) \in Nat
    BY FS_CardinalityType DEF NoSlot, Slot, NoRecord, Record, Value
<1>3. TypeOK
    <2>1. proposer \in Proposer
        BY <1>1, <1>2 DEF Proposer
    <2>2. records \in [AcceptorId -> [Iid -> Record]] /\ faults \in 0 .. MaxFaults
        BY <1>1, <1>2
    <2>3. first_time \in BOOLEAN /\ started \in BOOLEAN
        BY <1>1, Zenon
    <2>4. requests \subseteq Request /\ msgs \subseteq PaxosHdr
          /\ answers \subseteq PaxosHdr
        BY <1>1, Zenon
    <2> QED
        BY <2>1, <2>2, <2>3, <2>4, Zenon DEF TypeOK
<1>4. /\ Open(proposer.prepare) = {} /\ Open(proposer.accept) = {}
      /\ proposer.next_prepare_iid = 0 /\ proposer.values = 0
    BY <1>1 DEF Open
<1>5. Cardinality({}) = 0 /\ Request \ Request = {}
    BY FS_EmptySet
<1>6. Ordered(proposer)
    BY <1>4, <1>5 DEF Ordered
<1>7. Backed(proposer, answers)
    BY <1>4 DEF Backed
<1>8. Truthful(msgs, answers)
    BY <1>1, Zenon DEF Truthful
<1>9. Total(proposer) = Received
    <2>1. Cardinality(Open(proposer.prepare)) = 0
        BY <1>4, <1>5, Zenon
    <2>2. requests = Request
        BY <1>1, Zenon
    <2>3. Received = 0
        BY <1>5, <2>2, Zenon DEF Received
    <2> QED
        BY <1>4, <2>1, <2>3 DEF Total
<1> QED
    BY <1>1, <1>3, <1>6, <1>7, <1>8, <1>9 DEF IInv

LEMMA NextStep ==
    ASSUME IInv, [Next]_vars
    PROVE  IInv'
<1>1. CASE Start
    BY <1>1, StartKeeps
<1>2. CASE ReceiveRequest
    BY <1>2, ReceiveRequestKeeps
<1>3. CASE \E m \in msgs : Lose(m)
    BY <1>3, LoseKeeps
<1>4. CASE \E i \in Iid : AcceptorsReceive(i)
    BY <1>4, ReceivePrepareKeeps, ReceiveAcceptKeeps DEF AcceptorsReceive
<1>5. CASE \E i \in Iid, a \in AcceptorId : ProposerReceives(i, a)
    BY <1>5, ReceiveAnswerKeeps DEF ProposerReceives
<1>6. CASE \E i \in Iid : Timeout(i)
    BY <1>6, TimeoutKeeps
<1>7. CASE \E i \in OtherInst : OtherPrepare(i)
    BY <1>7, OtherPrepareKeeps
<1>8. CASE UNCHANGED vars
    <2>1. /\ requests' = requests /\ msgs' = msgs /\ first_time' = first_time
          /\ started' = started /\ proposer' = proposer /\ records' = records
          /\ answers' = answers /\ faults' = faults
        BY <1>8 DEF vars, netVars, proposerVars, acceptorVars
    <2>2. TypeOK'
        BY <2>1 DEF IInv, TypeOK
    <2>3. /\ Ordered(proposer)' /\ Backed(proposer, answers)' /\ Truthful(msgs, answers)'
          /\ (Total(proposer) = Received)' /\ (started => Full(proposer))'
        BY <2>1 DEF IInv, Received
    <2> QED
        BY <2>2, <2>3 DEF IInv
<1> QED
    BY <1>1, <1>2, <1>3, <1>4, <1>5, <1>6, <1>7, <1>8 DEF Next

\* IInv is an invariant of the proposer's handlers, of its timer and of the
\* acceptors, whatever packets the network loses and repeats.
THEOREM Invariance == Spec => []IInv
<1>1. Init => IInv
    BY InitHolds
<1>2. IInv /\ [Next]_vars => IInv'
    BY NextStep
<1> QED
    BY <1>1, <1>2, PTL DEF Spec

\* struct proposer, the acceptors' records and the packets keep their types; in
\* particular the queue never holds more values than clients sent.
THEOREM TypeCorrect == Spec => []TypeOK
<1>1. IInv => TypeOK
    BY DEF IInv
<1> QED
    BY <1>1, Invariance, PTL

\* proposer_accept lets no ACCEPT out before a quorum of distinct acceptors promised
\* its very ballot.
THEOREM PromisesFirst == Spec => []AcceptAfterPromises
<1>1. IInv => AcceptAfterPromises
    BY DEF IInv, Truthful, AcceptAfterPromises
<1> QED
    BY <1>1, Invariance, PTL

\* An instance is closed in proposer_receive_accepted only when a quorum of the
\* acceptors voted in it, all in one ballot.
THEOREM Closing == Spec => []ClosedByVotes
<1>1. IInv => ClosedByVotes
    BY DEF IInv, Backed, Accepted, ClosedByVotes
<1> QED
    BY <1>1, Invariance, PTL

\* proposer_preexecute keeps the window of phase 1 full, and the window slides in
\* the order of the instances.
THEOREM Sliding == Spec => []WindowSlides
<1>1. ASSUME IInv PROVE WindowSlides
    <2>1. /\ Open(proposer.prepare) =
                 proposer.next_prepare_iid - Cardinality(Open(proposer.prepare)) + 1
                   .. proposer.next_prepare_iid
          /\ started => Full(proposer)
        BY <1>1 DEF IInv, Ordered
    <2> QED
        BY <2>1 DEF WindowSlides, Full
<1> QED
    BY <1>1, Invariance, PTL

\* The instances that left phase 1 are those proposed and those accepted.
LEMMA LeftPhaseOne ==
    ASSUME IInv
    PROVE  Cardinality(Open(proposer.accept)) + Cardinality(Accepted)
               = proposer.next_prepare_iid - Cardinality(Open(proposer.prepare))
<1> DEFINE size == Cardinality(Open(proposer.prepare))
           next == proposer.next_prepare_iid
           open == Open(proposer.accept)
<1>1. proposer \in ProposerState /\ Ordered(proposer)
    BY InvariantIsGood DEF Good
<1>2. /\ size \in Nat /\ next \in Nat /\ size <= next
      /\ Open(proposer.prepare) = next - size + 1 .. next
    BY <1>1, Window
<1>3. open \subseteq (1 .. next) \ Open(proposer.prepare)
    BY <1>1 DEF Ordered
<1>4. Accepted = {i \in 1 .. next : i \notin Open(proposer.prepare) \cup open}
    BY DEF Accepted
<1> HIDE DEF size, next, open
<1>5. open \cup Accepted = 1 .. next - size /\ open \cap Accepted = {}
    <2>1. \A i : i \in Open(proposer.prepare) <=> i \in next - size + 1 .. next
        BY <1>2
    <2>2. \A i \in 1 .. next : i \in 1 .. next - size <=> i \notin next - size + 1 .. next
        BY <1>2
    <2>3. 1 .. next - size \subseteq 1 .. next
        BY <1>2
    <2>4. \A i : i \in 1 .. next - size <=> i \in 1 .. next /\ i \notin Open(proposer.prepare)
        BY <2>1, <2>2, <2>3, Zenon
    <2>5. \A i : i \in Accepted <=>
              /\ i \in 1 .. next /\ i \notin Open(proposer.prepare) /\ i \notin open
        BY <1>4, Zenon
    <2>6. \A i : i \in open => i \in 1 .. next /\ i \notin Open(proposer.prepare)
        BY <1>3, Zenon
    <2> QED
        BY <2>4, <2>5, <2>6, Zenon
<1>6. IsFiniteSet(1 .. next - size) /\ Cardinality(1 .. next - size) = next - size
    <2>1. PICK j \in Nat : j = next - size
        BY <1>2
    <2>2. IsFiniteSet(1 .. j) /\ Cardinality(1 .. j) = j
        BY <2>1, FS_Interval
    <2> QED
        BY <2>1, <2>2
<1>7. IsFiniteSet(open) /\ IsFiniteSet(Accepted)
    BY <1>5, <1>6, FS_Subset
<1>8. Cardinality(open \cup Accepted) = Cardinality(open) + Cardinality(Accepted)
    <2>1. Cardinality(open) \in Nat /\ Cardinality(Accepted) \in Nat
        BY <1>7, FS_CardinalityType
    <2>2. Cardinality(open \cap Accepted) = 0
        BY <1>5, FS_EmptySet
    <2> QED
        <3>1. Cardinality(open \cup Accepted)
                  = Cardinality(open) + Cardinality(Accepted) - Cardinality(open \cap Accepted)
            BY <1>7, FS_Union, Zenon
        <3>2. PICK x \in Nat, y \in Nat : x = Cardinality(open) /\ y = Cardinality(Accepted)
            BY <2>1
        <3>3. x + y - 0 = x + y
            OBVIOUS
        <3> QED
            BY <2>2, <3>1, <3>2, <3>3, Zenon
<1> QED
    BY <1>5, <1>6, <1>8 DEF open, size, next

\* The queue, the table of phase 2 and the accepted instances hold every client's
\* packet that paxos_rx_process handed to the proposer, once.
THEOREM Conservation == Spec => []RequestsConserved
<1>1. ASSUME IInv PROVE RequestsConserved
    <2> DEFINE a == Cardinality(Open(proposer.accept))
               b == Cardinality(Accepted)
               d == proposer.next_prepare_iid - Cardinality(Open(proposer.prepare))
    <2>1. a + b = d /\ proposer.values + d = Received
        BY <1>1, LeftPhaseOne DEF IInv, Total
    <2>2. a \in Nat /\ b \in Nat /\ proposer.values \in Nat
        <3>1. IsFiniteSet(Iid) /\ Open(proposer.accept) \subseteq Iid
            BY FS_Interval DEF Iid, Open
        <3>2. proposer \in ProposerState
            BY <1>1, InvariantIsGood DEF Good
        <3>3. Accepted \subseteq Iid /\ proposer.values \in Nat
            BY <3>2 DEF Accepted, Iid, ProposerState
        <3> QED
            BY <3>1, <3>3, FS_Subset, FS_CardinalityType
    <2>3. (proposer.values + a) + b = proposer.values + (a + b)
        <3> HIDE DEF a, b
        <3> QED
            BY <2>2
    <2> QED
        BY <2>1, <2>3 DEF RequestsConserved
<1> QED
    BY <1>1, Invariance, PTL
=============================================================================
