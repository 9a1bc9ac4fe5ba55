--------------------------- MODULE Workload_proofs ---------------------------
(***************************************************************************)
(* The load generators keep their window, for every window, burst size and *)
(* number of packets: what is sent is counted place by place, and a packet *)
(* only moves from one place to the next.                                  *)
(***************************************************************************)
EXTENDS Workload, FiniteSetTheorems, TLAPS

USE GenAssumption

-----------------------------------------------------------------------------
(* Sets of packets.                                                        *)

\* The size of two disjoint sets together.
LEMMA DisjointSizes ==
    ASSUME NEW S, NEW T, IsFiniteSet(S), IsFiniteSet(T), S \cap T = {}
    PROVE  /\ IsFiniteSet(S \cup T)
           /\ Cardinality(S \cup T) = Cardinality(S) + Cardinality(T)
           /\ Cardinality(S) \in Nat /\ Cardinality(T) \in Nat
<1>1. Cardinality(S) \in Nat /\ Cardinality(T) \in Nat
    BY FS_CardinalityType
<1>2. Cardinality(S \cap T) = 0
    BY FS_EmptySet
<1>3. /\ IsFiniteSet(S \cup T)
      /\ Cardinality(S \cup T)
            = Cardinality(S) + Cardinality(T) - Cardinality(S \cap T)
    BY FS_Union
<1> QED
    BY <1>1, <1>2, <1>3

\* The size of what is left of a set when a part of it goes.
LEMMA RestSize ==
    ASSUME NEW S, NEW T, IsFiniteSet(S), T \subseteq S
    PROVE  /\ IsFiniteSet(T) /\ IsFiniteSet(S \ T)
           /\ Cardinality(S \ T) = Cardinality(S) - Cardinality(T)
           /\ Cardinality(S) \in Nat /\ Cardinality(T) \in Nat
           /\ Cardinality(S \ T) \in Nat
           /\ Cardinality(T) <= Cardinality(S)
<1>1. IsFiniteSet(T) /\ Cardinality(T) <= Cardinality(S)
    BY FS_Subset
<1>2. IsFiniteSet(S \ T) /\ (S \ T) \cap T = {} /\ (S \ T) \cup T = S
    BY FS_Difference
<1>3. /\ Cardinality(S) = Cardinality(S \ T) + Cardinality(T)
      /\ Cardinality(S \ T) \in Nat /\ Cardinality(T) \in Nat
    BY <1>1, <1>2, DisjointSizes
<1> QED
    BY <1>1, <1>2, <1>3

\* The places of packets are finite sets.
LEMMA FinitePlaces ==
    ASSUME TypeOK
    PROVE  /\ IsFiniteSet(tx_buffer) /\ IsFiniteSet(wire)
           /\ IsFiniteSet(closed) /\ IsFiniteSet(replies)
           /\ Cardinality(tx_buffer) \in Nat /\ Cardinality(wire) \in Nat
           /\ Cardinality(closed) \in Nat /\ Cardinality(replies) \in Nat
<1>1. IsFiniteSet(Inst)
    BY FS_Interval DEF Inst
<1>2. /\ IsFiniteSet(tx_buffer) /\ IsFiniteSet(wire)
      /\ IsFiniteSet(closed) /\ IsFiniteSet(replies)
    BY <1>1, FS_Subset DEF TypeOK
<1> QED
    BY <1>2, FS_CardinalityType

\* New packets are as many as their numbers say, and new.
LEMMA NewPacketsAreNew ==
    ASSUME TypeOK, NEW n \in Nat, HasRoom(n)
    PROVE  /\ IsFiniteSet(NewPackets(n)) /\ Cardinality(NewPackets(n)) = n
           /\ NewPackets(n) \subseteq Inst
           /\ NewPackets(n) \cap (1 .. cur_inst - 1) = {}
           /\ NewPackets(n) \cup (1 .. cur_inst - 1) = 1 .. cur_inst + n - 1
<1>1. cur_inst \in Int /\ cur_inst >= 1 /\ cur_inst + n <= MaxInst + 1
    BY DEF TypeOK, HasRoom
<1>2. IsFiniteSet(NewPackets(n)) /\ Cardinality(NewPackets(n)) = n
    BY <1>1, FS_Interval DEF NewPackets
<1> QED
    BY <1>1, <1>2 DEF NewPackets, Inst

-----------------------------------------------------------------------------
(* Sending.                                                                *)

\* What sending does with n new packets: every packet that was waiting or is new
\* waits, is on its way or is lost, and none of those sent before is touched.
Sent(n) ==
    /\ tx_buffer' \subseteq Inst /\ wire' \subseteq Inst
    /\ tx_buffer' \cup wire' \subseteq tx_buffer \cup wire \cup NewPackets(n)
    /\ tx_buffer' \cap wire' = {}
    /\ Cardinality(tx_buffer') \in Nat /\ Cardinality(wire') \in Nat
    /\ Cardinality(tx_buffer') + Cardinality(wire') + faults'
          = Cardinality(tx_buffer) + Cardinality(wire) + faults + n
    /\ faults' \in faults .. MaxFaults
    /\ faults' = 0 => tx_buffer' \cup wire' = tx_buffer \cup wire \cup NewPackets(n)

\* Whichever packets go out now and which ones wait, nothing is lost track of.
LEMMA Sending ==
    ASSUME IInv, NEW n \in Nat, HasRoom(n),
           NEW waiting \in SUBSET (tx_buffer \cup NewPackets(n)),
           Transmit((tx_buffer \cup NewPackets(n)) \ waiting),
           tx_buffer' = waiting
    PROVE  Sent(n)
<1> DEFINE all == tx_buffer \cup NewPackets(n)
           go == all \ waiting
<1>1. PICK bad \in SUBSET go :
         /\ faults + Cardinality(bad) <= MaxFaults
         /\ faults' = faults + Cardinality(bad)
         /\ wire' = wire \cup (go \ bad)
    BY DEF Transmit
<1>2. TypeOK /\ InOnePlace /\ faults \in Nat
    BY DEF IInv, TypeOK
<1>3. /\ IsFiniteSet(tx_buffer) /\ IsFiniteSet(wire)
      /\ Cardinality(tx_buffer) \in Nat /\ Cardinality(wire) \in Nat
    BY <1>2, FinitePlaces
<1>4. /\ IsFiniteSet(NewPackets(n)) /\ Cardinality(NewPackets(n)) = n
      /\ NewPackets(n) \subseteq Inst
      /\ NewPackets(n) \cap (1 .. cur_inst - 1) = {}
    BY <1>2, NewPacketsAreNew
<1>5. /\ tx_buffer \cap NewPackets(n) = {} /\ wire \cap NewPackets(n) = {}
      /\ tx_buffer \cap wire = {} /\ tx_buffer \subseteq Inst /\ wire \subseteq Inst
    BY <1>2, <1>4 DEF InOnePlace, TypeOK
<1>6. IsFiniteSet(all) /\ Cardinality(all) = Cardinality(tx_buffer) + n
    BY <1>3, <1>4, <1>5, DisjointSizes
<1>7. /\ IsFiniteSet(go)
      /\ Cardinality(go) = Cardinality(tx_buffer) + n - Cardinality(waiting)
      /\ Cardinality(waiting) \in Nat
    <2>1. waiting \subseteq all
        OBVIOUS
    <2> HIDE DEF all
    <2>2. /\ IsFiniteSet(all \ waiting) /\ Cardinality(waiting) \in Nat
          /\ Cardinality(all \ waiting) = Cardinality(all) - Cardinality(waiting)
        BY <1>6, <2>1, RestSize
    <2>3. go = all \ waiting
        OBVIOUS
    <2> HIDE DEF go
    <2> QED
        BY <1>3, <1>6, <2>2, <2>3
<1>8. /\ IsFiniteSet(go \ bad)
      /\ Cardinality(go \ bad) = Cardinality(go) - Cardinality(bad)
      /\ Cardinality(bad) \in Nat /\ Cardinality(go \ bad) \in Nat
      /\ IsFiniteSet(bad)
    BY <1>1, <1>7, RestSize
<1>9. wire \cap (go \ bad) = {}
    BY <1>5
<1>10. /\ Cardinality(wire') = Cardinality(wire) + Cardinality(go \ bad)
       /\ Cardinality(wire') \in Nat
    <2> DEFINE some == go \ bad
    <2> HIDE DEF some, go
    <2>1. IsFiniteSet(some) /\ wire \cap some = {} /\ wire' = wire \cup some
        BY <1>1, <1>8, <1>9 DEF some
    <2>2. /\ Cardinality(wire \cup some) = Cardinality(wire) + Cardinality(some)
          /\ Cardinality(some) \in Nat
        BY <1>3, <2>1, DisjointSizes
    <2> QED
        BY <1>3, <2>1, <2>2 DEF some
<1>11. faults' = 0 => bad = {}
    <2>1. Cardinality(bad) = 0 => bad = {}
        BY <1>8, FS_EmptySet
    <2> QED
        BY <2>1, <1>1, <1>2, <1>8
<1>12. Cardinality(tx_buffer') + Cardinality(wire') + faults'
          = Cardinality(tx_buffer) + Cardinality(wire) + faults + n
    <2> HIDE DEF go, all
    <2> QED
        BY <1>1, <1>2, <1>3, <1>7, <1>8, <1>10
<1>13. faults' \in faults .. MaxFaults
    BY <1>1, <1>2, <1>8
<1>14. /\ tx_buffer' \subseteq Inst /\ wire' \subseteq Inst
       /\ tx_buffer' \cup wire' \subseteq tx_buffer \cup wire \cup NewPackets(n)
       /\ tx_buffer' \cap wire' = {}
    BY <1>1, <1>4, <1>5
<1>15. faults' = 0 =>
          tx_buffer' \cup wire' = tx_buffer \cup wire \cup NewPackets(n)
    BY <1>1, <1>11
<1> QED
    BY <1>7, <1>10, <1>12, <1>13, <1>14, <1>15 DEF Sent

\* generate_packets leaves less than a burst in the buffer.
LEMMA BufferedSending ==
    ASSUME IInv, NEW n \in Nat, generate_packets(n)
    PROVE  /\ Sent(n) /\ HasRoom(n) /\ cur_inst' = cur_inst + n
           /\ Cardinality(tx_buffer') < BURST_SIZE
<1> DEFINE all == tx_buffer \cup NewPackets(n)
           rest == Cardinality(all) % BURST_SIZE
           waiting == {i \in all : i + rest >= cur_inst + n}
           last == cur_inst + n - rest .. cur_inst + n - 1
<1>1. /\ HasRoom(n) /\ cur_inst' = cur_inst + n /\ tx_buffer' = waiting
      /\ Transmit(all \ waiting)
    BY DEF generate_packets
<1>2. Sent(n)
    <2>1. waiting \in SUBSET (tx_buffer \cup NewPackets(n))
        OBVIOUS
    <2> HIDE DEF waiting
    <2> QED
        BY <1>1, <2>1, Sending
<1>3. TypeOK /\ InOnePlace
    BY DEF IInv
<1>4. rest \in 0 .. BURST_SIZE - 1
    <2>1. IsFiniteSet(all)
        <3>1. IsFiniteSet(tx_buffer) /\ IsFiniteSet(NewPackets(n))
            BY <1>1, <1>3, FinitePlaces, NewPacketsAreNew
        <3> QED
            BY <3>1, FS_Union
    <2>2. Cardinality(all) \in Nat
        BY <2>1, FS_CardinalityType
    <2> QED
        BY <2>2
<1>5. all \subseteq 1 .. cur_inst + n - 1
    BY <1>1, <1>3, NewPacketsAreNew DEF InOnePlace
<1>6. cur_inst \in Int
    BY <1>3 DEF TypeOK
<1>7. IsFiniteSet(last) /\ Cardinality(last) = rest
    <2> HIDE DEF rest
    <2> QED
        BY <1>4, <1>6, FS_Interval
<1>8. waiting \subseteq last
    <2> HIDE DEF rest, all
    <2>1. rest \in Int
        BY <1>4
    <2>2. ASSUME NEW i \in all, i + rest >= cur_inst + n
          PROVE  i \in last
        <3>1. i \in Int /\ i <= cur_inst + n - 1
            BY <1>5, <1>6
        <3> QED
            BY <2>1, <2>2, <1>6, <3>1
    <2> QED
        BY <2>2
<1>9. Cardinality(waiting) <= rest /\ Cardinality(waiting) \in Nat
    <2> HIDE DEF waiting, last, rest
    <2> QED
        BY <1>7, <1>8, FS_Subset, FS_CardinalityType
<1> QED
    <2> HIDE DEF waiting, last, rest
    <2> QED
        BY <1>1, <1>2, <1>4, <1>9

\* generate_packet sends at once, whatever is in the buffer.
LEMMA DirectSending ==
    ASSUME IInv, NEW n \in Nat, generate_packet(n)
    PROVE  /\ Sent(n) /\ HasRoom(n) /\ cur_inst' = cur_inst + n
           /\ Cardinality(tx_buffer') < BURST_SIZE /\ tx_buffer' = tx_buffer
<1>1. /\ HasRoom(n) /\ cur_inst' = cur_inst + n /\ tx_buffer' = tx_buffer
      /\ Transmit(NewPackets(n))
    BY DEF generate_packet
<1>2. TypeOK /\ InOnePlace
    BY DEF IInv
<1>3. (tx_buffer \cup NewPackets(n)) \ tx_buffer = NewPackets(n)
    BY <1>1, <1>2, NewPacketsAreNew DEF InOnePlace
<1>4. Sent(n)
    BY <1>1, <1>3, Sending
<1> QED
    BY <1>1, <1>2, <1>4 DEF TypeOK

-----------------------------------------------------------------------------
(* The statistics.                                                         *)

\* What the counters keep to, whatever the lcore of the timer does meanwhile.
Statistics ==
    /\ rx_counter \in Nat /\ rx_counter <= received
    /\ reported \in Nat /\ reporting \in BOOLEAN
    /\ NeverReportedTwice

LEMMA StatisticsHold == IInv => Statistics /\ received \in Nat
BY DEF IInv, TypeOK, Statistics

\* Answers are counted once, and perhaps forgotten.
LEMMA ReceivingKeepsStatistics ==
    ASSUME IInv, NEW k \in Nat, received' = received + k,
           rx_counter' \in rx_counter .. rx_counter + k,
           UNCHANGED <<reported, reporting>>
    PROVE  Statistics'
BY StatisticsHold DEF Statistics, NeverReportedTwice

LEMMA IdleKeepsStatistics ==
    ASSUME IInv, UNCHANGED <<received, statVars>>
    PROVE  Statistics'
BY StatisticsHold DEF Statistics, NeverReportedTwice, statVars

\* A part of a sum is not above a bound of the sum.
LEMMA PartOfSum ==
    ASSUME NEW a \in Nat, NEW b \in Nat, NEW c \in Int, a + b <= c,
           NEW d \in Int, c <= d
    PROVE  a \in 0 .. d
OBVIOUS

\* Nothing is where a sum of natural numbers is 0.
LEMMA NothingCounted ==
    ASSUME NEW a \in Nat, NEW b \in Nat, NEW c \in Nat, NEW d \in Nat,
           NEW e \in Nat, NEW f \in Nat, a + (b + c + d + e) + f = 0
    PROVE  a = 0 /\ e = 0
OBVIOUS

\* What the statistics say about the types of their variables.
LEMMA StatisticsTypes ==
    ASSUME Statistics', received' \in 0 .. MaxInst
    PROVE  /\ rx_counter' \in 0 .. MaxInst /\ reported' \in 0 .. MaxInst
           /\ reporting' \in BOOLEAN
<1>1. /\ rx_counter' \in Nat /\ rx_counter' <= received'
      /\ reported' \in Nat /\ reporting' \in BOOLEAN
      /\ reported' + (IF reporting' THEN 0 ELSE rx_counter') <= received'
    BY Zenon DEF Statistics, NeverReportedTwice
<1>2. rx_counter' \in Nat /\ rx_counter' <= received' /\ reported' \in Nat
    BY <1>1, Zenon
<1>3. received' \in Int /\ received' <= MaxInst /\ 0 \in Nat /\ MaxInst \in Int
    OBVIOUS
<1>4. reported' \in 0 .. MaxInst
    <2>1. CASE reporting'
        <3>1. reported' + 0 <= received'
            BY <1>1, <2>1, Zenon
        <3> QED
            BY <1>2, <1>3, <3>1, PartOfSum, Zenon
    <2>2. CASE ~reporting'
        <3>1. reported' + rx_counter' <= received'
            BY <1>1, <2>2, Zenon
        <3> QED
            BY <1>2, <1>3, <3>1, PartOfSum, Zenon
    <2> QED
        BY <2>1, <2>2
<1>5. rx_counter' \in 0 .. MaxInst
    BY <1>2
<1> QED
    BY <1>1, <1>4, <1>5, Zenon

-----------------------------------------------------------------------------
(* The steps of the generator.                                             *)

\* A step that takes the answers in S and sends n packets.
SendingStep(S, n) ==
    /\ Sent(n) /\ HasRoom(n) /\ cur_inst' = cur_inst + n
    /\ Cardinality(tx_buffer') < BURST_SIZE
    /\ program = "pktgen4learner" => tx_buffer' = tx_buffer
    /\ replies' = replies \ S /\ received' = received + Cardinality(S)
    /\ started' = TRUE
    /\ program # "gen_packet" => n = IF started THEN Cardinality(S) ELSE window
    /\ UNCHANGED <<program, window, closed, current_iid>>

\* The packets stay in one place each.
LEMMA SendingKeepsPlaces ==
    ASSUME IInv, NEW n \in Nat, NEW S \in SUBSET replies, SendingStep(S, n)
    PROVE  InOnePlace'
<1>1. TypeOK /\ InOnePlace
    BY DEF IInv
<1>2. /\ NewPackets(n) \cap (1 .. cur_inst - 1) = {}
      /\ NewPackets(n) \cup (1 .. cur_inst - 1) = 1 .. cur_inst' - 1
    <2>1. HasRoom(n) /\ cur_inst' = cur_inst + n
        BY DEF SendingStep
    <2>2. /\ NewPackets(n) \cap (1 .. cur_inst - 1) = {}
          /\ NewPackets(n) \cup (1 .. cur_inst - 1) = 1 .. cur_inst + n - 1
        BY <1>1, <2>1, NewPacketsAreNew
    <2>3. cur_inst' - 1 = cur_inst + n - 1
        BY <1>1, <2>1 DEF TypeOK
    <2> QED
        BY <2>2, <2>3, Zenon
<1>3. /\ tx_buffer' \cup wire' \subseteq tx_buffer \cup wire \cup NewPackets(n)
      /\ tx_buffer' \cap wire' = {} /\ replies' \subseteq replies
      /\ closed' = closed
    BY DEF SendingStep, Sent
<1>4. (closed \cup replies) \cap (tx_buffer \cup wire \cup NewPackets(n)) = {}
    BY <1>1, <1>2 DEF InOnePlace
<1>5. tx_buffer' \cup wire' \cup closed' \cup replies' \subseteq 1 .. cur_inst' - 1
    <2>1. tx_buffer \cup wire \cup closed \cup replies \subseteq 1 .. cur_inst - 1
        BY <1>1 DEF InOnePlace
    <2> QED
        BY <1>2, <1>3, <2>1
<1>6. closed' \cap replies' = {}
    BY <1>1, <1>3 DEF InOnePlace
<1> QED
    BY <1>3, <1>4, <1>5, <1>6 DEF InOnePlace

\* The packets stay accounted for.
LEMMA SendingKeepsAccounts ==
    ASSUME IInv, NEW n \in Nat, NEW S \in SUBSET replies, SendingStep(S, n)
    PROVE  Accounted' /\ Cardinality(replies') \in Nat
<1>1. TypeOK /\ Accounted
    BY DEF IInv
<1>2. /\ Cardinality(tx_buffer) \in Nat /\ Cardinality(wire) \in Nat
      /\ Cardinality(closed) \in Nat /\ Cardinality(replies) \in Nat
      /\ IsFiniteSet(replies)
    BY <1>1, FinitePlaces
<1>3. /\ Cardinality(replies') = Cardinality(replies) - Cardinality(S)
      /\ Cardinality(S) \in Nat /\ Cardinality(replies') \in Nat
    <2>1. replies' = replies \ S
        BY DEF SendingStep
    <2> QED
        BY <1>2, <2>1, RestSize
<1>4. /\ Cardinality(tx_buffer') \in Nat /\ Cardinality(wire') \in Nat
      /\ Cardinality(tx_buffer') + Cardinality(wire') + faults'
          = Cardinality(tx_buffer) + Cardinality(wire) + faults + n
      /\ faults' \in Int /\ faults \in Nat
      /\ cur_inst' = cur_inst + n /\ closed' = closed
      /\ received' = received + Cardinality(S) /\ started' = TRUE
      /\ program' = program /\ window' = window
    BY <1>1 DEF SendingStep, Sent, TypeOK
<1>5. /\ cur_inst \in Nat /\ received \in Nat /\ window \in Nat
      /\ faults \in Nat
    BY <1>1 DEF TypeOK
<1>6. (received + InFlight + faults = cur_inst - 1)'
    BY <1>1, <1>2, <1>3, <1>4, <1>5 DEF Accounted, InFlight
<1>7. ASSUME program # "gen_packet"
      PROVE  cur_inst' = 1 + window + received'
    <2>1. n = IF started THEN Cardinality(S) ELSE window
        BY <1>7 DEF SendingStep
    <2>2. CASE started
        BY <1>1, <1>3, <1>4, <1>5, <1>7, <2>1, <2>2 DEF Accounted
    <2>3. CASE ~started
        <3>1. received = 0 /\ Cardinality(replies) = 0 /\ cur_inst = 1
            <4>1. /\ cur_inst = 1
                  /\ received + (Cardinality(tx_buffer) + Cardinality(wire)
                       + Cardinality(closed) + Cardinality(replies)) + faults
                        = 0
                BY <1>1, <2>3 DEF Accounted, InFlight
            <4> QED
                BY <1>2, <1>5, <4>1, NothingCounted
        <3> QED
            BY <1>3, <1>4, <1>5, <2>1, <2>3, <3>1
    <2> QED
        BY <1>1, <2>2, <2>3 DEF TypeOK
<1> QED
    BY <1>3, <1>4, <1>6, <1>7 DEF Accounted

\* The learner's instances stay in order.
LEMMA SendingKeepsOrder ==
    ASSUME IInv, NEW n \in Nat, NEW S \in SUBSET replies, SendingStep(S, n)
    PROVE  InOrder' /\ LagBelowWindow'
<1>1. TypeOK /\ InOrder /\ LagBelowWindow /\ InOnePlace /\ Accounted
    BY DEF IInv
<1>2. /\ program' = program /\ closed' = closed /\ current_iid' = current_iid
      /\ cur_inst' = cur_inst + n /\ window' = window
      /\ program = "pktgen4learner" => tx_buffer' = tx_buffer
    BY DEF SendingStep
<1>3. cur_inst \in Nat /\ current_iid \in Nat /\ current_iid <= cur_inst
    BY <1>1 DEF TypeOK, InOrder
<1>4. ASSUME program = "pktgen4learner", faults' = 0
      PROVE  wire' \cup closed' = current_iid' .. cur_inst' - 1
    <2>1. faults = 0
        BY <1>1, <1>4 DEF SendingStep, Sent, TypeOK
    <2>2. tx_buffer = {} /\ tx_buffer' = {}
        BY <1>1, <1>2, <1>4 DEF InOrder
    <2>3. wire' = wire \cup NewPackets(n)
        BY <1>4, <2>2 DEF SendingStep, Sent
    <2>4. wire \cup closed = current_iid .. cur_inst - 1
        BY <1>1, <1>4, <2>1 DEF InOrder
    <2>5. (current_iid .. cur_inst - 1) \cup NewPackets(n)
             = current_iid .. cur_inst + n - 1
        BY <1>3 DEF NewPackets
    <2>6. wire' \cup closed' = (wire \cup closed) \cup NewPackets(n)
        BY <1>2, <2>3
    <2>7. current_iid' = current_iid /\ cur_inst' - 1 = cur_inst + n - 1
        BY <1>2, <1>3
    <2> QED
        BY <2>4, <2>5, <2>6, <2>7, Zenon
<1>5. InOrder'
    BY <1>1, <1>2, <1>3, <1>4 DEF InOrder
<1>6. LagBelowWindow'
    <2>1. CASE started
        BY <1>1, <1>2, <2>1 DEF LagBelowWindow
    <2>2. CASE ~started
        <3>1. closed = {}
            BY <1>1, <2>2 DEF Accounted, InOnePlace
        <3>2. Cardinality(closed') = 0 /\ window > 0
            BY <1>1, <1>2, <3>1, FS_EmptySet DEF TypeOK
        <3> QED
            BY <1>2, <3>2 DEF LagBelowWindow
    <2> QED
        BY <1>1, <2>1, <2>2 DEF TypeOK
<1> QED
    BY <1>5, <1>6

\* Every step that sends keeps the invariant.
LEMMA SendingKeeps ==
    ASSUME IInv, NEW n \in Nat, NEW S \in SUBSET replies, SendingStep(S, n),
           Statistics'
    PROVE  IInv'
<1>1. InOnePlace' /\ Accounted' /\ InOrder' /\ LagBelowWindow'
      /\ Cardinality(replies') \in Nat
    BY SendingKeepsPlaces, SendingKeepsAccounts, SendingKeepsOrder
<1>2. TypeOK
    BY DEF IInv
<1>3. /\ cur_inst' \in 1 .. MaxInst + 1
      /\ tx_buffer' \subseteq Inst /\ Cardinality(tx_buffer') < BURST_SIZE
      /\ wire' \subseteq Inst /\ replies' \subseteq Inst /\ closed' \subseteq Inst
      /\ program' \in Programs /\ window' \in {BURST_SIZE, outstanding}
      /\ started' \in BOOLEAN /\ faults' \in 0 .. MaxFaults
      /\ current_iid' \in 1 .. MaxInst + 1
    BY <1>2 DEF TypeOK, SendingStep, Sent, HasRoom
<1>4. received' \in 0 .. MaxInst
    <2>1. /\ Cardinality(tx_buffer') \in Nat /\ Cardinality(wire') \in Nat
          /\ Cardinality(closed') \in Nat
        BY <1>2, FinitePlaces DEF SendingStep, Sent
    <2>2. received' \in Nat
        <3>1. Cardinality(S) \in Nat
            BY <1>2, RestSize, FinitePlaces
        <3> QED
            BY <1>2, <3>1 DEF SendingStep, TypeOK
    <2>3. /\ received' + (Cardinality(tx_buffer') + Cardinality(wire')
              + Cardinality(closed') + Cardinality(replies')) + faults'
              = cur_inst' - 1
        BY <1>1 DEF Accounted, InFlight
    <2> QED
        BY <1>1, <1>3, <2>1, <2>2, <2>3
<1>5. TypeOK'
    BY <1>3, <1>4, StatisticsTypes DEF TypeOK
<1> QED
    BY <1>1, <1>5 DEF IInv, Statistics

LEMMA StartKeeps ==
    ASSUME IInv, Start, UNCHANGED <<closed, current_iid>>
    PROVE  IInv'
<1>1. /\ ~started /\ started' = TRUE
      /\ UNCHANGED <<program, window, replies, received, statVars>>
    BY DEF Start
<1>2. TypeOK /\ window \in Nat
    BY DEF IInv, TypeOK
<1>3. /\ Sent(window) /\ HasRoom(window) /\ cur_inst' = cur_inst + window
      /\ Cardinality(tx_buffer') < BURST_SIZE
      /\ program = "pktgen4learner" => tx_buffer' = tx_buffer
    <2>1. CASE program = "pktgen4learner"
        <3>1. generate_packet(window)
            BY <2>1 DEF Start
        <3> QED
            BY <1>2, <3>1, DirectSending
    <2>2. CASE program # "pktgen4learner"
        <3>1. generate_packets(window)
            BY <2>2 DEF Start
        <3> QED
            BY <1>2, <2>2, <3>1, BufferedSending
    <2> QED
        BY <2>1, <2>2
<1>4. SendingStep({}, window)
    <2>1. received + 0 = received
        BY <1>2 DEF TypeOK
    <2> QED
        BY <1>1, <1>3, <2>1, FS_EmptySet DEF SendingStep
<1>5. Statistics'
    BY <1>1, IdleKeepsStatistics
<1> QED
    BY <1>2, <1>4, <1>5, SendingKeeps

LEMMA DrainKeeps ==
    ASSUME IInv, Drain, UNCHANGED <<closed, current_iid>>
    PROVE  IInv'
<1>1. /\ started /\ tx_buffer # {} /\ tx_buffer' = {} /\ Transmit(tx_buffer)
      /\ UNCHANGED <<program, window, started, cur_inst, replies, received, statVars>>
    BY DEF Drain
<1>2. TypeOK /\ InOrder
    BY DEF IInv
<1>3. /\ cur_inst \in 1 .. MaxInst + 1 /\ received \in Nat
      /\ started \in BOOLEAN
    BY <1>2 DEF TypeOK
<1>4. HasRoom(0) /\ NewPackets(0) = {} /\ cur_inst + 0 = cur_inst
    BY <1>3 DEF HasRoom, NewPackets
<1>5. Sent(0)
    <2>1. (tx_buffer \cup NewPackets(0)) \ {} = tx_buffer
        BY <1>4
    <2> QED
        BY <1>1, <1>4, <2>1, Sending
<1>6. SendingStep({}, 0)
    <2>1. program # "pktgen4learner"
        BY <1>1, <1>2 DEF InOrder
    <2>2. Cardinality(tx_buffer') < BURST_SIZE
        BY <1>1, FS_EmptySet
    <2>3. received + 0 = received /\ started' = TRUE
        BY <1>1, <1>3
    <2> QED
        BY <1>1, <1>4, <1>5, <2>1, <2>2, <2>3, FS_EmptySet DEF SendingStep
<1>7. Statistics'
    BY <1>1, IdleKeepsStatistics
<1> QED
    BY <1>6, <1>7, SendingKeeps

LEMMA ReceiveKeeps ==
    ASSUME IInv, Receive, UNCHANGED <<closed, current_iid>>
    PROVE  IInv'
<1>1. PICK S \in SUBSET replies :
         client_receive(S) \/ gen_packet_receive(S) \/ on_receive(S)
    BY DEF Receive
<1> DEFINE k == Cardinality(S)
<1>2. UNCHANGED <<program, window, started, reported, reporting>>
    BY DEF Receive
<1>3. TypeOK /\ rx_counter \in Nat
    BY DEF IInv, TypeOK
<1>4. k \in Nat
    BY <1>3, FinitePlaces, RestSize
<1> HIDE DEF k
<1>5. Burst(S)
    BY <1>1 DEF client_receive, gen_packet_receive, on_receive
<1>6. started /\ replies' = replies \ S /\ received' = received + k
    BY <1>5 DEF Burst, k
<1>7. started' = TRUE
    BY <1>2, <1>3, <1>6 DEF TypeOK
<1>8. rx_counter' \in rx_counter .. rx_counter + k
    <2>1. CASE rx_counter' = rx_counter + k
        BY <1>3, <1>4, <2>1
    <2> QED
        BY <1>1, <2>1 DEF client_receive, gen_packet_receive, on_receive, k
<1>9. Statistics'
    BY <1>2, <1>4, <1>6, <1>8, ReceivingKeepsStatistics
<1>10. CASE client_receive(S)
    <2>1. program = "client" /\ generate_packets(k)
        BY <1>10 DEF client_receive, k
    <2>2. SendingStep(S, k)
        BY <1>2, <1>4, <1>6, <1>7, <2>1, BufferedSending DEF SendingStep, k
    <2> QED
        BY <1>4, <1>9, <2>2, SendingKeeps
<1>11. CASE gen_packet_receive(S)
    <2>1. program = "gen_packet" /\ generate_packets(k * k)
        BY <1>11 DEF gen_packet_receive, k
    <2>2. k * k \in Nat
        BY <1>4
    <2>3. /\ Sent(k * k) /\ HasRoom(k * k) /\ cur_inst' = cur_inst + k * k
          /\ Cardinality(tx_buffer') < BURST_SIZE
        BY <2>1, <2>2, BufferedSending
    <2>4. SendingStep(S, k * k)
        BY <1>2, <1>6, <1>7, <2>1, <2>3 DEF SendingStep, k
    <2> QED
        BY <1>9, <2>2, <2>4, SendingKeeps
<1>12. CASE on_receive(S)
    <2>1. program = "pktgen4learner" /\ generate_packet(k)
        BY <1>12 DEF on_receive, k
    <2>2. SendingStep(S, k)
        BY <1>2, <1>4, <1>6, <1>7, <2>1, DirectSending DEF SendingStep, k
    <2> QED
        BY <1>4, <1>9, <2>2, SendingKeeps
<1> QED
    BY <1>1, <1>10, <1>11, <1>12

\* The lcore of the timer touches the statistics only.
LEMMA ReportKeeps ==
    ASSUME IInv, report_read \/ report_reset, UNCHANGED <<closed, current_iid>>
    PROVE  IInv'
<1>1. UNCHANGED others
    BY DEF report_read, report_reset, others
<1>2. TypeOK /\ received \in 0 .. MaxInst
    BY DEF IInv, TypeOK
<1>3. Statistics'
    <2>1. /\ rx_counter \in Nat /\ rx_counter <= received /\ received \in Nat
          /\ reported \in Nat /\ reporting \in BOOLEAN
          /\ reported + (IF reporting THEN 0 ELSE rx_counter) <= received
        BY StatisticsHold DEF Statistics, NeverReportedTwice
    <2>2. received' = received
        BY <1>1 DEF others
    <2>3. CASE report_read
        <3>1. /\ ~reporting /\ reporting' = TRUE /\ rx_counter' = rx_counter
              /\ reported' = reported + rx_counter
            BY <2>3 DEF report_read
        <3>2. reported' \in Nat /\ reported' + 0 <= received'
            BY <2>1, <2>2, <3>1
        <3> QED
            BY <2>1, <2>2, <3>1, <3>2 DEF Statistics, NeverReportedTwice
    <2>4. CASE report_reset
        <3>1. /\ reporting /\ reporting' = FALSE /\ rx_counter' = 0
              /\ reported' = reported
            BY <2>4 DEF report_reset
        <3>2. rx_counter' <= received' /\ reported' + rx_counter' <= received'
            BY <2>1, <2>2, <3>1
        <3> QED
            BY <2>1, <2>2, <3>1, <3>2 DEF Statistics, NeverReportedTwice
    <2> QED
        BY <2>3, <2>4
<1>4. /\ InOnePlace' /\ Accounted' /\ InOrder' /\ LagBelowWindow'
    BY <1>1 DEF IInv, InOnePlace, Accounted, InFlight, InOrder, LagBelowWindow,
                others
<1>5. TypeOK'
    <2>1. received' \in 0 .. MaxInst
        BY <1>1, <1>2 DEF others
    <2> QED
        BY <1>1, <1>2, <1>3, <2>1, StatisticsTypes DEF TypeOK, others
<1> QED
    BY <1>3, <1>4, <1>5 DEF IInv, Statistics

-----------------------------------------------------------------------------
(* The steps of the tested program.                                        *)

\* A step that takes packet i from the wire, keeps it or not, and answers with
\* one packet of those it has, or with none.
AnsweringStep(i, S) ==
    /\ i \in wire /\ wire' = wire \ {i}
    /\ S \subseteq closed \cup {i} /\ closed' = (closed \cup {i}) \ S
    /\ S = {} \/ \E x : S = {x}
    /\ Answer(S)
    /\ UNCHANGED <<program, window, started, cur_inst, tx_buffer, received, statVars>>

LEMMA AnsweringKeepsPlaces ==
    ASSUME IInv, NEW i, NEW S, AnsweringStep(i, S)
    PROVE  InOnePlace'
<1>1. InOnePlace
    BY DEF IInv
<1>2. /\ i \in wire /\ wire' = wire \ {i} /\ S \subseteq closed \cup {i}
      /\ closed' = (closed \cup {i}) \ S
      /\ replies' = replies \cup S \/ replies' = replies
      /\ UNCHANGED <<cur_inst, tx_buffer>>
    BY DEF AnsweringStep, Answer
<1> QED
    BY <1>1, <1>2 DEF InOnePlace

LEMMA AnsweringKeepsAccounts ==
    ASSUME IInv, NEW i, NEW S, AnsweringStep(i, S)
    PROVE  Accounted' /\ faults' \in faults .. MaxFaults /\ replies' \subseteq Inst
<1>1. TypeOK /\ InOnePlace /\ Accounted
    BY DEF IInv
<1>2. /\ IsFiniteSet(wire) /\ IsFiniteSet(closed) /\ IsFiniteSet(replies)
      /\ Cardinality(tx_buffer) \in Nat /\ Cardinality(wire) \in Nat
      /\ Cardinality(closed) \in Nat /\ Cardinality(replies) \in Nat
    BY <1>1, FinitePlaces
<1>3. /\ i \in wire /\ wire' = wire \ {i} /\ S \subseteq closed \cup {i}
      /\ closed' = (closed \cup {i}) \ S
      /\ UNCHANGED <<program, window, started, cur_inst, tx_buffer, received>>
    BY DEF AnsweringStep
<1>4. i \notin closed /\ replies \cap S = {} /\ S \subseteq Inst
    BY <1>1, <1>3 DEF InOnePlace, TypeOK
<1>5. Cardinality(wire') = Cardinality(wire) - 1
    BY <1>2, <1>3, FS_RemoveElement
<1>6. /\ IsFiniteSet(closed \cup {i})
      /\ Cardinality(closed \cup {i}) = Cardinality(closed) + 1
    BY <1>2, <1>4, FS_AddElement
<1>7. /\ Cardinality(closed') = Cardinality(closed) + 1 - Cardinality(S)
      /\ IsFiniteSet(S) /\ Cardinality(S) \in Nat
    <2>1. /\ Cardinality((closed \cup {i}) \ S)
               = Cardinality(closed \cup {i}) - Cardinality(S)
          /\ IsFiniteSet(S) /\ Cardinality(S) \in Nat
        BY <1>3, <1>6, RestSize
    <2> QED
        BY <1>2, <1>3, <1>6, <2>1
<1>8. faults \in 0 .. MaxFaults /\ cur_inst \in Nat /\ received \in Nat
    BY <1>1 DEF TypeOK
<1>9. /\ Cardinality(replies') + faults' = Cardinality(replies) + Cardinality(S) + faults
      /\ Cardinality(replies') \in Nat /\ faults' \in faults .. MaxFaults
      /\ replies' \subseteq Inst
    <2>1. CASE replies' = replies \cup S /\ UNCHANGED faults
        <3>1. Cardinality(replies \cup S) = Cardinality(replies) + Cardinality(S)
            BY <1>2, <1>4, <1>7, DisjointSizes
        <3>2. replies \subseteq Inst
            BY <1>1 DEF TypeOK
        <3> QED
            BY <1>2, <1>4, <1>7, <1>8, <2>1, <3>1, <3>2
    <2>2. CASE /\ S # {} /\ faults < MaxFaults
               /\ faults' = faults + 1 /\ UNCHANGED replies
        <3>1. Cardinality(S) = 1
            BY <2>2, FS_Singleton DEF AnsweringStep
        <3>2. replies \subseteq Inst
            BY <1>1 DEF TypeOK
        <3> QED
            BY <1>2, <1>8, <2>2, <3>1, <3>2
    <2> QED
        BY <2>1, <2>2 DEF AnsweringStep, Answer
<1>10. (received + InFlight + faults = cur_inst - 1)'
    <2>1. received + (Cardinality(tx_buffer) + Cardinality(wire)
             + Cardinality(closed) + Cardinality(replies)) + faults = cur_inst - 1
        BY <1>1 DEF Accounted, InFlight
    <2>2. received' = received /\ cur_inst' = cur_inst /\ tx_buffer' = tx_buffer
        BY <1>3
    <2>3. received' + (Cardinality(tx_buffer') + Cardinality(wire')
             + Cardinality(closed') + Cardinality(replies')) + faults' = cur_inst' - 1
        BY <1>2, <1>5, <1>7, <1>8, <1>9, <2>1, <2>2
    <2> QED
        BY <2>3 DEF InFlight
<1> QED
    BY <1>1, <1>3, <1>9, <1>10 DEF Accounted

\* Such a step keeps the invariant, if the learner keeps its order.
LEMMA AnsweringKeeps ==
    ASSUME IInv, NEW i, NEW S, AnsweringStep(i, S), InOrder', LagBelowWindow',
           current_iid' \in 1 .. MaxInst + 1
    PROVE  IInv'
<1>1. InOnePlace' /\ Accounted' /\ faults' \in faults .. MaxFaults
      /\ replies' \subseteq Inst
    BY AnsweringKeepsPlaces, AnsweringKeepsAccounts
<1>2. TypeOK
    BY DEF IInv
<1>3. UNCHANGED <<program, window, started, cur_inst, tx_buffer, received, statVars>>
    BY DEF AnsweringStep
<1>4. Statistics'
    BY <1>3, IdleKeepsStatistics
<1>5. /\ wire' \subseteq Inst /\ closed' \subseteq Inst
    BY <1>2 DEF AnsweringStep, TypeOK
<1>6. faults' \in 0 .. MaxFaults
    BY <1>1, <1>2 DEF TypeOK
<1>7. TypeOK'
    BY <1>1, <1>2, <1>3, <1>5, <1>6 DEF TypeOK, statVars
<1> QED
    BY <1>1, <1>4, <1>7 DEF IInv, Statistics

LEMMA EchoKeeps ==
    ASSUME IInv, NEW i \in Inst, Echo(i)
    PROVE  IInv'
<1>1. /\ program # "pktgen4learner" /\ i \in wire /\ wire' = wire \ {i}
      /\ Answer({i})
      /\ UNCHANGED <<program, window, started, cur_inst, tx_buffer, received,
                     statVars, closed, current_iid>>
    BY DEF Echo
<1>2. TypeOK /\ InOnePlace /\ InOrder /\ LagBelowWindow
    BY DEF IInv
<1>3. AnsweringStep(i, {i})
    <2>1. closed' = (closed \cup {i}) \ {i} /\ {i} \subseteq closed \cup {i}
        BY <1>1, <1>2 DEF InOnePlace
    <2> QED
        BY <1>1, <2>1 DEF AnsweringStep
<1>4. InOrder' /\ LagBelowWindow' /\ current_iid' \in 1 .. MaxInst + 1
    BY <1>1, <1>2 DEF InOrder, LagBelowWindow, TypeOK
<1> QED
    BY <1>3, <1>4, AnsweringKeeps

LEMMA LearnKeeps ==
    ASSUME IInv, NEW i \in Inst, Learn(i)
    PROVE  IInv'
<1> DEFINE S == deliver(i, closed \cup {i})
<1>1. /\ program = "pktgen4learner" /\ i \in wire /\ wire' = wire \ {i}
      /\ closed' = (closed \cup {i}) \ S
      /\ current_iid' = current_iid + Cardinality(S)
      /\ Answer(S)
      /\ UNCHANGED <<program, window, started, cur_inst, tx_buffer, received,
                     statVars>>
    BY DEF Learn
<1>2. TypeOK /\ InOnePlace /\ InOrder /\ LagBelowWindow /\ Accounted
    BY DEF IInv
<1>3. /\ S \subseteq closed \cup {i}
      /\ S = {} \/ S = {current_iid}
      /\ S = {} <=> current_iid \notin closed \cup {i}
    BY DEF deliver
<1> HIDE DEF S
<1>4. AnsweringStep(i, S)
    BY <1>1, <1>3 DEF AnsweringStep
<1>5. Accounted' /\ faults' \in faults .. MaxFaults
    BY <1>4, AnsweringKeepsAccounts
<1>6. /\ current_iid \in 1 .. MaxInst + 1 /\ cur_inst \in 1 .. MaxInst + 1
      /\ current_iid <= cur_inst /\ faults \in Nat /\ received \in Nat
      /\ window \in Nat /\ started \in BOOLEAN
    BY <1>2 DEF TypeOK, InOrder
<1>7. closed \cup {i} \subseteq 1 .. cur_inst - 1
    BY <1>1, <1>2 DEF InOnePlace
<1>8. /\ S = {} => current_iid' = current_iid
      /\ S # {} => current_iid' = current_iid + 1 /\ current_iid <= cur_inst - 1
    <2>1. CASE S = {}
        BY <1>1, <1>6, <2>1, FS_EmptySet
    <2>2. CASE S # {}
        <3>1. S = {current_iid} /\ Cardinality(S) = 1
            BY <1>3, <2>2, FS_Singleton
        <3> QED
            BY <1>1, <1>3, <1>6, <1>7, <3>1
    <2> QED
        BY <2>1, <2>2
<1>9. current_iid' \in 1 .. MaxInst + 1 /\ current_iid' <= cur_inst'
    BY <1>1, <1>6, <1>8
<1>10. ASSUME faults' = 0
       PROVE  wire' \cup closed' = current_iid' .. cur_inst' - 1
    <2>1. faults = 0
        BY <1>5, <1>6, <1>10
    <2>2. wire \cup closed = current_iid .. cur_inst - 1
        BY <1>1, <1>2, <2>1 DEF InOrder
    <2>3. wire' \cup closed' = (wire \cup closed) \ S
        BY <1>1, <1>2, <1>3 DEF InOnePlace
    <2>4. (current_iid .. cur_inst - 1) \ S = current_iid' .. cur_inst - 1
        BY <1>3, <1>6, <1>8
    <2> QED
        BY <1>1, <2>2, <2>3, <2>4
<1>11. InOrder'
    BY <1>1, <1>2, <1>9, <1>10 DEF InOrder
<1>12. ASSUME started'
       PROVE  Cardinality(closed') < window'
    <2>1. started /\ window' = window
        BY <1>1, <1>12
    <2>2. /\ IsFiniteSet(closed) /\ IsFiniteSet(wire) /\ Cardinality(wire) \in Nat
          /\ Cardinality(tx_buffer) \in Nat /\ Cardinality(closed) \in Nat
        BY <1>2, FinitePlaces
    <2>3. /\ IsFiniteSet(wire') /\ Cardinality(wire') \in Nat
          /\ IsFiniteSet(closed') /\ Cardinality(closed') \in Nat
          /\ Cardinality(closed \cup {i}) = Cardinality(closed) + 1
        <3>1. IsFiniteSet(wire') /\ IsFiniteSet(closed \cup {i})
            BY <1>1, <2>2, FS_RemoveElement, FS_AddElement
        <3>2. IsFiniteSet(closed')
            BY <1>1, <3>1, FS_Difference
        <3>3. i \notin closed
            BY <1>1, <1>2 DEF InOnePlace
        <3> QED
            BY <2>2, <3>1, <3>2, <3>3, FS_CardinalityType, FS_AddElement
    <2>4. CASE S # {}
        <3>1. S = {current_iid} /\ current_iid \in closed \cup {i}
            BY <1>3, <2>4
        <3>2. Cardinality(closed') = Cardinality(closed \cup {i}) - 1
            <4>1. IsFiniteSet(closed \cup {i})
                BY <2>2, FS_AddElement
            <4> QED
                BY <1>1, <3>1, <4>1, FS_RemoveElement
        <3> QED
            BY <1>2, <2>1, <2>2, <2>3, <3>2 DEF LagBelowWindow
    <2>5. CASE S = {}
        <3>1. replies' = replies /\ faults' = faults
            BY <1>1, <2>5 DEF Answer
        <3>2. Cardinality(wire') + faults' >= 1
            <4>1. CASE faults = 0
                <5>1. wire \cup closed = current_iid .. cur_inst - 1
                    BY <1>1, <1>2, <4>1 DEF InOrder
                <5>2. i >= current_iid /\ i <= cur_inst - 1 /\ i \in Int
                    BY <1>1, <1>6, <5>1
                <5>3. current_iid \in wire \cup closed
                    BY <1>6, <5>1, <5>2
                <5>4. current_iid \in wire'
                    BY <1>1, <1>3, <2>5, <5>3
                <5>5. Cardinality(wire') # 0
                    BY <2>3, <5>4, FS_EmptySet
                <5> QED
                    BY <1>6, <2>3, <3>1, <4>1, <5>5
            <4>2. CASE faults # 0
                BY <1>6, <2>3, <3>1, <4>2
            <4> QED
                BY <4>1, <4>2
        <3>3. received' + (Cardinality(tx_buffer') + Cardinality(wire')
                 + Cardinality(closed') + Cardinality(replies')) + faults'
                 = cur_inst' - 1
            BY <1>5 DEF Accounted, InFlight
        <3>4. cur_inst' = 1 + window' + received'
            BY <1>1, <1>5, <1>12 DEF Accounted
        <3>5. /\ tx_buffer' = tx_buffer /\ received' = received
              /\ Cardinality(replies') \in Nat
            BY <1>1, <1>2, <3>1, FinitePlaces
        <3> QED
            BY <1>6, <2>1, <2>2, <2>3, <3>1, <3>2, <3>3, <3>4, <3>5
    <2> QED
        BY <2>4, <2>5
<1>13. LagBelowWindow'
    BY <1>12 DEF LagBelowWindow
<1> QED
    BY <1>4, <1>9, <1>11, <1>13, AnsweringKeeps

-----------------------------------------------------------------------------
(* The theorems.                                                           *)

LEMMA InitHolds == Init => IInv
<1> SUFFICES ASSUME Init PROVE IInv
    OBVIOUS
<1>1. /\ Fresh /\ closed = {} /\ current_iid = 1
      /\ program \in Programs /\ window \in {BURST_SIZE, outstanding}
    BY DEF Init, client_main, gen_packet_main, pktgen4learner_main, Programs
<1>2. /\ started = FALSE /\ cur_inst = 1 /\ tx_buffer = {} /\ wire = {}
      /\ replies = {} /\ received = 0 /\ rx_counter = 0 /\ reported = 0
      /\ reporting = FALSE /\ faults = 0
    BY <1>1 DEF Fresh
<1>3. Cardinality({}) = 0
    BY FS_EmptySet
<1>4. TypeOK
    <2>1. Cardinality(tx_buffer) < BURST_SIZE
        BY <1>2, <1>3
    <2>2. started \in BOOLEAN /\ reporting \in BOOLEAN
        BY <1>2
    <2>3. /\ cur_inst \in 1 .. MaxInst + 1 /\ current_iid \in 1 .. MaxInst + 1
          /\ received \in 0 .. MaxInst /\ rx_counter \in 0 .. MaxInst
          /\ reported \in 0 .. MaxInst /\ faults \in 0 .. MaxFaults
        BY <1>1, <1>2
    <2>4. /\ tx_buffer \subseteq Inst /\ wire \subseteq Inst
          /\ replies \subseteq Inst /\ closed \subseteq Inst
        BY <1>1, <1>2
    <2> QED
        BY <1>1, <2>1, <2>2, <2>3, <2>4, Zenon DEF TypeOK
<1>5. Accounted
    BY <1>1, <1>2, <1>3 DEF Accounted, InFlight
<1>6. InOnePlace /\ InOrder
    BY <1>1, <1>2 DEF InOnePlace, InOrder
<1>7. LagBelowWindow /\ rx_counter <= received /\ NeverReportedTwice
    BY <1>2 DEF LagBelowWindow, NeverReportedTwice
<1> QED
    BY <1>4, <1>5, <1>6, <1>7 DEF IInv

LEMMA NextStep == IInv /\ [Next]_vars => IInv'
<1> SUFFICES ASSUME IInv, [Next]_vars PROVE IInv'
    OBVIOUS
<1>1. CASE Generator
    <2>1. UNCHANGED <<closed, current_iid>>
        BY <1>1 DEF Generator
    <2>2. CASE Start
        BY <2>1, <2>2, StartKeeps
    <2>3. CASE Drain
        BY <2>1, <2>3, DrainKeeps
    <2>4. CASE Receive
        BY <2>1, <2>4, ReceiveKeeps
    <2>5. CASE report_read \/ report_reset
        BY <2>1, <2>5, ReportKeeps
    <2> QED
        BY <1>1, <2>2, <2>3, <2>4, <2>5 DEF Generator
<1>2. ASSUME NEW i \in Inst, Echo(i) PROVE IInv'
    BY <1>2, EchoKeeps
<1>3. ASSUME NEW i \in Inst, Learn(i) PROVE IInv'
    BY <1>3, LearnKeeps
<1>4. CASE UNCHANGED vars
    BY <1>4 DEF vars, statVars, IInv, TypeOK, InOnePlace, Accounted, InFlight,
                InOrder, LagBelowWindow, NeverReportedTwice
<1> QED
    BY <1>1, <1>2, <1>3, <1>4 DEF Next

\* The inductive invariant holds in every behaviour: a packet is in one place, and
\* received, in flight and lost packets add up to those generate_packets and
\* generate_packet numbered.
THEOREM Invariance == Spec => []IInv
BY InitHolds, NextStep, PTL DEF Spec

\* Every variable keeps its type; the transmit buffer of client and gen_packet
\* never reaches BURST_SIZE between two calls.
THEOREM TypeCorrect == Spec => []TypeOK
<1>1. IInv => TypeOK
    BY DEF IInv
<1> QED
    BY <1>1, Invariance, PTL

\* "outstanding" is kept: client and pktgen4learner have as many packets on their
\* way as in their first burst, less the lost ones, for every burst and window.
THEOREM Conservation == Spec => []WindowConserved
<1>1. IInv => WindowConserved
    <2> SUFFICES ASSUME IInv, started, program # "gen_packet"
                 PROVE  InFlight + faults = window
        BY DEF WindowConserved
    <2>1. TypeOK /\ Accounted
        BY DEF IInv
    <2>2. /\ received + (Cardinality(tx_buffer) + Cardinality(wire)
                 + Cardinality(closed) + Cardinality(replies)) + faults
                 = cur_inst - 1
          /\ cur_inst = 1 + window + received
        BY <2>1 DEF Accounted, InFlight
    <2>3. /\ Cardinality(tx_buffer) \in Nat /\ Cardinality(wire) \in Nat
          /\ Cardinality(closed) \in Nat /\ Cardinality(replies) \in Nat
        BY <2>1, FinitePlaces
    <2>4. received \in Nat /\ faults \in Nat /\ window \in Nat /\ cur_inst \in Nat
        BY <2>1 DEF TypeOK
    <2> QED
        BY <2>2, <2>3, <2>4 DEF InFlight
<1> QED
    BY <1>1, Invariance, PTL

\* The learner under test, which delivers one instance for each packet at most,
\* holds back fewer instances than pktgen4learner has outstanding, whatever the
\* network does to the order of the packets.
THEOREM LagBounded == Spec => []LagBelowWindow
<1>1. IInv => LagBelowWindow
    BY DEF IInv
<1> QED
    BY <1>1, Invariance, PTL

\* report_stat, which reads a counter and resets it in two steps on an lcore of
\* its own, never reports an answer twice.
THEOREM ReportedOnce == Spec => []NeverReportedTwice
<1>1. IInv => NeverReportedTwice
    BY DEF IInv
<1> QED
    BY <1>1, Invariance, PTL
=============================================================================
