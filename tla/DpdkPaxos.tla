------------------------------ MODULE DpdkPaxos ------------------------------
(***************************************************************************)
(* The programs of src/dpdk together: a coordinator and, if WithBackup, a  *)
(* backup behind the switch's fast-failover group, acceptors, learners.    *)
(***************************************************************************)
EXTENDS DpdkCoordinator, DpdkAcceptor, DpdkLearner, DpdkBackup

CONSTANT WithBackup     \* a backup is deployed

vars == <<netVars, coordVars, records, learnerVars, backupVars>>

Init ==
    /\ NetInit
    /\ CoordInit
    /\ AcceptorsInit
    /\ LearnersInit
    /\ BackupInit

Failover ==
    /\ WithBackup
    /\ SwitchOver
    /\ UNCHANGED <<coordVars, records, learnerVars, backupVars>>

Coordinate ==
    /\ \E r \in requests : Number(r)
    /\ UNCHANGED <<records, learnerVars, backupVars>>

Restart ==
    /\ RestartCoordinator
    /\ UNCHANGED <<records, learnerVars, backupVars>>

Vote ==
    /\ \E a \in AcceptorId : AcceptorStep(a)
    /\ UNCHANGED <<coordVars, learnerVars, backupVars>>

Deliver ==
    /\ \E l \in Learner : Learn(l)
    /\ UNCHANGED <<coordVars, records, backupVars>>

Backup ==
    /\ WithBackup
    /\ \/ \E r \in requests : rx_accept(r)
       \/ \E m \in msgs : rx_promise(m)
       \/ \E m \in msgs : rx_accepted(m)
    /\ UNCHANGED <<coordVars, records, learnerVars>>

Next == Failover \/ Coordinate \/ Restart \/ Vote \/ Deliver \/ Backup

Spec == Init /\ [][Next]_vars

-----------------------------------------------------------------------------
(* The type invariant.                                                     *)

\* Every variable keeps its type; the vote tables hold no vote of an instance
\* a learner has delivered, and the buffer of values does not overflow.
TypeOK ==
    /\ requests \subseteq Request
    /\ msgs \subseteq PaxosHdr
    /\ port \in {"primary", "backup"}
    /\ cur_inst \in 1 .. MaxInst + 1
    /\ restarts \in 0 .. MaxRestarts
    /\ records \in [AcceptorId -> [Iid -> Record]]
    /\ current_iid \in [Learner -> 1 .. MaxInst + 1]
    /\ instances \in [Learner -> [Iid -> Instance]]
    /\ delivered \in [Learner -> Seq(Value)]
    /\ running \in [Learner -> BOOLEAN]
    /\ answers \subseteq Request
    /\ primary_alive \in BOOLEAN
    /\ latest_accepted_iid \in 0 .. MaxInst
    /\ latest_prepare_iid \in 0 .. MaxInst + 2
    /\ primary_alive => latest_prepare_iid <= MaxInst
    /\ values \in Seq(Request) /\ Len(values) <= NB_VALUE_BUFFER
    /\ votes \in [Iid -> Instance]
    /\ gaps \in [Iid -> Gap]

-----------------------------------------------------------------------------
(* Safety.                                                                 *)

VotesFor(i, b) ==
    {m \in msgs : m.msgtype = "ACCEPTED" /\ m.inst = i /\ m.rnd = b}
Majority(S) == 2 * Cardinality(S) > NumAcceptors
Ballots == {m.rnd : m \in msgs}

\* Whatever the primary, the backup and the switch do, failovers, failbacks and
\* restarts included, a client's request is proposed in one instance only: no
\* learner executes it twice.
RequestPlacedOnce ==
    \A m, n \in msgs :
        (m.msgtype = "ACCEPT" /\ n.msgtype = "ACCEPT"
            /\ m.value = n.value /\ m.value \in Request)
        => m.inst = n.inst

\* A majority voted in one ballot of instance i, and one of it for v.
Backed(i, v) ==
    \E b \in Ballots :
        /\ Majority({m.acptid : m \in VotesFor(i, b)})
        /\ \E m \in VotesFor(i, b) : m.value = v

\* What a learner delivers, a majority of the acceptors voted in one ballot,
\* and one of them for that value; the deletion of closed instances by late
\* votes and the mixture of ballots in one table do not break this.
DeliveryHasQuorum ==
    \A l \in Learner : \A i \in 1 .. Len(delivered[l]) :
        Backed(i, delivered[l][i])

\* A promise binds the acceptor that sent it: it votes in no lower ballot
\* except the one the promise reports, and it did vote what the promise says.
PromiseBinds ==
    \A p \in msgs : p.msgtype = "PROMISE" =>
        /\ \A m \in msgs :
            (m.msgtype = "ACCEPTED" /\ m.acptid = p.acptid /\ m.inst = p.inst)
            => m.rnd <= p.vrnd \/ m.rnd >= p.rnd
        /\ p.vrnd > 0 =>
            \E m \in VotesFor(p.inst, p.vrnd) :
                m.acptid = p.acptid /\ m.value = p.value

\* A value is chosen by votes of a majority for it in one ballot.
Chosen(i, v) ==
    \E b \in Ballots :
        Majority({m.acptid : m \in {n \in VotesFor(i, b) : n.value = v}})

\* "Extend learner to run phase 1 and phase 2 in recovery": running the phases
\* for an instance leaves what was chosen in it alone.
RecoveryKeepsDecision ==
    \A i \in Iid : \A v, w \in Value : Chosen(i, v) /\ Chosen(i, w) => v = w

-----------------------------------------------------------------------------
(* The inductive invariant.                                                *)

Proposed(i, v) ==
    \E m \in msgs : m.msgtype = "ACCEPT" /\ m.inst = i /\ m.value = v
Voted(a, i, b, v) ==
    \E m \in VotesFor(i, b) : m.acptid = a /\ m.value = v

\* A request waits at the switch, or in one place of the backup's buffer, or it
\* was proposed.
RequestsHeldOnce ==
    /\ \A j, k \in DOMAIN values : values[j] = values[k] => j = k
    /\ \A k \in DOMAIN values : values[k] \notin requests
    /\ \A m \in msgs : m.msgtype = "ACCEPT" =>
        /\ m.value \notin requests
        /\ \A k \in DOMAIN values : m.value # values[k]

\* A request that a message, a record or a gap of an instance holds was proposed
\* in that instance; proposals and votes have a ballot.
RequestsTraceable ==
    /\ \A m \in msgs :
        /\ m.value \in Request => Proposed(m.inst, m.value)
        /\ m.msgtype \in {"ACCEPT", "ACCEPTED"} => m.rnd > 0
    /\ \A i \in Iid :
        /\ gaps[i].value \in Request => Proposed(i, gaps[i].value)
        /\ \A a \in AcceptorId :
            records[a][i].value \in Request => Proposed(i, records[a][i].value)

\* An acceptor's record knows its highest promise and its last vote.
RecordsRemember ==
    /\ \A m \in msgs :
        /\ m.msgtype = "PROMISE" => m.rnd <= records[m.acptid][m.inst].ballot
        /\ m.msgtype = "ACCEPTED" => m.rnd <= records[m.acptid][m.inst].value_ballot
    /\ \A a \in AcceptorId, i \in Iid :
        LET rec == records[a][i]
        IN /\ rec.value_ballot <= rec.ballot
           /\ rec.value_ballot > 0 => Voted(a, i, rec.value_ballot, rec.value)

\* A learner's tables hold votes that were cast and close instances that a
\* majority backs; what it delivered ends where it delivers next.
LearnersKnow ==
    \A l \in Learner :
        /\ Len(delivered[l]) = current_iid[l] - 1
        /\ \A i \in Iid :
            LET inst == instances[l][i]
            IN /\ Closed(inst) => Backed(i, inst.final_value)
               /\ \A a \in AcceptorId : inst.acks[a].ballot > 0 =>
                    /\ inst.last_update_ballot > 0
                    /\ Voted(a, i, inst.acks[a].ballot, inst.acks[a].value)

\* The programs' tables, the switch and the network agree on where a request is,
\* who voted for what and what was promised, through failovers, restarts, late
\* and repeated packets.
IInv ==
    /\ TypeOK
    /\ RequestsHeldOnce
    /\ RequestsTraceable
    /\ RequestPlacedOnce
    /\ RecordsRemember
    /\ PromiseBinds
    /\ LearnersKnow
    /\ DeliveryHasQuorum

-----------------------------------------------------------------------------
(* Refinement: without a backup and without restarts the system puts the   *)
(* requests into one order, and learners deliver prefixes of it.           *)

Numbered(i) ==
    CHOOSE v \in Value : \E m \in msgs :
        m.msgtype = "ACCEPT" /\ m.inst = i /\ m.value = v

Order == INSTANCE TotalOrder WITH
    Replica <- Learner,
    order <- [i \in 1 .. cur_inst - 1 |-> Numbered(i)],
    executed <- delivered

\* Learners deliver the requests in the order in which the coordinator numbered
\* them, one at a time, without gap or repetition.
ImplementsTotalOrder == Order!Spec
=============================================================================
