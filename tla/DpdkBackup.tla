----------------------------- MODULE DpdkBackup -----------------------------
(***************************************************************************)
(* dpdk/backup/main.c: the backup coordinator.  It listens to the votes    *)
(* and takes over when the switch sends it a client's packet.              *)
(***************************************************************************)
EXTENDS LibPaxos

CONSTANT NB_VALUE_BUFFER    \* the clients' values it can hold

ASSUME BufferAssumption == NB_VALUE_BUFFER \in Nat

VARIABLES
    primary_alive,          \* no client packet came here yet
    latest_accepted_iid,    \* the highest instance known to be closed
    latest_prepare_iid,     \* where the next prepare continues
    values,                 \* the buffered client values; vcount is its length
    votes,                  \* votes[i]: its libpaxos learner's instance i
    gaps                    \* gaps[i]: its libpaxos learner's gap i

backupVars == <<primary_alive, latest_accepted_iid, latest_prepare_iid,
                values, votes, gaps>>

BackupInit ==
    /\ primary_alive = TRUE
    /\ latest_accepted_iid = 0
    /\ latest_prepare_iid = 0
    /\ values = <<>>
    /\ votes = [i \in Iid |-> NoInstance]
    /\ gaps = [i \in Iid |-> NoGap]

\* learner_prepare and add_paxos_message.
SendPrepare(i) ==
    LET gap == learner_prepare(gaps[i])
    IN /\ i \in Iid
       /\ gaps' = [gaps EXCEPT ![i] = gap]
       /\ Send(Prepare(i, gap.ballot))

\* start_recovery: the loop prepares one instance and leaves i at 2.
start_recovery ==
    /\ SendPrepare(latest_accepted_iid + 1)
    /\ latest_prepare_iid' = latest_prepare_iid + 2

\* Mutant: no limit, and the value is stored twice.
BufferedTwice(r) == values \o <<r, r>>
Buffered(r) == IF Len(values) < NB_VALUE_BUFFER THEN Append(values, r) ELSE values

\* PAXOS_ACCEPT, a client's packet: it is buffered if there is room; the first
\* one starts recovery.
rx_accept(r) ==
    /\ port = "backup"
    /\ r \in requests
    /\ requests' = requests \ {r}
    /\ values' = Buffered(r)
    /\ IF primary_alive
       THEN start_recovery
       ELSE UNCHANGED <<latest_prepare_iid, gaps, msgs>>
    /\ primary_alive' = FALSE
    /\ UNCHANGED <<port, latest_accepted_iid, votes>>

\* Mutant: the proposed value stays in the buffer.
SendAcceptKeeping(i, gap) ==
    /\ Send(Accept(i, gap.ballot, IF gap.value = Empty /\ values # <<>>
                                  THEN values[Len(values)] ELSE gap.value))
    /\ UNCHANGED values

\* A majority promised.  If no value was reported, the value buffered last is
\* proposed; its memory is freed before it is copied into the packet.
SendAccept(i, gap) ==
    IF gap.value = Empty /\ values # <<>>
    THEN /\ \E v \in {values[Len(values)], Garbage} : Send(Accept(i, gap.ballot, v))
         /\ values' = SubSeq(values, 1, Len(values) - 1)
    ELSE /\ Send(Accept(i, gap.ballot, gap.value))
         /\ UNCHANGED values

\* PAXOS_PROMISE.
rx_promise(m) ==
    LET gap == learner_receive_promise(gaps[m.inst], m.acptid, m.vrnd, m.value)
    IN /\ m.msgtype = "PROMISE"
       /\ PromiseCounts(gaps[m.inst], m.acptid)
       /\ gaps' = [gaps EXCEPT ![m.inst] = gap]
       /\ IF MajorityPromised(gap)
          THEN SendAccept(m.inst, gap)
          ELSE UNCHANGED <<values, msgs>>
       /\ UNCHANGED <<requests, port, primary_alive, latest_accepted_iid,
                      latest_prepare_iid, votes>>

\* PAXOS_ACCEPTED: the vote is counted; the one that closes the instance makes
\* the backup prepare the instance after the last it prepared.
rx_accepted(m) ==
    LET vote == learner_receive_accepted(votes[m.inst], m.acptid, m.rnd, m.value)
        top == IF latest_prepare_iid < m.inst THEN m.inst ELSE latest_prepare_iid
    IN /\ m.msgtype = "ACCEPTED"
       /\ votes' = [votes EXCEPT ![m.inst] = vote]
       /\ IF Closed(vote)
          THEN /\ latest_accepted_iid' = IF latest_accepted_iid < m.inst
                                         THEN m.inst ELSE latest_accepted_iid
               /\ SendPrepare(top + 1)
               /\ latest_prepare_iid' = top + 1
          ELSE UNCHANGED <<latest_accepted_iid, latest_prepare_iid, gaps, msgs>>
       /\ UNCHANGED <<requests, port, primary_alive, values>>
=============================================================================
