---------------------------- MODULE DpdkAcceptor ----------------------------
(***************************************************************************)
(* dpdk/acceptor/main.c: a packet callback around libpaxos' acceptor.  The *)
(* answer is written over the packet that asked.                           *)
(***************************************************************************)
EXTENDS LibPaxos

VARIABLE records    \* records[a][i]: acceptor a's record of instance i

AcceptorsInit == records = [a \in AcceptorId |-> [i \in Iid |-> NoRecord]]

\* Mutant: the promise is not recorded.
receive_prepareUnsaved(a, m) ==
    /\ m.msgtype = "PREPARE"
    /\ UNCHANGED records
    /\ Send([msgtype |-> "PROMISE", inst |-> m.inst, rnd |-> m.rnd,
             vrnd |-> records[a][m.inst].value_ballot, acptid |-> a,
             value |-> records[a][m.inst].value])

\* PAXOS_PREPARE: a promise that carries the record.
receive_prepare(a, m) ==
    LET rec == acceptor_receive_prepare(records[a][m.inst], m.rnd)
    IN /\ m.msgtype = "PREPARE"
       /\ records' = [records EXCEPT ![a][m.inst] = rec]
       /\ Send([msgtype |-> "PROMISE", inst |-> m.inst, rnd |-> rec.ballot,
                vrnd |-> rec.value_ballot, acptid |-> a, value |-> rec.value])

\* PAXOS_ACCEPT: the packet becomes the vote, its ballot and value unchanged;
\* or PREEMPTED with the ballots of the record, its value unchanged.
receive_accept(a, m) ==
    LET old == records[a][m.inst]
        rec == acceptor_receive_accept(old, m.rnd, m.value)
    IN /\ m.msgtype = "ACCEPT"
       /\ records' = [records EXCEPT ![a][m.inst] = rec]
       /\ Send(IF old.ballot <= m.rnd
               THEN [m EXCEPT !.msgtype = "ACCEPTED", !.acptid = a]
               ELSE [m EXCEPT !.msgtype = "PREEMPTED", !.acptid = a,
                              !.rnd = old.ballot, !.vrnd = old.value_ballot])

\* paxos_rx_process of an acceptor.
AcceptorStep(a) ==
    /\ \E m \in msgs : receive_prepare(a, m) \/ receive_accept(a, m)
    /\ UNCHANGED <<requests, port>>
=============================================================================
