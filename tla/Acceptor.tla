------------------------------ MODULE Acceptor ------------------------------
(***************************************************************************)
(* The acceptor switches s2, s3, s4 (paxos_acceptor.p4).  An instance is   *)
(* an index into three register arrays.  Round 0 is both the round of the  *)
(* coordinator and the initial contents of the vote register, so a vote in *)
(* round 0 and no vote at all differ only in the value.                    *)
(***************************************************************************)
EXTENDS PaxosHeader

VARIABLES
    rounds_register,    \* [a][i]: the highest round a has seen in i
    vrounds_register,   \* [a][i]: the round of a's last vote in i
    values_register     \* [a][i]: the value of a's last vote in i

acceptorVars == <<rounds_register, vrounds_register, values_register>>

AcceptorInit ==
    /\ rounds_register  = [a \in Acceptors |-> [i \in Instance |-> 0]]
    /\ vrounds_register = [a \in Acceptors |-> [i \in Instance |-> 0]]
    /\ values_register  = [a \in Acceptors |-> [i \in Instance |-> ZeroValue]]

\* Mutant: no round check.
FreshAlways(a, m) == TRUE

\* The condition of the ingress control; a packet that fails it is dropped.
Fresh(a, m) == rounds_register[a][m.inst] <= m.rnd

handle_1a(a, m) ==
    /\ m.msgtype = "1A"
    /\ Fresh(a, m)
    /\ Send([m EXCEPT !.msgtype = "1B",
                      !.vrnd = vrounds_register[a][m.inst],
                      !.val = values_register[a][m.inst],
                      !.acptid = a])
    /\ rounds_register' = [rounds_register EXCEPT ![a][m.inst] = m.rnd]
    /\ UNCHANGED <<vrounds_register, values_register, uplink, responses>>

handle_2a(a, m) ==
    /\ m.msgtype = "2A"
    /\ Fresh(a, m)
    /\ Send([m EXCEPT !.msgtype = "2B", !.acptid = a])
    /\ rounds_register'  = [rounds_register  EXCEPT ![a][m.inst] = m.rnd]
    /\ vrounds_register' = [vrounds_register EXCEPT ![a][m.inst] = m.rnd]
    /\ values_register'  = [values_register  EXCEPT ![a][m.inst] = m.val]
    /\ UNCHANGED <<uplink, responses>>
=============================================================================
