--------------------------- MODULE DpdkCoordinator ---------------------------
(***************************************************************************)
(* dpdk/coordinator/main.c: the process that numbers the clients' packets. *)
(***************************************************************************)
EXTENDS RtePaxos

VARIABLES
    cur_inst,     \* the next instance number
    restarts      \* how often the process was started again

CONSTANT MaxRestarts    \* bound: coordinator restarts

ASSUME RestartAssumption == MaxRestarts \in Nat

coordVars == <<cur_inst, restarts>>

CoordInit == cur_inst = 1 /\ restarts = 0

\* Mutant: the number does not advance.
NextInstStuck == cur_inst

\* coord->cur_inst++.
NextInst == cur_inst + 1

\* paxos_rx_process: the packet, still with the client's ballot, goes to the
\* acceptors under the next number.
Number(r) ==
    /\ port = "primary"
    /\ r \in requests
    /\ cur_inst \in Iid
    /\ requests' = requests \ {r}
    /\ Send(Accept(cur_inst, ClientBallot, r))
    /\ cur_inst' = NextInst
    /\ UNCHANGED <<port, restarts>>

\* The process is started again: main sets cur_inst to 1.
RestartCoordinator ==
    /\ restarts < MaxRestarts
    /\ restarts' = restarts + 1
    /\ cur_inst' = 1
    /\ UNCHANGED netVars
=============================================================================
