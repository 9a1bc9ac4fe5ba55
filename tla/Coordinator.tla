----------------------------- MODULE Coordinator -----------------------------
(***************************************************************************)
(* The coordinator switch s1 (paxos_coordinator.p4): it turns each request *)
(* into a 2A of round 0 and of the next instance.                          *)
(***************************************************************************)
EXTENDS PaxosHeader

VARIABLE instance_register      \* the last instance given out

CoordinatorInit == instance_register = 0

\* Mutant: the register is not written back once it holds a number.
NextInstanceStuck(i) == IF i = 0 THEN 1 ELSE i

\* add_to_field on the 16-bit instance field.
NextInstance(i) == (i + 1) % INSTANCE_COUNT

handle_request(m) ==
    LET i == NextInstance(instance_register) IN
    /\ instance_register' = i
    /\ Send([m EXCEPT !.msgtype = "2A", !.rnd = 0, !.inst = i])

\* Ingress: tbl_sequence matches the proposer's message type only; every
\* other packet is broadcast unchanged, which msgs already accounts for.
Sequence ==
    /\ uplink # << >>
    /\ uplink' = Tail(uplink)
    /\ handle_request(Head(uplink))
    /\ UNCHANGED responses
=============================================================================
