----------------------------- MODULE TotalOrder -----------------------------
(***************************************************************************)
(* What Paxos promises to a replicated service: requests are put into one  *)
(* order, each once, and every replica executes a growing prefix of it.    *)
(***************************************************************************)
EXTENDS Naturals, Sequences

CONSTANTS Replica, Request

VARIABLES
    order,        \* the requests, in their order
    executed      \* executed[p]: what replica p executed

vars == <<order, executed>>

Init ==
    /\ order = <<>>
    /\ executed = [p \in Replica |-> <<>>]

Place(r) ==
    /\ \A i \in 1 .. Len(order) : order[i] # r
    /\ order' = Append(order, r)
    /\ UNCHANGED executed

Execute(p) ==
    /\ Len(executed[p]) < Len(order)
    /\ executed' = [executed EXCEPT ![p] = Append(@, order[Len(@) + 1])]
    /\ UNCHANGED order

Next == (\E r \in Request : Place(r)) \/ (\E p \in Replica : Execute(p))

Spec == Init /\ [][Next]_vars
=============================================================================
