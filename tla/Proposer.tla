------------------------------ MODULE Proposer ------------------------------
(***************************************************************************)
(* The proposer on h1 (paxoscore/proposer.py) behind the HTTP front end    *)
(* (httpServer.py).  Both run in the one thread of the Twisted reactor.    *)
(***************************************************************************)
EXTENDS PaxosHeader

CONSTANTS
    NoRequest,      \* no Deferred under this id
    Waiting,        \* a Deferred that has not fired
    MaxSubmits      \* bound: how many HTTP requests arrive

ASSUME ProposerAssumption == MaxSubmits \in Nat /\ NoRequest # Waiting

VARIABLES
    req_id,         \* the last request id used
    defers          \* [id]: NoRequest, Waiting or the result the browser got

proposerVars == <<req_id, defers>>

ProposerInit ==
    /\ req_id = 0
    /\ defers = [r \in 1 .. MAX_REQ_ID |-> NoRequest]

\* An HTTP request.  The id is incremented first; packing one that does not
\* fit its byte raises struct.error, nothing is sent and the browser gets the
\* web server's error page.
submit(cmd) ==
    /\ req_id < MaxSubmits
    /\ req_id' = req_id + 1
    /\ IF req_id' <= MAX_REQ_ID
       THEN /\ uplink' = Append(uplink,
                  [msgtype |-> "2A", inst |-> 0, rnd |-> 0, vrnd |-> 0,
                   acptid |-> NoAcceptor,
                   val |-> [req |-> req_id', cmd |-> cmd], src |-> "proposer"])
            /\ defers' = [defers EXCEPT ![req_id'] = Waiting]
       ELSE UNCHANGED <<uplink, defers>>
    /\ UNCHANGED <<msgs, responses>>

\* Mutant: a Deferred fires again for every answer.
datagramReceivedAgain(r) ==
    /\ defers[r.req] # NoRequest
    /\ defers' = [defers EXCEPT ![r.req] = r.result]
    /\ UNCHANGED <<req_id, network>>

\* The first answer fires the Deferred; AlreadyCalledError hides the others.
datagramReceived(r) ==
    /\ defers[r.req] = Waiting
    /\ defers' = [defers EXCEPT ![r.req] = r.result]
    /\ UNCHANGED <<req_id, network>>
=============================================================================
