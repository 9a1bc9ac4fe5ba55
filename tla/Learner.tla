------------------------------- MODULE Learner -------------------------------
(***************************************************************************)
(* The replicas h2 and h3: paxoscore/learner.py driving the database of    *)
(* backend.py.  A packet is handled by one call of handle_pkt, in the one  *)
(* thread of the sniffer, so handling a packet is one action.              *)
(*                                                                         *)
(* An exception that is not an IndexError leaves handle_pkt, ends the      *)
(* sniffer and with it the process: alive becomes FALSE.                   *)
(***************************************************************************)
EXTENDS PaxosHeader, Backend

CONSTANTS
    num_acceptors,  \* paxos.cfg, [common]
    Count,          \* paxos.cfg, [instance] count: packets to capture; 0 = no limit
    MaxRestarts     \* bound: how often replica processes are started again

ASSUME LearnerAssumption ==
    /\ num_acceptors = Cardinality(Acceptors)
    /\ Count \in Nat
    /\ MaxRestarts \in Nat
    /\ NoValue \notin Commands \cup {Empty}

VARIABLES
    logs,               \* [l][i]: the decided command, or NoValue
    states,             \* [l][i]: LearnerState; nids = {} stands for no entry
    proposerState,      \* [l][i]: ProposerState; nids = {} stands for no entry
    minUncommitedIndex, \* [l]: the next instance to execute
    maxInstance,        \* [l]: the highest decided instance
    db,                 \* [l]: SimpleDatabase.db
    alive,              \* [l]: the sniffer is running
    captured,           \* [l]: the packets sniffed so far (0 if Count = 0)
    restarts            \* how many processes were started again (for the bound)

learnerVars == <<logs, states, proposerState, minUncommitedIndex, maxInstance,
                 db, alive, captured, restarts>>

LearnerState ==
    [crnd : Round, nids : SUBSET Acceptors,
     val : Commands \cup {Empty, NoValue}, finished : BOOLEAN]

ProposerState ==
    [crnd : Round, nids : SUBSET Acceptors, hval : Commands \cup {Empty, NoValue},
     hvrnd : Round, finished : BOOLEAN]

NoLearnerState == [crnd |-> 0, nids |-> {}, val |-> NoValue, finished |-> FALSE]

NoProposerState == [crnd |-> 0, nids |-> {}, hval |-> NoValue, hvrnd |-> 0,
                    finished |-> FALSE]

LearnerInit ==
    /\ logs = [l \in Learners |-> [i \in Instance |-> NoValue]]
    /\ states = [l \in Learners |-> [i \in Instance |-> NoLearnerState]]
    /\ proposerState = [l \in Learners |-> [i \in Instance |-> NoProposerState]]
    /\ minUncommitedIndex = [l \in Learners |-> 1]
    /\ maxInstance = [l \in Learners |-> 1]
    /\ db = [l \in Learners |-> InitialDb]
    /\ alive = [l \in Learners |-> TRUE]
    /\ captured = [l \in Learners |-> 0]
    /\ restarts = 0

-----------------------------------------------------------------------------
\* Mutants of majority: one vote short, and every vote.
majorityShort == num_acceptors \div 2
majorityAll == num_acceptors

\* ceil((num_acceptors + 1) / 2); in Python 2 the quotient is already floored.
majority == (num_acceptors + 1) \div 2

\* Mutant: one packet too many.
RunningPastCount(l) == alive[l] /\ (Count = 0 \/ captured[l] <= Count)

Running(l) == alive[l] /\ (Count = 0 \/ captured[l] < Count)

Capture(l) ==
    captured' = [captured EXCEPT ![l] = IF Count = 0 THEN 0 ELSE @ + 1]

\* states.get(inst), or a new object for the packet's round.
Entry(s, crnd) == IF s.nids = {} THEN [s EXCEPT !.crnd = crnd] ELSE s

make_paxos(typ, i, rnd, vrnd, cmd) ==
    [msgtype |-> typ, inst |-> i, rnd |-> rnd, vrnd |-> vrnd,
     acptid |-> NoAcceptor, val |-> [req |-> 10, cmd |-> cmd], src |-> "learner"]

\* Mutants of retryInstance: the next instance, and nothing at all.
retryNextInstance(i) == Send(make_paxos("1A", i + 1, 1, 0, Empty))
retryNothing(i) == UNCHANGED msgs

\* The 1A that asks for an instance again, always in round 1.
retryInstance(i) == Send(make_paxos("1A", i, 1, 0, Empty))

\* respond: the reply goes to the source of the packet; only the proposer's
\* host has a process that waits for one.
respond(m, result) ==
    responses' = IF m.src = "proposer"
                 THEN responses \cup {[req |-> m.val.req, result |-> result]}
                 ELSE responses

-----------------------------------------------------------------------------
\* A 1B that is counted: an acceptor's first of the round, before a majority.
Counts1b(l, m) ==
    LET s == Entry(proposerState[l][m.inst], m.rnd) IN
    ~s.finished /\ s.crnd = m.rnd /\ m.acptid \notin s.nids

AfterP1b(s, m) ==
    LET nids == s.nids \cup {m.acptid} IN
    [s EXCEPT !.nids = nids,
              !.hval = IF s.hvrnd <= m.vrnd THEN m.val.cmd ELSE @,
              !.finished = Cardinality(nids) >= majority]

handle_p1b(l, m) ==
    LET s == AfterP1b(Entry(proposerState[l][m.inst], m.rnd), m) IN
    /\ Running(l)
    /\ m.msgtype = "1B"
    /\ Counts1b(l, m)
    /\ proposerState' = [proposerState EXCEPT ![l][m.inst] = s]
    /\ IF s.finished
       THEN Send(make_paxos("2A", m.inst, s.crnd, s.hvrnd, s.hval))
       ELSE UNCHANGED msgs
    /\ Capture(l)
    /\ UNCHANGED <<logs, states, minUncommitedIndex, maxInstance, db, alive,
                   restarts, uplink, responses>>

-----------------------------------------------------------------------------
\* A 2B that is counted: an acceptor's first of the entry's round.
Counts2b(l, m) ==
    LET s == Entry(states[l][m.inst], m.rnd) IN
    ~s.finished /\ s.crnd = m.rnd /\ m.acptid \notin s.nids

\* A 2B of a higher round than the entry's: handle_p2b names LearnerState,
\* which is not in scope, and raises NameError.
Outruns(l, m) ==
    LET s == Entry(states[l][m.inst], m.rnd) IN
    ~s.finished /\ s.crnd < m.rnd

\* Mutant: off by one in the size of the quorum.
AfterP2bEarly(s, m) ==
    LET nids == s.nids \cup {m.acptid} IN
    [s EXCEPT !.nids = nids,
              !.val = IF @ = NoValue THEN m.val.cmd ELSE @,
              !.finished = Cardinality(nids) + 1 >= majority]

AfterP2b(s, m) ==
    LET nids == s.nids \cup {m.acptid} IN
    [s EXCEPT !.nids = nids,
              !.val = IF @ = NoValue THEN m.val.cmd ELSE @,
              !.finished = Cardinality(nids) >= majority]

handle_p2b_vote(l, m) ==
    LET s == AfterP2b(Entry(states[l][m.inst], m.rnd), m) IN
    /\ Running(l)
    /\ m.msgtype = "2B"
    /\ Counts2b(l, m)
    /\ ~s.finished
    /\ states' = [states EXCEPT ![l][m.inst] = s]
    /\ Capture(l)
    /\ UNCHANGED <<logs, proposerState, minUncommitedIndex, maxInstance, db,
                   alive, restarts, network>>

handle_p2b_error(l, m) ==
    /\ Running(l)
    /\ m.msgtype = "2B"
    /\ Outruns(l, m)
    /\ alive' = [alive EXCEPT ![l] = FALSE]
    /\ Capture(l)
    /\ UNCHANGED <<logs, states, proposerState, minUncommitedIndex, maxInstance,
                   db, restarts, network>>

\* json.loads and execute both succeed.
Executable(c) == c \notin {NoValue, Empty, Keyless, Truncated}

\* json.loads raises ValueError.
Unparsable(c) == c \in {Empty, Truncated}

\* Mutants of deliverInstance: the decided command is executed at once, whatever
\* the next in order is; and a hole is retried but also skipped.
deliverUnordered(l, m, log, max) ==
    /\ minUncommitedIndex' = [minUncommitedIndex EXCEPT ![l] = @ + 1]
    /\ IF Executable(log[m.inst])
       THEN /\ db' = [db EXCEPT ![l] = Execute(@, log[m.inst])]
            /\ respond(m, Result(db[l], log[m.inst]))
       ELSE UNCHANGED <<db, responses>>
    /\ UNCHANGED <<alive, msgs>>

deliverSkipping(l, m, log, max) ==
    /\ minUncommitedIndex' = [minUncommitedIndex EXCEPT ![l] = max + 1]
    /\ retryInstance(minUncommitedIndex[l])
    /\ UNCHANGED <<db, alive, responses>>

(***************************************************************************)
(* deliverInstance(inst): from inst it recurses down to minUncommitedIndex *)
(* and from there up again, executing the log until it meets an instance   *)
(* it cannot execute or passes maxInstance.  `stop' is where it ends:      *)
(*  - beyond maxInstance: everything decided has been executed;            *)
(*  - at an instance that is not in the log, or whose command lacks an     *)
(*    argument: both are KeyErrors, and the instance is retried;           *)
(*  - at a command that is not JSON: the ValueError ends the process, and  *)
(*    nothing is answered.                                                 *)
(* The packet that completed the decision is answered with the result of   *)
(* the first instance executed, or "Retry" if there was none.              *)
(* inst is never below minUncommitedIndex: an instance is decided once.    *)
(***************************************************************************)
deliverInstance(l, m, log, max) ==
    LET min == minUncommitedIndex[l] IN
    \E stop \in min .. max + 1 :
      /\ \A j \in min .. stop - 1 : Executable(log[j])
      /\ stop <= max => ~Executable(log[stop])
      /\ minUncommitedIndex' = [minUncommitedIndex EXCEPT ![l] = stop]
      /\ db' = [db EXCEPT ![l] =
                  ExecuteAll(@, [j \in 1 .. stop - min |-> log[min + j - 1]])]
      /\ IF stop <= max /\ Unparsable(log[stop])
         THEN /\ alive' = [alive EXCEPT ![l] = FALSE]
              /\ UNCHANGED <<msgs, responses>>
         ELSE /\ IF stop <= max THEN retryInstance(stop) ELSE UNCHANGED msgs
              /\ respond(m, IF stop = min THEN "Retry"
                            ELSE Result(db[l], log[min]))
              /\ UNCHANGED alive

handle_p2b_decide(l, m) ==
    LET s == AfterP2b(Entry(states[l][m.inst], m.rnd), m)
        log == [logs[l] EXCEPT ![m.inst] = s.val]
        max == IF maxInstance[l] < m.inst THEN m.inst ELSE maxInstance[l]
    IN  /\ Running(l)
        /\ m.msgtype = "2B"
        /\ Counts2b(l, m)
        /\ s.finished
        /\ states' = [states EXCEPT ![l][m.inst] = s]
        /\ logs' = [logs EXCEPT ![l] = log]
        /\ maxInstance' = [maxInstance EXCEPT ![l] = max]
        /\ deliverInstance(l, m, log, max)
        /\ Capture(l)
        /\ UNCHANGED <<proposerState, restarts, uplink>>

-----------------------------------------------------------------------------
\* A packet the handlers do nothing with, but that counts as captured: one of
\* a learner's own 1As and 2As, or an answer that comes too late, again, or in
\* an older round.  Without a limit on captures it changes nothing.
handle_pkt_ignore(l, m) ==
    /\ Running(l)
    /\ Count > 0
    /\ \/ m.msgtype \in {"1A", "2A"} /\ m.src = "learner"
       \/ m.msgtype = "1B" /\ ~Counts1b(l, m)
       \/ m.msgtype = "2B" /\ ~Counts2b(l, m) /\ ~Outruns(l, m)
    /\ Capture(l)
    /\ UNCHANGED <<logs, states, proposerState, minUncommitedIndex, maxInstance,
                   db, alive, restarts, network>>

handle_pkt(l, m) ==
    \/ handle_p1b(l, m)
    \/ handle_p2b_vote(l, m)
    \/ handle_p2b_decide(l, m)
    \/ handle_p2b_error(l, m)
    \/ handle_pkt_ignore(l, m)

\* Mutant: the new process finds the old database.
RestartKeepingDb(l) ==
    /\ restarts < MaxRestarts
    /\ restarts' = restarts + 1
    /\ logs' = [logs EXCEPT ![l] = [i \in Instance |-> NoValue]]
    /\ states' = [states EXCEPT ![l] = [i \in Instance |-> NoLearnerState]]
    /\ proposerState' =
           [proposerState EXCEPT ![l] = [i \in Instance |-> NoProposerState]]
    /\ minUncommitedIndex' = [minUncommitedIndex EXCEPT ![l] = 1]
    /\ maxInstance' = [maxInstance EXCEPT ![l] = 1]
    /\ alive' = [alive EXCEPT ![l] = TRUE]
    /\ captured' = [captured EXCEPT ![l] = 0]
    /\ UNCHANGED <<db, network>>

\* The process of a replica is killed, or has ended, and is started again:
\* nothing it knew was on disk.
Restart(l) ==
    /\ restarts < MaxRestarts
    /\ restarts' = restarts + 1
    /\ logs' = [logs EXCEPT ![l] = [i \in Instance |-> NoValue]]
    /\ states' = [states EXCEPT ![l] = [i \in Instance |-> NoLearnerState]]
    /\ proposerState' =
           [proposerState EXCEPT ![l] = [i \in Instance |-> NoProposerState]]
    /\ minUncommitedIndex' = [minUncommitedIndex EXCEPT ![l] = 1]
    /\ maxInstance' = [maxInstance EXCEPT ![l] = 1]
    /\ db' = [db EXCEPT ![l] = InitialDb]
    /\ alive' = [alive EXCEPT ![l] = TRUE]
    /\ captured' = [captured EXCEPT ![l] = 0]
    /\ UNCHANGED network
=============================================================================
