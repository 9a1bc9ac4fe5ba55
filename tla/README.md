# P4xos in TLA+

This directory is a verification project for P4xos (NetPaxos): Paxos run by
network switches.  It holds TLA+ modules translated from the source, TLC
configurations that check them on small instances, and TLAPS proofs of the
results that matter most.  `PROJECT.json` lists the components, the runs, the
mutants, the theorems, and, under `map`, the source lines behind every
definition.

## 1. The system

The repository holds several implementations of one protocol.  A request goes
from a *proposer* to a *coordinator* (leader), which stamps it with the next
instance number and sends it as a phase-2A message of round 0 to the
*acceptors*; each votes with a 2B; *learners* count the votes, and once a
majority of acceptors voted they deliver the value, in the order of the
instance numbers.  Phase 1 is only run for instances that seem stuck.

| Part | Source | State | Operations |
|---|---|---|---|
| Header and network | `p4src/includes/paxos_*.p4`, `p4src/l2_control.p4`, `bmv2/topo.py` | packets in flight | broadcast, drop, prune, lose |
| Coordinator switch | `p4src/paxos_coordinator.p4` | `instance_register` | `handle_request` |
| Acceptor switch | `p4src/paxos_acceptor.p4` | `rounds_`, `vrounds_`, `values_register` per instance | `handle_1a`, `handle_2a`, drop of stale rounds |
| Learner | `bmv2/scripts/paxoscore/learner.py` | `states`, `proposerState`, `logs`, `minUncommitedIndex`, `maxInstance` | `handle_p1b`, `handle_p2b`, `deliverInstance`, `retryInstance`, `respond`, the capture limit of `start` |
| Database, HTTP front end | `bmv2/scripts/backend.py`, `httpServer.py` | `db` | `execute`; `render_GET`, `render_POST` |
| Proposer | `bmv2/scripts/paxoscore/proposer.py` | `req_id`, `defers` | `submit`, `datagramReceived` |
| Learner switch | `p4src/paxos_learner.p4`, `p4-16/p4src/learner.p4` | round, value and vote mask per instance | `handle_2b`, `handle_new_value`, the quorum test on every packet |
| P4-16 leader and acceptor | `p4-16/p4src/leader.p4`, `acceptor.p4` | `registerInstance`; round, value round and value per instance | `increase_instance`, `reset_instance`, `handle_1a`, `handle_2a` |
| DPDK packets and switch | `dpdk/lib/rte_paxos.c`, `dpdk/client`, `controller/netpaxos.sh` | packets in flight, the live bucket of the fast-failover group | `add_paxos_message`, failover and failback |
| DPDK coordinator | `dpdk/coordinator/main.c` | `cur_inst` | `paxos_rx_process`, start |
| DPDK acceptor | `dpdk/acceptor/main.c`, libpaxos | ballot, value and value ballot per instance | prepare, accept |
| DPDK learner | `dpdk/learner/main.c`, libpaxos | votes per instance, `current_iid` | vote, `learner_deliver_next`, `deliver` |
| DPDK backup coordinator | `dpdk/backup/main.c`, libpaxos | `primary_alive`, `latest_accepted_iid`, `latest_prepare_iid`, `values`, votes and gaps | client packet and `start_recovery`, promise, vote |
| DPDK proposer | `dpdk/proposer/main.c`, libpaxos | `first_time`; values waiting, the instances in phase 1 and in phase 2 | promise, client's packet, vote, `check_timeout` on another core |
| Netronome coordinator and acceptor | `netrodemo/paxos.c`, `cans.p4` | `cur_instance`, `pkt_inst` and arrays shared by hardware threads | `seq_func`, `paxos_phase1a`, `paxos_phase2a`, `reset_registers` |
| DPDK load generators | `dpdk/client`, `dpdk/gen_packet`, `dpdk/pktgen4learner` | `cur_inst`, transmit buffer, counters | first window, answers, drain, `report_stat` on another core |
| Bluespec acceptor/learner | `bluespec/Paxos.bsv` | registers of one instance | `handle1A` .. `handle2B` |
| Controllers, drivers, scripts | `controller/`, `dpdk_p4@elte/`, `main.c`, `bmv2/main.c`, `environment/`, `scripts/` | - | - |

### How the parts of the demo interact

h1 runs the HTTP server and the proposer; its UDP request to the multicast
address crosses one link to s1.  s1 numbers it and broadcasts it to s2, s3 and
s4, which turn it into a vote and broadcast that to the replicas h2 and h3.
The replicas answer h1 directly.  When a replica decides an instance beyond
the first it misses, it broadcasts a 1A for the missing one on all its
interfaces; the acceptors answer with 1Bs; a majority of 1Bs makes it send a
2A of round 1.  Every switch broadcasts what it does not transform and the
topology has cycles, so 1Bs and 2Bs reach a replica over several paths.

### How the DPDK programs interact

Clients send ACCEPT packets of ballot 1 to the coordinator address.  The
switch's fast-failover group gives them to the primary while its port is up and
to the backup otherwise.  The primary writes the next number into the packet
and passes it on to the acceptors, whose answers go to all learners, the backup
among them.  The backup counts votes, and prepares the next instance in ballot
3 whenever one closes.  A client's packet that reaches it is put into a buffer;
the first makes it prepare the instance after the last closed one.  Promises of
a majority make it send an ACCEPT with the value the promises report, or else
with a buffered one.  In `netpaxos.sh` the primary is an FPGA that listens on
the acceptors' UDP port, as the backup does; the DPDK coordinator numbers in the
same way on a port of its own.  The models leave ports out.

The DPDK proposer is an alternative to coordinator and backup: it keeps a window
of instances in phase 1 and gives each client's packet the lowest instance that
is promised.  A second core repeats the messages of instances that wait for a
quorum.  The load generators stand for the clients in measurements:
`pktgen4learner` plays the only acceptor of a learner.

### The switches alone

`p4-16/` and `p4src/paxos_learner.p4` put the learner into a switch, too.  It
counts votes in an 8-bit mask per instance and tests whether the mask shows two
of three acceptors.  The P4-14 program lets a packet out when it does and drops
the others; the P4-16 program drops that packet and lets the others out.  `netrodemo/` runs coordinator and acceptor as C
functions on the threads of a network processor.

### What is hard

* *Ordering and duplication*: votes of both rounds of an instance, and of two
  learners' recoveries of it, interleave at acceptors and learners.
* *Partial failure*: one packet may release a chain of instances; the chain
  can end at a hole, at a command without its arguments (both are KeyErrors)
  or at a command that is not JSON (an exception that ends the process).
* *Crashes*: a replica restarts with nothing, next to acceptors that remember.
* *Zero*: round 0, an unwritten register and a vote in round 0 look alike.
* *Loss*: outside the DPDK proposer there is no timer; only later packets cause
  a retry.
* *Limits*: a one-byte request id, a 16-bit instance, a capture count, a
  buffer of client values.
* *Two coordinators*: the switch may send requests to either at any time, and
  neither learns what the other does except through votes.
* *Shared memory without locks*: the proposer's timer core, the generators'
  statistics core, the threads of the Netronome card.
* *Stale copies*: the learner switch tests the mask it read before it reset it.

`hazards` in `PROJECT.json` names the line of each, and the properties that
would catch it.

### What makes each part correct

* coordinator: an instance is given to one request only (`Numbering`);
* acceptor: a promise reports the last vote and forbids older ones
  (`PromisesReportVotes`, `RegistersRemember`);
* learner: a decision has a majority behind it (`DecisionHasQuorum`), is final
  (`DecisionsAreFinal`), holes are asked for (`HolesAreRetried`) and filled
  (`HolesAreFilled`);
* database: a replica executed a prefix of the coordinator's order
  (`DatabaseIsPrefix`), the same as every other replica (`ReplicasAgree`);
* proposer: an answer is the result of the request it answers
  (`AnswersAreLinearized`), and there is one (`RequestsAreAnswered`);
* DPDK acceptor: a promise binds it (`PromiseBinds`);
* DPDK learner: it delivers what a quorum voted on (`DeliveryHasQuorum`), in the
  coordinator's order (`ImplementsTotalOrder`);
* DPDK coordinators together: a request gets one instance
  (`RequestPlacedOnce`), and an instance one value (`RecoveryKeepsDecision`,
  which fails);
* DPDK proposer: phase 2 follows phase 1 (`AcceptAfterPromises`), an instance
  closes by votes (`ClosedByVotes`), no instance is skipped (`WindowSlides`), no
  request is lost or doubled (`RequestsConserved`) and each is accepted in the
  end (`RequestsAreAccepted`);
* learner switch: a mask holds votes of one round (`HistoryIsOneRound`); the
  P4-14 program forwards only after two acceptors voted (`ForwardNeedsMajority`),
  and always then (`MajorityIsForwarded`); P4-16 acceptors keep their promises (`PromisesBind`);
* Netronome: overlapping threads harm only the instances of their own packets
  (`SerialPromises`, `SerialRegisters`), and a reset leaves no round behind that
  nobody was promised (`NoOrphanRounds`);
* load generators: the window is kept (`WindowConserved`), the load goes on
  (`LoadGoesOn`, `LagBelowWindow`), nothing is counted twice
  (`NeverReportedTwice`).

## 2. The modules

`NetPaxos` EXTENDS one module per component and conjoins each component's
action with UNCHANGED for the others.

| Module | Models | Notes |
|---|---|---|
| `PaxosHeader` | `paxos_t`, the network | `msgs` is the set of all Paxos packets ever sent. Receiving leaves a packet there, so it may be received again, late, or never. `uplink` is the FIFO link h1-s1, `responses` the answers on their way to h1 |
| `Coordinator` | `paxos_coordinator.p4` | `Sequence` takes the head of `uplink`. Packets of other types pass unchanged, which `msgs` already says. A learner's 2A never reaches s1: it would have to cross an acceptor, which turns it into a 2B or drops it |
| `Acceptor` | `paxos_acceptor.p4` | `[a][i]` tables for the register arrays. A packet that fails `Fresh` is dropped: no action |
| `Backend` | `backend.py`, the handlers of `httpServer.py` | a command is a put, a get, `Keyless` (an argument missing) or `Truncated` (longer than the 63 bytes of the value field) |
| `Learner` | `learner.py` | one action per outcome of `handle_pkt`; `deliverInstance`'s recursion is one step that names where it stops |
| `Proposer` | `proposer.py` | `defers[r]` is the state of a Deferred |
| `NetPaxos` | the demo | `Next`, fairness, properties, the inductive invariants `IInv`, `LInv` and `SInv` |
| `MCNetPaxos` | - | commands and symmetry for TLC |
| `RtePaxos` | `rte_paxos.c`, the clients, the switch | `msgs` as above; a request no coordinator received stays in `requests`, so it may be lost |
| `LibPaxos` | the libpaxos functions used | external: from the headers and the shipped binary. Each operator maps the state before a call to the state after |
| `DpdkCoordinator`, `DpdkAcceptor`, `DpdkLearner`, `DpdkBackup` | `dpdk/<part>/main.c` | one action per message type of `paxos_rx_process` |
| `TotalOrder` | what the service promises | abstract: an order that grows by requests placed once, replicas that execute prefixes of it |
| `DpdkPaxos` | the DPDK programs together | `WithBackup` says whether a backup is deployed; the refinement mapping to `TotalOrder` |
| `MCDpdkPaxos` | - | symmetry for TLC |
| `DpdkProposer` | `dpdk/proposer/main.c` | a handler is an operator over the proposer and the packets on their way; the tables of open instances are the ones of libpaxos |
| `ProposerPaxos` | proposer, acceptors, network | here a received packet is gone unless the network repeats it: otherwise a retry would never be needed |
| `P4Switch`, `P4Learner` | `p4-16/`, `p4src/paxos_learner.p4` | `program` says which of the two learner programs runs |
| `SwitchPaxos` | leader, acceptors, learner switch | `Inject` stands for the later rounds that `paxos_test.py -r` sends |
| `Netronome` | `netrodemo/paxos.c` | one action per access to external memory; `disturbed` and `sent` are history |
| `PacketGen` | the three load generators | `program` says which; a packet is the number of its instance |
| `Workload` | a generator and what it tests | the learner under `pktgen4learner` delivers as `DpdkLearner` does with one acceptor |
| `MCProposerPaxos`, `MCSwitchPaxos`, `MCNetronome`, `MCWorkload` | - | symmetry for TLC |
| `NetPaxos_proofs`, `NetPaxosLearner_proofs`, `NetPaxosStore_proofs` | - | the theorems about the demo; each extends the one before |
| `DpdkPaxos_proofs`, `ProposerPaxos_proofs`, `SwitchPaxos_proofs`, `Netronome_proofs`, `Workload_proofs` | - | the theorems about the other compositions |

In `DpdkPaxos`:

* A record, an instance or a gap that libpaxos has not allocated is `NoRecord`,
  `NoInstance` or `NoGap`: reading the zeros of these is what the code does for
  a missing one.
* `start_recovery` adds 2 to `latest_prepare_iid`, since its loop variable has
  moved past the only iteration.
* `SendAccept` proposes a freed value: the bytes may be the request's or any
  others (`Garbage`).
* `deliver` of the first learner reads the client's address out of the value.
  For an empty value that is a null pointer with length 0, for garbage any
  address: the learner may crash or send an answer nobody gets.
* The learner is modelled as it is built: `ORDER_DELIVERY` is not defined, so
  `check_deliver` and `check_holes` are not started.
* `MaxInst` bounds the instances: an action that would need a later one is not
  enabled.  The order of the refinement is the ACCEPTs of the coordinator.

In `DpdkProposer`:

* `check_timeout` walks the tables while the other core changes them.  A
  timeout that sends what it read a moment ago is a packet the network delayed,
  so each message is a step of its own.
* `value_len` has 32 bits and `paxos_rx_process` reads the upper 16, which are
  0: a client's value has length 0, and its ACCEPT carries what the packet buffer
  held.  Values are therefore counted and not named.
* In `ProposerPaxos` a packet to the acceptors is a multicast: one step delivers
  it to any set of them.  A copy that is lost, late or repeated costs one of
  `MaxFaults`, and so does a timeout of an instance that still has packets on
  their way: the timer's second is long compared with the network's delay.
* `answers` is history: every PROMISE and ACCEPTED that was sent.  The properties
  compare with it, so a promise counts for the ballot it names and for nothing
  else, whatever the acceptor promised afterwards.
* The ballots are those of proposer 0: 10, 20, ...  `OtherPrepare` is the phase 1
  of another program, as the backup's.
* `PREEMPTED` is dropped; `Overtaken` says when that matters.

In `P4Learner`:

* The repository has no table entries for the P4-14 learner.  `learner_tbl` and
  `reset_tbl` are taken to have one for 2B, as the P4-16 configuration has, and
  `forward_tbl` one for every port.
* In P4-16 the default action of both tables counts a vote, so a promise counts
  as one (`IsVote`).  So does a packet that was too old for an acceptor, which
  leaves that acceptor unmodified on port 0 (`Reaches`); its acceptor field is 0,
  so it sets the bit of acceptor 0 (`AcceptorBit`).  `VotesIn` and
  `HistoryIsOneRound` count these packets as the program does.
* In P4-16 `read_round` sets `set_drop` and nothing clears it, so
  `transport_tbl` drops the packet of a quorum, and a packet without a quorum
  leaves on port 0 unmodified (`QuorumTest`).  `ForwardNeedsMajority` and
  `MajorityIsForwarded` speak of P4-14 only: of P4-16 neither is true.
* The leader checks no bound.  In P4-14 the instance field is as wide as the
  arrays are long, and the numbers start again at 0.  In P4-16 it has 32 bits and
  the arrays 65536 entries: the leader numbers on (`WideInstances`), and a packet
  with a number outside the arrays is not followed, since the acceptors' and the
  learner's reads return anything for it.
* The acceptors' ids are 0, 1 and 2, those for which the test's three masks are
  the pairs.  `topo.py` numbers its acceptors from 1, and of their pairs only
  the mask of 1 and 2 would pass.

In `Netronome`:

* The NFP switches threads at an access to external memory and not between
  instructions, and `pkt_inst` is evaluated at each access.  A compiler that kept
  it in a register would remove one of the two races the model has.
* `cans.p4` applies `paxos_tbl` only to packets with both an IPv6 and a Paxos
  header, and its parser reaches a Paxos header through IPv4 only, so the
  program as committed never calls the plugin.  The model is of the functions
  under the rules of `commands.rules`: 0 numbers, 1 and 3 are the phases, 255
  resets.
* `cur_instance` is in the local memory of a core: the model has one core, and
  `seq_func` does not give it up.  The packet it numbers goes on to acceptors
  elsewhere.
* `paxos.c` checks neither the instance nor the round of a packet.  `Requests`
  assumes what `generate_packets.py` sends: an instance within the arrays and a
  round above 0.  An index beyond the arrays would be undefined behaviour, and a
  vote of round 0 would look like none.
* The eight arrays of a value are accessed in one step, and a reset clears one
  instance in one step.  What another thread could see in between belongs to an
  instance that is in `disturbed`, of which no property speaks.

In `PacketGen`:

* `generate_packets` sends whenever the buffer is full and leaves the rest to
  `Drain`.  `Transmit` lets the NIC refuse packets.
* `gen_packet` sends `nb_pkts` packets for each of `nb_pkts` answers, so its
  window grows; `WindowConserved` does not speak of it.
* `client -t 0` leaves the message uninitialised but for its number: its
  packets are not of a fixed type.  The model's packets have no type.

Correspondence worth knowing when reading `Learner`:

* An entry of `states` or `proposerState` exists in the dictionary exactly when
  its `nids` is not empty, because the code stores a state only after adding an
  id to it.
* `deliverInstance` first recurses down from the decided instance to
  `minUncommitedIndex` and then up.  The instances it executes are
  `min .. stop - 1`; the Deferred it returns is that of the first, so the answer
  is the result of the first or "Retry".  A ValueError leaves through every
  level: no answer, and the process ends.
* A packet sent by a learner carries request id 10 and a learner's address as
  its source.  The code answers such a packet too, to a learner's host where
  nobody listens: `respond` has no effect then.
* `handle_pkt_ignore` is only enabled when captures are counted
  (`Count > 0`); otherwise an ignored packet changes nothing.
* The value field's first byte is the request id.  An acceptor's promise
  therefore carries it, and the learner strips it: `val.req` and `val.cmd`.

Abstractions: the IP source address is reduced to "proposer" or "learner"; the
path of a packet through the switches is forgotten; "Success\n" and the text of
a stored value are `"Success"` and the value.  A switch may process a packet it
already processed: the network under it may duplicate.

## 3. The runs

Each run names its module in `PROJECT.json`.  Deadlock is checked in `switch`,
where packets can always be received again.  It is not in the others: the
systems stop when the requests are used up, the packets are lost or the bound
is reached.

| Run | Instance | Checks | Result |
|---|---|---|---|
| `core` | 3 acceptors, 1 replica, put and get, 2 requests | `DatabaseIsPrefix`, `AnswersAreLinearized`, `PromisesReportVotes`, `ChosenIsReported`, `DecisionHasQuorum`, `HolesAreRetried` | hold |
| `replicas` | 1 acceptor, 2 replicas, one restart, bad commands, 3 requests for 2 ids, at most 3 captures | `ReplicasAgree`, `TypeOK`, `SInv`, `DatabaseIsPrefix`, `DecisionsAreFinal` | hold |
| `recovery` | 1 acceptor and 1 replica of 3 and 2 down, fair for the learner's packets | `HolesAreFilled`, `RequestsAreAnswered` | hold |
| `decision` | 3 acceptors, 1 replica | `LearnsTheDecision` | violated |
| `dpdk_order` | 3 acceptors, 2 learners, 2 requests, no backup | `ImplementsTotalOrder` | holds |
| `dpdk_failover` | 1 acceptor, 1 learner, backup, 2 requests, 3 instances, one restart | `IInv`, `RequestPlacedOnce` | hold |
| `dpdk_votes` | 2 acceptors, 1 learner, backup, 2 requests, 1 instance | `DeliveryHasQuorum`, `PromiseBinds` | hold |
| `dpdk_recovery` | 3 acceptors, 1 learner, backup, 2 requests, 1 instance | `RecoveryKeepsDecision` | violated |
| `switch` | leader, 3 acceptors, either learner switch, arrays for 1 of 2 instance numbers, 3 rounds, 2 packets of later rounds | `IInv`, `PromisesBind`, `HistoryIsOneRound`, `ForwardNeedsMajority`, `MajorityIsForwarded` | hold |
| `proposer` | 2 acceptors, a window of 1 that slides over 2 instances, 2 requests, 1 fault, another program's phase 1 | `IInv`, `AcceptAfterPromises`, `RequestsConserved`, `ClosedByVotes`, `WindowSlides`, `RequestsAreAccepted` | hold |
| `netro` | 2 threads, 2 instances, 2 rounds, 4 packets | `IInv`, `SerialPromises`, `SerialRegisters`, `NoOrphanRounds` | hold |
| `workload` | windows and bursts of 3, 8 packets, 2 faults | `IInv`, `WindowConserved`, `LagBelowWindow`, `NeverReportedTwice`, `LoadGoesOn` | hold |

### What the violations show

* `decision`: `handle_p1b` never assigns `hvrnd`, so the promise that completes
  the majority supplies the value, even if it is empty.  A command accepted in
  round 0 by a majority is then decided as `''`.
* `dpdk_recovery`: with three acceptors the third promise is again "a majority
  promised", and the backup sends a second ACCEPT in the same ballot.  The
  first one took the value out of the buffer, so the second carries another,
  or none.  Acceptors take an ACCEPT of an equal ballot, so both values get
  their majority.

Two more flaws of the Python learner are in the model without a run of their
own.  Both learners retry in round 1, their 2As may differ, and `handle_p2b`
counts the votes of a round together whatever their values: a learner may log a
value for which only one acceptor voted.  And a vote of round 1 for an instance
that has a vote of round 0 evaluates `LearnerState`, a name not in scope, which
ends the process (`handle_p2b_error`).

That `ReplicasAgree` holds and is proved nevertheless is the interesting part:
a wrong decision is always `''`, which `json.loads` refuses, so the replica
stops instead of diverging.

### Bounds

* Two requests and `INSTANCE_COUNT = 3` (instance 0 is never given out) are the
  least for a hole: instance 2 decided while 1 is missing.  A learner's 1A, the
  promises, its 2A and the votes all happen, twice where two replicas recover.
* Three acceptors are the smallest number where a majority leaves one out.
  `replicas` uses one acceptor: it is about processes, not quorums; what quorums
  add to `ReplicasAgree` and `SInv` the proofs cover.
* `MAX_REQ_ID = 2` with `MaxSubmits = 3` makes the request id overflow.
* `Count = 3` is the least that lets a learner fill a hole (a vote for the later
  instance, a promise, a vote for the earlier one) and stops it anywhere before.
  The other runs do not limit captures.
* `MaxRestarts = 1`: what a second restart adds is again an empty replica.

* `dpdk_order`: three acceptors give the late third vote that makes libpaxos
  drop a closed instance; two instances can close out of order; two learners
  can be at different places.
* `dpdk_failover`: three instances let the backup skip one; a buffer for one
  value overflows with two requests; the number of acceptors does not matter to
  where a request is proposed.
* `dpdk_votes`: with two acceptors a quorum is both (one vote is not enough), and the
  primary and the backup compete for the one instance.
* `dpdk_recovery`: three acceptors are needed for a promise after the majority.
* `switch`: the masks are written for three acceptors.  One entry in the arrays
  is enough, since nothing relates two, and a reset or a wrap gives it out again;
  `WideInstances = 2` lets the P4-16 leader leave the arrays.  Three rounds let a
  promise report a vote of round 0 or 1 and a late vote of an old round follow a
  reset of the mask.  One value is enough to tell a vote from none; several
  values are covered by the proof.
* `proposer`: two acceptors need two promises, so a repeated one must not count
  twice (`const.h` has `NUM_ACCEPTORS` 1, where it could not matter).  A window of
  one over two instances slides, and the client's packet that comes first finds it
  full, as in the code, where `lcore_main` has filled it before.  Ballot 14 of
  the other program lies between the first two of the proposer, so it preempts,
  and is preempted.  Two faults and a wider window are covered by the proofs.
* `netro`: two threads show every race of two packets; four packets allow two
  overlapping ones, a reset and one that looks at the result.  `InstanceNumbers =
  2` lets `cur_instance` wrap.
* `workload`: bursts of three leave every remainder in the buffer; eight packets
  are more than two windows, so held-back instances are released.

`SInv` and `IInv` are the inductive invariants of section 4, `TypeOK` their first
conjunct.  TLC checks them on the reachable states of these instances; the
proofs hold for all values of the constants.

### Fairness

`sniff` calls `handle_pkt` for every packet: weak fairness of `Learn` for a
running replica.  A switch that is up processes what a link delivers: weak
fairness of `Promise` and, per instance and sender, of `VoteOn` says that the
link delivers some of what is sent.  `Recovery` asks that only of the packets
learners send and of their answers, so requests and their 2As may be lost;
`RequestsAreAnswered` is about requests the live acceptors have voted for.
Nothing asks a process to be restarted.  Votes for the same instance and sender
are one action under fairness: among several packets a switch is only sure to
handle one.

`ProposerPaxos`: both cores run and the periodic timer fires, so `Start` and
`Timeout` of each instance are weakly fair; the network loses at most
`MaxFaults` packets and delivers the others, one after the other for each
sender and instance.  Neither clients nor the other program must act.

`Workload`: the generator's core runs, so `Start`, `Drain` and `Receive` are
weakly fair, and what is not lost arrives.  For `Drain` this needs an
iteration of the loop longer than the drain interval (100 ns and 1 us), because
`prev_tsc` is set in every iteration; interrupts provide one now and then.  The
statistics timer need not fire.

## 4. What is proved

Every safety property of a passing run is also a theorem, for all values of the
constants that satisfy the named assumptions: any number of acceptors, replicas,
learners, threads, instances, requests, restarts and faults.

| Module | Theorem | States |
|---|---|---|
| `NetPaxos_proofs` | `Invariance`, `TypeCorrect` | `Spec => []IInv`, `Spec => []TypeOK` |
| | `Consistency` | `Spec => []ReplicasAgree` |
| | `PromisesAreHonest` | `Spec => []PromisesReportVotes` |
| | `ChosenSurvives` | `Spec => []ChosenIsReported` if `num_acceptors` is odd |
| `NetPaxosLearner_proofs` | `LearnerInvariance` | `Spec => []LInv` |
| | `HolesRetried` | `Spec => []HolesAreRetried` |
| | `DecisionsHaveQuorums` | `Spec => []DecisionHasQuorum` |
| | `Finality` | `Spec => DecisionsAreFinal`, an action property |
| `NetPaxosStore_proofs` | `StoreInvariance` | `Spec => []SInv` |
| | `StoreIsPrefix` | `Spec => []DatabaseIsPrefix` |
| | `Linearized` | `Spec => []AnswersAreLinearized` |
| `DpdkPaxos_proofs` | `Invariance`, `TypeCorrect` | `Spec => []IInv`, `Spec => []TypeOK` |
| | `PlacedOnce` | `Spec => []RequestPlacedOnce` |
| | `QuorumDelivers` | `Spec => []DeliveryHasQuorum`: a majority voted in one ballot, one of them at least for the value |
| | `PromisesHold` | `Spec => []PromiseBinds` |
| | `Refinement` | `Undisturbed => (Spec => ImplementsTotalOrder)` |
| | `UndisturbedKeepsDecision` | `Undisturbed => (Spec => []RecoveryKeepsDecision)` |
| `ProposerPaxos_proofs` | `Invariance`, `TypeCorrect` | `Spec => []IInv`, `Spec => []TypeOK` |
| | `PromisesFirst` | `Spec => []AcceptAfterPromises` |
| | `Conservation` | `Spec => []RequestsConserved` |
| | `Closing` | `Spec => []ClosedByVotes` |
| | `Sliding` | `Spec => []WindowSlides` |
| `SwitchPaxos_proofs` | `Invariance` | `Spec => []IInv` |
| | `PromisesHold` | `Spec => []PromisesBind` |
| | `OneRound` | `Spec => []HistoryIsOneRound` |
| | `NothingForwardedEarly` | `Spec => []ForwardNeedsMajority`, P4-14 |
| | `NoMajorityMissed` | `Spec => []MajorityIsForwarded`, P4-14 |
| `Netronome_proofs` | `Invariance` | `Spec => []IInv` |
| | `PromisesConfined` | `Spec => []SerialPromises` |
| | `RegistersConfined` | `Spec => []SerialRegisters` |
| | `ResetForgets` | `Spec => []NoOrphanRounds` |
| `Workload_proofs` | `Invariance`, `TypeCorrect` | `Spec => []IInv`, `Spec => []TypeOK` |
| | `Conservation` | `Spec => []WindowConserved` |
| | `LagBounded` | `Spec => []LagBelowWindow` |
| | `ReportedOnce` | `Spec => []NeverReportedTwice` |

### Assumptions

They are the named ASSUMEs of the modules, and TLC evaluates them in every run.
Most only give the constants their types and keep special values (`Empty`,
`Zero`, `NoValue`, `Garbage`) apart from the clients'.  Those that say more:

* `LearnerAssumption`: `num_acceptors` in `paxos.cfg` is the number of acceptors.
* `NoWrapAssumption`: one proposer process runs out of its 255 request ids before
  the coordinator runs out of instances.
* `CommandsAssumption`: only the HTTP handlers make commands.
* `RteAssumption`: there is an acceptor (`NUM_ACCEPTORS` is 1 in `const.h`).
* `ProposerAssumption` of `DpdkProposer`: the window is not empty, and finitely
  many packets come from clients, so that they can be counted.
* `P4Assumption`: the three acceptors of the quorum masks are distinct, and the
  instance field has at least as many values as the arrays have entries.
* `GenAssumption`: burst and window are not empty.

### The demo: `IInv`, `LInv`, `SInv`

`ReplicasAgree` is not inductive.  `IInv` adds

* `Numbering`: the requests the coordinator numbered and those on the link are
  no more than the ids used, so the register does not wrap and an instance has
  one request;
* `Provenance`: a value in a message or a vote register is the one the
  coordinator gave this instance, or zeros.  Recovery can only move such values
  around;
* `LearnerKnows`: so is what a learner counts, logs and, not being zeros,
  executes; an executed instance is finished, hence never decided again;
* `RegistersRemember` and `PromisesReportVotes`: an acceptor's registers are
  never behind the messages it sent.

`Consistency` follows: an executed command is not zeros, so it is the
coordinator's.  `ChosenSurvives` needs that two majorities meet (`QuorumsMeet`),
which for `ceil((n + 1) / 2)` in integer arithmetic is true of odd `n` only;
the assumption is part of the theorem.  Together with the violation of
`LearnsTheDecision` it says where the fault lies: a majority of promises always
shows the chosen command, and it is `handle_p1b` that loses it.

`LInv` adds what a learner's tables say of the votes: the acceptors of an entry
did vote in its round (`EntriesCountVotes`), nothing but a 1A of `retryInstance`
starts a takeover (`TakeoversBeginWith1A`), the log ends at `maxInstance`.
`HolesAreRetried` becomes inductive with these: the step that leaves a hole
is also the step that asks for it.

`SInv` adds that a database is what the replica's own log leaves, as far as it
executed it.  `ExecuteAll` is a recursive function over the length of the log.
That two logs with the same commands leave the same database, and that one more
command is one more `execute`, are proved by a least counterexample: the
induction theorems of the library cannot be instantiated by the provers, but
the least element of a set of naturals (`WFMin`) can be had.

### The DPDK programs

`RequestPlacedOnce` needs to know where a request is: `RequestsHeldOnce` says
that it waits at the switch, or in one place of the backup's buffer, or was
proposed, and `RequestsTraceable` that recovery finds it only in the instance
where it was proposed.  `DeliveryHasQuorum` needs `LearnersKnow`: libpaxos closes
an instance when the counted acceptors' last votes are of `last_update_ballot`,
and `PromiseBinds` and `RecordsRemember` tie these to packets that were sent.

The refinement is proved for `Undisturbed` deployments, without a backup and
without a restart of the coordinator.  There an instance has one ACCEPT
(`NumberedOnce`), so all its votes are for the same request, and a learner that
delivers the next instance appends the next element of the order.  Both
hypotheses are needed: a restarted coordinator numbers from 1 again, and the run
`dpdk_recovery` shows what the backup does.

### The proposer

A handler is a chain of operators that passes on a proposer and packets, so the
invariant is stated of any such pair and followed through the chain: `Good` (the
types, `Ordered` and `Backed`) holds after each operator, and `Kept` after the
last, which refills the window.  `Ordered` says that the window is the interval
that ends at `next_prepare_iid`; `proposer_accept_all` takes a lower part of it
(`TakenAreLowest`), so an interval remains, and `Missing` continues it.  `Backed`
says that the acceptors in a table did promise or vote in the ballot of the table,
`Truthful` the same of the packets on their way, and both survive the acceptors'
steps because `answers` only grows (`MoreStaysBacked`,
`MoreStaysTruthful`).  Requests are counted by `Total`, the queue and the
instances that left phase 1.

### The switches

`HistoryIsOneRound` and `MajorityIsForwarded` follow the learner's registers
through a vote of the current, a newer and an older round.  The extra parts are
`PacketsAreFilled` and `RegistersRemember`, which exclude that a vote carries
no acceptor or that an acceptor's registers are behind its packets.

### Netronome

Nothing holds of registers that two threads write at once, so the properties
exclude the instances in the history variable `disturbed`.  What makes this
inductive is `Alone`: a thread in the middle of a packet is the only active one
and `pkt_inst` still names its instance, or both the instance it read and the
one it will write are disturbed.  `Followed` says what a thread that is alone has
read and written so far; `ResetsClear` that of several resets under way at least
one has a clean array behind it; `Answering` that a round without an answer belongs
to a thread that is about to give one.

### The load generators

The invariant counts: packets are in one place (`InOnePlace`), and
received, travelling and lost ones add up to the numbered ones (`Accounted`), by
the cardinalities of disjoint sets.  For the lag of the learner `InOrder` adds
that, while nothing is lost, the instances from `current_iid` on are exactly
those on the wire or held back.

### Only model-checked

Liveness (`HolesAreFilled`, `RequestsAreAnswered`, `RequestsAreAccepted`,
`LoadGoesOn`), since the prover does not handle fairness.  The two violations are
counterexamples of TLC.

## 5. What is not modelled

* The path of a packet in L2 (`smac`, `dmac`, `mcast_src_pruning`), checksums,
  parsing: `msgs` allows every order and multiplicity they could produce.
* The `timeout` of `learner.py`'s `start` (a learner that ends by itself is a
  crash followed by a restart), the web page, the test script.  That `count`
  counts packets where the repository's README speaks of requests is visible in
  `Capture`, and is not a run.
* The crash of the coordinator switch: with s1 down no request is numbered, and
  replicas do not even hear the answers to their own 1As on the port they sent
  them from.
* DPDK: packet buffers.  A packet in a transmit buffer is a packet in flight.
  The learner's reuse of a queued buffer after a partial transmission
  (`learner/main.c:167`) and the proposer's free of a packet the NIC has taken
  (`proposer/main.c:64`) can garble a packet; the models have it lost, at worst.
  Races inside libpaxos' hash tables, which `check_timeout` reads while the other
  core writes, are below the models too.  Also left out: ARP and ICMP answers,
  the latency figures, LevelDB, the timers behind `ORDER_DELIVERY`, libpaxos'
  storage back ends and trimming.
* P4-16: what the learner does with instance numbers outside its arrays.  The shipped
  `config-*.txt` name tables and actions the programs do not have
  (`forward_tbl`, `set_UDPdstPort`); the model takes `transport_tbl` to forward
  what is not to be dropped.
* Netronome: the timestamp functions, the P4 pipeline around the plugin, several
  cores.
* `bluespec/Paxos.bsv`: four handlers of one instance that return a state code
  to a test bench.  Nothing sends a message or connects it to another part.
* Vendor and generated code: `main.c`, `bmv2/main.c`, `dpdk_p4@elte/` (a
  controller that fills table messages), `dpdk/include/khash.h`; set-up scripts;
  the OpenFlow controller, which installs static flows once.

## 6. Plan

1. Done: the bmv2 demo, the DPDK coordinator, acceptor, learner and backup, their
   composition and the abstract `TotalOrder`; the DPDK proposer; the switch
   learner with the P4-16 leader and acceptor; the Netronome functions; the load
   generators.  The inductive invariants of all of them, and the theorems of
   section 4.
2. Next: `NetPaxos` shown to implement `TotalOrder`, the replicas' executed
   commands being prefixes of the coordinator's order, between restarts.
3. What `UndisturbedKeepsDecision` leaves open: which restriction of the backup,
   short of not deploying it, keeps decisions.
