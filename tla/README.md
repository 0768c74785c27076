# A TLA+ verification of Rabia

Rabia (`rabia-rs`) is a Rust implementation of the Rabia randomized consensus protocol for state
machine replication: an engine that orders batches of commands, a TCP transport below it,
persistence and batching beside it, replicated state machines on top (a key-value store with change
notifications, a ledger, a counter), and a test harness with a simulated network. This directory holds TLA+ modules translated from that code, TLC configurations that check
them on small instances, and TLAPS proofs for every size of instance.

Paths below are relative to the repository; `PROJECT.json` maps every definition to its lines.

## 1. Inventory

### Consensus engine (`rabia-engine/src/engine.rs`, `state.rs`)

*State, per node*: `current_phase` and `last_committed_phase` (counters), `phases` (a `PhaseData`
record per phase: proposed value, votes of two rounds, decision, batch), `pending_batches`,
`sync_responses`, `active_nodes`; the state machine; what `PersistenceLayer` stored last.

*Operations*: commands from clients and operators (`ProcessBatch`, `ForcePhaseAdvance`,
`TriggerSync`), one handler per message type (`handle_propose`, `handle_vote_round1`,
`handle_vote_round2`, `handle_decision`, `handle_sync_request`, `handle_sync_response`), a cleanup
timer, `initialize` after a start.

*Interaction*: `run` is one task per node; it takes a command, a message or a timer tick and
finishes it before the next. Nodes talk only through the transport. A proposer broadcasts
`Propose`; each receiver answers the proposer alone with a round 1 vote; a proposer with a quorum
of round 1 votes broadcasts its round 2 vote; a node that counts a quorum of equal round 2 votes
decides, applies the batch, commits, saves and broadcasts `Decision`.

*Hard*: every node numbers phases with its own counter, so proposals of different nodes meet in one
record; votes, Decisions and sync responses cross; a crash brings back saved counters while old
messages are still under way; the steps of `make_decision` can fail one by one; records are
forgotten by a timer.

*Correct when*: decisions of a phase agree and are final; a decision needs a quorum behind it; only
proposed batches are applied; counters stay ordered; proposals are voted on and decided.

### Messages, phase records, validation (`rabia-core/src/messages.rs`, `validation.rs`)

Value types: vote counting against a quorum, and which messages a node rejects. Correct when one
value at most has a quorum and what a node sends is accepted by its peers.

### Persistence (`rabia-core/src/persistence.rs`, `rabia-persistence/src/file_system.rs`)

*State*: `state.dat` and `state.tmp`. *Operations*: `save_state` (write the temporary file, rename
it) and `load_state`. *Hard*: a crash or an error between two system calls. *Correct when* a load
never meets a partly written file and a save that returned is what the next load sees.

### Command batching (`rabia-core/src/batching.rs`)

*State*: the buffer, the adaptive batch size, statistics; two channels and a timer for the
asynchronous variant. *Operations*: `add_command`, `flush`, `update_config`; the task's `select!`
loop. *Hard*: capacity below the batch size, a configuration changed under a full buffer, commands
that only the timer moves, a handle dropped with commands under way. *Correct when* no command is
lost, doubled or reordered, statistics add up, everything is batched eventually, the task ends.

### Key-value store (`rabia-kvstore/src/store.rs`) and notification bus (`notifications.rs`)

*State*: a sharded map, a version counter, operation counts; subscribers and statistics, each
behind a lock. *Operations*: set, delete, reads, clear, batches, snapshot, restore; subscribe,
unsubscribe, publish, get_stats, cleanup. *Hard*: several clients between the look-up, the size
check and the insert of `set`; versions drawn after the write they report; two locks taken in both
orders. *Correct when* notifications tell the contents, the key limit holds, versions are unique,
publish leaves nobody out and calls return.

### TCP transport (`rabia-engine/src/network/tcp.rs`)

*State*: known peers, one connection entry per peer, streams with queues, dials in progress.
*Operations*: start, dial with retries, handshakes in both directions, registration, send,
broadcast, read, add, remove and reconnect peers. *Hard*: both ends dial at once and replace each
other's entries; a node gives up before its peer listens; crashes inside a handshake; stale
entries. *Correct when* nodes that know each other end up connected, queued messages arrive and
stay in order.

### Cluster membership (`rabia-core/src/network.rs`, the handlers in `engine.rs`)

*State*: the monitor's `connected_nodes` and `has_quorum`; the engine's `active_nodes`, `has_quorum`
and `is_active`. *Operations*: `update_connected_nodes` turns a change of connections into several
events, the engine's `NetworkEventHandler` takes them one by one. *Hard*: further changes come while
events are waiting; the monitor starts from the assumption that everybody is connected and the
engine from what it finds. *Correct when* an engine that has handled its events takes batches
exactly if the monitor sees a quorum.

### State machines (`rabia-core/src/smr.rs`, `state_machine.rs`, `examples/*_smr`, `custom_state_machine.rs`)

*State*: a counter; accounts and transactions; keys with versions; text values. *Operations*:
`apply_command(s)`, `serialize_state` and `deserialize_state` (or snapshot and restore), clone.
*Hard*: replicas apply the same log at different times, by different clocks, with random ids and hash
maps of their own, and take over each other's states in the middle of it; commands of several checks
and several changes; machine integers. *Correct when* the same log gives the same state and the same
answers, the books balance, and a refused command changes nothing.

### Network simulator and test harness (`rabia-testing`)

*State*: registered nodes, conditions, partitions, one queue of pending messages, a channel per
node, statistics, each behind a lock of its own; the script of a scenario, its timers, the counts of a
benchmark. *Operations*: `send_to`, `broadcast`, `receive`, delivery, partitions, conditions, nodes
that leave and join; `run_scenario` (submit, inject faults, ask every node, judge);
`run_performance_test`. *Hard*: a send takes the locks one after the other while faults come and go;
overlapping faults with timers that undo each other; engines that answer late or have ended.
*Correct when* every message is accounted for, links keep their order, partitions hold, faults pass
and a scenario comes to a verdict.

### The rest

Leader selection, memory pool, serialization, the in-memory network, benchmarks and example
programs: see section 7.

## 2. Modules

| module | models | extends or uses |
|---|---|---|
| `PhaseData` | the record of a phase and the vote count | |
| `RabiaEngine` | a cluster of engines with FIFO links | `PhaseData` |
| `MCRabiaEngine` | views, budgets and symmetry for TLC | `RabiaEngine` |
| `RabiaEngineProofs` | where decisions and applied batches come from; the engine as it stands; agreement, stability, synchronisation; what a cluster at rest has done | `RabiaEngine` |
| `StateStore` | abstract: what `PersistenceLayer` promises, an atomic register | |
| `FileSystemPersistence` | the two-file protocol; implements `StateStore` | `StateStore` (INSTANCE) |
| `FileSystemPersistenceProofs` | `state.dat` is never torn; the refinement | |
| `CommandBatcher` | the batcher | |
| `AsyncCommandBatcher` | the task, its channels and its timer, or a batcher used directly | `CommandBatcher` |
| `CommandBatcherProofs` | theorems about the batcher | `CommandBatcher` |
| `KVStore`, `MCKVStore` | the store, one access to shared state per step | |
| `KVStoreProofs` | theorems about the store | `KVStore` |
| `NotificationBus` | the bus with its two locks | |
| `NotificationBusProofs` | a publish leaves nobody out | `NotificationBus` |
| `MCServices` | the batcher, the files and the bus for TLC; they share nothing, and a behaviour is one of one of them | `AsyncCommandBatcher`, `FileSystemPersistence`, `NotificationBus` |
| `TcpNetwork`, `MCTcpNetwork` | nodes, dials, streams, messages | |
| `TcpNetworkProofs` | messages stay in order | `TcpNetwork` |
| `CounterSMR`, `BankingSMR`, `KVStoreSMR`, `KVStateMachines` | the state machines, as operators from a state and a command to a state and an answer | |
| `SmrReplicas`, `MCSmrReplicas` | replicas of one of these machines working through one log | the four above (INSTANCE) |
| `SmrReplicasProofs` | replicas agree, refusals change nothing, the books balance | `SmrReplicas` |
| `NetworkSimulator` | the simulated network | |
| `Membership` | the monitor, its events and the engine's view | |
| `TestCluster`, `MCTestCluster` | the two composed, with the drivers of `rabia-testing` | `NetworkSimulator`, `Membership` (INSTANCE) |
| `TestClusterProofs` | theorems about the simulator and the membership | `TestCluster` |

### How the models correspond to the code

**RabiaEngine.** One action per handler; a handler runs to its end without giving way to another
handler of the same node, so it is atomic, with every early return as a disjunct. `net` is one FIFO
queue per link. Votes drawn by the random generator are choices over what it can return. A `Propose` that
fails validation or finds no quorum is consumed without effect. `make_decision` follows the order
of the code: record the decision, apply, commit, save, broadcast; a batch in `FailingBatches` is
applied part way (its earlier commands stay) and nothing after it happens; a phase above the
node's counter applies and then fails to commit. `restart` is a crash followed by
`initialize`. Timestamps, `state_version`, batch ids and heartbeats change nothing that a handler
looks at and are left out. `proposals`, `submitted` and `cast` (the round 2 votes that `proceed_to_round2` drew) are history.

`Recorded` needs a word. `EngineState::update_phase` changes a phase record only if it exists,
`get_phase` returns `None` otherwise, and the one operation that creates records,
`get_or_create_phase`, has no caller. **The program as it stands is the instance `Recorded = {}`**,
and `Inert` and `Termination` say what follows. Instances with `Recorded # {}` exercise the voting
handlers, which are most of the engine, on records that exist before the first message. All
safety theorems except `InertCorrect` hold for every `Recorded`.

**FileSystemPersistence.** One action per system call of `save_state`; each may fail, and the
process may crash before each. `Torn` is a created and not completely written file.

**CommandBatcher.** `add_command(elapsed)` takes the outcome of the time check as parameter.
`accepted` and `emitted` are history. **AsyncCommandBatcher** wraps it: the commands in the channel
are those numbered `calls+1..sent`; `recv_command`, `recv_closed` and `tick` are the branches of
`select!`.

**KVStore.** A client's operation is a walk through stages, one per access of the map, the version
counter or the bus. Every key is a shard of its own, which gives walks over the map the most
interleavings. The exception is the size check (`HasRoom`): `DashMap::len` adds up the shards one after
the other, and the model reads the size at once, so `KeysBounded` does not speak of a count that
changes while it is taken. `ChecksumMayDiffer` keeps what `calculate_checksum` really does: it hashes entries
in the iteration order of a `HashMap`, so a restore of two or more keys may be refused.

**NotificationBus.** Who holds a lock follows from where the threads are; `waiting` has the writers
that found their lock taken and, as in parking_lot, keep new readers out.

**TcpNetwork.** `dial` has the `connect_to_peer` calls in progress, by the connection manager or by
the owner; `streams` has every stream ever opened, with the stage of the accepting task, the ends
that read it and the queues in both directions. A stream replaced in `connections` stays open and
is still read, because its handler holds it.

**State machines.** A command is a record, what parsing finds; its answer keeps what a client could
tell apart. What a command takes from the process that applies it is its environment: the clock, which
the ledger and the store write into accounts, transactions and entries and so into the serialized
state; the random ids of transactions, which are as many different values as there are processes and
transactions (`generate_transaction_id`); and the order in which a hash map is walked, which `ListAccounts`
and `LIST` answer in, any order at every call (`Orders`). Bytes that are no text are repaired by
`InMemoryStateMachine` (`from_utf8_lossy`) and refused by `SimpleKVStateMachine`. Integers are the machine's: `CounterSMR` checks them, `BankingSMR` checks deposits, and
the credit of a transfer is unchecked, so it wraps or, in a build with overflow checks, panics
(`overflow_checks`, which makes "bank" and "checked_bank" two machines). A panic ends the replica.
A transaction history is sorted by rank: position *p* has the transaction before which *p*-1 others
come, by time and, as the sort is stable, by age. **SmrReplicas** has the log that consensus would
deliver and lets each replica apply it at its own pace, by its own clock; a workload picks the
machine and the batches that may come. `serialize` and `deserialize` may happen between any two
batches, as the engine's synchronisation does it for a replica that lags behind. Who calls them is
left open: `smr.rs` declares the interface and the engine still uses the older `state_machine.rs`,
whose two implementations are machines here as well.

**NetworkSimulator.** One action per lock of `send_message` (count, look at the partitions, draw the
loss and queue), one for a message delivered, one per other operation. Latencies and bandwidth only
set the time at which a message is due; `deliver_pending_messages` looks at the head of the queue
only, so a time that is not abstract would not change the order. A partition is `live` until its
duration is over and stays in the list until the cleanup.

**Membership.** `update_connected_nodes` and the event handlers, which exist in the code with
nothing between them: no caller hands the monitor's events to the engine. The queue `events` stands
for a caller that hands them over in order.

**TestCluster.** `harness` and `benchmark` are the two drivers, `test` the direct calls that
integration tests make. Of an engine only its interface is left (a command channel, a number of committed
phases that grows, sends), because `RabiaEngine` has the rest. A `plan` fixes the driver, its script and
the bounds of a behaviour. `NodeCrash` is `remove_node`: the node is no longer a destination but its
engine goes on and its messages are still delivered, and it never comes back. `SlowNode` and
`MessageReordering` are only logged by `inject_fault`. The engine answers `Shutdown` with an error
that its loop logs, so an engine ends only when its channel is closed.

**Budgets.** `Budgets` (engine, TCP) is a set of records of bounds on faults and operator commands;
`Init` picks one and actions use it up. So one run covers several kinds of disturbance,
each at every point of every behaviour.

Definitions commented as *mutant* are wrong on purpose. `PROJECT.json` pairs each with a property,
which TLC finds violated when the mutant takes the place of the original.

## 3. Runs

| run | instance | checks | states |
|---|---|---|---|
| `engine_shipped` | `Recorded = {}`, 3 nodes, 2 batches, 2 phases, some nodes may start isolated; one forced advance, one sync, one lost message | `Inert`, `SyncBringsState` | 240 000 |
| `engine_disturbed` | phase 1 recorded, 3 nodes, 2 batches (one failing), 2 phases; a restart, or a sync with failing restores, or forced advance + cleanup + loss | `TypeOK`, `Provenance`, `DecidedByProposers`, `AppliedWasProposed`, `CommittedWithinCurrent` | 820 000 |
| `engine_phase` | 3 nodes, 3 batches, one phase, all coins | `DecisionAgreement`, `DecisionStable`, `ProposerVotes`, `MatchingVotesDecide` | 1 180 000 |
| `engine_termination` | as shipped, fair; expects a violation | `Termination` | 2 000 |
| `services` | batcher, used directly or by its task: 4 configurations, 6 commands, one `update_config` of a direct owner | `NothingLost`, `StatsAddUp`, `FlushEmpties`, `EveryCommandBatched`, `TaskStops` | 239 000 |
| | files: 3 states, unbounded saves, failures and crashes | `NeverTorn`, `ImplementsStore` | |
| | bus: 3 threads, 1 subscription, 4 calls | `NobodyLeftOut`, `CallsReturn` | |
| `batcher_adapts` | an adaptive batcher of size 12, 6 commands; expects a violation | `AdaptsToTimeouts` | 300 |
| `kv` | 2 clients, 3 keys, 2 values, `max_keys = 2`, 3 calls or batches | `EventsTellState`, `KeysBounded`, `VersionsUnique` | 520 000 |
| `tcp` | 2 nodes that know each other, 2 attempts; a removal, or a reconnect with 2 messages, or a break with 2 messages, or timeout + crash | `InOrder`, `MeshForms`, `QueuedArrives`, `RestartedConnects` | 148 000 |
| `smr` | 2 replicas, 8 workloads, a log of 3 batches, integers -4..3, a snapshot, a restart, one direct use of the store | `ReplicasAgree`, `AnswersAgree`, `Ledger`, `Solvent`, `RefusedChangesNothing` | 1 150 000 |
| `smr_deterministic` | 2 replicas of the store, the ledger and the machine that lists its keys, a log of 3 batches, clocks that tick once; expects a violation | `Deterministic` | 1 000 |
| `cluster` | 3 nodes; direct calls, changing views, 4 scenarios, benchmarks with and without a quorum | `Accounted`, `LinkOrder`, `PartitionsHold`, `QuorumFollows`, `QueueDrains`, `ScenarioEnds`, `FaultsPass` | 233 000 |
| `benchmark_answers` | 3 connected nodes, the benchmark; expects a violation | `ResponseKept` | |

What they show, beyond the sentence each has in `PROJECT.json`:

* **engine_shipped, engine_termination.** No batch is ever decided by the engine as it is wired:
  nothing creates phase records. PROTOCOL_GUIDE.md:338 promises that every proposed batch is eventually
  decided; the counterexample is any fair behaviour with one proposal. `SyncBringsState` is the
  part of synchronisation that works: a response computed against an old phase still comes with a
  snapshot whenever it would raise the node's phase. It does not survive a restart of the
  requester between request and response, so that run has no restarts.
* **engine_disturbed.** Votes travel in an unusual way: round 1 votes go to the proposer alone, so
  only proposers vote in round 2. The consequence, that no phase is decided unless a quorum of
  nodes proposed *their own* batch in it, is `DecidedByProposers`. It holds under
  all the faults.
* **engine_phase.** Although a node answers each proposer of a phase with a freshly drawn vote
  (weak_mvc.ivy assumes one round 1 vote per node and phase) and proposals of different nodes
  share a phase id (PROTOCOL_GUIDE.md:70 calls ids unique), decided *values* agree. Decided batches
  need not: a node records the batch it saw first, and the model shows a V1 decision applied with
  different batches on different nodes. `ProposerVotes` and `MatchingVotesDecide` are about a cluster
  at rest, which with fair message handling every cluster reaches whose clients stop: with
  equal votes of a quorum every node, also one that proposed nothing, has the decision; that needs all batches valid and applicable, because a batch
  that fails ends `make_decision` before its broadcast.

  **Agreement and stability are about clusters of up to four nodes.** There a proposer gets just a
  quorum of round 1 votes, so `proceed_to_round2` runs once. From five nodes on it runs again for
  every vote beyond the quorum (`handle_vote_round1` does not look whether the node has voted in round
  2), and a node that first drew a coin may then broadcast the other value; receivers that count at
  different moments decide differently. Simulation of the same model with five nodes and a recorded
  phase violates both properties. That state space is too large to be searched in a run of this
  project, and the program as it stands decides nothing at all.

  A batch may be applied more than once: `make_decision` does not look whether its phase is committed, and
  runs again for every further round 2 vote and Decision. The model does the same. No property forbids it,
  because nothing in the repository promises one application; SMR_GUIDE.md:68 asks state machines to "handle
  duplicate application gracefully".
* **batcher_adapts.** `BatchConfig::adaptive` is to "Enable adaptive batching based on load", and the comment
  in `adjust_adaptive_batch_size` says that the size decreases "if we're often flushing due to timeout".
  `AdaptsToTimeouts` states it of a batcher whose flushes, five or more, were all timed, and is violated: a
  timed flush is counted as a batch as well, so the ratio of batches to timeouts does not fall below one
  half, and the size, which starts at the maximum, moves neither down nor up. `NeverAdaptsCorrect`
  proves that of every configuration.
* **kv.** Two concurrent `set` calls can exceed `max_keys`; `KeysBounded` says by how much. A batch
  that fails keeps the operations before the failure, though `apply_batch` is documented as atomic.
* **services, the bus.** `unsubscribe` and `get_stats` take the two locks in opposite order and can block each
  other for good; so can a `publish` with failed sends, `get_stats` and any waiting writer of the
  subscribers. `CallsReturn` says that these two circles are the only ones.
* **tcp.** Once a stream between running nodes breaks, its entry stays and
  `connect_to_peer` returns early, so nothing redials although the module's header speaks of
  automatic reconnection; `MeshForms` therefore speaks of behaviours without breaks. After a crash only
  the restarted node's own connections are guaranteed: its peer may register an accepted stream
  that died with the crash after the new one. Two streams between the same nodes can reorder
  messages: when attempts to connect overlapped, and also after `remove_peer` or a crash, because the
  entry goes and the handler of the old stream goes on reading. `InOrder` is about all other pairs.
* **smr_deterministic.** `apply_command` "must be deterministic - given the same state and command, it must
  always produce the same response and resulting state" (`smr.rs`:101), and `is_deterministic` returns
  true. `Deterministic` states that of replicas: after the same batches they serialize the same state and have
  given the same answers. It is violated by one `Set`: entries of the store carry the time at which the
  replica applied it. The ledger does the same with the times of accounts and transactions, and
  also with random transaction ids, which are in its answers too; `ListAccounts` and `LIST` answer in the
  order of a hash map. Only `CounterSMR` and `InMemoryStateMachine` keep to it.
* **smr.** `ReplicasAgree` and `AnswersAgree` say that the damage is confined to what is made up: clock readings and random ids are
  carried along, and nothing else in the state depends on them (`ReplicasAgree`: `Replicated` is the state without
  them, without the store's statistics, and without its version once `create_snapshot`, which draws one, was called on one
  replica); nor do answers, but for the order of lists (`AnswersAgree`). One decision does hang on a clock:
  `GetTransactionHistory` sorts and cuts by times, so replicas may return different transactions for the
  same query, and `Shared` keeps only the set of an uncut history and the length of a cut one. `Solvent` needs overflow
  checks or small sums: the credit of a transfer is not checked, unlike a deposit. `SimpleKVStateMachine`
  ends a batch with an error in the middle; the commands before it stay, on every replica.
* **cluster.** `FaultsPass` holds because every timer puts back the default conditions; it also means
  that a short fault ends a longer one that overlaps it, which the property allows. `QuorumFollows`
  excepts an engine that has heard of no change: one that started before its connections were up
  while the monitor, which assumes that all are, sees nothing to report.
* **benchmark_answers.** `process_batch_request` drops the sender of the answer when it returns, against the
  comment at its end. Only refusals are answered, and `run_performance_test` counts any answer as
  successful: with a quorum every operation fails, without one every operation is a success.

### Bounds

Three nodes are the smallest cluster in which a quorum is not everybody (with two nodes round 2 is
never reached: a proposer gets one answer and needs two). Two batches make proposals collide, three
let all nodes propose, so that two quorums of round 2 voters can differ. One phase has the whole of the voting; the second phase is there for
the counters: commits below and above the current phase, records that are forgotten. All batches of
the runs are valid: an invalid one is refused by the step that also refuses for want of a quorum,
which `engine_shipped` takes, and the theorems cover every set of valid batches. One
fault of a kind can hit between any two steps; the theorems of section 5 have no such bound. Six
commands fill every buffer of the configurations and overflow the small one. Two clients and
`max_keys` below the number of keys reach the overrun; three calls are enough for a restore of two
keys. Three threads are what the longer lock circle needs. Two TCP nodes have every interleaving of
one pair of peers, and entries and streams of different pairs do not influence each other. A log of
three batches with a snapshot and a restart has a replica take over a state in the middle and go on;
balances up to 3 overflow within it. Three nodes on the simulator have a partition with a majority
and a minority side; two partitions, a heal and a broadcast overlap in every order.

Symmetry is used in invariant runs over nodes (and over batches, keys and values where none is
singled out) and over replicas in `smr`; the action properties of `engine_phase` and `smr` are symmetric too.
`CHECK_DEADLOCK FALSE` is set where a bounded system comes to rest.

## 4. Fairness

* Engine: `run` polls the network in a loop, so the head of each link is eventually handled
  (`WF` per link). Nothing is assumed of clients, operators, timers or faults.
* Async batcher: the task is scheduled; `select!` polls its branches in random order, so neither the
  channel nor the timer starves (`WF` of each branch). Clients may stop sending and reading.
* Bus: a thread inside a call goes on when it can. Calls themselves are not forced.
* TCP: every node is started, and tasks that dial, accept and read run. Timeouts, breaks, crashes
  and calls of the owner may happen or not.
* Test cluster: the simulator's task delivers, partitions expire, the timers of faults fire and the
  drivers go on, because each waits for a bounded time only. Engines need not answer. The
  simulator's `stop` is not fair: `run_simulation` looks at the flag when a sleep of 100 ms wins a round of
  `select!`, and every round starts that sleep anew while the delivery tick comes every millisecond. In
  practice it never wins; the model allows it at any time after `shutdown`, which is more than the
  code does, and no property depends on it.

## 5. Theorems

All proofs are checked by TLAPS, for every value of the constants that meets the named
assumptions. These are evaluated by TLC in the runs as well.

| theorem | under | statement |
|---|---|---|
| `TypeCorrect` | | `TypeOK` is invariant |
| `ProvenanceCorrect` | | `Provenance` is invariant |
| `DecidedByProposersCorrect` | | a phase is decided only if a quorum proposed in it |
| `AppliedWasProposedCorrect` | | only batches proposed in such phases are applied |
| `CommittedWithinCurrentCorrect` | | the committed phase never passes the current one |
| `InertCorrect` | `Recorded = {}` | nothing is decided, applied, committed or saved |
| `Agreement` | up to 4 nodes, no restarts | decisions of a phase agree |
| `DecisionsAreStable` | up to 4 nodes, no restarts | a decision never changes |
| `SyncsBringState` | no restarts | a sync response ahead of its requester has a snapshot |
| `ProposersVote` | 3 or more connected nodes, nothing lost | at rest every proposer has cast its round 2 vote |
| `MatchingVotesAreDecided` | 2 to 4 nodes, nothing lost, no batch fails | at rest a quorum of equal round 2 votes is decided on every node |
| `NeverTornCorrect` | | `state.dat` is never partly written |
| `StoreRefined` | | the two files implement the atomic register `StateStore` |
| `NothingLostCorrect` | | accepted commands = emitted commands followed by the buffer |
| `StatsAddUpCorrect` | | batched + buffered + dropped = calls |
| `FlushEmptiesCorrect` | | without `update_config`, less than a batch is buffered and a large enough buffer refuses nothing |
| `NeverAdaptsCorrect` | | the adaptive batch size never changes, which is why `AdaptsToTimeouts` fails |
| `VersionsStayUnique` | | no two notifications have the same version while nothing is restored |
| `KeysStayBounded` | | concurrent calls exceed `max_keys` by less than their number, calls that do not overlap never do |
| `EventsStayComplete` | | without overlaps and restores the notifications of a key chain up to its value |
| `NobodyIsLeftOut` | | a publish has sent once to every subscriber it is done with |
| `MessagesAreAccounted` | | sent = delivered + dropped + lost + under way |
| `LinksKeepOrder` | | messages of a link are received in the order sent |
| `PartitionsStop` | | nothing passes a partition that is there from the count to the queue |
| `QuorumIsFollowed` | | with its events handled, an engine believes what the monitor saw last |
| `MessagesStayInOrder` | | messages between two nodes are read in the order sent while no second stream was opened beside one that is still read |
| `StatesAgree` | | replicas that applied the same batches differ in clock readings and random ids, in the store's statistics and, once it was used besides the log, its version, and in nothing else |
| `SameAnswers` | | replicas give the same answers to a batch, but for clock readings, random ids and the order of lists and histories |
| `RefusalsLeaveContent` | | a batch of which every command was refused leaves what clients see as it was |
| `BooksBalance` | | a bank's accounts exist and hold what the log and the transactions say |
| `BanksStaySolvent` | | no account is overdrawn and transfers keep the sum, with overflow checks or small sums |

*Assumptions.* `PhaseDataAssumption` and `EngineAssumption`: finitely many nodes, valid and failing
batches are batches, views are sets of nodes, bounds are natural numbers, `None` is no value.
`FilesAssumption`: the markers for absent and torn files are no states. `BatcherAssumption`:
configurations are records of natural numbers, so also batch size or capacity zero.
`StoreAssumption`: finitely many clients and keys, calls are lists of operations, and a restore is a
call of its own, as in the code. `SimulatorAssumption` and
`PlansAssumption`: finitely many nodes, a plan is a script of faults with bounds.
`TcpAssumption`: nobody is its own peer, bounds are natural numbers. `SmrAssumption`: the integers
reach below and above zero and the largest amount fits them. `AccountsAssumption`: there are
finitely many account ids (`validate_account_id` bounds their length). `EntriesAssumption`: the marker for an
absent key is no entry. `WorkloadsAssumption`: batches
are sequences of commands of the machine's own command type, in which amounts are machine integers;
any amount may come, negative ones and ones above the limit too. The bus has no assumption: its
theorem holds for any sets.
The column *under* names what a theorem assumes beyond these: "up to 4 nodes" is `NeedsAllOthers`, a
quorum is at least all the others; "no restarts" is `NeverRestarted`; "nothing lost" is `NothingLost`,
a budget without restarts, cleanups and lost messages; "connected" is `WellConnected`, every start-up view
has a quorum; the two theorems about clusters at rest also need valid batches (`BatchesValid`).
`DecisionAgreement` and `DecisionStable` are false beyond `NeedsAllOthers` (section 3), and the runs of
these properties are instances of the same hypotheses.

*Engine: provenance.* A decision says nothing about how it came about, so `DecidedByProposers` is not
inductive. `Provenance` is its strengthening: every message on a link, every record, every
snapshot in a state machine, in a saved state, in a sync response or under way has its
justification in `proposals`. A round 1 vote is only on its way to a proposer; a round 2 vote comes
from a proposer; so a counted quorum of round 2 votes is a quorum of proposers; a Decision
carries that on; snapshots hold only batches justified like that. `proposals` only grows, and
`JustifiedStays` shows that justifications survive; `ProvenanceStep` then leaves each action with
what it adds. A lost message, a restart and a cleanup add nothing. `TypeOK` is needed
throughout for the domains of functions. `CommittedWithinCurrent` is inductive by itself: it
relates the two counters, live and saved.
`InertInv` adds to `Inert` that there are no records, no vote of round 2 and no Decision under way
and only empty snapshots.

*Engine: agreement.* Two decisions of a phase have quorums of round 2 votes behind them, which share a
voter; they agree if that node has cast one vote. Nothing in the code says that it does:
`proceed_to_round2` runs whenever a round 1 vote completes or exceeds a quorum. `RoundOneInv` counts the
round 1 votes instead. A node's counter only grows, so it proposes a phase once; for every proposer
and every other node at most one of these exists: the proposal under way, the vote under way,
the vote counted. With a quorum of all the others, the last of these votes is the only one
that completes it. `CastInv` then says that a node casts one value in a phase, and `BackedInv`
that every decision, in a record or in a Decision under way, is backed by a quorum of such casts, and that
every round 2 vote, counted or under way, was cast. A restart brings back
an old counter and with it a second proposal of the same phase, which is why it is excluded.

*Engine: synchronisation.* `SyncInv`: a request carries a phase that its sender had, so at most the
sender's present one; a response without a snapshot is for a request at least as high as the responder
was, so it is never ahead of the requester, whose counter only grows.

*Engine: rest.* `RestInv` follows the requests of a proposer: every node that it asked has its request or
answer under way or is counted (`AskedInv`), and a proposer with a quorum of votes has cast its own
(`EnoughInv`). With all links empty everybody is counted. `SpreadInv` does the same for round 2 votes:
whoever does not know of a cast vote has it under way (`CastKnown`), and a node with a quorum of
equal votes has decided (`QuorumDecides`). One step needs care: a node does not count again when it casts its own vote,
so the vote that completes its quorum may be its own; then `PairInforms`: another voter of that quorum
has counted them all, or will, and its Decision is under way.

*Persistence.* `RenamesComplete` (the file about to be renamed is the argument of the save) makes
`NeverTorn` inductive and gives the refinement: `rename` is `TakePlace`, a crash or an error is
`GiveUp`, everything else is a call, a return or a stutter.

*Batcher.* `NothingLost`, `StatsAddUp`, `NeverAdapts` and the types are inductive together;
`FlushBatch` is the lemma on cutting a queue at the batch size. `FlushEmpties` is inductive given
these: it needs that the batch size is the configured one.

*Store.* `StoreInv` says for every client where it is in its operation and what it has in its hand.
`SizeInv` counts the clients between the size check and the insert as keys that may come; `AloneInv` is the
sharper count while no calls overlap. `VersionsInv`: every version in a notification, sent or in a
client's hand, was drawn from the counter and by one client. `TellInv`: while calls do not
overlap, the notifications and the one in hand together tell the value of each key.

*Bus.* The read lock on the subscribers is the argument: while a publish is in its loop nobody inserts
or removes. `Numbered` and `Progress` say that its notification is in no inbox before the loop, and in
the loop once in the inbox of each listening subscriber that is no longer pending, in no other.

*Simulator and membership.* `Accounted` is inductive with the types: the set of busy calls gains or
loses one node per step. `LinkOrder` needs the order of the links continued into the calls under way:
whatever a node has yet to queue for a target has a larger number than all it queued, delivered or
heard there (`Later`). `PartitionsHold` needs that a partition found in the way of a message still is
in its way while it exists, and that a new one is another one (`WallInv`). `QuorumFollows` needs
that the last event of a queue is a `NetworkPartition` with the monitor's present view, which holds because
`update_connected_nodes` emits it last, and for every change (`MembershipInv`).

*TCP.* Between two nodes there may be any number of streams even if attempts to connect never overlap: an
attempt whose handshake fails leaves its stream behind, and the accepting end may have registered it
and sent on it. `TcpInv` says that this does no harm. `WiringInv` and `NumbersInv` hold for all nodes: who
the ends of a stream are, and that a node's messages have rising numbers in every queue. The rest is
about pairs that are not `doubled`. `CallInv`: a call is the only one of its pair and has found no
entry. `UseInv`: the dialer uses no stream but the one it has registered, and then no stream of the
other direction was ever used. So messages are read from one stream only, and `OrderInv` says that what was read came
before what is in its queue.

*Replicas: agreement.* Two replicas cannot be compared directly: one may have applied half of the
log and taken the rest over as a serialized state. `SmrInv` says that there is a path: a function from
places in the log to states, each the result of applying the next batch to the one before in one
environment whose clock stands still. A replica, at its place, is in the state of the path up to what the log does not determine (`Same`),
its answers are those of the path, and the serialized state is one that a replica had on it
(`Following`). The work is in the machines: for each of them, a command takes states that are `Same` to
states that are `Same`, with answers that are the same up to `Shared`, whatever the two environments
are (`CommandSame`), and serializing and taking over keeps it. A
batch is followed command by command along its *course*, the values that the recursive
function in `apply_commands` takes.
`RefusalsLeaveContent` goes along a course too: a refused command leaves the content as it was, and a
course of refused commands therefore does.

*Replicas: the books.* `Ledger` relates the accounts of a bank to the log and to its list of transactions,
and is not inductive because a batch is applied as a whole while the books change by command. `Accounted`
is the invariant: with the opening balances *v*, every account holds *v* and the
transactions on it, modulo the width of the integers (`Books`), and *v* is what the first opening of
each account in the places of the log behind the state says (`OpenedWith`). Each of the commands is shown to preserve it,
then a course, then every action (`LedgerInv`, which also follows the serialized state). `Solvent` rests on
`Sound`, a part of `Books`: while all that was paid in fits, or credits are checked, balances are at least zero
and their sum is what was paid in less what was taken out; so no single credit can exceed the
integers either.

*Recursive functions.* What `Sum` and `apply_commands` compute is proved for every input without an
induction theorem that takes a predicate: the numbers (or, for `Sum`, the sizes of sets) for which a claim fails
are a set, a set of natural numbers that is not empty has a least element (`LeastNumber`, from the
well-foundedness of `<`), and there the claim follows from the one before (`UpwardsTo`).

*Only model-checked.* Liveness (`EveryCommandBatched`, `TaskStops`, `CallsReturn`, `MeshForms`,
`QueuedArrives`, `RestartedConnects`, `QueueDrains`, `ScenarioEnds`, `FaultsPass`) is out of this
prover's reach. `Termination`, `ResponseKept`, `AdaptsToTimeouts` and `Deterministic` are false. Every other property of a run, all
invariants and action properties among them, is stated by a theorem.

## 6. What could be added

1. Reordering links in the engine, as a second TCP stream allows.
2. The five-node disagreement of section 3 as a run, with a search that is directed at it.
3. One log for `SmrReplicas` and `RabiaEngine`, once the engine uses the interface of `smr.rs`.

## 7. Not modelled

* Page-cache loss at a power failure (`save_state` never calls fsync).
* Concurrent snapshots of the store have no stated guarantee; they are in the model and no
  property is about them.
* Filters, the broadcast channel and `NotificationListener` of the bus: they select, and do not
  change the rest. `examples/kvstore_smr/src/notifications.rs` is the same file as rabia-kvstore's.
* `BatchProcessor`: a loop over a user callback.
* `LeaderSelector`: no event reaches it, and `update_cluster_membership`, its one caller, cannot be called
  once `run` has taken the engine.
* `MemoryPool`: each pool is one deque behind one lock that a call takes once; only benchmarks and an
  example use it.
* `InMemoryNetworkSimulator` and `InMemoryNetwork`: the one forwards to channels that the other never
  reads, so nodes on it are isolated; `engine_shipped` has nodes that start isolated.
* `state_version`, which only counts updates, and timestamps in the engine.
* Framing, sizes, delays and logging of the transport; heartbeats; clocks in validation (a message
  rejected for its timestamp counts as lost).
* Serialization, error types, constructors, configuration constants: no state.
* Latency percentiles, the ready-made lists of scenarios and performance tests, benchmarks and
  example programs: measurements and parameters. `create_test_scenarios` names fresh node ids and empty
  sets in its faults, so those faults hit no node; the plans of `cluster` name nodes.
