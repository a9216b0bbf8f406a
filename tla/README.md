# Verification of copperDB

copperDB is a property-graph database with vector search, written in Rust. This
directory holds TLA+ models of its concurrent core, TLC configurations that check
them on small instances, and TLAPS proofs of their main properties for every
instance. Source references are to `src/crates/...`; `PROJECT.json` maps each
definition to the lines it models.

## Contents

1. [Inventory](#inventory)
2. [Modules](#modules)
3. [Runs](#runs)
4. [Proofs](#proofs)
5. [What the checks found](#findings)
6. [What is not modelled](#not-modelled)
7. [Plan](#plan)

## Inventory

The program is a workspace of about fifty crates. Most are sequential: a parser, an
evaluator, encoders, scoring, protocol front ends, policies. The crates below hold the
state several threads share, and everything that makes the system hard to test.

**Multi-version store** (`storage/src/mvcc.rs`).
State: `current_version` (the commit counter), `values` (per logical key a chain:
floor, archived versions, head, current value), label and type indexes (current and
historical), `active_readers` (read timestamp -> number of leases), `floor`.
Operations: `begin_snapshot`, `begin_registered_snapshot` and the drop of a lease,
`staged_record_batch` and `publish_record_batch` (called by the commit under the
engine's lock), `read_at`, four prunes.
Hard: a lease is taken in two steps; publication is three (chains, indexes, counter);
prunes take none of the committer's locks and act on a reader list read earlier; the
staged batch holds clones of the chains while prunes rewrite them.
Correct when: a snapshot reads the last commit at or before it, never a later one, for
as long as a lease pins it; no prune loses the newest version; indexes agree with chains.

**Transactions and batches** (`storage/src/lib.rs`, `StorageTransaction`, `BatchWriter`).
State: primary records, indexes and counters in the backend's keyspaces, record caches,
the writes a transaction staged, `batch_commit_lock`.
Operations: `begin_transaction`, puts and deletes, `commit` (discard no-op edges, check
conflicts, take the lock, `commit_locked`), `batch_write`, `rollback`.
Interaction: reads heads and publishes batches in the multi-version store; appends to the
write-ahead log; updates the schema manager; notifies search and embedding after the lock.
Hard: the checks run before the lock; old records come from a cache readers fill without
the lock; every step after the backend batch can fail.
Correct when: commits are whole and in one order; a conflict is reported when there is one
and only then; counters and indexes describe the records.

**Write-ahead log and recovery** (`storage/src/lib.rs`, `WAL`, `recover_wal_transactions`).
State: frames with sequence numbers, the applied marker (in the same backend batch as the
records), the checkpoint file.
Operations: append, replay after the marker, compaction, checkpoint, repair, the append of
an audit record that takes no commit lock.
Hard: a crash at every step; a frame whose batch failed; sequence numbers taken before
the lock of the entries.
Correct when: what a sync covered survives, replay is idempotent and leaves no part of a
commit, no frame is hidden from recovery.

**Schema manager** (`storage/src/lib.rs`, `SchemaManager`).
State: owners of unique values, locks of values and entities with user counts, the
constraints. Operations: reserve, release, rebuild after a failure.
Hard: lock retirement while someone waits; rebuild beside a commit in flight.
Correct when: no two records own one unique value, and no lock is lost or left behind.

**Asynchronous engine** (`storage/src/async_engine.rs`).
State: pending writes per key, the operations a flush took, a channel of requests to one
worker thread that owns the storage engine, `flush_lock`, the mutex of the pending writes.
Operations: write, read through the pending writes, count, flush (on a timer, when the
cache is full, on demand), requeue after a failure, hold, close.
Hard: readers hold the lock a flush needs while they wait for the worker; a flush that
fails meets newer writes; close meets calls that already have a sender.
Correct when: the last write of a key is what is read and what is stored, a flush that
succeeded stored everything before it, every call returns.

**Quorum replication** (`replication/src/lib.rs`, `QuorumReplicator`).
State: term, role, vote, leader, commit and applied index, per-peer indexes, log.
Operations: election, the vote and append handlers, apply, quorum count, snapshots.
Hard: every handler awaits between reading its state and using the answer; two locks.
Correct when: one leader per term, committed entries stay, replicas apply one sequence.

**Coordinator and repair queue** (same file, `CassandraCoordinator`, `DurableRepairQueue`,
`ScheduledRepairWorker`; plans from `topology/src/lib.rs`).
State: the registered health of participants, the records of the queue, what each replay
took. Operations: write and read at a consistency level, hinted handoff, read-repair
probes, scheduled and manual replay, shutdown.
Hard: lost answers, equal records that share an identity, replays that overlap, a batch
that dead nodes fill, a queue that fails between a replay and its record's deletion.
Correct when: a write that was acknowledged reaches every replica it planned, a write that
was refused is not replayed, a quorum read does not miss a quorum write.

**Transaction sessions and clock** (`txsession/src/lib.rs`, `topology/src/lib.rs`).
State: sessions and transactions in two concurrent maps, expiry times; the clock's epoch
and counter, two atomics. Operations: open, touch, record an error, commit, roll back,
delete, two cleanups; issue, reserve, observe, advance the epoch.
Hard: no lock spans two maps or two atomics.
Correct when: a transaction ends once and is not leaked, ids are given out once and in
order, a bookmark orders what follows it.

**Bolt and HTTP servers, embedding runtime, search** (`bolt`, `server`, `engine`, `search`).
Per-connection state machines, claims of nodes to embed, index maintenance behind
notifications. Hard: cancellation, claims and expiry, notifications out of order.

The remaining crates are listed in `PROJECT.json` with the reason each is left out.

## Modules

| Module | Models |
|---|---|
| `MvccStore` | the multi-version store, its committer, leases and prunes |
| `StorageTransaction` | transactions, batches, record caches and counters |
| `DurableCommit` | the write-ahead log, its batches, syncs and maintenance, crashes and recovery |
| `AtomicCommits` | what transactions are promised, the abstract specification of `StorageTransaction` |
| `DurableHistory` | what a store promises across crashes, the abstract specification of `DurableCommit` |
| `ReplicatedLog` | what a consensus log promises, the abstract specification of `QuorumReplicator` |
| `AsyncEngine` | the write-behind engine, its worker, locks and channel |
| `QuorumReplicator` | elections, log replication and commit of the consensus log |
| `CassandraCoordinator` | quorum writes and reads, hints and their replay |
| `TxSession` | sessions, transactions and the logical clock |
| `MC...` | the instances of these for TLC |
| `OrderLemmas` | facts on `Max` and `Min` of sets of naturals the proofs share |
| `MvccProofs` | proofs about `MvccStore` |
| `StorageProofs` | proofs about `StorageTransaction`, and that it implements `AtomicCommits` |
| `DurableProofs` | proofs about `DurableCommit`, and that it implements `DurableHistory` |
| `AsyncProofs` | proofs about `AsyncEngine` |
| `QuorumProofs` | proofs about `QuorumReplicator`: its elections, its log, and that it implements `ReplicatedLog` |
| `CassandraProofs` | proofs about `CassandraCoordinator` |
| `TxSessionProofs` | proofs about `TxSession`: its clock, its tables |

### MvccStore

One action per step that other threads can observe. A record is its label: labels are
what the indexes hold and what a reader can tell apart. A commit is `StageBatch`
(`staged_record_batch`, which clones the chains it appends to), `PublishValues`,
`PublishLabels`, `PublishVersion` (the three stages of `publish_record_batch`), or
`AbortCommit` when the backend batch fails. Only one commit is in flight, since the
engine calls both under `batch_commit_lock`. A lease is `BeginSnapshot` (the load of the
counter), then `RegisterSnapshot`, then `DropLease`. A prune is `TriggerPrune` or
`RequestPrune` (what it reads first), `ObserveOldest` or `PinFloor`, `PruneVersions` or
`PruneOlderThan` (the rewrite under the write lock of `values`) and `CompactHistory`.

`log` is a history variable: what each version wrote. Every property of a chain is a
relation between the chain and the history.

Merged: the locks of the node and edge indexes into one (no reader holds both), the
store of `floor` with the rewrite (only reports read it). `commit_batch` and the
single-record puts are left out: production commits go through the staged batch.

### StorageTransaction

A transaction is `Begin`, `LoadCatalog`, `Commit` (which chooses the staged writes: they
are private until then), `DiscardNoop` per edge, `CheckKey` per key in the order of
`ensure_no_write_conflicts`, `Stage` (takes `batch_commit_lock`, reads the old records),
`ApplyBatch` (the backend batch with the counter), `ClearCaches`, `Publish`,
`PublishVersion`. `RefuseBatch` and `FlushFails` are the error returns before and after
the backend batch; a transaction that wrote constraints can also be answered an error once
it is committed, when the schema manager cannot be rebuilt (`Outcomes`). A batch
(`BatchWrite`) enters at the lock. Readers miss (`ReadMiss`) and fill (`FillCache`) the
cache in separate steps; the misses inside a commit fill it the same way.

The multi-version store enters as its history of published commits, which is what
`MvccStore` shows its chains to represent: heads are the newest writes (`ChainsFaithful`),
values come before the counter (`SnapshotNeverSeesFuture`, `LatestSnapshotComplete`).
Catalog entries (constraints, indexes, policies) are compared by value with what the
transaction loaded, as the code does; the knowledge policy, which `begin_transaction` loads
before it registers the snapshot and the rest after, is left out, so a catalog entry here is a
constraint or an index. Node and edge counters are one counter; a counter of 0 is a key that
is removed, and the next read scans the records (`CountNow`). A full cache evicts an entry;
an evicted entry is like one that was never cached. A transaction whose commit failed is
over here; in the code what it staged could be committed again.

### AtomicCommits

The records and one history of whole commits. A session writes its records as a whole
(`Write`), enters the history as a whole (`Enter`) and is answered (`Answer`, with an error
where the answer comes late), one at a time; it opens on a prefix of the history with every
answered commit; a conflict is reported only when the history has one. `Fail` and
`Conflict` are possible before the write only: a session refused there leaves neither a
record nor a version. A session that breaks off in between (`Break`) leaves all its records
and no version: that is what the code does when a flush fails, so the contract says it.
`StorageTransaction` implements it under the mapping `records <- Restrict(backend, Records)`,
`history <- log`, `acked <- version`, `session <- Session(t)`: `ApplyBatch` is `Write`,
`Publish` is `Enter` and the commit point, `PublishVersion` is `Answer`, `FlushFails` is
`Break`.

### DurableCommit

A call of a writer is `Begin` (the sequence number), `AppendFrame`, `ApplyBatch` (the
records and the applied marker in one backend batch), then the answer of its sync mode:
`AnswerBuffered` (`NoSync`, or `Batch` before its interval), `SyncLog` and
`AnswerFlushed` (`Batch` after it), `AnswerFlushed` (`Immediate`). `Fail` is the error return
at any step. There are two writers, commits under `batch_commit_lock` and audit records
without it. Maintenance is `TickSync` and `TickFlush` (`sync_wal_if_due` from the timer),
`CheckpointFlush`, `CheckpointMark` and `Compact` (`checkpoint_wal`), `CompactAppliedMark`
and `Compact` (`compact_applied_wal`), and `Repair` offline. `ProcessCrash` loses memory,
`PowerLoss` also what was not synced; `Open` decodes the log and collects the frames
past the marker (`replay` is the set of their places), `Replay` applies the first of them.

The log file keeps its frames, how many of them are synced, the numbers of its header,
whether it ends in half a frame. The backend keeps its flushed state and one state per
batch since. A record holds the number of the call that wrote it last, so that newer is
larger. `txs`, `promised` and `logCut` are history: the calls with their answers, those
a completed sync covered, whether the log lost frames.

Assumed of what is external: a Fjall batch is atomic, and after a power loss Fjall shows a
prefix of its batches that holds the flushed ones; a log keeps a prefix of its frames that
holds the synced ones; a file renamed into place unsynced may be empty afterwards; a
process that ends loses nothing it wrote. Abstracted: the frames in memory (`WAL::entries`)
and those of the file are one sequence, so a sync that fails after its frame was written,
which leaves it in the file only (510-515), counts as the failure of the next step, and a
compaction that fails leaves both as they were, where the code has already dropped the
frames in memory (687-691); one maintenance call at a time; the checkpoint file, which recovery does not read; an error during recovery is
a crash there, since both end in an engine that is not open. A log in half a frame is
refused by `WAL::open` and by the repair, and the model stays down with it.

### DurableHistory

Calls that take effect whole and in order, records that show the newest visible call,
answers, barriers that make calls stable, restarts and power losses. `DurableCommit`
implements it for stores without audit records (with them recovery can replay a part, see
[the findings](#findings)). The mapping: `calls <- txs`; `stable <- promised`; `visible` is the calls the
backend has applied (`Stored.done`) and, while the engine is not open, also those of the
frames past its marker, which recovery will replay; `shown` is the backend's records
(`Stored.data`) and, while the engine is not open, what they will be after that replay.
`ApplyBatch` is `TakeEffect`, the answers are `Acknowledge` and `Refuse`, a completed sync
is `Secure`, crashes are `Restart` and `PowerLoss`. Replay, maintenance and the repair are
stutters: to a caller recovery is one step, at the crash. `immediate` keeps
`Immediate` apart, where an acknowledged call is stable at once.

### AsyncEngine

A caller's call is one action per lock, channel operation or reply: `BeginWrite`
(`flush_if_node_cache_full`) and `Write`; `BeginGet`, `BeginRead`, `Send`, the worker's
`Serve`, `EndRead`; `BeginCount` and `CountNext`, which keep the mutex of the pending
writes over the questions they ask; `BeginFlush`, `BeginClose`, `EndFlush`; `HoldFlush`.
The worker is `Serve` (`handle_request`), `LockFlush` (`flush_pending`), `Timer` and
`AutoFlush` (`maybe_auto_flush`), and `FlushApplied` or `FlushRefused`
(`flush_pending_locked`). A record is the write that left it, so that newer is larger.
`newest` and `lost` are history: the last write of each key, and the writes a failed flush
put an older one over. A refused batch may have reached the store or not: that is what
`StorageTransaction` shows of a failing flush of the storage engine.

The engine is used by its own tests only, so far.

### QuorumReplicator

A node has at most one election and one apply under way, each a task that awaits one call
after the other: `StartElection`, per peer `RequestVote` (the handler) and `CountVote`,
then `NoQuorum` or `BecomeLeader`; `BeginApply`, `PushEntry`, per peer `SendEntries`,
`AdmitEntries` and `StoreEntries` (the two critical sections of the handler),
`HandleAnswer`, then `CommitEntry` and `BroadcastCommit`, or `AppendFails`. A vote can be
lost on the way (`VoteRequestLost`) or on the way back (`VoteAnswerLost`), an append too,
and the timeout of `apply_batch` drops the task wherever it is. A broadcast of the commit
index is a task too: it calls one peer after the other with the end of the log of the moment
(`BroadcastCommit`, and `BroadcastAsNewLeader` after an election), until the rest is lost
(`AppendFails`, `BroadcastLost`). Its handler is one step: its requests carry no entries.
The second critical section of an append (`StoreEntries`) is one step as well, while the
code checks the prefix, writes the log and moves the commit index under locks of their own.
With one apply per node only a leader of a later term can come in between, and then the term
has grown and the task is overtaken. The read of the term and the push of the entry are two
steps (`BeginApply`, `PushEntry`).

Any error of any peer's append ends the apply (the `?` of `replicate_to_quorum`), so the
count that is then compared with the quorum is always everyone: an acknowledged entry is
on every node (`AckedOnEveryNode`), and one unreachable peer stops all writes.
`overtaken` is history: a task went on in a term or role it did not start in, which the
code does not look at. Two leaders of one term can follow, and then nothing holds; every
property is about the runs before that. It includes an answer to an append that is
handled in another term: with five nodes a leader of term 1 whose answer is late can lose
its second entry to the leader of term 2, be elected in term 3, and then move `next_index`
past its log, where `build_append_request` fails (three nodes and two terms have no such
run; the proof of `IndexesWithinLog` asked for it). Snapshots and membership changes are left out:
no code outside tests starts one. The transport is external; the repository has an
in-memory one.

`committed` is history: the commands a node takes for committed, that is, its log as far as
its commit index ever went. What happens to them afterwards is not modelled.
`apply_committed_entries` reads `last_applied`, hands the entry to the storage and writes
`last_applied` under separate locks, so that two loops at one node (an apply and a handler,
or two applies) can hand an entry over twice, and an error of `apply_command` leaves a
committed entry unapplied: a hazard without a property, in `PROJECT.json`. Two applies at one
leader are left out too: they share the `next_index` of a peer, and an entry may then be
acknowledged by a majority that is not everyone.

### ReplicatedLog

One sequence of decided commands, a prefix of it that each node takes for committed,
acknowledgements that name a place in it. It says nothing of storages, which are beyond the
model. `QuorumReplicator` implements it until a task is overtaken: `given <- issued`,
`committed <- committed`, `acknowledged <- acked`, and `decided` is what the node that got
furthest (`Foremost`) has committed. `BeginApply` is `Give`; `CommitEntry`,
`BroadcastCommit` and `StoreEntries` are `Progress`; every other step is a stutter. That
one sequence serves all nodes is what `OneLeaderPerTerm`, the agreement of logs and the
commit indexes come to together.

### CassandraCoordinator

One placement and one key. `BeginWrite` makes the plan from the registered health, one
action per replica applies the command, fails, or applies it and loses the answer,
`EndCalls` counts, `EnqueueHint` writes one record, `EndWrite` returns. Reads go the same
way and end early once there are enough answers and a value. A replay takes a batch
(`BeginReplay`), and per record replays it and deletes or retains it. `RegisterPeer`
changes the registered health, `StopAnswering` the real one, `EnqueueFails` and
`QueueFails` are errors of the queue's own storage engine.

A record's identity is a hash of its content, so it is the content here; the order of
identities is kind, target, hash. `accepted`, `sent`, `coalesced`, `quorumMet`, `covered`
and `excused` are history. What the properties except is what the code does: two equal
commands whose hints wait together are applied once (`coalesced`); a lost answer, two
overlapping replays or a failing deletion apply a command twice (`excused`); a dead node
whose records sort first starves the others (`Starved`); an error of the queue ends a
scheduled worker, and makes a write that met its requirement return an error.

A coordinator without a repair queue, which enqueues nothing, is not modelled.

Not in the properties, and true of the code: hints replay old commands over newer ones, as
writes carry no version; a participant that is not healthy when a write is planned gets
neither the write nor a hint; the requirement counts healthy replicas only; at
`LocalQuorum` the acknowledgements of any region count, where
`docs/plans/old/distributed-execution-architecture.md` says those of the request's region
must; `engine/src/distributed.rs` runs the command locally once more after the coordinator.

### TxSession

A call is one step per atomic operation and per access to a map. The clock is `CountRange`
(`fetch_add`), then the load of the epoch in `StampBegin`, `StampFirst`, `StampLast` or
`EndCommit`; `ObserveEpoch` and `ObserveCounter` come before for a bookmark. An open is
those, `InsertTransaction` and `OpenSession`. A commit, rollback or delete first removes
the session (`TakeSession`), then the transaction. The cleanup collects (`CollectExpired`)
and then removes session and transaction in turn; the other cleanup (`CleanLateTransactions`)
leaves the sessions. A transaction can time out (`TransactionTimesOut`) while it is in the
table, and also after a commit took it out and before `commit_at` looks. `Restart` starts the clock again at epoch 1, while clients keep
their bookmarks. The nodes' ordinal and the buffered operations are left out.

`granted`, `bookmarks` and `outcome` are history. A reserved range whose two ends were
stamped in different epochs is excepted from `IdsExclusive`: it does cover ids of other
calls. Ids are unique per life of a process only. The engine so far holds a
`TransactionManager`; `SessionManager` has no caller outside its crate.

## Runs

| Run | Instance | Shows |
|---|---|---|
| `mvcc_store` | 2 keys, 2 labels, 2 leases, 1 pruner, 2 commits | type, `LatestSnapshotComplete`, `LeasesCounted`, `CurrentLabelsExact`, `HeadsInHistory`, `ChainsFaithful`, `SnapshotNeverSeesFuture`, `ViewLostOnlyToForeignPrune` |
| `mvcc_trigger_prune` | 1 key, 2 commits | violation of `TriggerPruneKeepsViews` |
| `txn_commit` | 1 node, 1 edge, 1 catalog entry, 1 value, 2 committers, 1 reader, 2 commits or failed flushes | type, `BackendInStep`, `CacheExact`, `CountExact`, `OverwritesOnlyAfterCheck`, refinement of `AtomicCommits`, `CommitsReturn` under `FairSpec` |
| `txn_lost_update` | 1 edge, 2 committers | violation of `NoLostUpdate` |
| `txn_stale_count` | with a reader | violation of `CountAlwaysExact` |
| `wal_recovery` | 2 records, 3 sync modes, 2 commits, 1 audit record, 2 crashes, 1 failure | type, `PromisedSurvive`, `LoggedNeverForgotten`, `ReplaysOnlyUnapplied`, refinement of `DurableHistory` |
| `wal_partial_transaction` | `NoSync`, 2 commits, 1 audit record, 1 crash | violation of `NoPartialTransaction` |
| `wal_compact_undurable` | `Batch`, 2 commits, no crash | violation of `CompactsOnlyDurable` |
| `quorum_log` | 3 nodes, 2 terms, 2 commands | type, `OneLeaderPerTerm`, `AckedOnEveryNode`, `IndexesWithinLog`, refinement of `ReplicatedLog` |
| `async_engine` | 1 key, 2 callers, cache of 1, adaptive timer, 2 writes, 1 failing flush | type, `NewestEffective`, `ReadsCurrent`, `FlushedPersist`, `CallsReturn` under `FairSpec` |
| `cassandra` | 3 replicas, 1 command, 2 calls at quorum, batches of 1, a scheduled and a manual replay, 2 lost calls, 1 fault | type, `AckedReachEveryReplica`, `ReplaysAreDue`, `EmptyReadsMissNothing`, `HintsAreDelivered` under `FairSpec` |
| `txsession` | 2 callers, 2 sessions, 4 calls, 2 epochs, 1 foreign bookmark, 1 restart | type, `IdsExclusive`, `IdsInOrder`, `TablesAgree`, `OneOutcome` |

**Bounds.** `MaxVersion` bounds commits. Two commits of one key give a chain with an
archived version and a floor below, at and above it; longer chains are what the proofs
are for. Two keys are needed for batches and indexes, and two commits then suffice
for a key that changes label while another does not. One pruner is enough: prunes
exclude each other under the write lock, and what is stale in one is stale because of
commits and leases. Two leases are needed for an oldest and a younger one. For
transactions two committers give every order of check, lock and publication, and two
commits a transaction that meets a version newer than its snapshot, from before its check
and from after it. A failed flush uses one of the versions (`MaxVersion` bounds both), so
that it cannot repeat for ever. A `Commit` or `BatchWrite` starts only when a version is left
for it (`VersionLeft`), so that no committer gets stuck at the bound, which liveness would
otherwise report. Two action constraints keep `txn_commit` within reach: under `Prompt` steps
that no other thread can see or prevent (the ends of the loops over staged writes, and of sessions that were
answered) come first, which loses no order of visible steps. `Selected` limits the instance:
a commit is given the node and the edge or the catalog entry (what a no-op discard leaves of
the first is the node alone), and readers read the edge.

For the log two records tell a whole commit from a part, and three calls (`MaxCommits`,
`MaxAudits`) give frames before, at and after the marker, a marker that moves back, and
numbers that must not be given out again. Of two crashes (`MaxCrashes`) the second may
come during the recovery from the first. One failure (`MaxFailures`) can hit any step of
any call. In `wal_recovery` audit records occur with `Immediate` only (`AuditModes`): with the other
modes the state space is too large, and what breaks there is `wal_partial_transaction`.

For the consensus log three nodes have majorities that are not everyone; two terms
(`MaxTerm`) give an old leader beside a new one, two commands (`MaxCommands`) a log that
differs in its last entry, or in its length. States after a task was overtaken are cut off
(`NotOvertaken`): every property excepts them. The view leaves out what no later step reads:
who voted for whom, `next_index` of a node that leads no more (`BecomeLeader` sets it anew),
and an apply that can only end when there is no command left for another. Two action
constraints order the steps: a candidate looks at an answer of its own term, and gives up,
before anything else happens (`Prompt`; these steps commute with all others), and a task
ends with nothing done only as long as its node has a use for the place (`Freed`).

For the asynchronous engine one key is enough, since keys meet only in the size of the
cache and in counts; two writes give an older and a newer one around a failing flush, and
two callers a holder and a waiter of each lock. For the coordinator three replicas are the
least with a majority that is not everyone; two calls give a read after a write and two
equal writes; batches of one record (`MaxRecords`) make records wait for each other. The
bounds on failures (`MaxFailures`, `MaxFaults`) are per run: transient failures end, a node
that stopped answering stays so. For sessions, two sessions give two transactions for the
cleanups to confuse, and four calls (`MaxCalls`) an open of each and two racing ends of
one, or a reserve between them; two epochs and one restart give ids that would repeat if
bookmarks did not order them.

**Symmetry** over leases and labels, record keys, nodes and callers, in safety runs only.

**Deadlock** is checked wherever the system must go on: leases, transactions and prunes
can always start or end. The runs of `DurableCommit`, `QuorumReplicator`, `AsyncEngine`,
`CassandraCoordinator` and `TxSession` do not check it: a store may be closed or its log
refused, an engine closed, and calls, commands, crashes and failures are bounded. That
calls in progress go on is `CallsReturn` and `HintsAreDelivered`.

**Fairness** (`FairSpec`). Weak fairness of a commit's own steps: the thread runs. Strong
fairness of `Stage`: `batch_commit_lock` is a `parking_lot` mutex, which is eventually
fair, so a waiter is not passed over for ever. Nothing is assumed of clients: a session
may stay open, a new one may never begin. In `AsyncEngine` strong fairness of `Serve`,
because `recv_timeout` returns a request that is there before it times out, so the timer
cannot pass it over for ever, and of the steps of a call that wait for a `parking_lot`
lock; weak fairness of the worker. In `CassandraCoordinator` weak fairness of a
coordinator that began and of a scheduled worker, whose interval ticks; none of manual
replays, callers, or the queue's and network's failures.

**Mutants.** Every property of a passing run has a mutated action in the module (the
definitions commented `Mutant`) under which TLC finds it violated.

## Proofs

For every set of keys, labels, leases and pruners and every bound, from the named
assumptions of `MvccStore` (the bound is a natural number, sentinels are not values,
leases are finitely many, prune arguments are naturals, per-key limits at least one).

`MvccProofs.InductiveInvariant`: `Spec => []IInv`. None of the properties is
inductive. `IInv` adds what they rest on:

- `CounterInv`: the history is one longer than the counter between the publication of
  the chains and that of the counter, and only then.
- `ChainInv`: each chain is ordered, retains only versions the history has, with their
  values, and its head is the newest write of the key.
- `StagedInv`: a staged chain would be faithful to the history with the batch appended,
  and it still contains every version `values` retains. This is where commit and prune
  meet: a prune may shrink the chain after it was cloned, and publication then brings the
  pruned versions back, which is harmless because they are still versions of the history.
- the count of leases: `active_readers` is the cardinality of the leases at each timestamp.

The prune lemmas say that both prunes return a chain `PrunedFrom` the old one (same head,
same current value, fewer archived versions, a floor between the old floor and the head);
the step of a prune uses nothing else.

From `IInv` follow the properties of the runs: `ChainsStayFaithful`,
`CurrentSnapshotIsComplete`, `NoSnapshotSeesTheFuture`, `LeasesStayCounted` and the action
property `LeasesLoseViewsOnlyToForeignPrunes`. The invariant of the label indexes gives
`CurrentLabelsStayExact`, `HeadsStayInHistory` and `TypeCorrect`. `OrderLemmas` holds the
facts on `Max` and `Min` of finite sets of naturals.

`StorageProofs`, for finitely many threads (`TxsAssumption`: the bound on versions counts
those that may still commit) and every set of records and catalog names. The invariant
says what the owner of `batch_commit_lock` has done of its batch: until the backend batch
the backend is what the history says (`BackendFollows`), after it that with the staged
writes, and from `Publish` on the history has them too. `BackendStaysInStep` is that
invariant at rest. `CacheStaysExact` needs `CacheFollows` (the cache and the readers about
to fill it hold what the backend holds, but for a batch that is applied and not cleared
yet), and `CountStaysExact` that the old records a batch gathered were the backend's
(`OldGathered`), all until a reader raced with a commit. `OverwritesAreAfterChecks` is the
action property, from `CheckedOnce`: the newest write of a key that was checked is in the
snapshot or came after the check. `CommitsAreAtomic` is the refinement: under the mapping of
`StorageTransaction`, records included, the initial state is one of `AtomicCommits` and
every step is a step of it or a stutter, action by action.

`DurableProofs`, for every set of records and modes. The invariant has five parts. `Shape` is the
type and what each phase allows. `Barrier`: what a completed sync promised, and what a
call past its batch has done, is in every state the backend may fall back to. `Calm`
speaks of stores without audit records: the frames are in the order of their numbers and
of their calls, and past the marker of every state there are only calls newer than all
that state holds. `Kept`, while the log also lost nothing: every logged call that was not
answered with an error is in each such state or waits past its marker, and no number is
given out twice. `Seen`, again without audit records: a record shows only calls
that write it (`Written`), and an acknowledged call that is not in effect is in no state the
backend may fall back to and in no frame past the marker of one (`Gone`). From the parts: `TypeCorrect`, `PromisesAreKept`
(`Barrier` and `Calm`), `RecoveryStaysWhole` and the action property `ReplaysStayNew`
(`Calm`), `LoggedStaysKnown` (`Kept`). Stating the invariant for every state the backend
may fall back to is what makes it inductive: a power loss only picks one of them.

`CommitsSurviveCrashes` is the refinement of `DurableHistory`, step by step; a crash is the
step where it is seen that the records after recovery (`Calm`) and what cannot come back
(`Seen`) are what the abstract crash allows. `UnauditedStoreKeepsHistory` puts it as
`Spec /\ [](~auditing) => History!Spec`. `RecoveryWhole` follows from it and is proved apart,
not checked by a run of its own. `ImmediateLosesNothing`: with `Immediate` every
acknowledged call was applied in what an open store holds, so an audit record is there; that
the records of an acknowledged commit show it or something newer is said of stores without
audit records only, as with them a recovery can replay an older commit over them.
`ReplaysStayNew` and `LoggedStaysKnown` are about stores without audit records too, and the
second only until the log loses frames it may need: to a power loss, to
`compact_applied_wal` before a flush, or to a repair (`logCut`).

`AsyncProofs`, for every set of keys and finitely many threads (`ClientsAssumption`: the
bound on writes counts those under way). The invariant `Coherent` is the conjunction of
`CallsInOrder` (which call waits for which request of the channel or of the worker),
`LocksInOrder` (a call that reads holds the flush lock, a count also the mutex of the
pending writes, and a flush runs while nobody reads), `Ledger` (a newer write of a key lies
over an older one: pending over in flight over stored), `AnswersFresh` (an answer under way
is what the store holds until its caller releases the flush lock), `FlushesKeep` (what was
there to read when a flush was asked for is there until it is in the store, or is lost), the
property `NewestEffective`, and two parts on finite sets and the bound. From it
`NewestStaysEffective`, `ReadsStayCurrent`, `FlushedStaysPersisted` and `TypeCorrect`. The
heart is that nothing leaves the pending writes while a caller holds the flush lock, so a
read made of two looks is a read of one moment.

`QuorumProofs` proves `OneLeaderInATerm` for every finite set of nodes, from
`VotingInvariant`. `Voting` is what holds while no task was overtaken: `VotesRecorded` (a
ballot is of a term its voter has reached, and in the voter's own term it is the recorded
vote), `VotesOnce` (hence one ballot a term), `VotesCast` (an election counts ballots that
were cast for it in its term), `ElectedByMajority`. A term never moves back
(`overtaken` is exactly where it would), so a vote is forgotten only for a larger term; two
majorities share a voter (`FS_MajoritiesIntersect`), who voted once.

On that rests the log (`LogInvariant`). `LogInv(sent)` is stated of the logs and of
`sent`, the log each request under way was built of; the invariant says that some `sent`
satisfies it, so that the model needs no history for it. `LogsAgree`: two such logs are
equal up to any place where they have entries of one term, and a leader's is as long as any
with an entry of its term. `PendingKept`: as long as every node that has not accepted the
entry of an apply is at most in its term, those that have keep it, and no request of that
term or a later one was built without it; a node past the term refuses, so the apply
cannot return Ok any more. Hence `AckedKept`: when it does return, no log and no request
that could still be stored lacks the entry. `CommitsSafe`: every commit index, announced or
adopted, stays below an acknowledged entry. `AckedStaysEverywhere`, `CommittedStaysInLogs`
and `IndexesStayWithinLog` follow. The lemma on the receiver is `AppendedIs`: it ends with
the log that was sent, or keeps its own, which then begins with that log.

`CommandsKeepTheirPlace`: until a task is overtaken a command is at one index wherever it
is stored or on its way (`OnePlace`), since an append stores an entry at the index it was
sent from. With an overtaken task that is not claimed: the handler checks the prefix and
writes the log under two locks, and a cut in between would move the entry. With it
`NodesReplicateOneLog`, the refinement of `ReplicatedLog`: nodes only take more for
committed, and the node that got furthest (`ForemostDecides`) has what any other and any
acknowledgement has. `CommittedInEveryLog` is an invariant on the way there, proved and not
checked by a run.

`CassandraProofs` proves the type invariant and the three safety properties of the
coordinator, for every finite set of nodes, commands, callers and workers.
`AckedReachEveryReplica` follows from `Accounts`: per node and command, acknowledged
writes, writes under way that have reached the node, and replays that have applied their
hint but not yet deleted it are together no more than applications, coalesced hints and
the waiting hint. The two middle terms make it inductive: a replay pays with its
application before its deletion spends the record. `ReplaysAreDue` follows from the
opposite account (`AllDue`): applications, failed calls whose hint is still to be enqueued
and a waiting hint that no replay has applied are no more than calls made, unless the hint
is excused; and from `HintsAreMet`. `EmptyReadsMissNothing`: a majority of every covered
plan has applied something (`CoveredApplied`), a read without a value has not asked one of
that majority (`ReadsGoOn`), and its answers are a majority too.

`TxSessionProofs` proves `TypeCorrect`, `IdsAlwaysInOrder` and `IdsAlwaysExclusive`.
`Ordered` says that epoch and counter stay above the floor of every call, in both parts, so
that what the call counts is above it; `Separate` that the numbers counted by calls of one process are
disjoint, so that two ranges which overlap were stamped in different epochs.
For its tables it proves `TablesAlwaysAgree` and `OneOutcomeAlways` from `Roles` (one call
opens a number and lists it last, and nobody ends what is being opened or is listed) and
`Told` (nothing was told of an active transaction or of one that is being committed, and
never two things of any): what makes a removal from a map the right to tell an outcome.

Every safety property of the passing runs is a theorem. Only model-checked: liveness
(`CommitsReturn`, `CallsReturn`, `HintsAreDelivered`), as the prover does no `ENABLED` and
fairness is stated with it. The runs that end in a violation state what does not hold.

<a name="findings"></a>
## What the checks found

- `trigger_prune_now` can remove a version an active lease needs (`mvcc_trigger_prune`).
  The lease loads the counter, the prune finds no reader, the lease registers, a commit
  makes its version an archived one, the prune removes it. What does hold is
  `ViewLostOnlyToForeignPrune`: a prune that read a lease as the oldest keeps its view.
- A commit between another's conflict check and its lock is overwritten, both callers
  succeed (`txn_lost_update`). What does hold is `OverwritesOnlyAfterCheck`: only versions
  published after the check are overwritten.
- A record cached by a reader after a commit invalidated the cache stays stale; the next
  batch computes counters from it (`txn_stale_count`). `CacheExact` and `CountExact` show
  this race to be the only cause.
- A failed flush leaves records without their versions (`Break` of `AtomicCommits`, the
  exception of `BackendInStep`). Of what is modelled nothing else does; raw puts, which
  bypass the versions, are not modelled.
- `compact_applied_wal` drops frames whose records Fjall has not flushed
  (`wal_compact_undurable`), though its comment says it compacts only what is durable: it
  takes the applied marker as it is, where `checkpoint_wal` flushes first. With `Batch` before
  its interval a power loss then takes both a batch and its frame. What a
  completed sync promised stays (`PromisedSurvive`); the frames it costs are excepted from
  `LoggedNeverForgotten` (`logCut`).
- Recovery can leave part of a transaction (`wal_partial_transaction`). An audit record takes
  number 1 and waits; commits 2 and 3 are applied; the audit batch moves the marker back
  to 1. With `NoSync`, a power loss that keeps the backend and cuts the log after frame 2
  makes recovery replay 2 alone, over one record of 3. The refinement of `DurableHistory` shows that without
  audit records no crash does this.

Four things the exceptions in passing properties stand for, all reachable in the runs: an
asynchronous flush that fails puts an older write over a newer one (`lost`); the
asynchronous worker and a caller can wait for each other for ever (`Stuck`: a flush request
ahead of the request of a reader that holds the flush lock, though
`storage/src/tests.rs` expects that `delete_node_record` does not deadlock there; and the
adaptive timer beside `node_count_by_prefix`); a consensus task that went on in another term
makes two leaders of one term (`overtaken`); equal hints coalesce and dead nodes starve
live ones (`coalesced`, `Starved`).

One more exception needs a word. `PromisedSurvive` says of every promised call that the
backend has applied it, but that its records show it or something newer only without
audit records. With them a late audit frame can end the log with a number smaller than
its neighbours', 2, 3, 1 say, and a restart takes the next number from the last frame
(`decode_append_wal` reads `entries.last()`). The next commit gets the number 2 again and
moves the marker to it; after another crash recovery finds frame 3 past the marker and
replays that older commit over the newer one, which was acknowledged in `Immediate` mode.
It takes three commits, an audit record and two crashes, one commit more than the run
allows; the attempt to prove the property met it, and TLC finds it when given more commits.

<a name="not-modelled"></a>
## What is not modelled

Of the modelled components: restart and rebuild of the multi-version store; fresh puts
(`put_fresh_*`, which skip the conflict check and start a new chain); index keys,
schema reservations and notifications of a commit; of the log, checksums and encryption
of frames, `append_batch` and the snapshots of `WAL` itself (no caller in the engine), the
disabled log, two maintenance calls at once, and the image export and restore; raw puts, the
knowledge policy and a second commit after a failed one in transactions; edges, the
embedding and deindex queues and the callbacks of the asynchronous engine; snapshots,
membership changes and several applies at one node of the consensus log, the application
of committed entries to the storage and its errors, and the order of its handlers' locks;
the values of coordinated reads and writes, a coordinator without a repair queue; buffered operations and
owners of sessions. The unique-value registry is not modelled. Components left
out as a whole are in `PROJECT.json`, each with its reason: they are sequential, numeric,
pure conversions, or external. They are most of the program's lines: the evaluator, the
protocol servers, the parser and the localization catalog alone are more than half of it,
and hold no state that two threads share.

## Plan

Done: `MvccStore`, `StorageTransaction` refining `AtomicCommits`, `DurableCommit` refining
`DurableHistory`, `QuorumReplicator` refining `ReplicatedLog`, `AsyncEngine`,
`CassandraCoordinator` and `TxSession`, each with the proofs of its safety properties, and
the three refinements as theorems.

Next, in this order:

1. `StorageTransaction`: fresh puts and notifications.
2. `UniqueRegistry`: reservations, lock retirement, rebuild. Property: unique ownership.

Later: the Bolt connection state machine, embedding claims.
