------------------------- MODULE StorageTransaction ------------------------
(***************************************************************************)
(* Transactions and batches over the storage engine (storage/src/lib.rs):  *)
(* a snapshot at begin, a no-op and a conflict check that run before the   *)
(* commit lock is taken, the batch under the lock, and the read cache the  *)
(* batch takes the old records from.                                       *)
(*                                                                         *)
(* The multi-version store is its history of published commits: MvccStore  *)
(* shows that chain heads are what the history says (ChainsFaithful), that *)
(* values are published before the counter, and which leases keep their    *)
(* view.  Keys of the catalog (constraints, indexes) are not versioned.    *)
(***************************************************************************)
EXTENDS Integers, Sequences, FiniteSets, FiniteSetsExt, Functions

CONSTANTS
    Nodes, Edges, \* records
    Catalog,      \* names of constraints and index definitions
    Values,       \* contents of a record or a catalog entry
    Tombstone,    \* no record
    Absent,       \* the cache holds nothing for the key
    Txs,          \* transactions and batches
    NoTx,         \* the commit lock is free
    Readers,      \* threads that read records through the cache
    MaxVersion    \* bound on commits and on failures of one

ASSUME BoundAssumption == MaxVersion \in Nat
\* A process has finitely many threads.
ASSUME TxsAssumption == IsFiniteSet(Txs)
ASSUME KindsAssumption ==
    Nodes \cap Edges = {} /\ Nodes \cap Catalog = {} /\ Edges \cap Catalog = {}
ASSUME SentinelAssumption ==
    Tombstone \notin Values /\ Absent \notin Values \cup {Tombstone} /\ NoTx \notin Txs

Records == Nodes \cup Edges
Keys == Records \cup Catalog
Contents == Values \cup {Tombstone}
Versions == 0..MaxVersion

VARIABLES
    backend,    \* Fjall: the nodes, edges and meta keyspaces
    count,      \* META_GLOBAL_NODE_COUNT and _EDGE_COUNT, as one counter: 0 is no key
    cache,      \* graph_node_cache, graph_edge_cache
    log,        \* the published commits
    version,    \* MvccStore::current_version
    commitLock, \* batch_commit_lock
    tx,         \* per transaction or batch
    reader,     \* per reader: a record read on a miss and not cached yet
    flushFailures, \* history: flushes that failed after a batch was applied
    raced       \* history: a batch was applied between a reader's miss and its fill

vars == << backend, count, cache, log, version, commitLock, tx, reader, flushFailures, raced >>

----------------------------------------------------------------------------
WritesUpTo(k, ts) == {v \in 1..Len(log) : v <= ts /\ k \in DOMAIN log[v]}

\* current_head_for_key
HeadOf(k) == IF WritesUpTo(k, Len(log)) = {} THEN 0 ELSE Max(WritesUpTo(k, Len(log)))

VisibleAt(k, ts) ==
    IF WritesUpTo(k, ts) = {} THEN Tombstone ELSE log[Max(WritesUpTo(k, ts))][k]

\* get_node_record, get_edge_record: the cache first.  The insertion after a
\* miss is the FillCache of a reader that read the key at the same moment.
ReadThrough(k) == IF cache[k] = Absent THEN backend[k] ELSE cache[k]

NoWrites == [k \in {} |-> Tombstone]

Idle == [pc |-> "idle", batch |-> FALSE, snapshot |-> 0, captured |-> NoWrites,
         writes |-> NoWrites, todo |-> {}, checked |-> [k \in {} |-> 0],
         old |-> NoWrites]

\* A session that ended keeps nothing but how.
Finished(outcome) == [Idle EXCEPT !.pc = outcome]

Init ==
    /\ backend = [k \in Keys |-> Tombstone]
    /\ count = 0
    /\ cache = [k \in Records |-> Absent]
    /\ log = << >>
    /\ version = 0
    /\ commitLock = NoTx
    /\ tx = [t \in Txs |-> Idle]
    /\ reader = [r \in Readers |-> [pc |-> "idle"]]
    /\ flushFailures = 0
    /\ raced = FALSE

----------------------------------------------------------------------------
(* Sessions.                                                               *)

\* begin_transaction registers the snapshot, then loads the catalog.  (The knowledge
\* policy, which it loads before both, is not modelled.)
Begin(t) ==
    /\ tx[t].pc = "idle"
    /\ tx' = [tx EXCEPT ![t].pc = "begun", ![t].snapshot = version]
    /\ UNCHANGED << backend, count, cache, log, version, commitLock, reader, flushFailures, raced >>

LoadCatalog(t) ==
    /\ tx[t].pc = "begun"
    /\ tx' = [tx EXCEPT ![t].pc = "open", ![t].captured = [c \in Catalog |-> backend[c]]]
    /\ UNCHANGED << backend, count, cache, log, version, commitLock, reader, flushFailures, raced >>

\* A batch is a finite list of operations.
WriteSets ==
    UNION {[ks -> Contents] : ks \in {ks \in SUBSET Keys : ks # {} /\ IsFiniteSet(ks)}}

\* Every transaction on its way to a commit will find a version left.
VersionLeft ==
    Len(log) + flushFailures + Cardinality({t \in Txs : tx[t].pc \in
        {"discard", "check", "wait", "staged", "applied", "cleared"}}) < MaxVersion

\* The writes a session staged are its own until it commits: one step chooses
\* them and calls commit.
Commit(t, writes) ==
    /\ tx[t].pc = "open" /\ VersionLeft
    /\ tx' = [tx EXCEPT ![t].pc = "discard", ![t].writes = writes,
                        ![t].todo = {k \in DOMAIN writes \cap Edges : writes[k] # Tombstone}]
    /\ UNCHANGED << backend, count, cache, log, version, commitLock, reader, flushFailures, raced >>

\* batch_write: no snapshot and no check.
BatchWrite(t, writes) ==
    /\ tx[t].pc = "idle" /\ VersionLeft
    /\ tx' = [tx EXCEPT ![t].pc = "wait", ![t].batch = TRUE, ![t].writes = writes]
    /\ UNCHANGED << backend, count, cache, log, version, commitLock, reader, flushFailures, raced >>

\* rollback and drop, or the drop after commit returned.
End(t) ==
    /\ tx[t].pc \in {"open", "committed", "conflict", "stale", "failed"}
    /\ tx' = [tx EXCEPT ![t] = Idle]
    /\ UNCHANGED << backend, count, cache, log, version, commitLock, reader, flushFailures, raced >>

----------------------------------------------------------------------------
(* commit, before the lock.                                                *)

\* discard_noop_edge_writes, one edge at a time.
DiscardNoop(t, k) ==
    /\ tx[t].pc = "discard" /\ k \in tx[t].todo
    /\ tx' = [tx EXCEPT ![t].todo = @ \ {k},
                        ![t].writes = IF ReadThrough(k) = @[k]
                                      THEN Restrict(@, DOMAIN @ \ {k}) ELSE @]
    /\ UNCHANGED << backend, count, cache, log, version, commitLock, reader, flushFailures, raced >>

EndDiscard(t) ==
    /\ tx[t].pc = "discard" /\ tx[t].todo = {}
    /\ tx' = [tx EXCEPT ![t].pc = "check", ![t].todo = DOMAIN tx[t].writes]
    /\ UNCHANGED << backend, count, cache, log, version, commitLock, reader, flushFailures, raced >>

\* ensure_no_write_conflicts takes the catalog, then the nodes, then the edges.
NextToCheck(todo) ==
    IF todo \cap Catalog # {} THEN todo \cap Catalog
    ELSE IF todo \cap Nodes # {} THEN todo \cap Nodes
    ELSE todo

CatalogChanged(t, k) == k \in Catalog /\ backend[k] # tx[t].captured[k]

EdgeGone(t, k) ==
    /\ k \in Edges /\ tx[t].writes[k] # Tombstone
    /\ VisibleAt(k, tx[t].snapshot) # Tombstone /\ ReadThrough(k) = Tombstone

\* Mutants: the comparison with the snapshot is off by one, either way.
OutdatedByTwo(t, k) == k \in Records /\ HeadOf(k) > tx[t].snapshot + 1
OutdatedByNone(t, k) == k \in Records /\ HeadOf(k) >= tx[t].snapshot

Outdated(t, k) == k \in Records /\ HeadOf(k) > tx[t].snapshot

CheckKey(t, k) ==
    /\ tx[t].pc = "check" /\ k \in NextToCheck(tx[t].todo)
    /\ tx' = IF CatalogChanged(t, k) \/ EdgeGone(t, k)
             THEN [tx EXCEPT ![t] = Finished("stale")]
             ELSE IF Outdated(t, k) THEN [tx EXCEPT ![t] = Finished("conflict")]
             ELSE [tx EXCEPT ![t].todo = @ \ {k},
                             ![t].checked = [j \in DOMAIN @ \cup {k} |->
                                               IF j = k THEN Len(log) ELSE @[j]]]
    /\ UNCHANGED << backend, count, cache, log, version, commitLock, reader, flushFailures, raced >>

EndCheck(t) ==
    /\ tx[t].pc = "check" /\ tx[t].todo = {}
    /\ tx' = [tx EXCEPT ![t].pc = "wait"]
    /\ UNCHANGED << backend, count, cache, log, version, commitLock, reader, flushFailures, raced >>

----------------------------------------------------------------------------
(* commit_locked.  Nothing it reads but the cache moves under the lock.    *)

\* Mutant: the lock is not waited for.
StageUnguarded(t) ==
    /\ tx[t].pc = "wait"
    /\ commitLock' = t
    /\ tx' = [tx EXCEPT ![t].pc = "staged",
                ![t].old = [k \in DOMAIN tx[t].writes \cap Records |-> ReadThrough(k)]]
    /\ UNCHANGED << backend, count, cache, log, version, reader, flushFailures, raced >>

\* Takes the lock, gathers the old records and stages the versions.
Stage(t) ==
    /\ tx[t].pc = "wait" /\ commitLock = NoTx
    /\ commitLock' = t
    /\ tx' = [tx EXCEPT ![t].pc = "staged",
                ![t].old = [k \in DOMAIN tx[t].writes \cap Records |-> ReadThrough(k)]]
    /\ UNCHANGED << backend, count, cache, log, version, reader, flushFailures, raced >>

\* Mutant: the error path leaves the lock taken.
RefuseBatchKeepsLock(t) ==
    /\ tx[t].pc = "staged"
    /\ tx' = [tx EXCEPT ![t] = Finished("failed")]
    /\ UNCHANGED << backend, count, cache, log, version, commitLock, reader, flushFailures, raced >>

\* The schema, the WAL or the backend refuses the batch.  (What the session staged
\* could be committed again; here it ends.)
RefuseBatch(t) ==
    /\ tx[t].pc = "staged"
    /\ commitLock' = NoTx
    /\ tx' = [tx EXCEPT ![t] = Finished("failed")]
    /\ UNCHANGED << backend, count, cache, log, version, reader, flushFailures, raced >>

Live(contents) == Cardinality({k \in DOMAIN contents : contents[k] # Tombstone})

Saturating(n) == IF n < 0 THEN 0 ELSE n

\* total_node_count and total_edge_count: without the key, a scan.
CountNow == IF count = 0 THEN Live(Restrict(backend, Records)) ELSE count

RecordWrites(t) == Restrict(tx[t].writes, DOMAIN tx[t].writes \cap Records)

\* Mutant: an overwritten record is counted again.
ApplyBatchCountsPuts(t) ==
    /\ tx[t].pc = "staged"
    /\ backend' = [k \in Keys |-> IF k \in DOMAIN tx[t].writes
                                  THEN tx[t].writes[k] ELSE backend[k]]
    /\ count' = CountNow + Live(RecordWrites(t))
    /\ tx' = [tx EXCEPT ![t].pc = "applied"]
    /\ raced' = (raced \/ \E r \in Readers : reader[r].pc = "fill")
    /\ UNCHANGED << cache, log, version, commitLock, reader, flushFailures >>

\* One backend batch: records, catalog and the counter's new value.
ApplyBatch(t) ==
    /\ tx[t].pc = "staged"
    /\ backend' = [k \in Keys |-> IF k \in DOMAIN tx[t].writes
                                  THEN tx[t].writes[k] ELSE backend[k]]
    /\ count' = Saturating(CountNow + Live(RecordWrites(t)) - Live(tx[t].old))
    /\ tx' = [tx EXCEPT ![t].pc = "applied"]
    /\ raced' = (raced \/ \E r \in Readers : reader[r].pc = "fill")
    /\ UNCHANGED << cache, log, version, commitLock, reader, flushFailures >>

\* Mutant: the caches are not invalidated.
ClearCachesNot(t) ==
    /\ tx[t].pc = "applied"
    /\ tx' = [tx EXCEPT ![t].pc = "cleared"]
    /\ UNCHANGED << backend, count, cache, log, version, commitLock, reader, flushFailures, raced >>

ClearCaches(t) ==
    /\ tx[t].pc = "applied"
    /\ cache' = IF DOMAIN tx[t].old = {} THEN cache ELSE [k \in Records |-> Absent]
    /\ tx' = [tx EXCEPT ![t].pc = "cleared"]
    /\ UNCHANGED << backend, count, log, version, commitLock, reader, flushFailures, raced >>

\* flush()? or sync_wal_if_due()? returns before the publication (so does the
\* refresh of the index status): what was applied stays.
FlushFails(t) ==
    /\ tx[t].pc = "cleared"
    /\ commitLock' = NoTx
    /\ tx' = [tx EXCEPT ![t] = Finished("failed")]
    /\ flushFailures' = flushFailures + 1
    /\ UNCHANGED << backend, count, cache, log, version, reader, raced >>

\* The versions of a batch: a delete only of a key that has a head.
Staged(t) ==
    {k \in DOMAIN tx[t].writes \cap Records : tx[t].writes[k] # Tombstone \/ HeadOf(k) # 0}

Publish(t) ==
    /\ tx[t].pc = "cleared"
    /\ log' = IF Staged(t) = {} THEN log
              ELSE Append(log, Restrict(tx[t].writes, Staged(t)))
    /\ tx' = [tx EXCEPT ![t].pc = "published"]
    /\ UNCHANGED << backend, count, cache, version, commitLock, reader, flushFailures, raced >>

\* Mutant: the counter is bumped by every batch, an empty one too.
PublishVersionAlways(t) ==
    /\ tx[t].pc = "published"
    /\ version' = version + 1
    /\ commitLock' = NoTx
    /\ tx' = [tx EXCEPT ![t] = Finished("committed")]
    /\ UNCHANGED << backend, count, cache, log, reader, flushFailures, raced >>

\* A transaction that wrote constraints rebuilds the schema manager once it has
\* committed, and answers an error if that fails.
Outcomes(t) ==
    IF ~tx[t].batch /\ DOMAIN tx[t].writes \cap Catalog # {} THEN {"committed", "failed"}
    ELSE {"committed"}

\* The counter, the release of the lock, and the return to the caller.
PublishVersion(t) ==
    /\ tx[t].pc = "published"
    /\ version' = Len(log)
    /\ commitLock' = NoTx
    /\ \E outcome \in Outcomes(t) : tx' = [tx EXCEPT ![t] = Finished(outcome)]
    /\ UNCHANGED << backend, count, cache, log, reader, flushFailures, raced >>

----------------------------------------------------------------------------
(* Readers: a miss reads the backend under no lock and fills the cache     *)
(* whenever it gets there.                                                 *)

ReadMiss(r, k) ==
    /\ reader[r].pc = "idle" /\ cache[k] = Absent
    /\ reader' = [reader EXCEPT ![r] = [pc |-> "fill", key |-> k, value |-> backend[k]]]
    /\ UNCHANGED << backend, count, cache, log, version, commitLock, tx, flushFailures, raced >>

FillCache(r) ==
    /\ reader[r].pc = "fill"
    /\ cache' = [cache EXCEPT ![reader[r].key] = reader[r].value]
    /\ reader' = [reader EXCEPT ![r] = [pc |-> "idle"]]
    /\ UNCHANGED << backend, count, log, version, commitLock, tx, flushFailures, raced >>

----------------------------------------------------------------------------
\* The steps of a commit once it is called.
CommitStep(t) ==
    \/ \E k \in Edges : DiscardNoop(t, k)
    \/ EndDiscard(t)
    \/ \E k \in Keys : CheckKey(t, k)
    \/ EndCheck(t)
    \/ RefuseBatch(t)
    \/ ApplyBatch(t)
    \/ ClearCaches(t)
    \/ FlushFails(t)
    \/ Publish(t)
    \/ PublishVersion(t)

Tx(t) ==
    \/ Begin(t)
    \/ LoadCatalog(t)
    \/ \E writes \in WriteSets : Commit(t, writes)
    \/ \E writes \in WriteSets : BatchWrite(t, writes)
    \/ Stage(t)
    \/ CommitStep(t)
    \/ End(t)

Reader(r) == FillCache(r) \/ \E k \in Records : ReadMiss(r, k)

Next == (\E t \in Txs : Tx(t)) \/ (\E r \in Readers : Reader(r))

Spec == Init /\ [][Next]_vars

\* A committing thread runs, and parking_lot's eventually fair mutex lets a
\* waiter in again and again.
FairSpec == Spec /\ \A t \in Txs : WF_vars(CommitStep(t)) /\ SF_vars(Stage(t))

----------------------------------------------------------------------------
TypeOK ==
    /\ backend \in [Keys -> Contents]
    /\ count \in Nat
    /\ cache \in [Records -> Contents \cup {Absent}]
    /\ version \in Versions /\ Len(log) \in Versions
    /\ commitLock \in Txs \cup {NoTx}
    /\ \A t \in Txs : /\ tx[t].pc \in {"idle", "begun", "open", "discard", "check", "wait",
                                      "staged", "applied", "cleared", "published",
                                      "committed", "conflict", "stale", "failed"}
                      /\ tx[t].snapshot \in Versions
                      /\ DOMAIN tx[t].writes \subseteq Keys

\* With the commit lock free, the backend holds what the history says and the
\* counter has caught up: backend, versions and counter move together, unless
\* a flush failed.
BackendInStep ==
    commitLock = NoTx /\ flushFailures = 0 =>
        /\ version = Len(log)
        /\ \A k \in Records : backend[k] = VisibleAt(k, version)

\* With the commit lock free, the cache holds nothing the backend does not, and
\* the counter counts the live records: a batch takes the right old records
\* from the cache, unless a reader filled it with a value read before a commit.
CacheExact ==
    commitLock = NoTx /\ ~raced => \A k \in Records : cache[k] \in {Absent, backend[k]}

CountExact == commitLock = NoTx /\ ~raced => CountNow = Live(Restrict(backend, Records))

Publishes(t) == tx[t].pc = "cleared" /\ tx'[t].pc = "published"

\* A transaction overwrites a version newer than its snapshot only if that
\* version was published after it checked the key.
OverwritesOnlyAfterCheck ==
    [][\A t \in Txs : Publishes(t) /\ ~tx[t].batch =>
          \A k \in Staged(t) : HeadOf(k) > tx[t].snapshot => HeadOf(k) > tx[t].checked[k]]_vars

\* What AtomicCommits sees of a session.
Session(t) ==
    IF tx[t].pc \in {"committed", "conflict"} THEN [state |-> tx[t].pc, at |-> 0]
    ELSE IF tx[t].pc \in {"stale", "failed"} THEN [state |-> "failed", at |-> 0]
    ELSE IF tx[t].pc \in {"applied", "cleared"}
         THEN [state |-> "written", writes |-> RecordWrites(t)]
    ELSE IF tx[t].pc = "published" THEN [state |-> "applied", at |-> Len(log)]
    ELSE IF tx[t].pc = "idle" \/ tx[t].batch THEN [state |-> "closed", at |-> 0]
    ELSE [state |-> "open", at |-> tx[t].snapshot]

Contract == INSTANCE AtomicCommits WITH
    Sessions <- Txs, Nothing <- Tombstone,
    records <- Restrict(backend, Records), history <- log, acked <- version,
    session <- [t \in Txs |-> Session(t)]

\* Transactions and batches implement AtomicCommits: whole commits in the records
\* and in one history, snapshots that hold every answered commit, conflicts that
\* are real, and neither a record nor a version of a session that was refused
\* before its batch reached the backend.  A flush that fails later leaves the
\* records without versions.
ImplementsAtomicCommits == Contract!Spec

\* A commit that is called returns.
CommitsReturn ==
    \A t \in Txs :
        tx[t].pc \in {"discard", "check", "wait", "staged", "applied", "cleared", "published"}
        ~> tx[t].pc \in {"committed", "conflict", "stale", "failed"}

\* docs/plans/03-edge-snapshot-conflicts.md:29: the conflict check and the write
\* of an edge are atomic, so no commit overwrites an edge its snapshot missed.
NoLostUpdate ==
    [][\A t \in Txs : Publishes(t) /\ ~tx[t].batch =>
          \A k \in Staged(t) \cap Edges : HeadOf(k) <= tx[t].snapshot]_vars

\* The comment of batch_write (lib.rs:3428-3431): stats are updated atomically
\* with the records they count.
CountAlwaysExact == commitLock = NoTx => CountNow = Live(Restrict(backend, Records))
=============================================================================
