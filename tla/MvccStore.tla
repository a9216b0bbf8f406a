----------------------------- MODULE MvccStore -----------------------------
(***************************************************************************)
(* The multi-version store of crates/storage/src/mvcc.rs: a chain of       *)
(* versions per logical key, snapshots identified by the commit counter,   *)
(* leases that pin a snapshot, one committer at a time (the engine's       *)
(* batch_commit_lock) and prunes that take no lock of the committer's.     *)
(*                                                                         *)
(* A record is abstracted to its label (an edge: its type), which is both  *)
(* what a reader tells records apart by and what the label indexes hold.   *)
(***************************************************************************)
EXTENDS Integers, Sequences, FiniteSets, FiniteSetsExt, Functions

CONSTANTS
    Keys,        \* logical keys, "node:<id>" and "edge:<id>"
    Labels,      \* record contents
    Tombstone,   \* a deleted record, and what a reader of an absent key sees
    Readers,     \* holders of a MvccSnapshotLease
    Pruners,     \* threads that prune: the AsyncEngine worker, HTTP handlers
    Namespaces,  \* sets of keys that share a namespace prefix
    NoReader,    \* oldest_active_reader() = None
    Retains,     \* retain_last_n_versions arguments of trigger_prune_now
    MaxPerKey,   \* max_versions_per_key arguments of prune_mvcc_versions
    MinVersions, \* arguments of prune_versions_older_than
    MaxVersion   \* bound on commits

Versions == 0..MaxVersion
Values == Labels \cup {Tombstone}

ASSUME BoundAssumption == MaxVersion \in Nat
ASSUME SentinelAssumption == Tombstone \notin Labels /\ NoReader \notin Nat
ASSUME NamespaceAssumption == Namespaces \subseteq SUBSET Keys
ASSUME ReadersAssumption == IsFiniteSet(Readers)
\* A max_versions_per_key of 0 is raised to 1 where it is read.
ASSUME PruneArgumentAssumption ==
    Retains \subseteq Nat /\ MaxPerKey \subseteq Nat \ {0} /\ MinVersions \subseteq Nat

VARIABLES
    currentVersion, \* MvccStore::current_version
    floor,          \* MvccStore::floor, which only reports
    values,         \* MvccStore::values, a chain for each key
    currentLabels,  \* label -> keys whose head carries it
    labelHistory,   \* label -> keys some retained version of which carries it
    activeReaders,  \* read_ts -> leases held at it
    lease,          \* per reader: the snapshot it took and whether it is pinned
    commit,         \* the batch under batch_commit_lock
    prune,          \* per pruner: where it is and what it read on the way
    log             \* history: what version i wrote, a function on some keys

vars == << currentVersion, floor, values, currentLabels, labelHistory,
           activeReaders, lease, commit, prune, log >>

----------------------------------------------------------------------------
(* Version chains (MvccKeyState).  head = 0 stands for "no version yet".   *)

NoChain == [floor |-> 0, head |-> 0, current |-> Tombstone,
            archived |-> [v \in {} |-> Tombstone]]

\* Mutant: the old head's version is archived with the new value.
AppendVersionNewUnderOld(chain, version, value) ==
    [ floor    |-> IF chain.head = 0 THEN version ELSE chain.floor,
      head     |-> version,
      current  |-> value,
      archived |-> IF chain.head = 0 THEN chain.archived
                   ELSE [v \in DOMAIN chain.archived \cup {chain.head} |->
                            IF v = chain.head THEN value ELSE chain.archived[v]] ]

AppendVersion(chain, version, value) ==
    [ floor    |-> IF chain.head = 0 THEN version ELSE chain.floor,
      head     |-> version,
      current  |-> value,
      archived |-> IF chain.head = 0 THEN chain.archived
                   ELSE [v \in DOMAIN chain.archived \cup {chain.head} |->
                            IF v = chain.head THEN chain.current
                                              ELSE chain.archived[v]] ]

ArchivedUpTo(chain, ts) == {v \in DOMAIN chain.archived : v <= ts}

\* Mutant: the comparison with the head is off by one.
VersionAtOffByOne(chain, ts) ==
    IF ts < chain.floor THEN 0
    ELSE IF ts >= chain.head - 1 THEN chain.head
    ELSE IF ArchivedUpTo(chain, ts) = {} THEN 0
    ELSE Max(ArchivedUpTo(chain, ts))

\* The version read_at returns the value of; 0 where it returns None.
VersionAt(chain, ts) ==
    IF ts < chain.floor THEN 0
    ELSE IF ts >= chain.head THEN chain.head
    ELSE IF ArchivedUpTo(chain, ts) = {} THEN 0
    ELSE Max(ArchivedUpTo(chain, ts))

RetainOnly(chain, keep, newFloor) ==
    [ floor    |-> newFloor,
      head     |-> chain.head,
      current  |-> chain.current,
      archived |-> Restrict(chain.archived, DOMAIN chain.archived \cap keep) ]

\* Mutant: range(..read_ts) for range(..=read_ts).
ReaderAnchorExclusive(chain, oldest) ==
    IF oldest = NoReader THEN {}
    ELSE IF oldest >= chain.head \/ ArchivedUpTo(chain, oldest - 1) = {}
         THEN {chain.head}
         ELSE {Max(ArchivedUpTo(chain, oldest - 1))}

\* reader_anchor_version: the version the oldest reader reads, as a set.
ReaderAnchor(chain, oldest) ==
    IF oldest = NoReader THEN {}
    ELSE IF oldest >= chain.head \/ ArchivedUpTo(chain, oldest) = {}
         THEN {chain.head}
         ELSE {Max(ArchivedUpTo(chain, oldest))}

NewestArchived(chain, n) ==
    {v \in DOMAIN chain.archived :
        Cardinality({w \in DOMAIN chain.archived : w > v}) < n}

PruneToMaxVersions(chain, maxVersions, oldest) ==
    LET keep == {chain.head} \cup NewestArchived(chain, maxVersions - 1)
                             \cup ReaderAnchor(chain, oldest)
    IN  IF chain.head = 0 THEN chain ELSE RetainOnly(chain, keep, Min(keep))

\* Mutant: the requested floor is taken as it is.
FloorForRequestVerbatim(chain, requested) == requested

\* compute_floor_for_request: the first retained version at or above it.
FloorForRequest(chain, requested) ==
    Min({v \in DOMAIN chain.archived : v >= requested} \cup {chain.head})

PruneToFloor(chain, requested) ==
    LET newFloor == FloorForRequest(chain, requested)
    IN  IF chain.head = 0 THEN chain
        ELSE RetainOnly(chain, newFloor..chain.head, newFloor)

\* Mutant: the labels of the archived versions only.
RetainedLabelsArchived(chain) == Range(chain.archived) \ {Tombstone}

RetainedLabels(chain) ==
    (Range(chain.archived) \cup {chain.current}) \ {Tombstone}

----------------------------------------------------------------------------
Idle == [pc |-> "idle"]

Init ==
    /\ currentVersion = 0
    /\ floor = 0
    /\ values = [k \in Keys |-> NoChain]
    /\ currentLabels = [l \in Labels |-> {}]
    /\ labelHistory = [l \in Labels |-> {}]
    /\ activeReaders = [ts \in Versions |-> 0]
    /\ lease = [r \in Readers |-> [pc |-> "none", ts |-> 0]]
    /\ commit = Idle
    /\ prune = [p \in Pruners |-> Idle]
    /\ log = << >>

OldestActiveReader ==
    LET pinned == {ts \in Versions : activeReaders[ts] > 0}
    IN  IF pinned = {} THEN NoReader ELSE Min(pinned)

----------------------------------------------------------------------------
(* begin_registered_snapshot loads the counter before it takes the lock of *)
(* active_readers; the Drop of the lease takes the lock once.              *)

BeginSnapshot(r) ==
    /\ lease[r].pc = "none"
    /\ lease' = [lease EXCEPT ![r] = [pc |-> "begun", ts |-> currentVersion]]
    /\ UNCHANGED << currentVersion, floor, values, currentLabels, labelHistory,
                    activeReaders, commit, prune, log >>

\* Mutant: insert(ts, 1) for *entry(ts).or_insert(0) += 1.
RegisterSnapshotOverwrites(r) ==
    /\ lease[r].pc = "begun"
    /\ activeReaders' = [activeReaders EXCEPT ![lease[r].ts] = 1]
    /\ lease' = [lease EXCEPT ![r].pc = "registered"]
    /\ UNCHANGED << currentVersion, floor, values, currentLabels, labelHistory,
                    commit, prune, log >>

RegisterSnapshot(r) ==
    /\ lease[r].pc = "begun"
    /\ activeReaders' = [activeReaders EXCEPT ![lease[r].ts] = @ + 1]
    /\ lease' = [lease EXCEPT ![r].pc = "registered"]
    /\ UNCHANGED << currentVersion, floor, values, currentLabels, labelHistory,
                    commit, prune, log >>

\* Mutant: a snapshot that was never registered is released too.
DropLeaseUnregistered(r) ==
    /\ lease[r].pc # "none"
    /\ activeReaders' = [activeReaders EXCEPT ![lease[r].ts] = @ - 1]
    /\ lease' = [lease EXCEPT ![r] = [pc |-> "none", ts |-> 0]]
    /\ UNCHANGED << currentVersion, floor, values, currentLabels, labelHistory,
                    commit, prune, log >>

DropLease(r) ==
    /\ lease[r].pc = "registered"
    /\ activeReaders' = [activeReaders EXCEPT ![lease[r].ts] = @ - 1]
    /\ lease' = [lease EXCEPT ![r] = [pc |-> "none", ts |-> 0]]
    /\ UNCHANGED << currentVersion, floor, values, currentLabels, labelHistory,
                    commit, prune, log >>

----------------------------------------------------------------------------
(* A commit stages its chains from the values it reads, writes the WAL and *)
(* the backend (which may fail: AbortCommit), and publishes in the order   *)
(* values, label indexes, counter, with no lock held across the three.     *)

\* A delete reaches the store only for a key that has a head.
Batches ==
    {w \in UNION {[ks -> Values] : ks \in SUBSET Keys \ {{}}} :
        \A k \in DOMAIN w : w[k] = Tombstone => values[k].head # 0}

StageBatch(writes) ==
    /\ commit.pc = "idle"
    /\ currentVersion < MaxVersion
    /\ commit' =
         [ pc      |-> "staged",
           version |-> currentVersion + 1,
           writes  |-> writes,
           states  |-> [k \in DOMAIN writes |->
                          AppendVersion(values[k], currentVersion + 1, writes[k])],
           old     |-> [k \in DOMAIN writes |-> values[k].current] ]
    /\ UNCHANGED << currentVersion, floor, values, currentLabels, labelHistory,
                    activeReaders, lease, prune, log >>

AbortCommit ==
    /\ commit.pc = "staged"
    /\ commit' = Idle
    /\ UNCHANGED << currentVersion, floor, values, currentLabels, labelHistory,
                    activeReaders, lease, prune, log >>

PublishValues ==
    /\ commit.pc = "staged"
    /\ values' = [k \in Keys |-> IF k \in DOMAIN commit.states
                                 THEN commit.states[k] ELSE values[k]]
    /\ commit' = [commit EXCEPT !.pc = "values"]
    /\ log' = Append(log, commit.writes)
    /\ UNCHANGED << currentVersion, floor, currentLabels, labelHistory,
                    activeReaders, lease, prune >>

\* Mutant: the old record stays in the current label index.
PublishLabelsKeepsOld ==
    LET entering(l) == {k \in DOMAIN commit.writes : commit.writes[k] = l}
    IN  /\ commit.pc = "values"
        /\ currentLabels' = [l \in Labels |-> currentLabels[l] \cup entering(l)]
        /\ labelHistory' = [l \in Labels |-> labelHistory[l] \cup entering(l)]
        /\ commit' = [commit EXCEPT !.pc = "labels"]
        /\ UNCHANGED << currentVersion, floor, values, activeReaders, lease,
                        prune, log >>

PublishLabels ==
    LET leaving(l)  == {k \in DOMAIN commit.old : commit.old[k] = l}
        entering(l) == {k \in DOMAIN commit.writes : commit.writes[k] = l}
    IN  /\ commit.pc = "values"
        /\ currentLabels' = [l \in Labels |->
                               (currentLabels[l] \ leaving(l)) \cup entering(l)]
        /\ labelHistory' = [l \in Labels |-> labelHistory[l] \cup entering(l)]
        /\ commit' = [commit EXCEPT !.pc = "labels"]
        /\ UNCHANGED << currentVersion, floor, values, activeReaders, lease,
                        prune, log >>

PublishVersion ==
    /\ commit.pc = "labels"
    /\ currentVersion' = commit.version
    /\ commit' = Idle
    /\ UNCHANGED << floor, values, currentLabels, labelHistory, activeReaders,
                    lease, prune, log >>

----------------------------------------------------------------------------
(* Prunes.  Each reads oldest_active_reader(), releases that lock, and     *)
(* then rewrites every chain under the write lock of values.  Storing      *)
(* floor is merged with that rewrite: nothing decides on floor.            *)

\* trigger_prune_now(retain): with a lease in force it only moves floor.
PinnedFloors(oldest) ==
    {IF ArchivedUpTo(values[k], oldest) = {} THEN values[k].head
     ELSE Max(ArchivedUpTo(values[k], oldest)) :
        k \in {j \in Keys : values[j].head # 0 /\ oldest < values[j].head}}

TriggerPrune(p, retain) ==
    /\ prune[p].pc = "idle"
    /\ prune' = [prune EXCEPT ![p] =
          IF OldestActiveReader = NoReader
          THEN [pc |-> "observe", kind |-> "trigger", arg |-> retain + 1, scope |-> Keys]
          ELSE [pc |-> "apply", kind |-> "pinned", arg |-> 0, scope |-> Keys,
                oldest |-> OldestActiveReader]]
    /\ UNCHANGED << currentVersion, floor, values, currentLabels, labelHistory,
                    activeReaders, lease, commit, log >>

RequestPrune(p, kind, arg, scope) ==
    /\ prune[p].pc = "idle"
    /\ prune' = [prune EXCEPT ![p] =
                   [pc |-> "apply", kind |-> kind, arg |-> arg, scope |-> scope,
                    oldest |-> OldestActiveReader]]
    /\ UNCHANGED << currentVersion, floor, values, currentLabels, labelHistory,
                    activeReaders, lease, commit, log >>

\* trigger_prune_now calls prune_mvcc_versions, which reads the leases again.
ObserveOldest(p) ==
    /\ prune[p].pc = "observe"
    /\ prune' = [prune EXCEPT ![p] =
                   [pc |-> "apply", kind |-> @.kind, arg |-> @.arg,
                    scope |-> @.scope, oldest |-> OldestActiveReader]]
    /\ UNCHANGED << currentVersion, floor, values, currentLabels, labelHistory,
                    activeReaders, lease, commit, log >>

PinFloor(p) ==
    /\ prune[p].pc = "apply" /\ prune[p].kind = "pinned"
    /\ floor' = IF PinnedFloors(prune[p].oldest) = {} THEN floor
                ELSE Min(PinnedFloors(prune[p].oldest))
    /\ prune' = [prune EXCEPT ![p] = Idle]
    /\ UNCHANGED << currentVersion, values, currentLabels, labelHistory,
                    activeReaders, lease, commit, log >>

MinOf(S) == IF S = {} THEN 0 ELSE Min(S)

PruneVersions(p) ==
    LET q == prune[p]
        pruned == [k \in Keys |->
                     IF k \in q.scope
                     THEN PruneToMaxVersions(values[k], q.arg, q.oldest)
                     ELSE values[k]]
    IN  /\ q.pc = "apply" /\ q.kind \in {"trigger", "explicit", "namespace"}
        /\ values' = pruned
        /\ floor' = IF q.kind = "namespace" THEN floor
                    ELSE MinOf({pruned[k].floor : k \in {j \in Keys : pruned[j].head # 0}})
        /\ prune' = [prune EXCEPT ![p] =
                       [pc |-> "compact",
                        removed |-> {k \in Keys : pruned[k].archived # values[k].archived}]]
        /\ UNCHANGED << currentVersion, currentLabels, labelHistory,
                        activeReaders, lease, commit, log >>

PruneOlderThan(p) ==
    LET q == prune[p]
        effective == IF q.oldest = NoReader THEN q.arg ELSE Min({q.arg, q.oldest})
    IN  /\ q.pc = "apply" /\ q.kind = "older"
        /\ floor' = effective
        /\ values' = [k \in Keys |-> PruneToFloor(values[k], effective)]
        /\ prune' = [prune EXCEPT ![p] = Idle]
        /\ UNCHANGED << currentVersion, currentLabels, labelHistory,
                        activeReaders, lease, commit, log >>

\* compact_history_candidates: drops a pruned key from the history of every
\* label no version it still retains carries.
CompactHistory(p) ==
    /\ prune[p].pc = "compact"
    /\ labelHistory' =
         [l \in Labels |->
            {k \in labelHistory[l] :
               k \in prune[p].removed => l \in RetainedLabels(values[k])}]
    /\ prune' = [prune EXCEPT ![p] = Idle]
    /\ UNCHANGED << currentVersion, floor, values, currentLabels, activeReaders,
                    lease, commit, log >>

----------------------------------------------------------------------------
Commit ==
    \/ \E writes \in Batches : StageBatch(writes)
    \/ AbortCommit
    \/ PublishValues
    \/ PublishLabels
    \/ PublishVersion

Reader(r) == BeginSnapshot(r) \/ RegisterSnapshot(r) \/ DropLease(r)

Prune(p) ==
    \/ \E retain \in Retains : TriggerPrune(p, retain)
    \/ \E max \in MaxPerKey : RequestPrune(p, "explicit", max, Keys)
    \/ \E max \in MaxPerKey, scope \in Namespaces : RequestPrune(p, "namespace", max, scope)
    \/ \E min \in MinVersions : RequestPrune(p, "older", min, Keys)
    \/ ObserveOldest(p)
    \/ PinFloor(p)
    \/ PruneVersions(p)
    \/ PruneOlderThan(p)
    \/ CompactHistory(p)

Next ==
    \/ Commit
    \/ \E r \in Readers : Reader(r)
    \/ \E p \in Pruners : Prune(p)

Spec == Init /\ [][Next]_vars

----------------------------------------------------------------------------
(* What the history says a snapshot must see.                              *)

WritesUpTo(k, ts) == {v \in 1..Len(log) : v <= ts /\ k \in DOMAIN log[v]}

CommittedVersion(k, ts) ==
    IF WritesUpTo(k, ts) = {} THEN 0 ELSE Max(WritesUpTo(k, ts))

Publishing == commit.pc \in {"values", "labels"}

Registered(r) == lease[r].pc = "registered"

\* Every key reads, at r's snapshot, as of the last commit before it.
HasView(r) ==
    \A k \in Keys : VersionAt(values[k], lease[r].ts) = CommittedVersion(k, lease[r].ts)

Chains ==
    [ floor : Versions, head : Versions, current : Values,
      archived : UNION {[vs -> Values] : vs \in SUBSET Versions} ]

\* The type of each variable; mvcc.rs declares them at 278-290.
TypeOK ==
    /\ currentVersion \in Versions
    /\ floor \in Nat
    /\ values \in [Keys -> Chains]
    /\ currentLabels \in [Labels -> SUBSET Keys]
    /\ labelHistory \in [Labels -> SUBSET Keys]
    /\ activeReaders \in [Versions -> 0..Cardinality(Readers)]
    /\ lease \in [Readers -> [pc : {"none", "begun", "registered"}, ts : Versions]]
    /\ commit.pc \in {"idle", "staged", "values", "labels"}
    /\ \A p \in Pruners : prune[p].pc \in {"idle", "observe", "apply", "compact"}

\* A chain is ordered (floor <= archived versions < head) and every version it
\* retains is one a commit wrote, with the value that commit wrote.
FaithfulChain(chain, k, history) ==
    /\ chain.head \in 0..Len(history)
    /\ chain.head = 0 => chain = NoChain
    /\ chain.head # 0 => /\ chain.floor \in 1..chain.head
                         /\ k \in DOMAIN history[chain.head]
                         /\ history[chain.head][k] = chain.current
    /\ \A v \in DOMAIN chain.archived :
          /\ v \in chain.floor..(chain.head - 1)
          /\ k \in DOMAIN history[v]
          /\ history[v][k] = chain.archived[v]

\* Appends, prunes and the republication of a chain staged before a prune
\* (staged_record_batch clones it) never retain a value no commit wrote, and
\* never lose the newest version of a key.
ChainsFaithful ==
    \A k \in Keys :
        /\ FaithfulChain(values[k], k, log)
        /\ values[k].head = CommittedVersion(k, Len(log))

\* Outside the three steps of publish_record_batch a snapshot taken now reads
\* the last committed version of every key, whatever was pruned meanwhile.
LatestSnapshotComplete ==
    ~Publishing =>
        \A k \in Keys :
            VersionAt(values[k], currentVersion) = CommittedVersion(k, currentVersion)

\* A snapshot never reads a version newer than its read_ts: values are
\* published before the counter, so a half-published batch is invisible.
SnapshotNeverSeesFuture ==
    \A ts \in 0..currentVersion, k \in Keys :
        VersionAt(values[k], ts) <= CommittedVersion(k, ts)

\* active_readers counts exactly the leases in force: begin_registered_snapshot
\* and Drop keep the map in step for leases that share a timestamp.
LeasesCounted ==
    \A ts \in Versions :
        activeReaders[ts] =
            Cardinality({r \in Readers : Registered(r) /\ lease[r].ts = ts})

\* Outside publication the label index lists exactly the live heads
\* (get_nodes_by_label answers from it without rechecking the label).
CurrentLabelsExact ==
    ~Publishing => \A l \in Labels : currentLabels[l] = {k \in Keys : values[k].current = l}

\* compact_history_candidates, which runs after the prune released values,
\* never drops a key from the history of the label its head carries.
HeadsInHistory ==
    commit.pc # "values" =>
        \A k \in Keys : values[k].current # Tombstone => k \in labelHistory[values[k].current]

\* A registered lease loses its view of the store only in a prune that read
\* active_readers when this lease was not the oldest in it, or in
\* prune_versions_older_than; no commit and no other prune takes it away.
Pruned(p) == prune[p].pc = "apply" /\ prune'[p] # prune[p]

ViewLostOnlyToForeignPrune ==
    [][\A r \in Readers :
         Registered(r) /\ lease'[r] = lease[r] /\ HasView(r) /\ ~HasView(r)'
         => \E p \in Pruners :
               /\ Pruned(p)
               /\ prune[p].kind = "older" \/ prune[p].oldest # lease[r].ts]_vars

\* The comment of trigger_prune_now (mvcc.rs:718-721): it never removes versions
\* an active snapshot reader may still need.
TriggerPruneKeepsViews ==
    [][\A r \in Readers, p \in Pruners :
         Registered(r) /\ lease'[r] = lease[r] /\ HasView(r)
         /\ Pruned(p) /\ prune[p].kind = "trigger"
         => HasView(r)']_vars
=============================================================================
