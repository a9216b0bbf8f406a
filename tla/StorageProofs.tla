---------------------------- MODULE StorageProofs ----------------------------
(***************************************************************************)
(* Proofs about StorageTransaction, for every set of records, catalog      *)
(* names, threads and readers and every bound.  The invariant says what    *)
(* the owner of the commit lock has done of its batch so far: backend,     *)
(* history, counter and cache are in step but for that batch, the backend  *)
(* and the history until a flush fails, and the cache and the counter      *)
(* until a reader fills the cache with a value read before a commit.       *)
(***************************************************************************)
EXTENDS StorageTransaction, OrderLemmas, FiniteSetTheorems, SequenceTheorems

----------------------------------------------------------------------------
(* The invariant.                                                          *)

Partial(S, V) == UNION {[ks -> V] : ks \in SUBSET S}

Pcs == {"idle", "begun", "open", "discard", "check", "wait", "staged", "applied",
        "cleared", "published", "committed", "conflict", "stale", "failed"}

TxRecords ==
    [pc : Pcs, batch : BOOLEAN, snapshot : Nat, captured : Partial(Catalog, Contents),
     writes : Partial(Keys, Contents), todo : SUBSET Keys, checked : Partial(Keys, Nat),
     old : Partial(Records, Contents)]

ReaderRecords ==
    [pc : {"idle"}] \cup [pc : {"fill"}, key : Records, value : Contents]

\* Everything is typed but for the bound on versions and the counter.
Types ==
    /\ backend \in [Keys -> Contents]
    /\ cache \in [Records -> Contents \cup {Absent}]
    /\ log \in Seq(Partial(Records, Contents))
    /\ version \in Nat
    /\ commitLock \in Txs \cup {NoTx}
    /\ tx \in [Txs -> TxRecords]
    /\ reader \in [Readers -> ReaderRecords]
    /\ flushFailures \in Nat
    /\ raced \in BOOLEAN
    /\ \A t \in Txs : IsFiniteSet(DOMAIN tx[t].writes)

Committing == {"discard", "check", "wait", "staged", "applied", "cleared"}
Claims == {t \in Txs : tx[t].pc \in Committing}

\* No transaction knows of a commit that is not in the history, and every one
\* that may still publish has a version reserved.
VersionsBounded ==
    /\ version <= Len(log)
    /\ Len(log) + Cardinality(Claims) <= MaxVersion
    /\ \A t \in Txs : tx[t].snapshot <= Len(log)

Owning == {"staged", "applied", "cleared", "published"}

\* Only the owner of the commit lock is past the wait for it.
LockOwned == \A t \in Txs : tx[t].pc \in Owning <=> commitLock = t

\* A session is a batch only between its call and its end.
BatchesBegun == \A t \in Txs : tx[t].batch => tx[t].pc \in {"wait"} \cup Owning

InStep == \A k \in Records : backend[k] = VisibleAt(k, Len(log))

\* The backend holds what the history says but for the batch under way.
BackendFollows ==
    flushFailures = 0 =>
        /\ commitLock = NoTx => version = Len(log) /\ InStep
        /\ \A t \in Txs :
             /\ tx[t].pc = "staged" => version = Len(log) /\ InStep
             /\ tx[t].pc \in {"applied", "cleared"} =>
                  /\ version = Len(log)
                  /\ \A k \in Records :
                       backend[k] = IF k \in DOMAIN tx[t].writes THEN tx[t].writes[k]
                                    ELSE VisibleAt(k, Len(log))
             /\ tx[t].pc = "published" => InStep

Exact(k) == cache[k] \in {Absent, backend[k]}

\* The cache and the readers that are about to fill it hold what the backend
\* holds, but for the records of a batch that is applied and not cleared yet.
CacheFollows ==
    ~raced =>
        /\ \A r \in Readers : reader[r].pc = "fill" =>
             reader[r].value = backend[reader[r].key]
        /\ \A k \in Records :
             Exact(k) \/ \E t \in Txs : tx[t].pc = "applied" /\ k \in DOMAIN tx[t].old

OldGathered ==
    \A t \in Txs : tx[t].pc \in {"staged", "applied"} =>
        /\ DOMAIN tx[t].old = DOMAIN tx[t].writes \cap Records
        /\ ~raced /\ tx[t].pc = "staged" => \A k \in DOMAIN tx[t].old : tx[t].old[k] = backend[k]

LiveRecords == {k \in Records : backend[k] # Tombstone}

\* The counter counts the live records, until a batch took a wrong old record
\* from the cache.
CountFollows ==
    /\ IsFiniteSet(LiveRecords) /\ count \in Nat
    /\ ~raced => count = Cardinality(LiveRecords)

Checks == {"check", "wait", "staged", "applied", "cleared"}

\* The keys a transaction has checked already.
Passed(t) ==
    (DOMAIN tx[t].writes \cap Records) \ (IF tx[t].pc = "check" THEN tx[t].todo ELSE {})

\* A key was as the snapshot has it when it was checked: a newer version came
\* after the check.
CheckedFor(t) ==
    tx[t].pc \in Checks /\ ~tx[t].batch =>
        \A k \in Passed(t) :
            /\ k \in DOMAIN tx[t].checked /\ tx[t].checked[k] <= Len(log)
            /\ HeadOf(k) > tx[t].snapshot => HeadOf(k) > tx[t].checked[k]

CheckedOnce == \A t \in Txs : CheckedFor(t)

----------------------------------------------------------------------------
(* Types.                                                                  *)

LEMMA SentinelsApart ==
    /\ Tombstone \notin Values /\ Absent \notin Contents /\ NoTx \notin Txs
    /\ Tombstone \in Contents
    /\ Records \subseteq Keys /\ Edges \subseteq Records /\ Records \cap Catalog = {}
BY SentinelAssumption, KindsAssumption DEF Contents, Records, Keys

LEMMA PartialMember ==
    ASSUME NEW S, NEW V, NEW f, DOMAIN f \subseteq S, f \in [DOMAIN f -> V]
    PROVE  f \in Partial(S, V)
BY DEF Partial

LEMMA PartialParts ==
    ASSUME NEW S, NEW V, NEW f \in Partial(S, V)
    PROVE  /\ DOMAIN f \subseteq S /\ f \in [DOMAIN f -> V]
           /\ \A k \in DOMAIN f : f[k] \in V
BY DEF Partial

\* A part of a partial function is one.
LEMMA RestrictPartial ==
    ASSUME NEW S, NEW V, NEW f \in Partial(S, V), NEW D \in SUBSET (DOMAIN f)
    PROVE  /\ Restrict(f, D) \in Partial(S, V)
           /\ DOMAIN Restrict(f, D) = D
           /\ \A k \in D : Restrict(f, D)[k] = f[k]
<1>1. DOMAIN Restrict(f, D) = D /\ \A k \in D : Restrict(f, D)[k] = f[k]
  BY DEF Restrict
<1>2. Restrict(f, D) \in [D -> V]
  BY PartialParts DEF Restrict
<1> QED BY <1>1, <1>2, PartialParts, PartialMember

LEMMA IdleType == Idle \in TxRecords /\ DOMAIN Idle.writes = {}
<1>1. NoWrites \in Partial(Catalog, Contents) /\ NoWrites \in Partial(Keys, Contents)
      /\ NoWrites \in Partial(Records, Contents) /\ DOMAIN NoWrites = {}
  BY DEF NoWrites, Partial
<1>2. [k \in {} |-> 0] \in Partial(Keys, Nat)
  BY DEF Partial
<1> QED BY <1>1, <1>2 DEF Idle, TxRecords, Pcs

LEMMA FinishedType ==
    ASSUME NEW o \in {"committed", "conflict", "stale", "failed"}
    PROVE  /\ Finished(o) \in TxRecords /\ DOMAIN Finished(o).writes = {}
           /\ Finished(o).pc = o /\ Finished(o).batch = FALSE /\ Finished(o).snapshot = 0
BY IdleType DEF Finished, Idle, TxRecords, Pcs

LEMMA ReadThroughType ==
    ASSUME Types, NEW k \in Records
    PROVE  ReadThrough(k) \in Contents
BY SentinelsApart DEF Types, ReadThrough

LEMMA TypesInit == Init => Types
<1> SUFFICES ASSUME Init PROVE Types
  OBVIOUS
<1>1. tx \in [Txs -> TxRecords] /\ \A t \in Txs : IsFiniteSet(DOMAIN tx[t].writes)
  BY IdleType, FS_EmptySet DEF Init
<1>2. reader \in [Readers -> ReaderRecords]
  BY DEF Init, ReaderRecords
<1>3. log \in Seq(Partial(Records, Contents))
  BY DEF Init
<1> QED BY <1>1, <1>2, <1>3, SentinelsApart DEF Init, Types

\* What a step of a transaction leaves alone: the records of the others.
TxMoves(t) ==
    /\ tx'[t] \in TxRecords /\ IsFiniteSet(DOMAIN tx'[t].writes)
    /\ tx' = [tx EXCEPT ![t] = tx'[t]]
    /\ \A u \in Txs \ {t} : tx'[u] = tx[u]

LEMMA MovesFromUpdate ==
    ASSUME Types, NEW t \in Txs, NEW c \in TxRecords, IsFiniteSet(DOMAIN c.writes),
           tx' = [tx EXCEPT ![t] = c]
    PROVE  TxMoves(t) /\ tx'[t] = c
BY DEF Types, TxMoves

LEMMA FinishedMoves ==
    ASSUME Types, NEW t \in Txs, NEW o \in {"committed", "conflict", "stale", "failed"},
           tx' = [tx EXCEPT ![t] = Finished(o)]
    PROVE  TxMoves(t) /\ tx'[t] = Finished(o)
<1>1. Finished(o) \in TxRecords /\ IsFiniteSet(DOMAIN Finished(o).writes)
  BY FinishedType, FS_EmptySet
<1> QED BY <1>1, MovesFromUpdate

\* The record of a transaction after each of its steps, and what the step
\* found.
LEMMA BeginMoves ==
    ASSUME Types, NEW t \in Txs, Begin(t)
    PROVE  /\ TxMoves(t) /\ tx[t].pc = "idle" /\ tx'[t].pc = "begun"
           /\ tx'[t].batch = tx[t].batch /\ tx'[t].snapshot = version
<1> DEFINE c == [tx[t] EXCEPT !.pc = "begun", !.snapshot = version]
<1>1. tx[t] \in TxRecords /\ version \in Nat /\ IsFiniteSet(DOMAIN tx[t].writes)
  BY DEF Types
<1>2. c \in TxRecords /\ c.writes = tx[t].writes /\ c.pc = "begun"
      /\ c.batch = tx[t].batch /\ c.snapshot = version
  BY <1>1 DEF TxRecords, Pcs
<1>3. tx' = [tx EXCEPT ![t] = c]
  BY DEF Begin
<1> HIDE DEF c
<1> QED BY <1>1, <1>2, <1>3, MovesFromUpdate DEF Begin

LEMMA LoadCatalogMoves ==
    ASSUME Types, NEW t \in Txs, LoadCatalog(t)
    PROVE  /\ TxMoves(t) /\ tx[t].pc = "begun" /\ tx'[t].pc = "open"
           /\ tx'[t].batch = tx[t].batch /\ tx'[t].snapshot = tx[t].snapshot
<1> DEFINE f == [c \in Catalog |-> backend[c]]
           c == [tx[t] EXCEPT !.pc = "open", !.captured = f]
<1>1. tx[t] \in TxRecords /\ IsFiniteSet(DOMAIN tx[t].writes)
  BY DEF Types
<1>2. f \in [Catalog -> Contents]
  BY DEF Types, Keys
<1>3. f \in Partial(Catalog, Contents)
  BY <1>2 DEF Partial
<1>4. tx' = [tx EXCEPT ![t] = c]
  BY DEF LoadCatalog
<1> HIDE DEF f
<1>5. c \in TxRecords /\ c.writes = tx[t].writes /\ c.pc = "open"
      /\ c.batch = tx[t].batch /\ c.snapshot = tx[t].snapshot
  BY <1>1, <1>3 DEF TxRecords, Pcs
<1> HIDE DEF c
<1> QED BY <1>1, <1>4, <1>5, MovesFromUpdate DEF LoadCatalog

\* What a commit or a batch may write.
LEMMA WriteSetsPartial ==
    ASSUME NEW writes \in WriteSets
    PROVE  writes \in Partial(Keys, Contents) /\ IsFiniteSet(DOMAIN writes)
BY DEF WriteSets, Partial

LEMMA CommitMoves ==
    ASSUME Types, NEW t \in Txs, NEW writes \in WriteSets, Commit(t, writes)
    PROVE  /\ TxMoves(t) /\ tx[t].pc = "open" /\ tx'[t].pc = "discard" /\ VersionLeft
           /\ tx'[t].batch = tx[t].batch /\ tx'[t].snapshot = tx[t].snapshot
<1> DEFINE todo == {k \in DOMAIN writes \cap Edges : writes[k] # Tombstone}
           c == [tx[t] EXCEPT !.pc = "discard", !.writes = writes, !.todo = todo]
<1>1. tx[t] \in TxRecords
  BY DEF Types
<1>2. writes \in Partial(Keys, Contents) /\ IsFiniteSet(DOMAIN writes)
  BY WriteSetsPartial
<1>3. todo \in SUBSET Keys
  BY SentinelsApart
<1>4. tx' = [tx EXCEPT ![t] = c]
  BY DEF Commit
<1> HIDE DEF todo
<1>5. c \in TxRecords /\ c.writes = writes /\ c.pc = "discard"
      /\ c.batch = tx[t].batch /\ c.snapshot = tx[t].snapshot
  BY <1>1, <1>2, <1>3 DEF TxRecords, Pcs
<1> HIDE DEF c
<1> QED BY <1>2, <1>4, <1>5, MovesFromUpdate DEF Commit

LEMMA BatchWriteMoves ==
    ASSUME Types, NEW t \in Txs, NEW writes \in WriteSets, BatchWrite(t, writes)
    PROVE  /\ TxMoves(t) /\ tx[t].pc = "idle" /\ tx'[t].pc = "wait" /\ VersionLeft
           /\ tx'[t].batch = TRUE /\ tx'[t].snapshot = tx[t].snapshot
<1> DEFINE c == [tx[t] EXCEPT !.pc = "wait", !.batch = TRUE, !.writes = writes]
<1>1. tx[t] \in TxRecords
  BY DEF Types
<1>2. writes \in Partial(Keys, Contents) /\ IsFiniteSet(DOMAIN writes)
  BY WriteSetsPartial
<1>3. tx' = [tx EXCEPT ![t] = c]
  BY DEF BatchWrite
<1>4. c \in TxRecords /\ c.writes = writes /\ c.pc = "wait"
      /\ c.batch = TRUE /\ c.snapshot = tx[t].snapshot
  BY <1>1, <1>2 DEF TxRecords, Pcs
<1> HIDE DEF c
<1> QED BY <1>2, <1>3, <1>4, MovesFromUpdate DEF BatchWrite

LEMMA EndMoves ==
    ASSUME Types, NEW t \in Txs, End(t)
    PROVE  /\ TxMoves(t) /\ tx'[t] = Idle
           /\ tx[t].pc \in {"open", "committed", "conflict", "stale", "failed"}
BY IdleType, FS_EmptySet, MovesFromUpdate DEF End

LEMMA DiscardNoopMoves ==
    ASSUME Types, NEW t \in Txs, NEW k \in Edges, DiscardNoop(t, k)
    PROVE  /\ TxMoves(t) /\ tx[t].pc = "discard" /\ tx'[t].pc = "discard"
           /\ tx'[t].batch = tx[t].batch /\ tx'[t].snapshot = tx[t].snapshot
<1> DEFINE w == IF ReadThrough(k) = tx[t].writes[k]
                THEN Restrict(tx[t].writes, DOMAIN tx[t].writes \ {k}) ELSE tx[t].writes
           todo == tx[t].todo \ {k}
           c == [tx[t] EXCEPT !.todo = todo, !.writes = w]
<1>1. tx[t] \in TxRecords /\ IsFiniteSet(DOMAIN tx[t].writes) /\ tx[t].pc = "discard"
  BY DEF Types, DiscardNoop
<1>2. tx[t].writes \in Partial(Keys, Contents) /\ todo \in SUBSET Keys
  BY <1>1 DEF TxRecords
<1>3. w \in Partial(Keys, Contents) /\ DOMAIN w \subseteq DOMAIN tx[t].writes
  BY <1>2, RestrictPartial
<1>4. IsFiniteSet(DOMAIN w)
  BY <1>1, <1>3, FS_Subset
<1>5. tx' = [tx EXCEPT ![t] = c]
  BY DEF DiscardNoop
<1> HIDE DEF w, todo
<1>6. c \in TxRecords /\ c.writes = w /\ c.pc = "discard"
      /\ c.batch = tx[t].batch /\ c.snapshot = tx[t].snapshot
  BY <1>1, <1>2, <1>3 DEF TxRecords
<1> HIDE DEF c
<1> QED BY <1>1, <1>4, <1>5, <1>6, MovesFromUpdate

LEMMA EndDiscardMoves ==
    ASSUME Types, NEW t \in Txs, EndDiscard(t)
    PROVE  /\ TxMoves(t) /\ tx[t].pc = "discard" /\ tx'[t].pc = "check"
           /\ tx'[t].batch = tx[t].batch /\ tx'[t].snapshot = tx[t].snapshot
           /\ tx'[t].writes = tx[t].writes /\ tx'[t].todo = DOMAIN tx[t].writes
<1> DEFINE c == [tx[t] EXCEPT !.pc = "check", !.todo = DOMAIN tx[t].writes]
<1>1. tx[t] \in TxRecords /\ IsFiniteSet(DOMAIN tx[t].writes)
  BY DEF Types
<1>2. DOMAIN tx[t].writes \in SUBSET Keys
  BY <1>1, PartialParts DEF TxRecords
<1>3. tx' = [tx EXCEPT ![t] = c]
  BY DEF EndDiscard
<1>4. c \in TxRecords /\ c.writes = tx[t].writes /\ c.pc = "check" /\ c.batch = tx[t].batch
      /\ c.snapshot = tx[t].snapshot /\ c.todo = DOMAIN tx[t].writes
  BY <1>1, <1>2 DEF TxRecords, Pcs
<1> HIDE DEF c
<1> QED BY <1>1, <1>3, <1>4, MovesFromUpdate DEF EndDiscard

\* A check refuses the session, or takes one key off the list.
LEMMA CheckKeyMoves ==
    ASSUME Types, NEW t \in Txs, NEW k \in Keys, CheckKey(t, k)
    PROVE  /\ TxMoves(t) /\ tx[t].pc = "check"
           /\ \/ tx'[t] = Finished("stale")
              \/ tx'[t] = Finished("conflict") /\ Outdated(t, k)
              \/ /\ ~Outdated(t, k)
                 /\ tx'[t].pc = "check" /\ tx'[t].batch = tx[t].batch
                 /\ tx'[t].snapshot = tx[t].snapshot /\ tx'[t].writes = tx[t].writes
                 /\ tx'[t].todo = tx[t].todo \ {k}
                 /\ tx'[t].checked = [j \in DOMAIN tx[t].checked \cup {k} |->
                                        IF j = k THEN Len(log) ELSE tx[t].checked[j]]
<1>0. tx[t] \in TxRecords /\ IsFiniteSet(DOMAIN tx[t].writes) /\ tx[t].pc = "check"
  BY DEF Types, CheckKey
<1>1. CASE CatalogChanged(t, k) \/ EdgeGone(t, k)
  <2>1. tx' = [tx EXCEPT ![t] = Finished("stale")]
    BY <1>1 DEF CheckKey
  <2> QED BY <1>0, <2>1, FinishedMoves
<1>2. CASE ~(CatalogChanged(t, k) \/ EdgeGone(t, k)) /\ Outdated(t, k)
  <2>1. tx' = [tx EXCEPT ![t] = Finished("conflict")]
    BY <1>2 DEF CheckKey
  <2> QED BY <1>0, <1>2, <2>1, FinishedMoves
<1>3. CASE ~(CatalogChanged(t, k) \/ EdgeGone(t, k)) /\ ~Outdated(t, k)
  <2> DEFINE todo == tx[t].todo \ {k}
             old == tx[t].checked
             new == [j \in DOMAIN old \cup {k} |-> IF j = k THEN Len(log) ELSE old[j]]
             c == [tx[t] EXCEPT !.todo = todo, !.checked = new]
  <2>1. todo \in SUBSET Keys /\ old \in Partial(Keys, Nat)
    BY <1>0 DEF TxRecords
  <2>2. Len(log) \in Nat
    BY LenProperties DEF Types
  <2>3. DOMAIN new \subseteq Keys /\ new \in [DOMAIN new -> Nat]
    BY <2>1, <2>2, PartialParts
  <2>4. tx' = [tx EXCEPT ![t] = c]
    BY <1>3 DEF CheckKey
  <2> HIDE DEF todo, new
  <2>5. new \in Partial(Keys, Nat)
    BY <2>3, PartialMember
  <2>6. c \in TxRecords /\ c.writes = tx[t].writes /\ c.pc = "check" /\ c.batch = tx[t].batch
        /\ c.snapshot = tx[t].snapshot /\ c.todo = todo /\ c.checked = new
    BY <1>0, <2>1, <2>5 DEF TxRecords
  <2> HIDE DEF c
  <2>7. TxMoves(t) /\ tx'[t] = c
    BY <1>0, <2>4, <2>6, MovesFromUpdate
  <2> QED BY <1>0, <1>3, <2>6, <2>7 DEF todo, new
<1> QED BY <1>1, <1>2, <1>3

LEMMA EndCheckMoves ==
    ASSUME Types, NEW t \in Txs, EndCheck(t)
    PROVE  /\ TxMoves(t) /\ tx[t].pc = "check" /\ tx'[t].pc = "wait" /\ tx[t].todo = {}
           /\ tx'[t].batch = tx[t].batch /\ tx'[t].snapshot = tx[t].snapshot
           /\ tx'[t].writes = tx[t].writes /\ tx'[t].checked = tx[t].checked
<1> DEFINE c == [tx[t] EXCEPT !.pc = "wait"]
<1>1. tx[t] \in TxRecords /\ IsFiniteSet(DOMAIN tx[t].writes)
  BY DEF Types
<1>2. tx' = [tx EXCEPT ![t] = c]
  BY DEF EndCheck
<1>3. c \in TxRecords /\ c.writes = tx[t].writes /\ c.pc = "wait" /\ c.batch = tx[t].batch
      /\ c.snapshot = tx[t].snapshot /\ c.checked = tx[t].checked
  BY <1>1 DEF TxRecords, Pcs
<1> HIDE DEF c
<1> QED BY <1>1, <1>2, <1>3, MovesFromUpdate DEF EndCheck

\* The owner of the lock keeps its writes until it returns.
Keeps(t) ==
    /\ tx'[t].batch = tx[t].batch /\ tx'[t].snapshot = tx[t].snapshot
    /\ tx'[t].writes = tx[t].writes /\ tx'[t].checked = tx[t].checked

LEMMA StageMoves ==
    ASSUME Types, NEW t \in Txs, Stage(t)
    PROVE  /\ TxMoves(t) /\ Keeps(t) /\ tx[t].pc = "wait" /\ tx'[t].pc = "staged"
           /\ commitLock = NoTx /\ commitLock' = t
           /\ DOMAIN tx'[t].old = DOMAIN tx[t].writes \cap Records
           /\ \A k \in DOMAIN tx'[t].old : tx'[t].old[k] = ReadThrough(k)
<1> DEFINE old == [k \in DOMAIN tx[t].writes \cap Records |-> ReadThrough(k)]
           c == [tx[t] EXCEPT !.pc = "staged", !.old = old]
<1>1. tx[t] \in TxRecords /\ IsFiniteSet(DOMAIN tx[t].writes)
  BY DEF Types
<1>2. /\ DOMAIN old = DOMAIN tx[t].writes \cap Records
      /\ \A k \in DOMAIN old : old[k] = ReadThrough(k)
      /\ old \in [DOMAIN old -> Contents]
  BY ReadThroughType
<1>3. tx' = [tx EXCEPT ![t] = c]
  BY DEF Stage
<1> HIDE DEF old
<1>4. old \in Partial(Records, Contents)
  BY <1>2, PartialMember
<1>5. c \in TxRecords /\ c.writes = tx[t].writes /\ c.pc = "staged" /\ c.batch = tx[t].batch
      /\ c.snapshot = tx[t].snapshot /\ c.checked = tx[t].checked /\ c.old = old
  BY <1>1, <1>4 DEF TxRecords, Pcs
<1> HIDE DEF c
<1> QED BY <1>1, <1>2, <1>3, <1>5, MovesFromUpdate DEF Stage, Keeps

LEMMA RefuseBatchMoves ==
    ASSUME Types, NEW t \in Txs, RefuseBatch(t)
    PROVE  TxMoves(t) /\ tx[t].pc = "staged" /\ tx'[t] = Finished("failed")
BY FinishedMoves DEF RefuseBatch

\* A step under the lock that changes nothing of the record but its counter.
LEMMA PcMoves ==
    ASSUME Types, NEW t \in Txs, NEW p \in Pcs, tx' = [tx EXCEPT ![t].pc = p]
    PROVE  TxMoves(t) /\ Keeps(t) /\ tx'[t].pc = p /\ tx'[t].old = tx[t].old
<1> DEFINE c == [tx[t] EXCEPT !.pc = p]
<1>1. tx[t] \in TxRecords /\ IsFiniteSet(DOMAIN tx[t].writes)
  BY DEF Types
<1>2. c \in TxRecords /\ c.writes = tx[t].writes /\ c.pc = p /\ c.batch = tx[t].batch
      /\ c.snapshot = tx[t].snapshot /\ c.checked = tx[t].checked /\ c.old = tx[t].old
  BY <1>1 DEF TxRecords
<1> HIDE DEF c
<1> QED BY <1>1, <1>2, MovesFromUpdate DEF c, Keeps

LEMMA ApplyBatchMoves ==
    ASSUME Types, NEW t \in Txs, ApplyBatch(t)
    PROVE  /\ TxMoves(t) /\ Keeps(t) /\ tx[t].pc = "staged" /\ tx'[t].pc = "applied"
           /\ tx'[t].old = tx[t].old
BY PcMoves DEF ApplyBatch, Pcs

LEMMA ClearCachesMoves ==
    ASSUME Types, NEW t \in Txs, ClearCaches(t)
    PROVE  /\ TxMoves(t) /\ Keeps(t) /\ tx[t].pc = "applied" /\ tx'[t].pc = "cleared"
           /\ tx'[t].old = tx[t].old
BY PcMoves DEF ClearCaches, Pcs

LEMMA FlushFailsMoves ==
    ASSUME Types, NEW t \in Txs, FlushFails(t)
    PROVE  TxMoves(t) /\ tx[t].pc = "cleared" /\ tx'[t] = Finished("failed")
BY FinishedMoves DEF FlushFails

LEMMA PublishMoves ==
    ASSUME Types, NEW t \in Txs, Publish(t)
    PROVE  TxMoves(t) /\ Keeps(t) /\ tx[t].pc = "cleared" /\ tx'[t].pc = "published"
BY PcMoves DEF Publish, Pcs

LEMMA PublishVersionMoves ==
    ASSUME Types, NEW t \in Txs, PublishVersion(t)
    PROVE  /\ TxMoves(t) /\ tx[t].pc = "published"
           /\ \E outcome \in {"committed", "failed"} : tx'[t] = Finished(outcome)
<1>1. PICK outcome \in {"committed", "failed"} : tx' = [tx EXCEPT ![t] = Finished(outcome)]
  BY DEF PublishVersion, Outcomes
<1>2. TxMoves(t) /\ tx'[t] = Finished(outcome)
  BY <1>1, FinishedMoves
<1> QED BY <1>2 DEF PublishVersion

\* The writes of a transaction, and the part it publishes.
LEMMA WritesParts ==
    ASSUME Types, NEW t \in Txs
    PROVE  /\ tx[t] \in TxRecords /\ tx[t].writes \in Partial(Keys, Contents)
           /\ DOMAIN tx[t].writes \subseteq Keys /\ IsFiniteSet(DOMAIN tx[t].writes)
           /\ \A k \in DOMAIN tx[t].writes : tx[t].writes[k] \in Contents
           /\ tx[t].old \in Partial(Records, Contents)
           /\ DOMAIN tx[t].old \subseteq Records
           /\ \A k \in DOMAIN tx[t].old : tx[t].old[k] \in Contents
<1>1. tx[t] \in TxRecords /\ IsFiniteSet(DOMAIN tx[t].writes)
  BY DEF Types
<1>2. tx[t].writes \in Partial(Keys, Contents) /\ tx[t].old \in Partial(Records, Contents)
  BY <1>1 DEF TxRecords
<1> QED BY <1>1, <1>2, PartialParts

Published(t) == Restrict(tx[t].writes, Staged(t))

LEMMA PublishedParts ==
    ASSUME Types, NEW t \in Txs
    PROVE  /\ Published(t) \in Partial(Records, Contents)
           /\ DOMAIN Published(t) = Staged(t)
           /\ \A k \in Staged(t) : Published(t)[k] = tx[t].writes[k]
<1>1. Staged(t) \subseteq DOMAIN tx[t].writes /\ Staged(t) \subseteq Records
  BY DEF Staged
<1>2. /\ DOMAIN Published(t) = Staged(t)
      /\ \A k \in Staged(t) : Published(t)[k] = tx[t].writes[k]
      /\ Published(t) \in [Staged(t) -> Contents]
  BY <1>1, WritesParts DEF Restrict, Published
<1> QED BY <1>1, <1>2, PartialMember

\* What publication appends to the history.
LEMMA PublishAppends ==
    ASSUME Types, NEW t \in Txs, Publish(t)
    PROVE  /\ Len(log) \in Nat
           /\ \/ Staged(t) = {} /\ log' = log
              \/ /\ Staged(t) # {} /\ log' = Append(log, Published(t))
                 /\ Len(log') = Len(log) + 1
                 /\ log'[Len(log) + 1] = Published(t)
                 /\ \A v \in 1..Len(log) : log'[v] = log[v]
           /\ log' \in Seq(Partial(Records, Contents))
<1>1. log \in Seq(Partial(Records, Contents)) /\ Len(log) \in Nat
  BY LenProperties DEF Types
<1>2. Published(t) \in Partial(Records, Contents)
  BY PublishedParts
<1>3. log' = IF Staged(t) = {} THEN log ELSE Append(log, Published(t))
  BY DEF Publish, Published
<1> DEFINE p == Published(t)
<1> HIDE DEF p
<1>4. /\ Append(log, p) \in Seq(Partial(Records, Contents))
      /\ Len(Append(log, p)) = Len(log) + 1
      /\ Append(log, p)[Len(log) + 1] = p
      /\ \A v \in 1..Len(log) : Append(log, p)[v] = log[v]
  BY <1>1, <1>2, AppendProperties DEF p
<1> QED BY <1>1, <1>3, <1>4 DEF p

----------------------------------------------------------------------------
(* The steps, by what they may change.                                     *)

OthersThanTx == << backend, count, cache, log, version, commitLock, reader, flushFailures, raced >>

\* A step of a transaction that does not own the lock and does not take it.
BeforeLock(t) ==
    /\ TxMoves(t) /\ UNCHANGED OthersThanTx
    /\ tx[t].pc \notin Owning \cup {"wait"} /\ tx'[t].pc \notin Owning
    /\ tx'[t].pc \in Committing => tx[t].pc \in Committing \/ VersionLeft
    /\ tx'[t].snapshot \in {0, version, tx[t].snapshot}
    /\ tx'[t].batch => tx[t].batch \/ tx'[t].pc = "wait"

LEMMA SessionStepsBeforeLock ==
    ASSUME Types, NEW t \in Txs,
           \/ Begin(t) \/ LoadCatalog(t) \/ End(t)
           \/ \E writes \in WriteSets : Commit(t, writes) \/ BatchWrite(t, writes)
    PROVE  BeforeLock(t)
<1>1. CASE Begin(t)
  <2>1. UNCHANGED OthersThanTx
    BY <1>1 DEF Begin, OthersThanTx
  <2> QED BY <1>1, <2>1, BeginMoves DEF BeforeLock, Owning, Committing
<1>2. CASE LoadCatalog(t)
  <2>1. UNCHANGED OthersThanTx
    BY <1>2 DEF LoadCatalog, OthersThanTx
  <2> QED BY <1>2, <2>1, LoadCatalogMoves DEF BeforeLock, Owning, Committing
<1>3. CASE End(t)
  <2>1. UNCHANGED OthersThanTx
    BY <1>3 DEF End, OthersThanTx
  <2>2. Idle.pc = "idle" /\ Idle.snapshot = 0 /\ Idle.batch = FALSE
    BY DEF Idle
  <2> QED BY <1>3, <2>1, <2>2, EndMoves DEF BeforeLock, Owning, Committing
<1>4. ASSUME NEW writes \in WriteSets, Commit(t, writes) PROVE BeforeLock(t)
  <2>1. UNCHANGED OthersThanTx
    BY <1>4 DEF Commit, OthersThanTx
  <2> QED BY <1>4, <2>1, CommitMoves DEF BeforeLock, Owning, Committing
<1>5. ASSUME NEW writes \in WriteSets, BatchWrite(t, writes) PROVE BeforeLock(t)
  <2>1. UNCHANGED OthersThanTx
    BY <1>5 DEF BatchWrite, OthersThanTx
  <2> QED BY <1>5, <2>1, BatchWriteMoves DEF BeforeLock, Owning, Committing
<1> QED BY <1>1, <1>2, <1>3, <1>4, <1>5

LEMMA ChecksBeforeLock ==
    ASSUME Types, NEW t \in Txs,
           \/ \E k \in Edges : DiscardNoop(t, k)
           \/ EndDiscard(t) \/ EndCheck(t)
           \/ \E k \in Keys : CheckKey(t, k)
    PROVE  BeforeLock(t)
<1>1. ASSUME NEW k \in Edges, DiscardNoop(t, k) PROVE BeforeLock(t)
  <2>1. UNCHANGED OthersThanTx
    BY <1>1 DEF DiscardNoop, OthersThanTx
  <2> QED BY <1>1, <2>1, DiscardNoopMoves DEF BeforeLock, Owning, Committing
<1>2. CASE EndDiscard(t)
  <2>1. UNCHANGED OthersThanTx
    BY <1>2 DEF EndDiscard, OthersThanTx
  <2> QED BY <1>2, <2>1, EndDiscardMoves DEF BeforeLock, Owning, Committing
<1>3. CASE EndCheck(t)
  <2>1. UNCHANGED OthersThanTx
    BY <1>3 DEF EndCheck, OthersThanTx
  <2> QED BY <1>3, <2>1, EndCheckMoves DEF BeforeLock, Owning, Committing
<1>4. ASSUME NEW k \in Keys, CheckKey(t, k) PROVE BeforeLock(t)
  <2>1. UNCHANGED OthersThanTx
    BY <1>4 DEF CheckKey, OthersThanTx
  <2> QED BY <1>4, <2>1, CheckKeyMoves, FinishedType DEF BeforeLock, Owning, Committing
<1> QED BY <1>1, <1>2, <1>3, <1>4

\* The steps of the transaction that owns the lock, or takes it.
UnderLock(t) ==
    \/ Stage(t) \/ RefuseBatch(t) \/ ApplyBatch(t) \/ ClearCaches(t)
    \/ FlushFails(t) \/ Publish(t) \/ PublishVersion(t)

LEMMA StepKinds ==
    ASSUME Types, Next
    PROVE  \/ \E t \in Txs : BeforeLock(t) \/ UnderLock(t)
           \/ \E r \in Readers : Reader(r)
<1> SUFFICES ASSUME NEW t \in Txs, Tx(t) PROVE BeforeLock(t) \/ UnderLock(t)
  BY DEF Next
<1>1. CASE \/ Begin(t) \/ LoadCatalog(t) \/ End(t)
           \/ \E writes \in WriteSets : Commit(t, writes) \/ BatchWrite(t, writes)
  BY <1>1, SessionStepsBeforeLock
<1>2. CASE \/ \E k \in Edges : DiscardNoop(t, k)
           \/ EndDiscard(t) \/ EndCheck(t)
           \/ \E k \in Keys : CheckKey(t, k)
  BY <1>2, ChecksBeforeLock
<1>3. CASE UnderLock(t)
  BY <1>3
<1>4. QED BY <1>1, <1>2, <1>3 DEF Tx, CommitStep, UnderLock

\* A reader's step.
LEMMA FillCacheChanges ==
    ASSUME Types, NEW r \in Readers, FillCache(r)
    PROVE  /\ reader[r].pc = "fill" /\ reader[r].key \in Records
           /\ reader[r].value \in Contents
           /\ cache' = [cache EXCEPT ![reader[r].key] = reader[r].value]
           /\ reader' = [reader EXCEPT ![r] = [pc |-> "idle"]]
           /\ [pc |-> "idle"] \in ReaderRecords
           /\ UNCHANGED << backend, count, log, version, commitLock, tx, flushFailures, raced >>
<1>1. reader[r] \in ReaderRecords
  BY DEF Types
<1>2. reader[r].pc = "fill"
  BY DEF FillCache
<1>3. reader[r].key \in Records /\ reader[r].value \in Contents
  BY <1>1, <1>2 DEF ReaderRecords
<1>4. [pc |-> "idle"] \in ReaderRecords
  BY DEF ReaderRecords
<1> QED BY <1>2, <1>3, <1>4 DEF FillCache

LEMMA ReadMissChanges ==
    ASSUME Types, NEW r \in Readers, NEW k \in Records, ReadMiss(r, k)
    PROVE  /\ cache[k] = Absent
           /\ reader' = [reader EXCEPT ![r] = [pc |-> "fill", key |-> k, value |-> backend[k]]]
           /\ [pc |-> "fill", key |-> k, value |-> backend[k]] \in ReaderRecords
           /\ UNCHANGED << backend, count, cache, log, version, commitLock, tx, flushFailures, raced >>
<1>1. backend[k] \in Contents
  BY SentinelsApart DEF Types
<1> QED BY <1>1 DEF ReadMiss, ReaderRecords

LEMMA TypesStep == Types /\ [Next]_vars => Types'
<1> SUFFICES ASSUME Types, [Next]_vars PROVE Types'
  OBVIOUS
<1>1. CASE UNCHANGED vars
  BY <1>1 DEF vars, Types, ReaderRecords
<1>2. ASSUME NEW t \in Txs, TxMoves(t)
      PROVE  tx' \in [Txs -> TxRecords] /\ \A u \in Txs : IsFiniteSet(DOMAIN tx'[u].writes)
  BY <1>2 DEF TxMoves, Types
<1>3. ASSUME NEW t \in Txs, BeforeLock(t) PROVE Types'
  BY <1>2, <1>3 DEF BeforeLock, OthersThanTx, Types
<1>4. ASSUME NEW t \in Txs, Stage(t) PROVE Types'
  <2>1. tx' \in [Txs -> TxRecords] /\ \A u \in Txs : IsFiniteSet(DOMAIN tx'[u].writes)
    BY <1>2, <1>4, StageMoves
  <2> QED BY <1>4, <2>1 DEF Stage, Types
<1>5. ASSUME NEW t \in Txs, RefuseBatch(t) PROVE Types'
  <2>1. tx' \in [Txs -> TxRecords] /\ \A u \in Txs : IsFiniteSet(DOMAIN tx'[u].writes)
    BY <1>2, <1>5, RefuseBatchMoves
  <2> QED BY <1>5, <2>1 DEF RefuseBatch, Types
<1>6. ASSUME NEW t \in Txs, ApplyBatch(t) PROVE Types'
  <2>1. tx' \in [Txs -> TxRecords] /\ \A u \in Txs : IsFiniteSet(DOMAIN tx'[u].writes)
    BY <1>2, <1>6, ApplyBatchMoves
  <2>2. backend' = [k \in Keys |-> IF k \in DOMAIN tx[t].writes
                                   THEN tx[t].writes[k] ELSE backend[k]]
    BY <1>6 DEF ApplyBatch
  <2>3. backend' \in [Keys -> Contents]
    BY <2>2, WritesParts DEF Types
  <2>4. raced' \in BOOLEAN
    BY <1>6 DEF ApplyBatch
  <2> QED BY <1>6, <2>1, <2>3, <2>4 DEF ApplyBatch, Types
<1>7. ASSUME NEW t \in Txs, ClearCaches(t) PROVE Types'
  <2>1. tx' \in [Txs -> TxRecords] /\ \A u \in Txs : IsFiniteSet(DOMAIN tx'[u].writes)
    BY <1>2, <1>7, ClearCachesMoves
  <2>2. cache' \in [Records -> Contents \cup {Absent}]
    BY <1>7 DEF ClearCaches, Types
  <2> QED BY <1>7, <2>1, <2>2 DEF ClearCaches, Types
<1>8. ASSUME NEW t \in Txs, FlushFails(t) PROVE Types'
  <2>1. tx' \in [Txs -> TxRecords] /\ \A u \in Txs : IsFiniteSet(DOMAIN tx'[u].writes)
    BY <1>2, <1>8, FlushFailsMoves
  <2> QED BY <1>8, <2>1 DEF FlushFails, Types
<1>9. ASSUME NEW t \in Txs, Publish(t) PROVE Types'
  <2>1. tx' \in [Txs -> TxRecords] /\ \A u \in Txs : IsFiniteSet(DOMAIN tx'[u].writes)
    BY <1>2, <1>9, PublishMoves
  <2>2. log' \in Seq(Partial(Records, Contents))
    BY <1>9, PublishAppends
  <2> QED BY <1>9, <2>1, <2>2 DEF Publish, Types
<1>10. ASSUME NEW t \in Txs, PublishVersion(t) PROVE Types'
  <2>1. tx' \in [Txs -> TxRecords] /\ \A u \in Txs : IsFiniteSet(DOMAIN tx'[u].writes)
    BY <1>2, <1>10, PublishVersionMoves
  <2>2. Len(log) \in Nat
    BY LenProperties DEF Types
  <2> QED BY <1>10, <2>1, <2>2 DEF PublishVersion, Types
<1>11. ASSUME NEW r \in Readers, FillCache(r) PROVE Types'
  <2>1. cache' \in [Records -> Contents \cup {Absent}] /\ reader' \in [Readers -> ReaderRecords]
    BY <1>11, FillCacheChanges DEF Types
  <2> QED BY <1>11, <2>1, FillCacheChanges DEF Types
<1>12. ASSUME NEW r \in Readers, NEW k \in Records, ReadMiss(r, k) PROVE Types'
  <2>1. reader' \in [Readers -> ReaderRecords]
    BY <1>12, ReadMissChanges DEF Types
  <2> QED BY <1>12, <2>1, ReadMissChanges DEF Types
<1> QED BY <1>1, <1>3, <1>4, <1>5, <1>6, <1>7, <1>8, <1>9, <1>10, <1>11, <1>12, StepKinds
        DEF UnderLock, Reader

LEMMA TypesAlways == Spec => []Types
<1>1. Init => Types
  BY TypesInit
<1>2. Types /\ [Next]_vars => Types'
  BY TypesStep
<1> QED BY <1>1, <1>2, PTL DEF Spec

----------------------------------------------------------------------------
(* The lock, and the versions reserved for those on their way to it.       *)

\* How each step moves the lock and the program counters.
LockMoves(t) ==
    /\ TxMoves(t)
    /\ \/ tx[t].pc \notin Owning /\ tx'[t].pc \notin Owning /\ commitLock' = commitLock
       \/ tx[t].pc = "wait" /\ tx'[t].pc \in Owning /\ commitLock = NoTx /\ commitLock' = t
       \/ tx[t].pc \in Owning /\ tx'[t].pc \notin Owning /\ commitLock' = NoTx
       \/ tx[t].pc \in Owning /\ tx'[t].pc \in Owning /\ commitLock' = commitLock

LEMMA UnderLockMoves ==
    ASSUME Types, NEW t \in Txs, UnderLock(t)
    PROVE  /\ LockMoves(t)
           /\ tx'[t].batch => tx[t].batch /\ tx'[t].pc \in Owning
           /\ tx'[t].snapshot \in {0, tx[t].snapshot}
           /\ tx'[t].pc \in Committing => tx[t].pc \in Committing
<1>1. CASE Stage(t)
  BY <1>1, StageMoves DEF LockMoves, Keeps, Owning, Committing
<1>2. CASE RefuseBatch(t)
  BY <1>2, RefuseBatchMoves, FinishedType DEF RefuseBatch, LockMoves, Owning, Committing
<1>3. CASE ApplyBatch(t)
  BY <1>3, ApplyBatchMoves DEF ApplyBatch, LockMoves, Keeps, Owning, Committing
<1>4. CASE ClearCaches(t)
  BY <1>4, ClearCachesMoves DEF ClearCaches, LockMoves, Keeps, Owning, Committing
<1>5. CASE FlushFails(t)
  BY <1>5, FlushFailsMoves, FinishedType DEF FlushFails, LockMoves, Owning, Committing
<1>6. CASE Publish(t)
  BY <1>6, PublishMoves DEF Publish, LockMoves, Keeps, Owning, Committing
<1>7. CASE PublishVersion(t)
  BY <1>7, PublishVersionMoves, FinishedType DEF PublishVersion, LockMoves, Owning, Committing
<1> QED BY <1>1, <1>2, <1>3, <1>4, <1>5, <1>6, <1>7 DEF UnderLock

LEMMA ReaderKeepsTxs ==
    ASSUME NEW r \in Readers, Reader(r)
    PROVE  UNCHANGED << backend, count, log, version, commitLock, tx, flushFailures, raced >>
BY DEF Reader, FillCache, ReadMiss

Locking == LockOwned /\ BatchesBegun

LEMMA LockingStep == Types /\ Locking /\ [Next]_vars => Locking'
<1> SUFFICES ASSUME Types, Locking, [Next]_vars PROVE Locking'
  OBVIOUS
<1>1. CASE UNCHANGED << tx, commitLock >>
  BY <1>1 DEF Locking, LockOwned, BatchesBegun
<1>2. ASSUME NEW t \in Txs, LockMoves(t) PROVE LockOwned'
  BY <1>2, SentinelsApart DEF LockMoves, TxMoves, Locking, LockOwned
<1>3. ASSUME NEW t \in Txs, BeforeLock(t) PROVE Locking'
  <2>1. LockMoves(t)
    BY <1>3 DEF BeforeLock, LockMoves, OthersThanTx
  <2>2. ASSUME NEW u \in Txs, tx'[u].batch PROVE tx'[u].pc \in {"wait"} \cup Owning
    BY <1>3, <2>2 DEF BeforeLock, TxMoves, Locking, BatchesBegun
  <2> QED BY <1>2, <2>1, <2>2 DEF Locking, BatchesBegun
<1>4. ASSUME NEW t \in Txs, UnderLock(t) PROVE Locking'
  <2>1. LockMoves(t) /\ (tx'[t].batch => tx[t].batch /\ tx'[t].pc \in Owning)
    BY <1>4, UnderLockMoves
  <2>2. ASSUME NEW u \in Txs, tx'[u].batch PROVE tx'[u].pc \in {"wait"} \cup Owning
    BY <2>1, <2>2 DEF LockMoves, TxMoves, Locking, BatchesBegun
  <2> QED BY <1>2, <2>1, <2>2 DEF Locking, BatchesBegun
<1> QED BY <1>1, <1>3, <1>4, StepKinds, ReaderKeepsTxs DEF vars

LEMMA LockingAlways == Spec => []Locking
<1>1. Init => Locking
  BY SentinelsApart DEF Init, Idle, Locking, LockOwned, BatchesBegun, Owning
<1>2. Types /\ Locking /\ [Next]_vars => Locking'
  BY LockingStep
<1> QED BY <1>1, <1>2, TypesAlways, PTL DEF Spec

\* While one transaction owns the lock no other does.
LEMMA OneOwner ==
    ASSUME Locking, NEW t \in Txs, tx[t].pc \in Owning
    PROVE  commitLock = t /\ commitLock # NoTx /\ \A u \in Txs \ {t} : tx[u].pc \notin Owning
BY SentinelsApart DEF Locking, LockOwned

LEMMA ClaimsFinite ==
    /\ IsFiniteSet(Claims) /\ Cardinality(Claims) \in Nat
    /\ IsFiniteSet(Claims') /\ Cardinality(Claims') \in Nat
<1>1. Claims \in SUBSET Txs /\ Claims' \in SUBSET Txs
  BY DEF Claims
<1> QED BY <1>1, TxsAssumption, FS_Subset, FS_CardinalityType

\* A step of t moves its own claim only.
LEMMA ClaimsOfOthers ==
    ASSUME NEW t \in Txs, TxMoves(t)
    PROVE  /\ tx'[t].pc \in Committing => Claims' = Claims \cup {t}
           /\ tx'[t].pc \notin Committing => Claims' = Claims \ {t}
           /\ t \in Claims <=> tx[t].pc \in Committing
BY DEF TxMoves, Claims

LEMMA ClaimsAfter ==
    ASSUME NEW t \in Txs, TxMoves(t)
    PROVE  /\ tx'[t].pc \in Committing /\ tx[t].pc \in Committing =>
                Cardinality(Claims') = Cardinality(Claims)
           /\ tx'[t].pc \in Committing /\ tx[t].pc \notin Committing =>
                Cardinality(Claims') = Cardinality(Claims) + 1
           /\ tx'[t].pc \notin Committing /\ tx[t].pc \in Committing =>
                Cardinality(Claims') + 1 = Cardinality(Claims)
           /\ tx'[t].pc \notin Committing /\ tx[t].pc \notin Committing =>
                Cardinality(Claims') = Cardinality(Claims)
<1>1. IsFiniteSet(Claims) /\ Cardinality(Claims) \in Nat
  BY ClaimsFinite
<1>2. /\ t \notin Claims => Cardinality(Claims \cup {t}) = Cardinality(Claims) + 1
      /\ t \in Claims => Cardinality(Claims \cup {t}) = Cardinality(Claims)
  BY <1>1, FS_AddElement
<1>3. /\ t \in Claims => Cardinality(Claims \ {t}) = Cardinality(Claims) - 1
      /\ t \notin Claims => Cardinality(Claims \ {t}) = Cardinality(Claims)
  BY <1>1, FS_RemoveElement
<1>4. CASE tx'[t].pc \in Committing
  <2>1. Cardinality(Claims') = Cardinality(Claims \cup {t})
    BY <1>4, ClaimsOfOthers
  <2> QED BY <1>1, <1>2, <1>4, <2>1, ClaimsOfOthers
<1>5. CASE tx'[t].pc \notin Committing
  <2>1. Cardinality(Claims') = Cardinality(Claims \ {t})
    BY <1>5, ClaimsOfOthers
  <2> QED BY <1>1, <1>3, <1>5, <2>1, ClaimsOfOthers
<1> QED BY <1>4, <1>5

LEMMA LogLength ==
    ASSUME Types, Types'
    PROVE  Len(log) \in Nat /\ Len(log') \in Nat /\ version \in Nat /\ version' \in Nat
           /\ MaxVersion \in Nat /\ \A t \in Txs : tx[t].snapshot \in Nat
BY LenProperties, BoundAssumption DEF Types, TxRecords

LEMMA VersionsInit == Init => VersionsBounded
<1> SUFFICES ASSUME Init PROVE VersionsBounded
  OBVIOUS
<1>1. Claims = {}
  BY DEF Init, Claims, Idle, Committing
<1>2. Cardinality(Claims) = 0 /\ Len(log) = 0
  BY <1>1, FS_EmptySet DEF Init
<1>3. version = 0 /\ \A t \in Txs : tx[t].snapshot = 0
  BY DEF Init, Idle
<1> QED BY <1>2, <1>3, BoundAssumption DEF VersionsBounded

LEMMA VersionsStep ==
    Types /\ Types' /\ VersionsBounded /\ [Next]_vars => VersionsBounded'
<1> SUFFICES ASSUME Types, Types', VersionsBounded, [Next]_vars PROVE VersionsBounded'
  OBVIOUS
<1> DEFINE l == Len(log)
           m == Len(log')
           c == Cardinality(Claims)
           d == Cardinality(Claims')
<1>1. l \in Nat /\ m \in Nat /\ c \in Nat /\ d \in Nat /\ version \in Nat /\ version' \in Nat
      /\ MaxVersion \in Nat /\ \A t \in Txs : tx[t].snapshot \in Nat
  BY LogLength, ClaimsFinite
<1>2. version <= l /\ l + c <= MaxVersion /\ \A t \in Txs : tx[t].snapshot <= l
  BY DEF VersionsBounded
<1>3. SUFFICES version' <= m /\ m + d <= MaxVersion /\ \A u \in Txs : tx'[u].snapshot <= m
  BY DEF VersionsBounded
<1>4. CASE UNCHANGED << tx, log, version >>
  BY <1>2, <1>4 DEF Claims
<1>5. ASSUME NEW t \in Txs, BeforeLock(t)
      PROVE  version' <= m /\ m + d <= MaxVersion /\ \A u \in Txs : tx'[u].snapshot <= m
  <2>1. m = l /\ version' = version /\ TxMoves(t)
    BY <1>5 DEF BeforeLock, OthersThanTx
  <2>2. tx'[t].pc \in Committing => tx[t].pc \in Committing \/ l + c < MaxVersion
    <3>1. CASE VersionLeft
      <4>1. flushFailures \in Nat
        BY DEF Types
      <4>2. l + flushFailures + c < MaxVersion
        BY <3>1 DEF VersionLeft, Claims, Committing
      <4> HIDE DEF l, c
      <4> QED BY <1>1, <4>1, <4>2
    <3>2. CASE ~VersionLeft
      BY <1>5, <3>2 DEF BeforeLock
    <3> QED BY <3>1, <3>2
  <2>3. d <= c \/ (d = c + 1 /\ l + c < MaxVersion)
    <3> HIDE DEF c, d, l, m
    <3>1. /\ tx'[t].pc \in Committing /\ tx[t].pc \in Committing => d = c
          /\ tx'[t].pc \in Committing /\ tx[t].pc \notin Committing => d = c + 1
          /\ tx'[t].pc \notin Committing /\ tx[t].pc \in Committing => d + 1 = c
          /\ tx'[t].pc \notin Committing /\ tx[t].pc \notin Committing => d = c
      BY <2>1, ClaimsAfter DEF c, d
    <3> QED BY <1>1, <2>2, <3>1
  <2>4. \A u \in Txs : tx'[u].snapshot <= l
    <3> HIDE DEF l
    <3>1. tx'[t].snapshot \in {0, version, tx[t].snapshot}
      BY <1>5 DEF BeforeLock
    <3>2. tx'[t].snapshot <= l
      BY <1>1, <1>2, <3>1
    <3> QED BY <1>2, <2>1, <3>2 DEF TxMoves
  <2> HIDE DEF l, m, c, d
  <2> QED BY <1>1, <1>2, <2>1, <2>3, <2>4
<1>6. ASSUME NEW t \in Txs, UnderLock(t)
      PROVE  version' <= m /\ m + d <= MaxVersion /\ \A u \in Txs : tx'[u].snapshot <= m
  <2>1. TxMoves(t) /\ tx'[t].snapshot \in {0, tx[t].snapshot}
        /\ (tx'[t].pc \in Committing => tx[t].pc \in Committing)
    BY <1>6, UnderLockMoves DEF LockMoves
  <2>2. /\ tx'[t].pc \in Committing /\ tx[t].pc \in Committing => d = c
        /\ tx'[t].pc \notin Committing /\ tx[t].pc \in Committing => d + 1 = c
        /\ tx'[t].pc \notin Committing /\ tx[t].pc \notin Committing => d = c
    BY <2>1, ClaimsAfter
  <2>3. l <= m /\ m + d <= l + c /\ version' <= m
    <3>1. CASE Publish(t)
      <4>1. tx[t].pc \in Committing /\ tx'[t].pc \notin Committing /\ version' = version
        BY <3>1, PublishMoves DEF Publish, Committing
      <4>2. m = l \/ m = l + 1
        BY <3>1, PublishAppends
      <4> HIDE DEF l, m, c, d
      <4> QED BY <1>1, <1>2, <2>2, <4>1, <4>2
    <3>2. CASE PublishVersion(t)
      <4>1. m = l /\ version' = l
        BY <3>2 DEF PublishVersion
      <4> HIDE DEF l, m, c, d
      <4> QED BY <1>1, <1>2, <2>1, <2>2, <4>1
    <3>3. CASE ~Publish(t) /\ ~PublishVersion(t)
      <4>1. m = l /\ version' = version
        BY <1>6, <3>3 DEF UnderLock, Stage, RefuseBatch, ApplyBatch, ClearCaches, FlushFails
      <4> HIDE DEF l, m, c, d
      <4> QED BY <1>1, <1>2, <2>1, <2>2, <4>1
    <3> QED BY <3>1, <3>2, <3>3
  <2> HIDE DEF l, m, c, d
  <2>4. tx'[t].snapshot <= m
    BY <1>1, <1>2, <2>1, <2>3
  <2>5. \A u \in Txs : tx'[u].snapshot <= m
    BY <1>1, <1>2, <2>1, <2>3, <2>4 DEF TxMoves
  <2> QED BY <1>1, <1>2, <2>3, <2>5
<1> QED BY <1>4, <1>5, <1>6, StepKinds, ReaderKeepsTxs DEF vars

LEMMA VersionsAlways == Spec => []VersionsBounded
<1>1. Init => VersionsBounded
  BY VersionsInit
<1>2. Types /\ Types' /\ VersionsBounded /\ [Next]_vars => VersionsBounded'
  BY VersionsStep
<1> QED BY <1>1, <1>2, TypesAlways, PTL DEF Spec

----------------------------------------------------------------------------
(* The history: heads and visible values, before and after a publication.  *)

LEMMA WritesUpToMax ==
    ASSUME Types, NEW k, NEW ts, WritesUpTo(k, ts) # {}
    PROVE  /\ Max(WritesUpTo(k, ts)) \in WritesUpTo(k, ts)
           /\ \A v \in WritesUpTo(k, ts) : v <= Max(WritesUpTo(k, ts))
           /\ Max(WritesUpTo(k, ts)) \in 1..Len(log)
<1>1. Len(log) \in Nat
  BY LenProperties DEF Types
<1>2. WritesUpTo(k, ts) \in SUBSET Nat /\ \A v \in WritesUpTo(k, ts) : v <= Len(log)
  BY <1>1 DEF WritesUpTo
<1>3. /\ Max(WritesUpTo(k, ts)) \in WritesUpTo(k, ts)
      /\ \A v \in WritesUpTo(k, ts) : v <= Max(WritesUpTo(k, ts))
  BY <1>1, <1>2, MaxOfNaturals
<1> QED BY <1>3 DEF WritesUpTo

\* The head of a key is its last write, and 0 when it has none.
LEMMA HeadParts ==
    ASSUME Types, NEW k
    PROVE  /\ HeadOf(k) \in 0..Len(log) /\ HeadOf(k) \in Nat
           /\ HeadOf(k) = 0 <=> WritesUpTo(k, Len(log)) = {}
           /\ HeadOf(k) # 0 => k \in DOMAIN log[HeadOf(k)]
<1>1. Len(log) \in Nat
  BY LenProperties DEF Types
<1>2. CASE WritesUpTo(k, Len(log)) = {}
  BY <1>1, <1>2 DEF HeadOf
<1>3. CASE WritesUpTo(k, Len(log)) # {}
  <2>1. HeadOf(k) \in WritesUpTo(k, Len(log)) /\ HeadOf(k) \in 1..Len(log)
    BY <1>3, WritesUpToMax DEF HeadOf
  <2> QED BY <1>1, <1>3, <2>1 DEF WritesUpTo
<1> QED BY <1>2, <1>3

\* A publication gives the keys it stages a new last write.
LEMMA WritesAfterPublish ==
    ASSUME Types, NEW t \in Txs, Publish(t), NEW k \in Records
    PROVE  /\ k \in Staged(t) =>
                /\ WritesUpTo(k, Len(log))' # {} /\ Max(WritesUpTo(k, Len(log))') = Len(log) + 1
                /\ log'[Len(log) + 1][k] = tx[t].writes[k]
           /\ k \notin Staged(t) => WritesUpTo(k, Len(log))' = WritesUpTo(k, Len(log))
           /\ \A v \in 1..Len(log) : log'[v] = log[v]
<1> DEFINE n == Len(log)
<1>1. n \in Nat /\ \A v \in 1..n : log'[v] = log[v]
  BY PublishAppends
<1>2. CASE Staged(t) = {}
  BY <1>1, <1>2, PublishAppends DEF WritesUpTo
<1>3. CASE Staged(t) # {}
  <2>1. Len(log') = n + 1 /\ log'[n + 1] = Published(t)
    BY <1>3, PublishAppends
  <2>2. DOMAIN log'[n + 1] = Staged(t) /\ (k \in Staged(t) => log'[n + 1][k] = tx[t].writes[k])
    BY <2>1, PublishedParts
  <2> DEFINE W == WritesUpTo(k, Len(log))'
  <2>3. W = {v \in 1..(n + 1) : v <= n + 1 /\ k \in DOMAIN log'[v]}
    BY <2>1 DEF WritesUpTo
  <2>4. WritesUpTo(k, n) = {v \in 1..n : v <= n /\ k \in DOMAIN log[v]}
    BY DEF WritesUpTo
  <2>5. ASSUME k \in Staged(t) PROVE W # {} /\ Max(W) = n + 1
    <3> HIDE DEF W, n
    <3>1. n + 1 \in W /\ W \in SUBSET Nat /\ \A v \in W : v <= n + 1
      BY <1>1, <2>2, <2>3, <2>5
    <3> QED BY <3>1, MaxIsUnique
  <2>6. ASSUME k \notin Staged(t) PROVE W = WritesUpTo(k, n)
    <3> HIDE DEF W, n
    <3> QED BY <1>1, <2>2, <2>3, <2>4, <2>6
  <2> QED BY <1>1, <2>2, <2>5, <2>6
<1> QED BY <1>2, <1>3

LEMMA VisibleAfterPublish ==
    ASSUME Types, NEW t \in Txs, Publish(t), NEW k \in Records
    PROVE  VisibleAt(k, Len(log))' =
             IF k \in Staged(t) THEN tx[t].writes[k] ELSE VisibleAt(k, Len(log))
<1>1. CASE k \in Staged(t)
  BY <1>1, WritesAfterPublish DEF VisibleAt
<1>2. CASE k \notin Staged(t)
  <2>1. WritesUpTo(k, Len(log))' = WritesUpTo(k, Len(log))
    BY <1>2, WritesAfterPublish
  <2>2. CASE WritesUpTo(k, Len(log)) = {}
    BY <1>2, <2>1, <2>2 DEF VisibleAt
  <2>3. CASE WritesUpTo(k, Len(log)) # {}
    <3>1. Max(WritesUpTo(k, Len(log))) \in 1..Len(log)
      BY <2>3, WritesUpToMax
    <3>2. log'[Max(WritesUpTo(k, Len(log)))] = log[Max(WritesUpTo(k, Len(log)))]
      BY <3>1, WritesAfterPublish
    <3> QED BY <1>2, <2>1, <2>3, <3>2 DEF VisibleAt
  <2> QED BY <2>2, <2>3
<1> QED BY <1>1, <1>2

LEMMA HeadAfterPublish ==
    ASSUME Types, NEW t \in Txs, Publish(t), NEW k \in Records
    PROVE  HeadOf(k)' = IF k \in Staged(t) THEN Len(log) + 1 ELSE HeadOf(k)
<1>1. CASE k \in Staged(t)
  BY <1>1, WritesAfterPublish DEF HeadOf
<1>2. CASE k \notin Staged(t)
  BY <1>2, WritesAfterPublish DEF HeadOf
<1> QED BY <1>1, <1>2

----------------------------------------------------------------------------
(* The backend, the history and the counter move together.                 *)

LEMMA BackendFollowsStep ==
    Types /\ Locking /\ BackendFollows /\ [Next]_vars => BackendFollows'
<1> SUFFICES ASSUME Types, Locking, BackendFollows, [Next]_vars PROVE BackendFollows'
  OBVIOUS
<1>1. CASE UNCHANGED << backend, log, version, commitLock, tx, flushFailures >>
  BY <1>1 DEF BackendFollows, InStep, VisibleAt, WritesUpTo
<1>2. ASSUME NEW t \in Txs, BeforeLock(t) PROVE BackendFollows'
  <2>1. /\ UNCHANGED << backend, log, version, commitLock, flushFailures >>
        /\ tx'[t].pc \notin Owning /\ \A u \in Txs \ {t} : tx'[u] = tx[u]
    BY <1>2 DEF BeforeLock, OthersThanTx, TxMoves
  <2>2. \A k \in Records : VisibleAt(k, Len(log))' = VisibleAt(k, Len(log))
    BY <2>1 DEF VisibleAt, WritesUpTo
  <2> QED BY <2>1, <2>2 DEF BackendFollows, InStep, Owning
<1>3. ASSUME NEW t \in Txs, UnderLock(t), flushFailures' = 0 PROVE BackendFollows'
  <2>0. \A u \in Txs \ {t} : tx'[u] = tx[u] /\ tx[u].pc \notin Owning
    <3>1. tx[t].pc \in Owning \/ commitLock = NoTx
      BY <1>3, UnderLockMoves, StageMoves, SentinelsApart
         DEF UnderLock, LockMoves, Stage, RefuseBatch, ApplyBatch, ClearCaches, FlushFails, Publish,
             PublishVersion, Owning
    <3>2. CASE tx[t].pc \in Owning
      BY <1>3, <3>2, OneOwner, UnderLockMoves DEF LockMoves, TxMoves
    <3>3. CASE commitLock = NoTx
      BY <1>3, <3>3, SentinelsApart, UnderLockMoves DEF LockMoves, TxMoves, Locking, LockOwned
    <3> QED BY <3>1, <3>2, <3>3
  <2>1. CASE Stage(t)
    <3>1. /\ UNCHANGED << backend, log, version, flushFailures >>
          /\ commitLock = NoTx /\ commitLock' = t /\ tx'[t].pc = "staged"
      BY <2>1, StageMoves DEF Stage
    <3>2. \A k \in Records : VisibleAt(k, Len(log))' = VisibleAt(k, Len(log))
      BY <3>1 DEF VisibleAt, WritesUpTo
    <3> QED BY <1>3, <2>0, <3>1, <3>2, SentinelsApart DEF BackendFollows, InStep, Owning
  <2>2. CASE RefuseBatch(t)
    <3>1. /\ UNCHANGED << backend, log, version, flushFailures >>
          /\ commitLock' = NoTx /\ tx[t].pc = "staged" /\ tx'[t].pc = "failed"
      BY <2>2, RefuseBatchMoves, FinishedType DEF RefuseBatch
    <3>2. \A k \in Records : VisibleAt(k, Len(log))' = VisibleAt(k, Len(log))
      BY <3>1 DEF VisibleAt, WritesUpTo
    <3> QED BY <1>3, <2>0, <3>1, <3>2, SentinelsApart DEF BackendFollows, InStep, Owning
  <2>3. CASE ApplyBatch(t)
    <3>1. /\ UNCHANGED << log, version, flushFailures, commitLock >>
          /\ tx[t].pc = "staged" /\ tx'[t].pc = "applied" /\ tx'[t].writes = tx[t].writes
      BY <2>3, ApplyBatchMoves DEF ApplyBatch, Keeps
    <3>2. \A k \in Records : VisibleAt(k, Len(log))' = VisibleAt(k, Len(log))
      BY <3>1 DEF VisibleAt, WritesUpTo
    <3>3. \A k \in Records : backend'[k] = IF k \in DOMAIN tx[t].writes THEN tx[t].writes[k]
                                           ELSE backend[k]
      BY <2>3, SentinelsApart DEF ApplyBatch
    <3>4. commitLock' # NoTx
      BY <3>1, OneOwner DEF Owning
    <3>5. version = Len(log) /\ \A k \in Records : backend[k] = VisibleAt(k, Len(log))
      BY <1>3, <3>1 DEF BackendFollows, InStep
    <3> QED BY <1>3, <2>0, <3>1, <3>2, <3>3, <3>4, <3>5 DEF BackendFollows, InStep, Owning
  <2>4. CASE ClearCaches(t)
    <3>1. /\ UNCHANGED << backend, log, version, flushFailures, commitLock >>
          /\ tx[t].pc = "applied" /\ tx'[t].pc = "cleared" /\ tx'[t].writes = tx[t].writes
      BY <2>4, ClearCachesMoves DEF ClearCaches, Keeps
    <3>2. \A k \in Records : VisibleAt(k, Len(log))' = VisibleAt(k, Len(log))
      BY <3>1 DEF VisibleAt, WritesUpTo
    <3>3. commitLock' # NoTx
      BY <3>1, OneOwner DEF Owning
    <3> QED BY <1>3, <2>0, <3>1, <3>2, <3>3 DEF BackendFollows, InStep, Owning
  <2>5. CASE FlushFails(t)
    BY <1>3, <2>5 DEF FlushFails, Types
  <2>6. CASE Publish(t)
    <3>1. /\ UNCHANGED << backend, version, flushFailures, commitLock >>
          /\ tx[t].pc = "cleared" /\ tx'[t].pc = "published"
      BY <2>6, PublishMoves DEF Publish
    <3>2. commitLock' # NoTx
      BY <3>1, OneOwner DEF Owning
    <3>3. ASSUME NEW k \in Records PROVE backend'[k] = VisibleAt(k, Len(log))'
      <4>1. backend[k] = IF k \in DOMAIN tx[t].writes THEN tx[t].writes[k]
                         ELSE VisibleAt(k, Len(log))
        BY <1>3, <3>1 DEF BackendFollows
      <4>2. k \in DOMAIN tx[t].writes /\ k \notin Staged(t) =>
              tx[t].writes[k] = Tombstone /\ VisibleAt(k, Len(log)) = Tombstone
        BY HeadParts DEF Staged, VisibleAt
      <4>3. k \in Staged(t) => k \in DOMAIN tx[t].writes
        BY DEF Staged
      <4> QED BY <2>6, <3>1, <4>1, <4>2, <4>3, VisibleAfterPublish
    <3> QED BY <2>0, <3>1, <3>2, <3>3 DEF BackendFollows, InStep, Owning
  <2>7. CASE PublishVersion(t)
    <3>1. /\ UNCHANGED << backend, log, flushFailures >> /\ version' = Len(log)
          /\ commitLock' = NoTx /\ tx[t].pc = "published" /\ tx'[t].pc \notin Owning
      BY <2>7, PublishVersionMoves, FinishedType DEF PublishVersion, Owning
    <3>2. \A k \in Records : VisibleAt(k, Len(log))' = VisibleAt(k, Len(log))
      BY <3>1 DEF VisibleAt, WritesUpTo
    <3> QED BY <1>3, <2>0, <3>1, <3>2 DEF BackendFollows, InStep, Owning
  <2> QED BY <1>3, <2>1, <2>2, <2>3, <2>4, <2>5, <2>6, <2>7 DEF UnderLock
<1>4. flushFailures' # 0 => BackendFollows'
  BY DEF BackendFollows
<1> QED BY <1>1, <1>2, <1>3, <1>4, StepKinds, ReaderKeepsTxs DEF vars

LEMMA BackendFollowsAlways == Spec => []BackendFollows
<1>1. Init => BackendFollows
  <2> SUFFICES ASSUME Init PROVE BackendFollows
    OBVIOUS
  <2>1. Len(log) = 0 /\ version = 0 /\ \A t \in Txs : tx[t].pc = "idle"
    BY DEF Init, Idle
  <2>2. \A k \in Records : WritesUpTo(k, Len(log)) = {}
    BY <2>1 DEF WritesUpTo
  <2>3. \A k \in Records : backend[k] = VisibleAt(k, Len(log))
    BY <2>2, SentinelsApart DEF Init, VisibleAt
  <2> QED BY <2>1, <2>3 DEF BackendFollows, InStep
<1>2. Types /\ Locking /\ BackendFollows /\ [Next]_vars => BackendFollows'
  BY BackendFollowsStep
<1> QED BY <1>1, <1>2, TypesAlways, LockingAlways, PTL DEF Spec

\* With the commit lock free, the records of the backend are what the history
\* says and the counter has caught up, as long as no flush failed.
THEOREM BackendStaysInStep == Spec => []BackendInStep
<1>1. BackendFollows => BackendInStep
  BY DEF BackendFollows, BackendInStep, InStep
<1> QED BY <1>1, BackendFollowsAlways, PTL

----------------------------------------------------------------------------
(* The cache and the counter.                                              *)

CacheInv == CacheFollows /\ OldGathered

\* With no batch half applied the cache may be read instead of the backend.
LEMMA ReadsExact ==
    ASSUME Types, Locking, CacheFollows, ~raced, commitLock = NoTx, NEW k \in Records
    PROVE  ReadThrough(k) = backend[k]
<1>1. \A t \in Txs : tx[t].pc # "applied"
  BY SentinelsApart DEF Locking, LockOwned, Owning
<1> QED BY <1>1 DEF CacheFollows, Exact, ReadThrough

LEMMA CacheStep ==
    Types /\ Locking /\ CacheInv /\ [Next]_vars => CacheInv'
<1> SUFFICES ASSUME Types, Locking, CacheInv, [Next]_vars PROVE CacheInv'
  OBVIOUS
<1>1. CASE UNCHANGED << backend, cache, tx, reader, raced >>
  BY <1>1 DEF CacheInv, CacheFollows, OldGathered, Exact
<1>2. ASSUME NEW t \in Txs, BeforeLock(t) PROVE CacheInv'
  <2>1. /\ UNCHANGED << backend, cache, reader, raced >>
        /\ tx[t].pc \notin {"staged", "applied"} /\ tx'[t].pc \notin {"staged", "applied"}
        /\ \A u \in Txs \ {t} : tx'[u] = tx[u]
    BY <1>2 DEF BeforeLock, OthersThanTx, TxMoves, Owning
  <2> QED BY <2>1 DEF CacheInv, CacheFollows, OldGathered, Exact
<1>3. ASSUME NEW t \in Txs, Stage(t) PROVE CacheInv'
  <2>1. /\ UNCHANGED << backend, cache, reader, raced >> /\ commitLock = NoTx
        /\ tx[t].pc = "wait" /\ tx'[t].pc = "staged" /\ tx'[t].writes = tx[t].writes
        /\ DOMAIN tx'[t].old = DOMAIN tx[t].writes \cap Records
        /\ \A k \in DOMAIN tx'[t].old : tx'[t].old[k] = ReadThrough(k)
        /\ \A u \in Txs \ {t} : tx'[u] = tx[u]
    BY <1>3, StageMoves DEF Stage, TxMoves, Keeps
  <2>2. ~raced => \A k \in DOMAIN tx'[t].old : tx'[t].old[k] = backend[k]
    BY <2>1, ReadsExact DEF CacheInv
  <2> QED BY <2>1, <2>2 DEF CacheInv, CacheFollows, OldGathered, Exact
<1>4. ASSUME NEW t \in Txs, RefuseBatch(t) \/ FlushFails(t) \/ Publish(t) \/ PublishVersion(t)
      PROVE CacheInv'
  <2>1. /\ UNCHANGED << backend, cache, reader, raced >>
        /\ tx[t].pc # "applied" /\ tx'[t].pc \notin {"staged", "applied"}
        /\ \A u \in Txs \ {t} : tx'[u] = tx[u]
    BY <1>4, RefuseBatchMoves, FlushFailsMoves, PublishMoves, PublishVersionMoves, FinishedType
       DEF RefuseBatch, FlushFails, Publish, PublishVersion, TxMoves
  <2> QED BY <2>1 DEF CacheInv, CacheFollows, OldGathered, Exact
<1>5. ASSUME NEW t \in Txs, ApplyBatch(t) PROVE CacheInv'
  <2>1. /\ UNCHANGED << cache, reader >> /\ tx[t].pc = "staged" /\ tx'[t].pc = "applied"
        /\ tx'[t].old = tx[t].old /\ tx'[t].writes = tx[t].writes
        /\ \A u \in Txs \ {t} : tx'[u] = tx[u]
        /\ raced' = (raced \/ \E r \in Readers : reader[r].pc = "fill")
    BY <1>5, ApplyBatchMoves DEF ApplyBatch, TxMoves, Keeps
  <2>2. \A u \in Txs \ {t} : tx[u].pc \notin Owning
    BY <2>1, OneOwner DEF Owning
  <2>3. OldGathered'
    BY <2>1, <2>2 DEF CacheInv, OldGathered, Owning
  <2>4. ASSUME ~raced' PROVE \A r \in Readers : reader'[r].pc # "fill"
    BY <2>1, <2>4
  <2>5. ASSUME ~raced', NEW k \in Records, k \notin DOMAIN tx'[t].old PROVE Exact(k)'
    <3>1. backend'[k] = backend[k]
      <4>1. k \notin DOMAIN tx[t].writes
        BY <2>1, <2>5 DEF CacheInv, OldGathered
      <4> QED BY <1>5, <4>1, SentinelsApart DEF ApplyBatch
    <3>2. Exact(k)
      <4>1. \A u \in Txs : tx[u].pc # "applied"
        BY <2>1, <2>2 DEF Owning
      <4> QED BY <2>1, <2>5, <4>1 DEF CacheInv, CacheFollows
    <3> QED BY <2>1, <3>1, <3>2 DEF Exact
  <2>6. CacheFollows'
    BY <2>1, <2>4, <2>5 DEF CacheFollows
  <2> QED BY <2>3, <2>6 DEF CacheInv
<1>6. ASSUME NEW t \in Txs, ClearCaches(t) PROVE CacheInv'
  <2>1. /\ UNCHANGED << backend, reader, raced >> /\ tx[t].pc = "applied" /\ tx'[t].pc = "cleared"
        /\ \A u \in Txs \ {t} : tx'[u] = tx[u]
        /\ cache' = IF DOMAIN tx[t].old = {} THEN cache ELSE [k \in Records |-> Absent]
    BY <1>6, ClearCachesMoves DEF ClearCaches, TxMoves
  <2>2. \A u \in Txs \ {t} : tx[u].pc \notin Owning
    BY <2>1, OneOwner DEF Owning
  <2>3. ASSUME ~raced', NEW k \in Records PROVE Exact(k)'
    <3>1. CASE DOMAIN tx[t].old = {}
      <4>1. Exact(k)
        BY <2>1, <2>2, <2>3, <3>1 DEF CacheInv, CacheFollows, Owning
      <4> QED BY <2>1, <3>1, <4>1 DEF Exact
    <3>2. CASE DOMAIN tx[t].old # {}
      BY <2>1, <3>2 DEF Exact
    <3> QED BY <3>1, <3>2
  <2>4. OldGathered'
    BY <2>1 DEF CacheInv, OldGathered
  <2> QED BY <2>1, <2>3, <2>4 DEF CacheInv, CacheFollows
<1>7. ASSUME NEW r \in Readers, FillCache(r) PROVE CacheInv'
  <2>1. /\ reader[r].pc = "fill" /\ reader[r].key \in Records
        /\ cache' = [cache EXCEPT ![reader[r].key] = reader[r].value]
        /\ reader' = [reader EXCEPT ![r] = [pc |-> "idle"]]
        /\ UNCHANGED << backend, tx, raced >>
    BY <1>7, FillCacheChanges
  <2>2. cache \in [Records -> Contents \cup {Absent}] /\ reader \in [Readers -> ReaderRecords]
    BY DEF Types
  <2>3. ASSUME ~raced' PROVE reader[r].value = backend[reader[r].key]
    BY <2>1, <2>3 DEF CacheInv, CacheFollows
  <2>4. ASSUME ~raced', NEW k \in Records
        PROVE  Exact(k)' \/ \E t \in Txs : tx'[t].pc = "applied" /\ k \in DOMAIN tx'[t].old
    <3>1. CASE k = reader[r].key
      BY <2>1, <2>2, <2>3, <2>4, <3>1 DEF Exact
    <3>2. CASE k # reader[r].key
      <4>1. cache'[k] = cache[k]
        BY <2>1, <2>2, <3>2
      <4> QED BY <2>1, <2>4, <4>1 DEF CacheInv, CacheFollows, Exact
    <3> QED BY <3>1, <3>2
  <2>5. ASSUME ~raced', NEW q \in Readers, reader'[q].pc = "fill"
        PROVE  reader'[q].value = backend'[reader'[q].key]
    <3>1. q # r
      BY <2>1, <2>2, <2>5
    <3>2. reader'[q] = reader[q]
      BY <2>1, <2>2, <3>1
    <3> QED BY <2>1, <2>5, <3>2 DEF CacheInv, CacheFollows
  <2>6. OldGathered'
    BY <2>1 DEF CacheInv, OldGathered
  <2> QED BY <2>4, <2>5, <2>6 DEF CacheInv, CacheFollows
<1>8. ASSUME NEW r \in Readers, NEW k \in Records, ReadMiss(r, k) PROVE CacheInv'
  <2>1. /\ reader' = [reader EXCEPT ![r] = [pc |-> "fill", key |-> k, value |-> backend[k]]]
        /\ UNCHANGED << backend, cache, tx, raced >>
    BY <1>8, ReadMissChanges
  <2>2. reader \in [Readers -> ReaderRecords]
    BY DEF Types
  <2>3. ASSUME ~raced', NEW q \in Readers, reader'[q].pc = "fill"
        PROVE  reader'[q].value = backend'[reader'[q].key]
    <3>1. CASE q = r
      BY <2>1, <2>2, <3>1
    <3>2. CASE q # r
      <4>1. reader'[q] = reader[q]
        BY <2>1, <2>2, <3>2
      <4> QED BY <2>1, <2>3, <4>1 DEF CacheInv, CacheFollows
    <3> QED BY <3>1, <3>2
  <2>4. OldGathered'
    BY <2>1 DEF CacheInv, OldGathered
  <2> QED BY <2>1, <2>3, <2>4 DEF CacheInv, CacheFollows, Exact
<1> QED BY <1>1, <1>2, <1>3, <1>4, <1>5, <1>6, <1>7, <1>8, StepKinds DEF vars, UnderLock, Reader

LEMMA CacheAlways == Spec => []CacheInv
<1>1. Init => CacheInv
  BY DEF Init, CacheInv, CacheFollows, OldGathered, Exact, Idle
<1>2. Types /\ Locking /\ CacheInv /\ [Next]_vars => CacheInv'
  BY CacheStep
<1> QED BY <1>1, <1>2, TypesAlways, LockingAlways, PTL DEF Spec

\* With the commit lock free and no fill that raced with a batch, the cache
\* holds nothing the backend does not.
THEOREM CacheStaysExact == Spec => []CacheExact
<1>1. Locking /\ CacheInv => CacheExact
  <2> SUFFICES ASSUME Locking, CacheInv, commitLock = NoTx, ~raced, NEW k \in Records
               PROVE  cache[k] \in {Absent, backend[k]}
    BY DEF CacheExact
  <2>1. \A t \in Txs : tx[t].pc # "applied"
    BY SentinelsApart DEF Locking, LockOwned, Owning
  <2> QED BY <2>1 DEF CacheInv, CacheFollows, Exact
<1> QED BY <1>1, LockingAlways, CacheAlways, PTL

\* Replacing the part O of a finite set by N changes its size by the
\* difference of theirs.
LEMMA ReplacedCount ==
    ASSUME NEW L, NEW O, NEW N, NEW M, IsFiniteSet(L), IsFiniteSet(N),
           O \subseteq L, N \cap (L \ O) = {}, M = (L \ O) \cup N
    PROVE  /\ Cardinality(L) \in Nat /\ Cardinality(O) \in Nat /\ Cardinality(N) \in Nat
           /\ Cardinality(M) = Cardinality(L) + Cardinality(N) - Cardinality(O)
           /\ Cardinality(M) \in Nat
<1> DEFINE R == L \ O
<1>1. IsFiniteSet(O) /\ IsFiniteSet(R) /\ IsFiniteSet(L)
  BY FS_Subset
<1>2. Cardinality(L) \in Nat /\ Cardinality(O) \in Nat /\ Cardinality(N) \in Nat
      /\ Cardinality(R) \in Nat
  <2> HIDE DEF R
  <2> QED BY <1>1, FS_CardinalityType
<1>3. Cardinality(R) = Cardinality(L) - Cardinality(O)
  <2>1. L \cap O = O
    OBVIOUS
  <2>2. Cardinality(L \ O) = Cardinality(L) - Cardinality(L \cap O)
    BY FS_Difference
  <2> QED BY <2>1, <2>2
<1>4. Cardinality(R \cup N) = Cardinality(R) + Cardinality(N)
  <2>1. R \cap N = {}
    OBVIOUS
  <2> HIDE DEF R
  <2>2. Cardinality(R \cup N) = Cardinality(R) + Cardinality(N) - Cardinality(R \cap N)
    BY <1>1, FS_Union
  <2>3. Cardinality(R \cap N) = 0
    BY <2>1, FS_EmptySet
  <2> QED BY <1>2, <2>2, <2>3
<1>5. M = R \cup N
  OBVIOUS
<1>6. Cardinality(M) = Cardinality(R) + Cardinality(N)
  BY <1>4, <1>5
<1> HIDE DEF R
<1> DEFINE l == Cardinality(L)
           o == Cardinality(O)
           n == Cardinality(N)
           r == Cardinality(R)
           m == Cardinality(M)
<1>7. l \in Nat /\ o \in Nat /\ n \in Nat /\ r \in Nat /\ r = l - o /\ m = r + n
  BY <1>2, <1>3, <1>6
<1>8. m = l + n - o /\ m \in Nat
  <2> HIDE DEF l, o, n, r, m
  <2> QED BY <1>7
<1> QED BY <1>7, <1>8

NewLive(t) == {k \in DOMAIN tx[t].writes \cap Records : tx[t].writes[k] # Tombstone}
OldLive(t) == {k \in DOMAIN tx[t].old : tx[t].old[k] # Tombstone}

LEMMA LiveCounts ==
    ASSUME Types, OldGathered, NEW t \in Txs, tx[t].pc = "staged"
    PROVE  /\ Live(RecordWrites(t)) = Cardinality(NewLive(t)) /\ IsFiniteSet(NewLive(t))
           /\ Live(tx[t].old) = Cardinality(OldLive(t)) /\ IsFiniteSet(OldLive(t))
           /\ Cardinality(NewLive(t)) \in Nat /\ Cardinality(OldLive(t)) \in Nat
<1>1. IsFiniteSet(DOMAIN tx[t].writes) /\ DOMAIN tx[t].old = DOMAIN tx[t].writes \cap Records
  BY DEF Types, OldGathered
<1>2. NewLive(t) \subseteq DOMAIN tx[t].writes /\ OldLive(t) \subseteq DOMAIN tx[t].writes
  BY <1>1 DEF NewLive, OldLive
<1>3. IsFiniteSet(NewLive(t)) /\ IsFiniteSet(OldLive(t))
  BY <1>1, <1>2, FS_Subset
<1>4. {k \in DOMAIN RecordWrites(t) : RecordWrites(t)[k] # Tombstone} = NewLive(t)
  BY DEF RecordWrites, Restrict, NewLive
<1> QED BY <1>3, <1>4, FS_CardinalityType DEF Live, OldLive

\* total_node_count: the live records either way, unless a reader's fill raced.
LEMMA CountNowCounts ==
    ASSUME CountFollows
    PROVE  /\ Live(Restrict(backend, Records)) = Cardinality(LiveRecords)
           /\ CountNow \in Nat /\ (~raced => CountNow = count)
<1>1. {k \in DOMAIN Restrict(backend, Records) : Restrict(backend, Records)[k] # Tombstone}
        = LiveRecords
  BY DEF Restrict, LiveRecords
<1>2. Live(Restrict(backend, Records)) = Cardinality(LiveRecords)
  BY <1>1 DEF Live
<1>3. Cardinality(LiveRecords) \in Nat
  BY FS_CardinalityType DEF CountFollows
<1> QED BY <1>2, <1>3 DEF CountFollows, CountNow

\* The records of the batch that were live give way to those it writes.
LEMMA LiveAfterApply ==
    ASSUME Types, OldGathered, ~raced, NEW t \in Txs, ApplyBatch(t)
    PROVE  /\ OldLive(t) \subseteq LiveRecords
           /\ NewLive(t) \cap (LiveRecords \ OldLive(t)) = {}
           /\ LiveRecords' = (LiveRecords \ OldLive(t)) \cup NewLive(t)
<1>1. /\ tx[t].pc = "staged"
      /\ \A k \in Records : backend'[k] = IF k \in DOMAIN tx[t].writes THEN tx[t].writes[k]
                                          ELSE backend[k]
  BY SentinelsApart DEF ApplyBatch
<1>2. /\ DOMAIN tx[t].old = DOMAIN tx[t].writes \cap Records
      /\ \A k \in DOMAIN tx[t].old : tx[t].old[k] = backend[k]
  BY <1>1 DEF OldGathered
<1> QED BY <1>1, <1>2 DEF OldLive, NewLive, LiveRecords

LEMMA CountStep ==
    Types /\ CacheInv /\ CountFollows /\ [Next]_vars => CountFollows'
<1> SUFFICES ASSUME Types, CacheInv, CountFollows, [Next]_vars PROVE CountFollows'
  OBVIOUS
<1>1. CASE UNCHANGED << backend, count, raced >>
  BY <1>1 DEF CountFollows, LiveRecords
<1>2. ASSUME NEW t \in Txs, ApplyBatch(t) PROVE CountFollows'
  <2>0. tx[t].pc = "staged" /\ OldGathered
    BY <1>2 DEF ApplyBatch, CacheInv
  <2>1. LiveRecords' \subseteq LiveRecords \cup DOMAIN tx[t].writes
    BY <1>2, SentinelsApart DEF ApplyBatch, LiveRecords
  <2>2. IsFiniteSet(LiveRecords) /\ IsFiniteSet(DOMAIN tx[t].writes)
    BY DEF Types, CountFollows
  <2>3. IsFiniteSet(LiveRecords')
    BY <2>1, <2>2, FS_Union, FS_Subset
  <2> DEFINE n == Cardinality(NewLive(t))
             o == Cardinality(OldLive(t))
             l == Cardinality(LiveRecords)
             m == Cardinality(LiveRecords')
  <2>4. count' = Saturating(CountNow + n - o) /\ n \in Nat /\ o \in Nat /\ CountNow \in Nat
    BY <1>2, <2>0, LiveCounts, CountNowCounts DEF ApplyBatch
  <2>5. count' \in Nat
    <3> HIDE DEF n, o
    <3> QED BY <2>4 DEF Saturating
  <2>6. ASSUME ~raced' PROVE count' = m
    <3>1. ~raced /\ CountNow = l
      BY <1>2, <2>6, CountNowCounts DEF ApplyBatch, CountFollows
    <3>2. l \in Nat /\ m = l + n - o /\ m \in Nat
      <4>1. /\ OldLive(t) \subseteq LiveRecords
            /\ NewLive(t) \cap (LiveRecords \ OldLive(t)) = {}
            /\ LiveRecords' = (LiveRecords \ OldLive(t)) \cup NewLive(t)
        BY <1>2, <2>0, <3>1, LiveAfterApply
      <4>2. IsFiniteSet(NewLive(t))
        BY <2>0, LiveCounts
      <4> HIDE DEF NewLive, OldLive, LiveRecords
      <4> QED BY <2>2, <4>1, <4>2, ReplacedCount
    <3> HIDE DEF n, o, l, m
    <3> QED BY <2>4, <3>1, <3>2 DEF Saturating
  <2> QED BY <2>3, <2>5, <2>6 DEF CountFollows
<1>3. ASSUME NEW t \in Txs, UnderLock(t), ~ApplyBatch(t)
      PROVE  UNCHANGED << backend, count, raced >>
  BY <1>3 DEF UnderLock, Stage, RefuseBatch, ClearCaches, FlushFails, Publish, PublishVersion
<1>4. ASSUME NEW t \in Txs, BeforeLock(t) PROVE UNCHANGED << backend, count, raced >>
  BY <1>4 DEF BeforeLock, OthersThanTx
<1> QED BY <1>1, <1>2, <1>3, <1>4, StepKinds, ReaderKeepsTxs DEF vars

LEMMA CountAlways == Spec => []CountFollows
<1>1. Init => CountFollows
  <2> SUFFICES ASSUME Init PROVE CountFollows
    OBVIOUS
  <2>1. LiveRecords = {}
    BY SentinelsApart DEF Init, LiveRecords
  <2> QED BY <2>1, FS_EmptySet DEF Init, CountFollows
<1>2. Types /\ CacheInv /\ CountFollows /\ [Next]_vars => CountFollows'
  BY CountStep
<1> QED BY <1>1, <1>2, TypesAlways, CacheAlways, PTL DEF Spec

\* Unless a reader's fill raced with a batch, the counter counts the live
\* records: every batch takes what it overwrites from a cache that is exact.
THEOREM CountStaysExact == Spec => []CountExact
<1>1. CountFollows => CountExact
  BY CountNowCounts DEF CountFollows, CountExact
<1> QED BY <1>1, CountAlways, PTL

\* Every variable of the store has its type, and no more versions are published
\* than there are: a commit on its way has one reserved.
THEOREM TypeCorrect == Spec => []TypeOK
<1>1. Types /\ VersionsBounded /\ CountFollows => TypeOK
  <2> SUFFICES ASSUME Types, VersionsBounded, CountFollows PROVE TypeOK
    OBVIOUS
  <2> DEFINE l == Len(log)
             c == Cardinality(Claims)
  <2>1. l \in Nat /\ c \in Nat /\ version \in Nat /\ MaxVersion \in Nat
    BY LenProperties, ClaimsFinite, BoundAssumption DEF Types
  <2>2. version <= l /\ l + c <= MaxVersion
    BY DEF VersionsBounded
  <2>3. version \in Versions /\ l \in Versions
    <3> HIDE DEF l, c
    <3> QED BY <2>1, <2>2 DEF Versions
  <2>4. ASSUME NEW t \in Txs
        PROVE  /\ tx[t].pc \in Pcs /\ tx[t].snapshot \in Versions
               /\ DOMAIN tx[t].writes \subseteq Keys
    <3>1. tx[t].pc \in Pcs /\ tx[t].snapshot \in Nat /\ DOMAIN tx[t].writes \subseteq Keys
      BY WritesParts DEF TxRecords
    <3>2. tx[t].snapshot <= l
      BY DEF VersionsBounded
    <3> HIDE DEF l, c
    <3>3. tx[t].snapshot \in Versions
      BY <2>1, <2>2, <3>1, <3>2 DEF Versions
    <3> QED BY <3>1, <3>3
  <2> QED BY <2>3, <2>4 DEF TypeOK, Types, CountFollows, Pcs
<1> QED BY <1>1, TypesAlways, VersionsAlways, CountAlways, PTL

----------------------------------------------------------------------------
(* The conflict check.                                                     *)

LEMMA CheckedTyped ==
    ASSUME Types, NEW t \in Txs, NEW k \in DOMAIN tx[t].checked
    PROVE  tx[t].checked[k] \in Nat
<1>1. tx[t].checked \in Partial(Keys, Nat)
  BY DEF Types, TxRecords
<1> QED BY <1>1, PartialParts

\* A step that publishes nothing and keeps a transaction's record keeps what
\* is known of its checks.
LEMMA CheckedKept ==
    ASSUME NEW u \in Txs, tx'[u] = tx[u], log' = log, CheckedFor(u)
    PROVE  CheckedFor(u)'
BY DEF CheckedFor, Passed, HeadOf, WritesUpTo

\* The keys passed by the next check: those passed before it and k.
LEMMA PassesOneKey ==
    ASSUME Types, NEW t \in Txs, NEW k \in Keys, CheckKey(t, k), ~Outdated(t, k),
           CheckedFor(t), ~tx[t].batch,
           tx'[t].pc = "check", tx'[t].snapshot = tx[t].snapshot,
           tx'[t].writes = tx[t].writes, tx'[t].todo = tx[t].todo \ {k},
           tx'[t].checked = [j \in DOMAIN tx[t].checked \cup {k} |->
                               IF j = k THEN Len(log) ELSE tx[t].checked[j]]
    PROVE  CheckedFor(t)'
<1>1. tx[t].pc = "check" /\ log' = log
  BY DEF CheckKey
<1>2. Passed(t)' \subseteq Passed(t) \cup {k} /\ Passed(t)' \subseteq Records
  BY <1>1 DEF Passed
<1>3. ASSUME NEW j \in Passed(t)'
      PROVE  /\ j \in DOMAIN tx'[t].checked /\ tx'[t].checked[j] <= Len(log)
             /\ HeadOf(j) > tx[t].snapshot => HeadOf(j) > tx'[t].checked[j]
  <2>1. CASE j = k
    <3>1. k \in Records /\ ~(HeadOf(k) > tx[t].snapshot)
      BY <1>2, <1>3, <2>1 DEF Outdated
    <3>2. Len(log) \in Nat
      BY LenProperties DEF Types
    <3>3. tx'[t].checked[k] = Len(log) /\ k \in DOMAIN tx'[t].checked
      OBVIOUS
    <3> QED BY <2>1, <3>1, <3>2, <3>3
  <2>2. CASE j # k
    <3>1. j \in Passed(t)
      BY <1>2, <1>3, <2>2
    <3>2. /\ j \in DOMAIN tx[t].checked /\ tx[t].checked[j] <= Len(log)
          /\ HeadOf(j) > tx[t].snapshot => HeadOf(j) > tx[t].checked[j]
      BY <1>1, <3>1 DEF CheckedFor, Checks
    <3>3. tx'[t].checked[j] = tx[t].checked[j] /\ j \in DOMAIN tx'[t].checked
      BY <2>2, <3>2
    <3> QED BY <3>2, <3>3
  <2> QED BY <2>1, <2>2
<1>4. \A j : HeadOf(j)' = HeadOf(j)
  BY <1>1 DEF HeadOf, WritesUpTo
<1> QED BY <1>1, <1>3, <1>4 DEF CheckedFor

LEMMA CheckedStep ==
    Types /\ CheckedOnce /\ [Next]_vars => CheckedOnce'
<1> SUFFICES ASSUME Types, CheckedOnce, [Next]_vars PROVE CheckedOnce'
  OBVIOUS
<1>1. CASE UNCHANGED << tx, log >>
  BY <1>1, CheckedKept DEF CheckedOnce
<1>2. ASSUME NEW t \in Txs, TxMoves(t), log' = log, CheckedFor(t)'
      PROVE  CheckedOnce'
  BY <1>2, CheckedKept DEF CheckedOnce, TxMoves
<1>3. ASSUME NEW t \in Txs,
             \/ Begin(t) \/ LoadCatalog(t) \/ End(t)
             \/ \E writes \in WriteSets : Commit(t, writes) \/ BatchWrite(t, writes)
      PROVE  CheckedOnce'
  <2>1. TxMoves(t) /\ log' = log
    BY <1>3, SessionStepsBeforeLock DEF BeforeLock, OthersThanTx
  <2>2. tx'[t].pc \notin Checks \/ tx'[t].batch
    <3>1. CASE Begin(t) \/ LoadCatalog(t)
      BY <3>1, BeginMoves, LoadCatalogMoves DEF Checks
    <3>2. CASE End(t)
      <4>1. tx'[t].pc = "idle"
        BY <3>2, EndMoves DEF Idle
      <4> QED BY <4>1 DEF Checks
    <3>3. ASSUME NEW writes \in WriteSets, Commit(t, writes) \/ BatchWrite(t, writes)
          PROVE  tx'[t].pc \notin Checks \/ tx'[t].batch
      BY <3>3, CommitMoves, BatchWriteMoves DEF Checks
    <3> QED BY <1>3, <3>1, <3>2, <3>3
  <2> QED BY <1>2, <2>1, <2>2 DEF CheckedFor
<1>4. ASSUME NEW t \in Txs, NEW k \in Edges, DiscardNoop(t, k) PROVE CheckedOnce'
  <2>1. TxMoves(t) /\ log' = log /\ tx'[t].pc = "discard"
    BY <1>4, DiscardNoopMoves DEF DiscardNoop
  <2> QED BY <1>2, <2>1 DEF CheckedFor, Checks
<1>5. ASSUME NEW t \in Txs, EndDiscard(t) PROVE CheckedOnce'
  <2>1. TxMoves(t) /\ log' = log /\ tx'[t].pc = "check"
        /\ tx'[t].writes = tx[t].writes /\ tx'[t].todo = DOMAIN tx[t].writes
    BY <1>5, EndDiscardMoves DEF EndDiscard
  <2>2. Passed(t)' = {}
    BY <2>1 DEF Passed
  <2> QED BY <1>2, <2>1, <2>2 DEF CheckedFor
<1>6. ASSUME NEW t \in Txs, NEW k \in Keys, CheckKey(t, k) PROVE CheckedOnce'
  <2>1. TxMoves(t) /\ log' = log
    BY <1>6, CheckKeyMoves DEF CheckKey
  <2>2. CASE tx'[t] = Finished("stale") \/ tx'[t] = Finished("conflict")
    BY <1>2, <2>1, <2>2, FinishedType DEF CheckedFor, Checks
  <2>3. CASE /\ ~Outdated(t, k) /\ tx'[t].pc = "check" /\ tx'[t].batch = tx[t].batch
             /\ tx'[t].snapshot = tx[t].snapshot /\ tx'[t].writes = tx[t].writes
             /\ tx'[t].todo = tx[t].todo \ {k}
             /\ tx'[t].checked = [j \in DOMAIN tx[t].checked \cup {k} |->
                                    IF j = k THEN Len(log) ELSE tx[t].checked[j]]
    <3>1. CASE tx[t].batch
      BY <1>2, <2>1, <2>3, <3>1 DEF CheckedFor
    <3>2. CASE ~tx[t].batch
      <4>1. CheckedFor(t)
        BY DEF CheckedOnce
      <4>2. CheckedFor(t)'
        BY <1>6, <2>3, <3>2, <4>1, PassesOneKey
      <4> QED BY <1>2, <2>1, <4>2
    <3> QED BY <3>1, <3>2
  <2> QED BY <1>6, <2>2, <2>3, CheckKeyMoves
<1>7. ASSUME NEW t \in Txs, EndCheck(t) PROVE CheckedOnce'
  <2>1. TxMoves(t) /\ log' = log /\ tx[t].pc = "check" /\ tx[t].todo = {} /\ tx'[t].pc = "wait"
        /\ tx'[t].batch = tx[t].batch /\ tx'[t].snapshot = tx[t].snapshot
        /\ tx'[t].writes = tx[t].writes /\ tx'[t].checked = tx[t].checked
    BY <1>7, EndCheckMoves DEF EndCheck
  <2>2. Passed(t)' = Passed(t) /\ CheckedFor(t) /\ \A k : HeadOf(k)' = HeadOf(k)
    BY <2>1 DEF Passed, CheckedOnce, HeadOf, WritesUpTo
  <2>3. CheckedFor(t)'
    BY <2>1, <2>2 DEF CheckedFor, Checks
  <2> QED BY <1>2, <2>1, <2>3
<1>8. ASSUME NEW t \in Txs, Stage(t) \/ ApplyBatch(t) \/ ClearCaches(t) PROVE CheckedOnce'
  <2>1. TxMoves(t) /\ log' = log /\ tx[t].pc \in Checks /\ tx[t].pc # "check"
        /\ tx'[t].pc # "check" /\ Keeps(t)
    BY <1>8, StageMoves, ApplyBatchMoves, ClearCachesMoves
       DEF Stage, ApplyBatch, ClearCaches, Checks
  <2>2. Passed(t)' = Passed(t) /\ CheckedFor(t) /\ \A k : HeadOf(k)' = HeadOf(k)
    BY <2>1 DEF Passed, CheckedOnce, HeadOf, WritesUpTo, Keeps
  <2>3. CheckedFor(t)'
    BY <2>1, <2>2 DEF CheckedFor, Keeps
  <2> QED BY <1>2, <2>1, <2>3
<1>9. ASSUME NEW t \in Txs, RefuseBatch(t) \/ FlushFails(t) \/ PublishVersion(t)
      PROVE  CheckedOnce'
  <2>1. TxMoves(t) /\ log' = log /\ tx'[t].pc \notin Checks
    BY <1>9, RefuseBatchMoves, FlushFailsMoves, PublishVersionMoves, FinishedType
       DEF RefuseBatch, FlushFails, PublishVersion, Checks
  <2> QED BY <1>2, <2>1 DEF CheckedFor
<1>10. ASSUME NEW t \in Txs, Publish(t), NEW u \in Txs PROVE CheckedFor(u)'
  <2>1. TxMoves(t) /\ tx'[t].pc = "published"
    BY <1>10, PublishMoves
  <2>2. CASE u = t
    BY <2>1, <2>2 DEF CheckedFor, Checks
  <2>3. CASE u # t
    <3>1. tx'[u] = tx[u] /\ CheckedFor(u)
      BY <2>1, <2>3 DEF TxMoves, CheckedOnce
    <3>2. Passed(u)' = Passed(u) /\ Passed(u) \subseteq Records
      BY <3>1 DEF Passed
    <3>3. Len(log) \in Nat /\ Len(log') \in Nat /\ Len(log) <= Len(log')
      BY <1>10, PublishAppends
    <3>4. ASSUME NEW k \in Passed(u), tx[u].pc \in Checks, ~tx[u].batch
          PROVE  /\ k \in DOMAIN tx[u].checked /\ tx[u].checked[k] <= Len(log')
                 /\ HeadOf(k)' > tx[u].snapshot => HeadOf(k)' > tx[u].checked[k]
      <4>1. /\ k \in DOMAIN tx[u].checked /\ tx[u].checked[k] <= Len(log)
            /\ HeadOf(k) > tx[u].snapshot => HeadOf(k) > tx[u].checked[k]
        BY <3>1, <3>4 DEF CheckedFor
      <4>2. tx[u].checked[k] \in Nat
        BY <4>1, CheckedTyped
      <4>3. HeadOf(k)' = Len(log) + 1 \/ HeadOf(k)' = HeadOf(k)
        BY <1>10, <3>2, HeadAfterPublish
      <4> QED BY <3>3, <4>1, <4>2, <4>3
    <3> QED BY <3>1, <3>2, <3>4 DEF CheckedFor
  <2> QED BY <2>2, <2>3
<1>11. ASSUME NEW t \in Txs, Tx(t) PROVE CheckedOnce'
  BY <1>3, <1>4, <1>5, <1>6, <1>7, <1>8, <1>9, <1>10, <1>11 DEF Tx, CommitStep, CheckedOnce
<1> QED BY <1>1, <1>11, ReaderKeepsTxs DEF Next, vars

LEMMA CheckedAlways == Spec => []CheckedOnce
<1>1. Init => CheckedOnce
  BY DEF Init, CheckedOnce, CheckedFor, Idle, Checks
<1>2. Types /\ CheckedOnce /\ [Next]_vars => CheckedOnce'
  BY CheckedStep
<1> QED BY <1>1, <1>2, TypesAlways, PTL DEF Spec

\* A transaction overwrites a version newer than its snapshot only if that
\* version was published after it checked the key: the check misses nothing
\* that was there, and what comes after it is not looked for.
THEOREM OverwritesAreAfterChecks == Spec => OverwritesOnlyAfterCheck
<1> DEFINE Late == \A t \in Txs : Publishes(t) /\ ~tx[t].batch =>
                      \A k \in Staged(t) : HeadOf(k) > tx[t].snapshot => HeadOf(k) > tx[t].checked[k]
<1>1. CheckedOnce => Late
  BY DEF CheckedOnce, CheckedFor, Passed, Checks, Publishes, Staged
<1>2. Spec => [][Late]_vars
  <2> HIDE DEF Late
  <2> QED BY <1>1, CheckedAlways, PTL DEF Spec
<1> QED BY <1>2 DEF OverwritesOnlyAfterCheck

----------------------------------------------------------------------------
(* Transactions and batches implement AtomicCommits.                       *)

RecordsMap == Restrict(backend, Records)
SessionMap == [t \in Txs |-> Session(t)]

Begun == {"begun", "open", "discard", "check", "wait", "staged"}

\* What a session is to the contract, by its program counter.
LEMMA SessionCases ==
    ASSUME NEW t \in Txs
    PROVE  /\ tx[t].pc \in {"committed", "conflict"} => Session(t) = [state |-> tx[t].pc, at |-> 0]
           /\ tx[t].pc \in {"stale", "failed"} => Session(t) = [state |-> "failed", at |-> 0]
           /\ tx[t].pc \in {"applied", "cleared"} =>
                Session(t) = [state |-> "written", writes |-> RecordWrites(t)]
           /\ tx[t].pc = "published" => Session(t) = [state |-> "applied", at |-> Len(log)]
           /\ tx[t].pc = "idle" => Session(t) = [state |-> "closed", at |-> 0]
           /\ tx[t].pc \in Begun =>
                Session(t) = IF tx[t].batch THEN [state |-> "closed", at |-> 0]
                             ELSE [state |-> "open", at |-> tx[t].snapshot]
BY DEF Session, Begun

LEMMA SessionCasesAfter ==
    ASSUME NEW t \in Txs
    PROVE  /\ tx'[t].pc \in {"committed", "conflict"} => Session(t)' = [state |-> tx'[t].pc, at |-> 0]
           /\ tx'[t].pc \in {"stale", "failed"} => Session(t)' = [state |-> "failed", at |-> 0]
           /\ tx'[t].pc \in {"applied", "cleared"} =>
                Session(t)' = [state |-> "written", writes |-> RecordWrites(t)']
           /\ tx'[t].pc = "published" => Session(t)' = [state |-> "applied", at |-> Len(log')]
           /\ tx'[t].pc = "idle" => Session(t)' = [state |-> "closed", at |-> 0]
           /\ tx'[t].pc \in Begun =>
                Session(t)' = IF tx'[t].batch THEN [state |-> "closed", at |-> 0]
                              ELSE [state |-> "open", at |-> tx'[t].snapshot]
BY DEF Session, Begun

\* Only a session that wrote counts as one.
LEMMA WrittenCases ==
    ASSUME NEW t \in Txs, Session(t).state = "written"
    PROVE  tx[t].pc \in Owning
BY DEF Session, Owning

\* The session of a transaction that does not move stays what it is: one that
\* has published owns the lock, and no other publishes.
LEMMA OnlyOneSessionMoves ==
    ASSUME NEW t \in Txs, TxMoves(t),
           log' = log \/ \A u \in Txs \ {t} : tx[u].pc # "published"
    PROVE  SessionMap' = [SessionMap EXCEPT ![t] = Session(t)']
<1>1. \A u \in Txs \ {t} : Session(u)' = Session(u)
  BY DEF TxMoves, Session, RecordWrites
<1> QED BY <1>1 DEF SessionMap

ContractVars == << RecordsMap, log, version, SessionMap >>

\* A step of the contract, or none it can see.
Maps == Contract!Next \/ UNCHANGED ContractVars

\* The backend, the history and the counter stay as they are.
StoreKept == backend' = backend /\ log' = log /\ version' = version

LEMMA StayMaps ==
    ASSUME NEW t \in Txs, TxMoves(t), StoreKept, Session(t)' = Session(t)
    PROVE  Maps
<1>1. SessionMap' = [SessionMap EXCEPT ![t] = Session(t)']
  BY OnlyOneSessionMoves DEF StoreKept
<1>2. SessionMap' = SessionMap
  BY <1>1 DEF SessionMap
<1>3. RecordsMap' = RecordsMap
  BY DEF StoreKept, RecordsMap
<1> QED BY <1>2, <1>3 DEF Maps, ContractVars, StoreKept

LEMMA FailMaps ==
    ASSUME NEW t \in Txs, TxMoves(t), StoreKept,
           tx[t].pc \in {"check", "staged"}, tx'[t].pc \in {"stale", "failed"}
    PROVE  Maps
<1>1. SessionMap' = [SessionMap EXCEPT ![t] = [state |-> "failed", at |-> 0]]
  BY OnlyOneSessionMoves, SessionCasesAfter DEF StoreKept
<1>2. SessionMap[t].state \in {"closed", "open"}
  BY SessionCases DEF SessionMap, Begun
<1>3. RecordsMap' = RecordsMap
  BY DEF StoreKept, RecordsMap
<1>4. Contract!Fail(t)
  BY <1>1, <1>2, <1>3 DEF Contract!Fail, Contract!Ended, SessionMap, RecordsMap, StoreKept
<1> QED BY <1>4 DEF Maps, Contract!Next

LEMMA SessionStepsMap ==
    ASSUME Types, Locking, VersionsBounded, NEW t \in Txs,
           \/ Begin(t) \/ LoadCatalog(t) \/ End(t)
           \/ \E writes \in WriteSets : Commit(t, writes) \/ BatchWrite(t, writes)
    PROVE  Maps
<1>0. BeforeLock(t)
  BY SessionStepsBeforeLock
<1>1. TxMoves(t) /\ StoreKept /\ log' = log /\ version' = version /\ RecordsMap' = RecordsMap
  BY <1>0 DEF BeforeLock, OthersThanTx, StoreKept, RecordsMap
<1>2. CASE Begin(t)
  <2>1. ~tx[t].batch /\ tx[t].pc = "idle" /\ tx'[t].pc = "begun" /\ ~tx'[t].batch
        /\ tx'[t].snapshot = version
    BY <1>2, BeginMoves DEF Locking, BatchesBegun, Owning
  <2>2. SessionMap' = [SessionMap EXCEPT ![t] = [state |-> "open", at |-> version]]
    BY <1>1, <2>1, OnlyOneSessionMoves, SessionCasesAfter DEF Begun
  <2>3. SessionMap[t].state = "closed"
    BY <2>1, SessionCases DEF SessionMap
  <2>4. version \in version..Len(log)
    BY LenProperties DEF Types, VersionsBounded
  <2>5. Contract!Open(t)
    BY <1>1, <2>2, <2>3, <2>4 DEF Contract!Open, SessionMap, RecordsMap
  <2> QED BY <2>5 DEF Maps, Contract!Next
<1>3. CASE LoadCatalog(t)
  BY <1>1, <1>3, LoadCatalogMoves, SessionCases, SessionCasesAfter, StayMaps DEF Begun
<1>4. CASE End(t)
  <2>1. tx'[t].pc = "idle"
    BY <1>4, EndMoves DEF Idle
  <2>2. SessionMap' = [SessionMap EXCEPT ![t] = [state |-> "closed", at |-> 0]]
    BY <1>1, <2>1, OnlyOneSessionMoves, SessionCasesAfter
  <2>3. SessionMap[t].state \notin {"closed", "written", "applied"} \/ Session(t)' = Session(t)
    BY <1>4, <2>1, EndMoves, SessionCases, SessionCasesAfter DEF SessionMap, Begun
  <2>4. SessionMap[t].state \notin {"closed", "written", "applied"} => Contract!Close(t)
    BY <1>1, <2>2 DEF Contract!Close, Contract!Closed, Contract!Ended, SessionMap, RecordsMap
  <2> QED BY <1>1, <2>3, <2>4, StayMaps DEF Maps, Contract!Next
<1>5. ASSUME NEW writes \in WriteSets, Commit(t, writes) PROVE Maps
  BY <1>1, <1>5, CommitMoves, SessionCases, SessionCasesAfter, StayMaps DEF Begun
<1>6. ASSUME NEW writes \in WriteSets, BatchWrite(t, writes) PROVE Maps
  BY <1>1, <1>6, BatchWriteMoves, SessionCases, SessionCasesAfter, StayMaps DEF Begun
<1> QED BY <1>2, <1>3, <1>4, <1>5, <1>6

LEMMA CheckStepsMap ==
    ASSUME Types, Locking, VersionsBounded, NEW t \in Txs,
           \/ \E k \in Edges : DiscardNoop(t, k)
           \/ EndDiscard(t) \/ EndCheck(t)
           \/ \E k \in Keys : CheckKey(t, k)
    PROVE  Maps
<1>0. BeforeLock(t)
  BY ChecksBeforeLock
<1>1. TxMoves(t) /\ StoreKept /\ log' = log /\ version' = version /\ RecordsMap' = RecordsMap
  BY <1>0 DEF BeforeLock, OthersThanTx, StoreKept, RecordsMap
<1>2. ASSUME NEW k \in Edges, DiscardNoop(t, k) PROVE Maps
  BY <1>1, <1>2, DiscardNoopMoves, SessionCases, SessionCasesAfter, StayMaps DEF Begun
<1>3. CASE EndDiscard(t)
  BY <1>1, <1>3, EndDiscardMoves, SessionCases, SessionCasesAfter, StayMaps DEF Begun
<1>4. CASE EndCheck(t)
  BY <1>1, <1>4, EndCheckMoves, SessionCases, SessionCasesAfter, StayMaps DEF Begun
<1>5. ASSUME NEW k \in Keys, CheckKey(t, k) PROVE Maps
  <2>1. tx[t].pc = "check"
    BY <1>5, CheckKeyMoves
  <2>2. CASE tx'[t] = Finished("stale")
    BY <1>1, <2>1, <2>2, FinishedType, FailMaps
  <2>3. CASE tx'[t] = Finished("conflict") /\ Outdated(t, k)
    <3>1. ~tx[t].batch
      BY <2>1 DEF Locking, BatchesBegun, Owning
    <3>2. SessionMap[t] = [state |-> "open", at |-> tx[t].snapshot]
      BY <2>1, <3>1, SessionCases DEF SessionMap, Begun
    <3>3. SessionMap' = [SessionMap EXCEPT ![t] = [state |-> "conflict", at |-> 0]]
      BY <1>1, <2>3, FinishedType, OnlyOneSessionMoves, SessionCasesAfter
    <3>4. k \in Records /\ HeadOf(k) > tx[t].snapshot /\ tx[t].snapshot \in Nat
      BY <2>3, WritesParts DEF Outdated, TxRecords
    <3>5. HeadOf(k) \in (tx[t].snapshot + 1)..Len(log) /\ k \in DOMAIN log[HeadOf(k)]
      BY <3>4, HeadParts, LenProperties DEF Types
    <3>6. \E j \in Records : Contract!WrittenSince(j, SessionMap[t].at)
      BY <3>2, <3>4, <3>5 DEF Contract!WrittenSince
    <3>7. Contract!Conflict(t)
      BY <1>1, <3>2, <3>3, <3>6 DEF Contract!Conflict, Contract!Ended, SessionMap, RecordsMap
    <3> QED BY <3>7 DEF Maps, Contract!Next
  <2>4. CASE tx'[t].pc = "check" /\ tx'[t].batch = tx[t].batch /\ tx'[t].snapshot = tx[t].snapshot
    BY <1>1, <2>1, <2>4, SessionCases, SessionCasesAfter, StayMaps DEF Begun
  <2> QED BY <1>5, <2>2, <2>3, <2>4, CheckKeyMoves
<1> QED BY <1>2, <1>3, <1>4, <1>5

\* The record writes of a batch: a commit of the contract.
LEMMA RecordWritesParts ==
    ASSUME Types, NEW t \in Txs
    PROVE  /\ DOMAIN RecordWrites(t) = DOMAIN tx[t].writes \cap Records
           /\ \A k \in DOMAIN RecordWrites(t) : RecordWrites(t)[k] = tx[t].writes[k]
           /\ RecordWrites(t) \in Contract!CommitWrites
<1>1. /\ DOMAIN RecordWrites(t) = DOMAIN tx[t].writes \cap Records
      /\ \A k \in DOMAIN RecordWrites(t) : RecordWrites(t)[k] = tx[t].writes[k]
      /\ RecordWrites(t) \in [DOMAIN tx[t].writes \cap Records -> Contents]
  BY WritesParts DEF RecordWrites, Restrict
<1>2. DOMAIN tx[t].writes \cap Records \in SUBSET Records
  OBVIOUS
<1> QED BY <1>1, <1>2 DEF Contract!CommitWrites

\* The backend batch writes the records of the commit as a whole.
LEMMA ApplyBatchMaps ==
    ASSUME Types, Locking, NEW t \in Txs, ApplyBatch(t)
    PROVE  Maps
<1>1. TxMoves(t) /\ tx[t].pc = "staged" /\ tx'[t].pc = "applied" /\ tx'[t].writes = tx[t].writes
      /\ log' = log /\ version' = version
  BY ApplyBatchMoves DEF ApplyBatch, Keeps
<1> DEFINE w == RecordWrites(t)
<1>2. RecordsMap' = [k \in Records |-> IF k \in DOMAIN w THEN w[k] ELSE RecordsMap[k]]
  <2>1. \A k \in Records : backend'[k] = IF k \in DOMAIN w THEN w[k] ELSE backend[k]
    BY RecordWritesParts, SentinelsApart DEF ApplyBatch
  <2> HIDE DEF w
  <2> QED BY <2>1 DEF RecordsMap, Restrict
<1>3. RecordWrites(t)' = w
  BY <1>1 DEF RecordWrites
<1>4. SessionMap' = [SessionMap EXCEPT ![t] = [state |-> "written", writes |-> w]]
  BY <1>1, <1>3, OnlyOneSessionMoves, SessionCasesAfter
<1>5. SessionMap[t].state \in {"closed", "open"}
  BY <1>1, SessionCases DEF SessionMap, Begun
<1>6. \A u \in Txs : SessionMap[u].state # "written"
  <2>1. \A u \in Txs \ {t} : tx[u].pc \notin Owning
    BY <1>1, OneOwner DEF Owning
  <2> QED BY <1>5, <2>1, WrittenCases DEF SessionMap
<1>7. w \in Contract!CommitWrites
  BY RecordWritesParts
<1> HIDE DEF w
<1>8. Contract!Write(t)
  BY <1>1, <1>2, <1>4, <1>5, <1>6, <1>7 DEF Contract!Write, SessionMap, RecordsMap
<1> QED BY <1>8 DEF Maps, Contract!Next

\* A flush that fails leaves the records in the backend.
LEMMA FlushFailsMaps ==
    ASSUME Types, NEW t \in Txs, FlushFails(t)
    PROVE  Maps
<1>1. TxMoves(t) /\ tx[t].pc = "cleared" /\ tx'[t].pc = "failed" /\ log' = log
      /\ version' = version /\ RecordsMap' = RecordsMap
  BY FlushFailsMoves, FinishedType DEF FlushFails, RecordsMap
<1>2. SessionMap' = [SessionMap EXCEPT ![t] = [state |-> "failed", at |-> 0]]
  BY <1>1, OnlyOneSessionMoves, SessionCasesAfter
<1>3. SessionMap[t].state = "written"
  BY <1>1, SessionCases DEF SessionMap
<1>4. Contract!Break(t)
  BY <1>1, <1>2, <1>3 DEF Contract!Break, Contract!Ended, SessionMap, RecordsMap
<1> QED BY <1>4 DEF Maps, Contract!Next

\* A delete enters the history only of a record that has a version.
LEMMA EnteringIsStaged ==
    ASSUME Types, NEW t \in Txs
    PROVE  Contract!Entering(RecordWrites(t)) = Staged(t)
<1>1. ASSUME NEW k \in Records PROVE Contract!WrittenSince(k, 0) <=> HeadOf(k) # 0
  <2>1. HeadOf(k) = 0 <=> WritesUpTo(k, Len(log)) = {}
    BY HeadParts
  <2>2. Len(log) \in Nat
    BY LenProperties DEF Types
  <2>3. WritesUpTo(k, Len(log)) = {v \in 1..Len(log) : k \in DOMAIN log[v]}
    BY <2>2 DEF WritesUpTo
  <2> QED BY <2>1, <2>3 DEF Contract!WrittenSince
<1> QED BY <1>1, RecordWritesParts DEF Contract!Entering, Staged

\* A publication appends the commit as a whole.
LEMMA PublishMaps ==
    ASSUME Types, Locking, NEW t \in Txs, Publish(t)
    PROVE  Maps
<1>1. TxMoves(t) /\ tx[t].pc = "cleared" /\ tx'[t].pc = "published" /\ version' = version
      /\ RecordsMap' = RecordsMap
  BY PublishMoves DEF Publish, RecordsMap
<1>2. \A u \in Txs \ {t} : tx[u].pc # "published"
  BY <1>1, OneOwner DEF Owning
<1>3. SessionMap' = [SessionMap EXCEPT ![t] = [state |-> "applied", at |-> Len(log')]]
  BY <1>1, <1>2, OnlyOneSessionMoves, SessionCasesAfter
<1> DEFINE w == RecordWrites(t)
           e == Contract!Entering(w)
<1>4. SessionMap[t] = [state |-> "written", writes |-> w]
  BY <1>1, SessionCases DEF SessionMap
<1>5. e = Staged(t)
  BY EnteringIsStaged
<1>6. [k \in e |-> w[k]] = Published(t)
  <2>1. \A k \in Staged(t) : w[k] = tx[t].writes[k]
    BY RecordWritesParts DEF Staged
  <2> HIDE DEF w, e
  <2> QED BY <1>5, <2>1 DEF Published, Restrict, Staged
<1>7. log' = IF e = {} THEN log ELSE Append(log, [k \in e |-> w[k]])
  BY <1>5, <1>6 DEF Publish, Published
<1>8. SessionMap[t].state = "written" /\ SessionMap[t].writes = w
  BY <1>4
<1>9. Contract!Enter(t)
  <2> HIDE DEF w
  <2> QED BY <1>1, <1>3, <1>7, <1>8 DEF Contract!Enter, SessionMap, RecordsMap
<1> QED BY <1>9 DEF Maps, Contract!Next

LEMMA PublishVersionMaps ==
    ASSUME Types, VersionsBounded, NEW t \in Txs, PublishVersion(t)
    PROVE  Maps
<1>1. TxMoves(t) /\ tx[t].pc = "published" /\ log' = log /\ version' = Len(log)
      /\ RecordsMap' = RecordsMap
  BY PublishVersionMoves DEF PublishVersion, RecordsMap
<1>2. PICK outcome \in {"committed", "failed"} : tx'[t] = Finished(outcome)
  BY PublishVersionMoves
<1>3. tx'[t].pc = outcome
  BY <1>2, FinishedType
<1>4. SessionMap' = [SessionMap EXCEPT ![t] = [state |-> outcome, at |-> 0]]
  BY <1>1, <1>3, OnlyOneSessionMoves, SessionCasesAfter
<1>5. SessionMap[t] = [state |-> "applied", at |-> Len(log)]
  BY <1>1, SessionCases DEF SessionMap
<1>6. version' = IF SessionMap[t].at > version THEN SessionMap[t].at ELSE version
  BY <1>1, <1>5, LenProperties DEF Types, VersionsBounded
<1>7. Contract!Answer(t, outcome)
  BY <1>1, <1>4, <1>5, <1>6 DEF Contract!Answer, Contract!Ended, SessionMap, RecordsMap
<1> QED BY <1>7 DEF Maps, Contract!Next

LEMMA UnderLockMaps ==
    ASSUME Types, Locking, VersionsBounded, NEW t \in Txs, UnderLock(t)
    PROVE  Maps
<1>1. CASE Stage(t)
  <2>1. TxMoves(t) /\ Keeps(t) /\ StoreKept /\ tx[t].pc = "wait" /\ tx'[t].pc = "staged"
    BY <1>1, StageMoves DEF Stage, StoreKept
  <2> QED BY <2>1, SessionCases, SessionCasesAfter, StayMaps DEF Keeps, Begun
<1>2. CASE ClearCaches(t)
  <2>1. TxMoves(t) /\ Keeps(t) /\ StoreKept /\ tx[t].pc = "applied" /\ tx'[t].pc = "cleared"
    BY <1>2, ClearCachesMoves DEF ClearCaches, StoreKept
  <2>2. RecordWrites(t)' = RecordWrites(t)
    BY <2>1 DEF Keeps, RecordWrites
  <2> QED BY <2>1, <2>2, SessionCases, SessionCasesAfter, StayMaps
<1>3. CASE RefuseBatch(t)
  <2>1. TxMoves(t) /\ StoreKept /\ tx[t].pc = "staged" /\ tx'[t].pc = "failed"
    BY <1>3, RefuseBatchMoves, FinishedType DEF RefuseBatch, StoreKept
  <2> QED BY <2>1, FailMaps
<1> QED BY <1>1, <1>2, <1>3, ApplyBatchMaps, FlushFailsMaps, PublishMaps, PublishVersionMaps
        DEF UnderLock

LEMMA StepMaps ==
    Types /\ Locking /\ VersionsBounded /\ [Next]_vars => [Contract!Next]_ContractVars
<1> SUFFICES ASSUME Types, Locking, VersionsBounded, [Next]_vars PROVE Maps
  BY DEF Maps
<1>1. CASE UNCHANGED << backend, log, version, tx >>
  BY <1>1 DEF Maps, ContractVars, SessionMap, Session, RecordsMap, RecordWrites
<1>2. ASSUME NEW t \in Txs, Tx(t) PROVE Maps
  BY <1>2, SessionStepsMap, CheckStepsMap, UnderLockMaps DEF Tx, CommitStep, UnderLock
<1> QED BY <1>1, <1>2, ReaderKeepsTxs DEF Next, vars

\* Transactions and batches implement the contract: a commit writes its records
\* as a whole and enters the one history as a whole, a snapshot holds every
\* answered commit, a conflict is real, and a session that was refused before
\* its batch reached the backend leaves neither a record nor a version.  One
\* whose flush fails afterwards leaves all its records and no version.
THEOREM CommitsAreAtomic == Spec => ImplementsAtomicCommits
<1>1. Init => Contract!Init
  <2> SUFFICES ASSUME Init PROVE Contract!Init
    OBVIOUS
  <2>1. RecordsMap = [k \in Records |-> Tombstone]
    BY SentinelsApart DEF Init, RecordsMap, Restrict
  <2>2. SessionMap = [t \in Txs |-> [state |-> "closed", at |-> 0]]
    BY SessionCases DEF Init, Idle, SessionMap
  <2> QED BY <2>1, <2>2
          DEF Init, Contract!Init, Contract!Closed, Contract!Ended, RecordsMap, SessionMap
<1>2. Types /\ Locking /\ VersionsBounded /\ [Next]_vars => [Contract!Next]_(Contract!vars)
  BY StepMaps DEF Contract!vars, ContractVars, SessionMap, RecordsMap
<1> QED BY <1>1, <1>2, TypesAlways, LockingAlways, VersionsAlways, PTL
        DEF Spec, ImplementsAtomicCommits, Contract!Spec
=============================================================================
