----------------------------- MODULE MvccProofs -----------------------------
(***************************************************************************)
(* Proofs about MvccStore, for every set of keys, readers and pruners and  *)
(* every bound.  The invariant says of each chain that it is ordered and   *)
(* holds only committed versions, and of a staged batch that its chains    *)
(* were cloned from chains that retained at least what values retains now. *)
(***************************************************************************)
EXTENDS MvccStore, OrderLemmas, FiniteSetTheorems

USE BoundAssumption, SentinelAssumption

----------------------------------------------------------------------------
(* Chains.                                                                 *)

Ordered(c) ==
    /\ c.floor <= c.head
    /\ \A v \in DOMAIN c.archived : c.floor <= v /\ v < c.head

\* c2 is c after some prune.
PrunedFrom(c2, c) ==
    /\ c2 \in Chains
    /\ c2.head = c.head /\ c2.current = c.current
    /\ DOMAIN c2.archived \subseteq DOMAIN c.archived
    /\ \A v \in DOMAIN c2.archived : c2.archived[v] = c.archived[v] /\ c2.floor <= v
    /\ c.floor <= c2.floor /\ c2.floor <= c.head
    /\ c.head = 0 => c2 = c

\* The parts of a typed chain are typed.
LEMMA ArchivedIsVersions ==
    ASSUME NEW c \in Chains
    PROVE  /\ DOMAIN c.archived \in SUBSET Versions
           /\ c.archived \in [DOMAIN c.archived -> Values]
           /\ c.floor \in Versions /\ c.head \in Versions /\ c.current \in Values
BY DEF Chains

\* read_at takes the last entry of a nonempty range: it exists.
LEMMA ArchivedUpToMax ==
    ASSUME NEW c \in Chains, NEW ts \in Versions, ArchivedUpTo(c, ts) # {}
    PROVE  /\ Max(ArchivedUpTo(c, ts)) \in ArchivedUpTo(c, ts)
           /\ \A v \in ArchivedUpTo(c, ts) : v <= Max(ArchivedUpTo(c, ts))
<1>1. ArchivedUpTo(c, ts) \in SUBSET Nat
  BY ArchivedIsVersions DEF ArchivedUpTo, Versions
<1>2. MaxVersion \in Nat /\ \A v \in ArchivedUpTo(c, ts) : v <= MaxVersion
  BY ArchivedIsVersions DEF ArchivedUpTo, Versions
<1> QED BY <1>1, <1>2, MaxOfNaturals

\* append_version keeps a chain typed.
LEMMA AppendVersionType ==
    ASSUME NEW c \in Chains, NEW v \in Versions, NEW x \in Values
    PROVE  AppendVersion(c, v, x) \in Chains
<1>1. CASE c.head = 0
  BY <1>1 DEF AppendVersion, Chains
<1>2. CASE c.head # 0
  <2> DEFINE dom == DOMAIN c.archived \cup {c.head}
             f == [u \in dom |-> IF u = c.head THEN c.current ELSE c.archived[u]]
  <2>1. dom \in SUBSET Versions
    BY ArchivedIsVersions
  <2>2. f \in [dom -> Values]
    BY ArchivedIsVersions
  <2>3. f \in UNION {[vs -> Values] : vs \in SUBSET Versions}
    BY <2>1, <2>2
  <2>4. AppendVersion(c, v, x) =
          [floor |-> c.floor, head |-> v, current |-> x, archived |-> f]
    BY <1>2 DEF AppendVersion
  <2> HIDE DEF f, dom
  <2> QED BY <2>3, <2>4, ArchivedIsVersions DEF Chains
<1> QED BY <1>1, <1>2

\* A prune may remove nothing.
LEMMA PrunedFromItself ==
    ASSUME NEW c \in Chains, Ordered(c)
    PROVE  PrunedFrom(c, c)
BY ArchivedIsVersions DEF PrunedFrom, Ordered, Versions

\* Keeping the head and some versions, with the least kept one as the floor,
\* is a prune.
LEMMA RetainOnlyPrunes ==
    ASSUME NEW c \in Chains, Ordered(c), c.head # 0,
           NEW keep \in SUBSET Versions, NEW m \in Versions,
           c.floor <= m, m <= c.head,
           \A v \in DOMAIN c.archived \cap keep : m <= v
    PROVE  PrunedFrom(RetainOnly(c, keep, m), c)
<1> DEFINE a == Restrict(c.archived, DOMAIN c.archived \cap keep)
<1>1. a \in [DOMAIN c.archived \cap keep -> Values]
  BY ArchivedIsVersions DEF Restrict
<1>2. a \in UNION {[vs -> Values] : vs \in SUBSET Versions}
  BY <1>1
<1>3. RetainOnly(c, keep, m) =
        [floor |-> m, head |-> c.head, current |-> c.current, archived |-> a]
  BY DEF RetainOnly, Chains
<1>4. DOMAIN a = DOMAIN c.archived \cap keep /\ \A v \in DOMAIN a : a[v] = c.archived[v]
  BY DEF Restrict
<1> HIDE DEF a
<1> QED BY <1>2, <1>3, <1>4, ArchivedIsVersions DEF PrunedFrom, Chains

\* reader_anchor_version names a retained version.
LEMMA AnchorIsRetained ==
    ASSUME NEW c \in Chains, NEW oldest \in Versions \cup {NoReader}
    PROVE  ReaderAnchor(c, oldest) \subseteq DOMAIN c.archived \cup {c.head}
<1>1. CASE oldest = NoReader
  BY <1>1 DEF ReaderAnchor
<1>2. CASE oldest # NoReader
  <2>1. ArchivedUpTo(c, oldest) # {} =>
          Max(ArchivedUpTo(c, oldest)) \in DOMAIN c.archived
    BY <1>2, ArchivedUpToMax DEF ArchivedUpTo
  <2> QED BY <1>2, <2>1 DEF ReaderAnchor
<1> QED BY <1>1, <1>2

Keep(c, max, oldest) ==
    {c.head} \cup NewestArchived(c, max - 1) \cup ReaderAnchor(c, oldest)

\* What prune_to_max_versions keeps has a least version, at or above the floor.
LEMMA KeepHasLeast ==
    ASSUME NEW c \in Chains, Ordered(c), NEW max, NEW oldest \in Versions \cup {NoReader}
    PROVE  /\ Keep(c, max, oldest) \in SUBSET Versions
           /\ Min(Keep(c, max, oldest)) \in Keep(c, max, oldest)
           /\ \A v \in Keep(c, max, oldest) : Min(Keep(c, max, oldest)) <= v
           /\ c.floor <= Min(Keep(c, max, oldest)) /\ Min(Keep(c, max, oldest)) <= c.head
<1>1. Keep(c, max, oldest) \subseteq DOMAIN c.archived \cup {c.head}
  BY AnchorIsRetained DEF Keep, NewestArchived
<1>2. Keep(c, max, oldest) \in SUBSET Versions /\ c.head \in Keep(c, max, oldest)
  BY <1>1, ArchivedIsVersions DEF Keep
<1>3. Keep(c, max, oldest) \in SUBSET Nat
  BY <1>2 DEF Versions
<1>4. /\ Min(Keep(c, max, oldest)) \in Keep(c, max, oldest)
      /\ \A v \in Keep(c, max, oldest) : Min(Keep(c, max, oldest)) <= v
  BY <1>2, <1>3, MinOfNaturals
<1>5. \A v \in Keep(c, max, oldest) : c.floor <= v
  BY <1>1 DEF Ordered
<1> QED BY <1>2, <1>4, <1>5

\* prune_to_max_versions only removes versions.
LEMMA PruneToMaxVersionsPrunes ==
    ASSUME NEW c \in Chains, Ordered(c), NEW max, NEW oldest \in Versions \cup {NoReader}
    PROVE  PrunedFrom(PruneToMaxVersions(c, max, oldest), c)
<1>1. CASE c.head = 0
  <2>1. PruneToMaxVersions(c, max, oldest) = c
    BY <1>1 DEF PruneToMaxVersions
  <2> QED BY <2>1, PrunedFromItself
<1>2. CASE c.head # 0
  <2>1. PruneToMaxVersions(c, max, oldest) =
          RetainOnly(c, Keep(c, max, oldest), Min(Keep(c, max, oldest)))
    BY <1>2 DEF PruneToMaxVersions, Keep
  <2> QED BY <1>2, <2>1, KeepHasLeast, RetainOnlyPrunes
<1> QED BY <1>1, <1>2

\* prune_to_floor only removes versions.
LEMMA PruneToFloorPrunes ==
    ASSUME NEW c \in Chains, Ordered(c), NEW requested \in Nat
    PROVE  PrunedFrom(PruneToFloor(c, requested), c)
<1> DEFINE S == {v \in DOMAIN c.archived : v >= requested} \cup {c.head}
           m == FloorForRequest(c, requested)
<1>1. CASE c.head = 0
  <2>1. PruneToFloor(c, requested) = c
    BY <1>1 DEF PruneToFloor
  <2> QED BY <2>1, PrunedFromItself
<1>2. CASE c.head # 0
  <2>1. S \in SUBSET Versions /\ S \in SUBSET Nat /\ S # {}
    BY ArchivedIsVersions DEF Versions
  <2>2. Min(S) \in S /\ \A v \in S : Min(S) <= v
    <3> HIDE DEF S
    <3> QED BY <2>1, MinOfNaturals
  <2>3. m = Min(S)
    BY DEF FloorForRequest
  <2>4. m \in Versions /\ c.floor <= m /\ m <= c.head
    BY <2>1, <2>2, <2>3 DEF Ordered
  <2>5. m..c.head \in SUBSET Versions /\ \A v \in DOMAIN c.archived \cap (m..c.head) : m <= v
    BY <2>4, ArchivedIsVersions DEF Versions
  <2>6. PruneToFloor(c, requested) = RetainOnly(c, m..c.head, m)
    BY <1>2 DEF PruneToFloor
  <2> HIDE DEF m, S
  <2> QED BY <1>2, <2>4, <2>5, <2>6, RetainOnlyPrunes
<1> QED BY <1>1, <1>2
----------------------------------------------------------------------------
(* Chains against the history of commits.                                  *)

BatchType == UNION {[ks -> Values] : ks \in SUBSET Keys \ {{}}}

\* No version newer than the head wrote the key.
NewestIn(c, k, h) == \A v \in (c.head + 1)..Len(h) : k \notin DOMAIN h[v]

\* A faithful chain is ordered.
LEMMA FaithfulIsOrdered ==
    ASSUME NEW c \in Chains, NEW k, NEW h \in Seq(BatchType), FaithfulChain(c, k, h)
    PROVE  Ordered(c)
<1>1. CASE c.head = 0
  <2>1. c.floor = 0 /\ DOMAIN c.archived = {}
    BY <1>1 DEF FaithfulChain, NoChain
  <2> QED BY <1>1, <2>1 DEF Ordered
<1>2. CASE c.head # 0
  BY <1>2 DEF FaithfulChain, Ordered
<1> QED BY <1>1, <1>2

\* A history with one more commit.
LEMMA AppendedHistory ==
    ASSUME NEW h \in Seq(BatchType), NEW w \in BatchType
    PROVE  /\ Append(h, w) \in Seq(BatchType)
           /\ Len(Append(h, w)) = Len(h) + 1 /\ Len(h) \in Nat
           /\ Append(h, w)[Len(h) + 1] = w
           /\ \A v \in 1..Len(h) : Append(h, w)[v] = h[v]
OBVIOUS

\* A chain that no commit touched stays faithful to the longer history.
LEMMA FaithfulUnderAppend ==
    ASSUME NEW c \in Chains, NEW k, NEW h \in Seq(BatchType), NEW w \in BatchType,
           FaithfulChain(c, k, h)
    PROVE  FaithfulChain(c, k, Append(h, w))
<1>1. c.head \in 0..Len(Append(h, w))
  BY AppendedHistory DEF FaithfulChain
<1>2. c.head # 0 => /\ k \in DOMAIN Append(h, w)[c.head]
                    /\ Append(h, w)[c.head][k] = c.current
  <2>1. c.head # 0 => c.head \in 1..Len(h)
    BY DEF FaithfulChain
  <2> QED BY <2>1, AppendedHistory DEF FaithfulChain
<1>3. \A v \in DOMAIN c.archived : Append(h, w)[v] = h[v]
  <2>1. \A v \in DOMAIN c.archived : v \in 1..Len(h)
    <3>1. CASE c.head = 0
      BY <3>1 DEF FaithfulChain, NoChain
    <3>2. CASE c.head # 0
      BY <3>2, AppendedHistory DEF FaithfulChain
    <3> QED BY <3>1, <3>2
  <2> QED BY <2>1, AppendedHistory
<1> QED BY <1>1, <1>2, <1>3 DEF FaithfulChain

\* A prune keeps a chain faithful, and its newest version in it.
LEMMA FaithfulAfterPrune ==
    ASSUME NEW c \in Chains, NEW c2, NEW k, NEW h \in Seq(BatchType),
           FaithfulChain(c, k, h), PrunedFrom(c2, c)
    PROVE  FaithfulChain(c2, k, h) /\ (NewestIn(c, k, h) => NewestIn(c2, k, h))
<1>1. CASE c.head = 0
  BY <1>1 DEF PrunedFrom
<1>2. CASE c.head # 0
  <2>1. c2 \in Chains /\ c.floor \in Nat /\ c2.floor \in Nat
    BY ArchivedIsVersions DEF PrunedFrom, Versions
  <2>2. c2.head # 0 /\ c2.head = c.head /\ c2.current = c.current
    BY <1>2 DEF PrunedFrom
  <2>3. c2.floor \in 1..c2.head
    BY <1>2, <2>1, <2>2 DEF PrunedFrom, FaithfulChain
  <2>4. \A v \in DOMAIN c2.archived :
          /\ v \in c2.floor..(c2.head - 1)
          /\ k \in DOMAIN h[v] /\ h[v][k] = c2.archived[v]
    BY <2>1, <2>2 DEF PrunedFrom, FaithfulChain
  <2>5. NewestIn(c, k, h) => NewestIn(c2, k, h)
    BY <2>2 DEF NewestIn
  <2> QED BY <2>2, <2>3, <2>4, <2>5 DEF FaithfulChain
<1> QED BY <1>1, <1>2

\* Staging a write on a faithful chain gives a chain faithful to the history
\* that will hold once the batch is published.
LEMMA FaithfulAfterStage ==
    ASSUME NEW c \in Chains, NEW k, NEW h \in Seq(BatchType), NEW w \in BatchType,
           k \in DOMAIN w, FaithfulChain(c, k, h)
    PROVE  FaithfulChain(AppendVersion(c, Len(h) + 1, w[k]), k, Append(h, w))
<1> DEFINE c2 == AppendVersion(c, Len(h) + 1, w[k])
<1>0. c2 = AppendVersion(c, Len(h) + 1, w[k])
  OBVIOUS
<1>1. Len(h) \in Nat
  OBVIOUS
<1>2. c2.head = Len(h) + 1 /\ c2.current = w[k]
  BY DEF AppendVersion
<1>3. FaithfulChain(c, k, Append(h, w))
  BY FaithfulUnderAppend
<1>4. CASE c.head = 0
  <2>1. c2.floor = Len(h) + 1 /\ DOMAIN c2.archived = {}
    BY <1>4 DEF AppendVersion, FaithfulChain, NoChain
  <2> HIDE DEF c2
  <2>2. c2.head \in 0..Len(Append(h, w)) /\ c2.head # 0 /\ c2.floor \in 1..c2.head
    BY <1>1, <1>2, <2>1, AppendedHistory
  <2>3. k \in DOMAIN Append(h, w)[c2.head] /\ Append(h, w)[c2.head][k] = c2.current
    BY <1>2, AppendedHistory
  <2> QED BY <1>0, <2>1, <2>2, <2>3 DEF FaithfulChain
<1>5. CASE c.head # 0
  <2>1. c2.floor = c.floor /\ c.floor \in 1..c.head /\ c.head \in 1..Len(h)
    BY <1>5, <1>1 DEF AppendVersion, FaithfulChain
  <2>2. /\ DOMAIN c2.archived = DOMAIN c.archived \cup {c.head}
        /\ \A v \in DOMAIN c2.archived :
             c2.archived[v] = IF v = c.head THEN c.current ELSE c.archived[v]
    BY <1>5 DEF AppendVersion
  <2>3. \A v \in DOMAIN c2.archived :
          /\ v \in c2.floor..(c2.head - 1)
          /\ k \in DOMAIN Append(h, w)[v]
          /\ Append(h, w)[v][k] = c2.archived[v]
    <3> TAKE v \in DOMAIN c2.archived
    <3>1. CASE v = c.head
      BY <1>2, <1>3, <1>5, <2>1, <2>2, <3>1 DEF FaithfulChain
    <3>2. CASE v # c.head
      BY <1>1, <1>2, <1>3, <2>1, <2>2, <3>2 DEF FaithfulChain
    <3> QED BY <3>1, <3>2
  <2> HIDE DEF c2
  <2>4. c2.head \in 0..Len(Append(h, w)) /\ c2.head # 0 /\ c2.floor \in 1..c2.head
    BY <1>1, <1>2, <2>1, AppendedHistory
  <2>5. k \in DOMAIN Append(h, w)[c2.head] /\ Append(h, w)[c2.head][k] = c2.current
    BY <1>2, AppendedHistory
  <2> QED BY <1>0, <2>3, <2>4, <2>5 DEF FaithfulChain
<1> QED BY <1>4, <1>5

----------------------------------------------------------------------------
(* The inductive invariant.                                                *)

CommitType ==
    [ pc : {"staged", "values", "labels"}, version : Versions, writes : BatchType,
      states : UNION {[ks -> Chains] : ks \in SUBSET Keys},
      old : UNION {[ks -> Values] : ks \in SUBSET Keys} ]

\* What the prune steps use of a pruner's state.
PruneTyped(q) ==
    /\ q.pc \in {"idle", "observe", "apply", "compact"}
    /\ q.pc \in {"observe", "apply"} => q.arg \in Nat
    /\ q.pc = "observe" => q.kind = "trigger"
    /\ q.pc = "apply" => /\ q.oldest \in Versions \cup {NoReader}
                         /\ q.kind = "pinned" => q.oldest \in Versions

TypeInv ==
    /\ currentVersion \in Versions
    /\ values \in [Keys -> Chains]
    /\ activeReaders \in [Versions -> Nat]
    /\ lease \in [Readers -> [pc : {"none", "begun", "registered"}, ts : Versions]]
    /\ commit \in CommitType \cup {Idle}
    /\ DOMAIN prune = Pruners /\ \A p \in Pruners : PruneTyped(prune[p])
    /\ log \in Seq(BatchType)

\* The counter lags the history by the batch being published, if any.
CounterInv ==
    /\ Len(log) = IF Publishing THEN currentVersion + 1 ELSE currentVersion
    /\ commit.pc # "idle" => commit.version = currentVersion + 1

ChainInv ==
    \A k \in Keys : FaithfulChain(values[k], k, log) /\ NewestIn(values[k], k, log)

\* A staged chain retains what values retains now and the version it adds.
StagedFrom(s, c) ==
    c.head # 0 => /\ DOMAIN c.archived \cup {c.head} \subseteq DOMAIN s.archived
                  /\ s.floor <= c.floor

StagedInv ==
    commit.pc = "staged" =>
        /\ DOMAIN commit.states = DOMAIN commit.writes
        /\ \A k \in DOMAIN commit.writes :
              /\ FaithfulChain(commit.states[k], k, Append(log, commit.writes))
              /\ commit.states[k].head = commit.version
              /\ StagedFrom(commit.states[k], values[k])

LeaseInv == \A r \in Readers : lease[r].ts <= currentVersion

IInv == TypeInv /\ CounterInv /\ ChainInv /\ StagedInv /\ LeaseInv /\ LeasesCounted

----------------------------------------------------------------------------
(* The invariant holds initially, and in every kind of step.               *)

\* The empty store satisfies the inductive invariant.
THEOREM InitIInv == Init => IInv
<1> SUFFICES ASSUME Init PROVE IInv
  OBVIOUS
<1>0. 0 \in Versions
  BY DEF Versions
<1>1. NoChain \in Chains
  <2>1. [v \in {} |-> Tombstone] \in UNION {[vs -> Values] : vs \in SUBSET Versions}
    <3>1. [v \in {} |-> Tombstone] \in [{} -> Values]
      OBVIOUS
    <3>2. {} \in SUBSET Versions
      OBVIOUS
    <3> QED BY <3>1, <3>2
  <2> QED BY <1>0, <2>1 DEF NoChain, Chains, Values
<1>2. TypeInv
  <2>1. values \in [Keys -> Chains]
    BY <1>1 DEF Init
  <2>2. lease \in [Readers -> [pc : {"none", "begun", "registered"}, ts : Versions]]
    BY <1>0 DEF Init
  <2>3. DOMAIN prune = Pruners /\ \A p \in Pruners : PruneTyped(prune[p])
    BY DEF Init, Idle, PruneTyped
  <2>4. activeReaders \in [Versions -> Nat] /\ log \in Seq(BatchType)
    BY DEF Init
  <2> QED BY <1>0, <2>1, <2>2, <2>3, <2>4 DEF Init, TypeInv
<1>3. CounterInv /\ StagedInv /\ LeaseInv
  BY DEF Init, Idle, CounterInv, StagedInv, LeaseInv, Publishing
<1>4. ChainInv
  BY DEF Init, ChainInv, FaithfulChain, NewestIn, NoChain
<1>5. LeasesCounted
  <2>1. \A ts \in Versions : {r \in Readers : Registered(r) /\ lease[r].ts = ts} = {}
    BY DEF Init, Registered
  <2> QED BY <2>1, FS_EmptySet DEF Init, LeasesCounted
<1> QED BY <1>2, <1>3, <1>4, <1>5 DEF IInv

Holders(ts) == {r \in Readers : Registered(r) /\ lease[r].ts = ts}

\* The leases that share a timestamp are finitely many.
LEMMA HoldersFinite ==
    ASSUME NEW ts \in Versions
    PROVE  IsFiniteSet(Holders(ts)) /\ Cardinality(Holders(ts)) \in Nat
BY ReadersAssumption, FS_Subset, FS_CardinalityType DEF Holders

\* Readers touch lease and activeReaders only, and keep them in step.
LEMMA ReaderStep ==
    ASSUME IInv, NEW r \in Readers, Reader(r)
    PROVE  IInv'
<1> USE DEF IInv
<1>1. UNCHANGED << currentVersion, floor, values, currentLabels, labelHistory, commit, prune, log >>
  BY DEF Reader, BeginSnapshot, RegisterSnapshot, DropLease
<1>2. CounterInv' /\ ChainInv' /\ StagedInv'
  BY <1>1 DEF CounterInv, ChainInv, StagedInv, Publishing
<1>3. currentVersion \in Versions /\ currentVersion \in Nat /\ 0 \in Versions
  BY DEF TypeInv, Versions
<1>4. CASE BeginSnapshot(r)
  <2>1. TypeInv'
    BY <1>1, <1>3, <1>4 DEF TypeInv, BeginSnapshot
  <2>2. LeaseInv'
    BY <1>1, <1>3, <1>4 DEF TypeInv, BeginSnapshot, LeaseInv
  <2>3. \A ts \in Versions : Holders(ts)' = Holders(ts)
    BY <1>4 DEF TypeInv, BeginSnapshot, Holders, Registered
  <2>4. LeasesCounted'
    BY <1>4, <2>3 DEF BeginSnapshot, LeasesCounted, Holders
  <2> QED BY <1>2, <2>1, <2>2, <2>4
<1>5. CASE RegisterSnapshot(r)
  <2>0. PICK t \in Versions : t = lease[r].ts
    BY DEF TypeInv
  <2>1. activeReaders[t] \in Nat /\ DOMAIN activeReaders = Versions
    BY DEF TypeInv
  <2>2. activeReaders' = [activeReaders EXCEPT ![t] = @ + 1]
    BY <1>5, <2>0 DEF RegisterSnapshot
  <2>3. TypeInv'
    <3>1. activeReaders' \in [Versions -> Nat]
      BY <2>1, <2>2 DEF TypeInv
    <3>2. lease' \in [Readers -> [pc : {"none", "begun", "registered"}, ts : Versions]]
      BY <1>5 DEF TypeInv, RegisterSnapshot
    <3> QED BY <1>1, <3>1, <3>2 DEF TypeInv
  <2>4. LeaseInv'
    BY <1>1, <1>5 DEF TypeInv, RegisterSnapshot, LeaseInv
  <2>5. r \notin Holders(t) /\ Holders(t)' = Holders(t) \cup {r}
    BY <1>5, <2>0 DEF TypeInv, RegisterSnapshot, Holders, Registered
  <2>6. \A ts \in Versions : ts # t => Holders(ts)' = Holders(ts)
    BY <1>5, <2>0 DEF TypeInv, RegisterSnapshot, Holders, Registered
  <2>7. Cardinality(Holders(t)') = Cardinality(Holders(t)) + 1
    BY <2>1, <2>5, HoldersFinite, FS_AddElement
  <2>8. \A ts \in Versions : activeReaders'[ts] = Cardinality(Holders(ts)')
    <3> TAKE ts \in Versions
    <3>1. activeReaders[ts] = Cardinality(Holders(ts))
      BY DEF LeasesCounted, Holders
    <3>2. CASE ts = t
      BY <2>1, <2>2, <2>7, <3>1, <3>2 DEF TypeInv
    <3>3. CASE ts # t
      BY <2>1, <2>2, <2>6, <3>1, <3>3 DEF TypeInv
    <3> QED BY <3>2, <3>3
  <2>9. LeasesCounted'
    BY <2>8 DEF LeasesCounted, Holders
  <2> QED BY <1>2, <2>3, <2>4, <2>9
<1>6. CASE DropLease(r)
  <2>0. PICK t \in Versions : t = lease[r].ts
    BY DEF TypeInv
  <2>1. activeReaders[t] \in Nat /\ DOMAIN activeReaders = Versions
    BY DEF TypeInv
  <2>2. activeReaders' = [activeReaders EXCEPT ![t] = @ - 1]
    BY <1>6, <2>0 DEF DropLease
  <2>3. r \in Holders(t) /\ Holders(t)' = Holders(t) \ {r}
    BY <1>6, <2>0 DEF TypeInv, DropLease, Holders, Registered
  <2>4. \A ts \in Versions : ts # t => Holders(ts)' = Holders(ts)
    BY <1>6, <2>0 DEF TypeInv, DropLease, Holders, Registered
  <2>5. Cardinality(Holders(t)') = Cardinality(Holders(t)) - 1
    BY <2>1, <2>3, HoldersFinite, FS_RemoveElement
  <2>6. \A ts \in Versions : activeReaders[ts] = Cardinality(Holders(ts))
    BY DEF LeasesCounted, Holders
  <2>7. Cardinality(Holders(t)') \in Nat
    <3>1. IsFiniteSet(Holders(t)')
      BY <2>1, <2>3, HoldersFinite, FS_RemoveElement
    <3> QED BY <3>1, FS_CardinalityType
  <2>8. \A ts \in Versions : activeReaders'[ts] = Cardinality(Holders(ts)')
    <3> TAKE ts \in Versions
    <3>1. CASE ts = t
      BY <2>1, <2>2, <2>5, <2>6, <3>1 DEF TypeInv
    <3>2. CASE ts # t
      BY <2>1, <2>2, <2>4, <2>6, <3>2 DEF TypeInv
    <3> QED BY <3>1, <3>2
  <2>9. activeReaders' \in [Versions -> Nat]
    BY <2>1, <2>2, <2>7, <2>8 DEF TypeInv
  <2>10. TypeInv'
    BY <1>1, <1>3, <1>6, <2>9 DEF TypeInv, DropLease
  <2>11. LeaseInv'
    BY <1>1, <1>3, <1>6 DEF TypeInv, DropLease, LeaseInv
  <2>12. LeasesCounted'
    BY <2>8 DEF LeasesCounted, Holders
  <2> QED BY <1>2, <2>10, <2>11, <2>12
<1> QED BY <1>4, <1>5, <1>6 DEF Reader

\* An append keeps every version of the chain it started from.
LEMMA StagedAppend ==
    ASSUME NEW c \in Chains, NEW v \in Versions, NEW x \in Values
    PROVE  AppendVersion(c, v, x).head = v /\ StagedFrom(AppendVersion(c, v, x), c)
<1>1. c.floor \in Nat /\ c.head \in Nat
  BY ArchivedIsVersions DEF Versions
<1> QED BY <1>1 DEF AppendVersion, StagedFrom

\* The committer's steps.
LEMMA StageStep ==
    ASSUME IInv, NEW writes \in Batches, StageBatch(writes)
    PROVE  IInv'
<1> USE DEF IInv
<1> DEFINE states == [k \in DOMAIN writes |-> AppendVersion(values[k], currentVersion + 1, writes[k])]
           old == [k \in DOMAIN writes |-> values[k].current]
<1>1. UNCHANGED << currentVersion, floor, values, currentLabels, labelHistory, activeReaders, lease, prune, log >>
  BY DEF StageBatch
<1>2. commit' = [pc |-> "staged", version |-> currentVersion + 1, writes |-> writes,
                 states |-> states, old |-> old]
  BY DEF StageBatch
<1>3. /\ currentVersion \in Nat /\ currentVersion + 1 \in Versions
      /\ values \in [Keys -> Chains] /\ log \in Seq(BatchType)
  BY DEF StageBatch, TypeInv, Versions
<1>4. /\ writes \in BatchType /\ DOMAIN writes \in SUBSET Keys
      /\ \A k \in DOMAIN writes : writes[k] \in Values
  <2>1. writes \in BatchType
    BY DEF Batches, BatchType
  <2> QED BY <2>1 DEF BatchType
<1>5. Len(log) = currentVersion
  BY DEF StageBatch, CounterInv, Publishing
<1>6. states \in [DOMAIN writes -> Chains]
  BY <1>3, <1>4, AppendVersionType
<1>7. old \in [DOMAIN writes -> Values]
  BY <1>3, <1>4, ArchivedIsVersions
<1>8. TypeInv'
  <2>1. states \in UNION {[ks -> Chains] : ks \in SUBSET Keys}
    BY <1>4, <1>6
  <2>2. old \in UNION {[ks -> Values] : ks \in SUBSET Keys}
    BY <1>4, <1>7
  <2> HIDE DEF states, old
  <2>3. commit' \in CommitType
    BY <1>2, <1>3, <1>4, <2>1, <2>2 DEF CommitType
  <2> QED BY <1>1, <2>3 DEF TypeInv
<1>9. CounterInv'
  BY <1>1, <1>2, <1>5 DEF CounterInv, Publishing
<1>10. ChainInv' /\ LeaseInv' /\ LeasesCounted'
  BY <1>1 DEF ChainInv, LeaseInv, LeasesCounted, Registered
<1>11. StagedInv'
  <2>1. \A k \in DOMAIN writes :
          /\ FaithfulChain(states[k], k, Append(log, writes))
          /\ states[k].head = currentVersion + 1
          /\ StagedFrom(states[k], values[k])
    <3> TAKE k \in DOMAIN writes
    <3>1. values[k] \in Chains /\ FaithfulChain(values[k], k, log)
      BY <1>3, <1>4 DEF ChainInv
    <3>2. states[k] = AppendVersion(values[k], currentVersion + 1, writes[k])
      OBVIOUS
    <3> HIDE DEF states, old
    <3>3. FaithfulChain(states[k], k, Append(log, writes))
      BY <1>3, <1>4, <1>5, <3>1, <3>2, FaithfulAfterStage
    <3> QED BY <1>3, <1>4, <3>1, <3>2, <3>3, StagedAppend
  <2>2. DOMAIN states = DOMAIN writes
    OBVIOUS
  <2> HIDE DEF states, old
  <2> QED BY <1>1, <1>2, <2>1, <2>2 DEF StagedInv
<1> QED BY <1>8, <1>9, <1>10, <1>11

\* Publishing the staged chains keeps the invariant, whatever was pruned since
\* they were cloned.
LEMMA PublishValuesStep ==
    ASSUME IInv, PublishValues
    PROVE  IInv'
<1> USE DEF IInv
<1>1. UNCHANGED << currentVersion, floor, currentLabels, labelHistory, activeReaders, lease, prune >>
  BY DEF PublishValues
<1>2. /\ commit.pc = "staged" /\ commit' = [commit EXCEPT !.pc = "values"]
      /\ log' = Append(log, commit.writes)
  BY DEF PublishValues
<1>3. commit \in CommitType
  BY <1>2 DEF TypeInv, Idle
<1>4. /\ commit' \in CommitType /\ commit'.pc = "values" /\ commit'.version = commit.version
  BY <1>2, <1>3 DEF CommitType
<1>5. /\ commit.writes \in BatchType /\ log \in Seq(BatchType)
      /\ commit.states \in [DOMAIN commit.states -> Chains]
      /\ DOMAIN commit.states = DOMAIN commit.writes
  <2>1. commit.states \in [DOMAIN commit.states -> Chains]
    BY <1>3 DEF CommitType
  <2> QED BY <1>2, <1>3, <2>1 DEF CommitType, TypeInv, StagedInv
<1>6. values' = [k \in Keys |-> IF k \in DOMAIN commit.writes THEN commit.states[k] ELSE values[k]]
  BY <1>5 DEF PublishValues
<1>7. values' \in [Keys -> Chains] /\ values \in [Keys -> Chains]
  BY <1>5, <1>6 DEF TypeInv
<1>8. currentVersion \in Nat /\ Len(log) = currentVersion /\ commit.version = currentVersion + 1
  BY <1>2 DEF TypeInv, CounterInv, Publishing, Versions
<1>9. /\ log' \in Seq(BatchType) /\ Len(log') = currentVersion + 1
      /\ log'[currentVersion + 1] = commit.writes
      /\ \A v \in 1..currentVersion : log'[v] = log[v]
  BY <1>2, <1>5, <1>8, AppendedHistory
<1>10. TypeInv'
  BY <1>1, <1>4, <1>7, <1>9 DEF TypeInv
<1>11. CounterInv'
  BY <1>1, <1>4, <1>8, <1>9 DEF CounterInv, Publishing
<1>12. StagedInv' /\ LeaseInv' /\ LeasesCounted'
  BY <1>1, <1>4 DEF StagedInv, LeaseInv, LeasesCounted, Registered
<1>13. ChainInv'
  <2> SUFFICES ASSUME NEW k \in Keys
               PROVE  FaithfulChain(values'[k], k, log') /\ NewestIn(values'[k], k, log')
    BY DEF ChainInv
  <2>1. CASE k \in DOMAIN commit.writes
    <3>1. FaithfulChain(values'[k], k, log') /\ values'[k].head = currentVersion + 1
      BY <1>2, <1>6, <1>8, <2>1 DEF StagedInv
    <3> QED BY <1>8, <1>9, <3>1 DEF NewestIn
  <2>2. CASE k \notin DOMAIN commit.writes
    <3>1. values'[k] = values[k]
      BY <1>6, <2>2
    <3>2. values[k] \in Chains /\ FaithfulChain(values[k], k, log) /\ NewestIn(values[k], k, log)
      BY <1>7 DEF ChainInv
    <3>3. FaithfulChain(values[k], k, log')
      BY <1>2, <1>5, <3>2, FaithfulUnderAppend
    <3>4. NewestIn(values[k], k, log')
      <4>1. values[k].head \in Nat
        BY <3>2, ArchivedIsVersions DEF Versions
      <4> QED BY <1>8, <1>9, <2>2, <3>2, <4>1 DEF NewestIn
    <3> QED BY <3>1, <3>3, <3>4
  <2> QED BY <2>1, <2>2
<1> QED BY <1>10, <1>11, <1>12, <1>13

\* Every step of a commit keeps the invariant.
LEMMA CommitStep ==
    ASSUME IInv, Commit
    PROVE  IInv'
<1> USE DEF IInv
<1>1. CASE \E writes \in Batches : StageBatch(writes)
  BY <1>1, StageStep
<1>2. CASE AbortCommit
  <2>1. /\ UNCHANGED << currentVersion, floor, values, activeReaders, lease, prune, log >>
        /\ commit.pc = "staged" /\ commit' = Idle /\ Idle.pc = "idle"
    BY <1>2 DEF AbortCommit, Idle
  <2>2. TypeInv' /\ CounterInv'
    BY <2>1 DEF TypeInv, CounterInv, Publishing
  <2> QED BY <2>1, <2>2 DEF ChainInv, StagedInv, LeaseInv, LeasesCounted, Registered
<1>3. CASE PublishValues
  BY <1>3, PublishValuesStep
<1>4. CASE PublishLabels
  <2>1. /\ UNCHANGED << currentVersion, floor, values, activeReaders, lease, prune, log >>
        /\ commit.pc = "values" /\ commit' = [commit EXCEPT !.pc = "labels"]
    BY <1>4 DEF PublishLabels
  <2>2. commit \in CommitType
    BY <2>1 DEF TypeInv, Idle
  <2>3. commit' \in CommitType /\ commit'.pc = "labels" /\ commit'.version = commit.version
    BY <2>1, <2>2 DEF CommitType
  <2>4. TypeInv'
    BY <2>1, <2>3 DEF TypeInv
  <2>5. CounterInv'
    BY <2>1, <2>3 DEF CounterInv, Publishing
  <2> QED BY <2>1, <2>3, <2>4, <2>5 DEF ChainInv, StagedInv, LeaseInv, LeasesCounted, Registered
<1>5. CASE PublishVersion
  <2>1. /\ UNCHANGED << floor, values, activeReaders, lease, prune, log >>
        /\ commit.pc = "labels" /\ commit' = Idle /\ Idle.pc = "idle"
        /\ currentVersion' = commit.version
    BY <1>5 DEF PublishVersion, Idle
  <2>2. commit \in CommitType
    BY <2>1 DEF TypeInv, Idle
  <2>3. currentVersion \in Nat /\ currentVersion' \in Versions /\ currentVersion' = currentVersion + 1
    BY <2>1, <2>2 DEF CommitType, TypeInv, CounterInv, Versions
  <2>4. TypeInv'
    BY <2>1, <2>3 DEF TypeInv
  <2>5. CounterInv'
    BY <2>1, <2>3 DEF CounterInv, Publishing
  <2>6. LeaseInv'
    BY <2>1, <2>3 DEF TypeInv, LeaseInv, Versions
  <2> QED BY <2>1, <2>4, <2>5, <2>6 DEF ChainInv, StagedInv, LeasesCounted, Registered
<1> QED BY <1>1, <1>2, <1>3, <1>4, <1>5 DEF Commit

----------------------------------------------------------------------------
(* The pruners' steps.                                                     *)

\* oldest_active_reader names a version, or none.
LEMMA OldestType ==
    ASSUME TypeInv
    PROVE  OldestActiveReader \in Versions \cup {NoReader}
<1> DEFINE pinned == {ts \in Versions : activeReaders[ts] > 0}
<1>1. pinned \in SUBSET Nat
  BY DEF Versions
<1>2. CASE pinned = {}
  BY <1>2 DEF OldestActiveReader
<1>3. CASE pinned # {}
  <2>1. Min(pinned) \in pinned
    <3> HIDE DEF pinned
    <3> QED BY <1>1, <1>3, MinOfNaturals
  <2> QED BY <1>3, <2>1 DEF OldestActiveReader
<1> QED BY <1>2, <1>3

\* A staged chain still contains what a prune left of its origin.
LEMMA StagedAfterPrune ==
    ASSUME NEW s \in Chains, NEW c \in Chains, NEW c2, StagedFrom(s, c), PrunedFrom(c2, c)
    PROVE  StagedFrom(s, c2)
<1>1. c2 \in Chains
  BY DEF PrunedFrom
<1>2. s.floor \in Nat /\ c.floor \in Nat /\ c2.floor \in Nat
  BY <1>1, ArchivedIsVersions DEF Versions
<1> QED BY <1>2 DEF StagedFrom, PrunedFrom

\* A step that prunes chains, or none, and moves pruners keeps the invariant.
LEMMA RewriteStep ==
    ASSUME IInv,
           UNCHANGED << currentVersion, activeReaders, lease, commit, log >>,
           DOMAIN values' = Keys, values' = [k \in Keys |-> values'[k]],
           \A k \in Keys : PrunedFrom(values'[k], values[k]),
           DOMAIN prune' = Pruners, \A p \in Pruners : PruneTyped(prune'[p])
    PROVE  IInv'
<1> USE DEF IInv
<1>1. values \in [Keys -> Chains] /\ log \in Seq(BatchType)
  BY DEF TypeInv
<1>2. values' \in [Keys -> Chains]
  BY DEF PrunedFrom
<1>3. TypeInv'
  BY <1>2 DEF TypeInv
<1>4. ChainInv'
  <2> SUFFICES ASSUME NEW k \in Keys
               PROVE  FaithfulChain(values'[k], k, log) /\ NewestIn(values'[k], k, log)
    BY DEF ChainInv
  <2> QED BY <1>1, FaithfulAfterPrune DEF ChainInv
<1>5. StagedInv'
  <2> SUFFICES ASSUME commit.pc = "staged", NEW k \in DOMAIN commit.writes
               PROVE  StagedFrom(commit.states[k], values'[k])
    BY DEF StagedInv
  <2>1. commit \in CommitType
    BY DEF TypeInv, Idle
  <2>2. k \in Keys /\ commit.states[k] \in Chains
    BY <2>1 DEF CommitType, BatchType, StagedInv
  <2>3. StagedFrom(commit.states[k], values[k])
    BY DEF StagedInv
  <2> QED BY <1>1, <2>2, <2>3, StagedAfterPrune
<1> QED BY <1>3, <1>4, <1>5 DEF CounterInv, Publishing, LeaseInv, LeasesCounted, Registered

\* A key a prune leaves alone counts as pruned of nothing.
LEMMA ChainsPruneToThemselves ==
    ASSUME IInv, NEW k \in Keys
    PROVE  values[k] \in Chains /\ Ordered(values[k]) /\ PrunedFrom(values[k], values[k])
<1>1. values[k] \in Chains /\ Ordered(values[k])
  BY FaithfulIsOrdered DEF IInv, TypeInv, ChainInv
<1> QED BY <1>1, PrunedFromItself

\* Steps that read the leases, pin the floor or compact the label history
\* leave the chains alone.
LEMMA BookkeepingStep ==
    ASSUME IInv,
           UNCHANGED << currentVersion, values, activeReaders, lease, commit, log >>,
           NEW p \in Pruners, NEW q, PruneTyped(q), prune' = [prune EXCEPT ![p] = q]
    PROVE  IInv'
<1>1. DOMAIN prune' = Pruners /\ \A o \in Pruners : PruneTyped(prune'[o])
  BY DEF IInv, TypeInv
<1>2. DOMAIN values' = Keys /\ values' = [k \in Keys |-> values'[k]]
  BY DEF IInv, TypeInv
<1>3. \A k \in Keys : PrunedFrom(values'[k], values[k])
  BY ChainsPruneToThemselves
<1> QED BY <1>1, <1>2, <1>3, RewriteStep

\* prune_mvcc_versions, of the store or of one namespace, keeps the invariant.
LEMMA PruneVersionsStep ==
    ASSUME IInv, NEW p \in Pruners, PruneVersions(p)
    PROVE  IInv'
<1> DEFINE q == prune[p]
           pruned == [k \in Keys |-> IF k \in q.scope THEN PruneToMaxVersions(values[k], q.arg, q.oldest)
                                     ELSE values[k]]
           removed == {k \in Keys : pruned[k].archived # values[k].archived}
<1>1. /\ UNCHANGED << currentVersion, activeReaders, lease, commit, log >>
      /\ values' = pruned /\ q.pc = "apply"
      /\ prune' = [prune EXCEPT ![p] = [pc |-> "compact", removed |-> removed]]
  BY DEF PruneVersions
<1>2. q.oldest \in Versions \cup {NoReader}
  BY <1>1 DEF IInv, TypeInv, PruneTyped
<1>3. \A k \in Keys : PrunedFrom(pruned[k], values[k])
  <2> TAKE k \in Keys
  <2>1. CASE k \in q.scope
    BY <1>2, <2>1, ChainsPruneToThemselves, PruneToMaxVersionsPrunes
  <2>2. CASE k \notin q.scope
    BY <2>2, ChainsPruneToThemselves
  <2> QED BY <2>1, <2>2
<1>4. DOMAIN pruned = Keys /\ pruned = [k \in Keys |-> pruned[k]]
  OBVIOUS
<1> HIDE DEF pruned, removed
<1>5. DOMAIN prune' = Pruners /\ \A o \in Pruners : PruneTyped(prune'[o])
  BY <1>1 DEF IInv, TypeInv, PruneTyped
<1> QED BY <1>1, <1>3, <1>4, <1>5, RewriteStep

\* prune_versions_older_than keeps the invariant.
LEMMA PruneOlderThanStep ==
    ASSUME IInv, NEW p \in Pruners, PruneOlderThan(p)
    PROVE  IInv'
<1> DEFINE q == prune[p]
           effective == IF q.oldest = NoReader THEN q.arg ELSE Min({q.arg, q.oldest})
           pruned == [k \in Keys |-> PruneToFloor(values[k], effective)]
<1>1. /\ UNCHANGED << currentVersion, activeReaders, lease, commit, log >>
      /\ values' = pruned /\ q.pc = "apply" /\ prune' = [prune EXCEPT ![p] = Idle]
  BY DEF PruneOlderThan
<1>2. q.oldest \in Versions \cup {NoReader} /\ q.arg \in Nat
  BY <1>1 DEF IInv, TypeInv, PruneTyped
<1>3. effective \in Nat
  <2>1. CASE q.oldest = NoReader
    BY <1>2, <2>1
  <2>2. CASE q.oldest # NoReader
    <3>1. {q.arg, q.oldest} \in SUBSET Nat /\ {q.arg, q.oldest} # {}
      BY <1>2, <2>2 DEF Versions
    <3>2. Min({q.arg, q.oldest}) \in Nat
      BY <3>1, MinOfNaturals
    <3> QED BY <2>2, <3>2
  <2> QED BY <2>1, <2>2
<1>4. \A k \in Keys : PrunedFrom(pruned[k], values[k])
  <2> HIDE DEF effective
  <2> QED BY <1>3, ChainsPruneToThemselves, PruneToFloorPrunes
<1>5. DOMAIN pruned = Keys /\ pruned = [k \in Keys |-> pruned[k]]
  OBVIOUS
<1> HIDE DEF pruned
<1>6. DOMAIN prune' = Pruners /\ \A o \in Pruners : PruneTyped(prune'[o])
  BY <1>1 DEF IInv, TypeInv, PruneTyped, Idle
<1> QED BY <1>1, <1>4, <1>5, <1>6, RewriteStep

\* Every step of a prune keeps the invariant.
LEMMA PruneStep ==
    ASSUME IInv, NEW p \in Pruners, Prune(p)
    PROVE  IInv'
<1>1. TypeInv /\ OldestActiveReader \in Versions \cup {NoReader}
  BY OldestType DEF IInv
<1>2. ASSUME NEW retain \in Retains, TriggerPrune(p, retain)
      PROVE  IInv'
  <2>1. retain + 1 \in Nat
    BY PruneArgumentAssumption
  <2> DEFINE q == IF OldestActiveReader = NoReader
                  THEN [pc |-> "observe", kind |-> "trigger", arg |-> retain + 1, scope |-> Keys]
                  ELSE [pc |-> "apply", kind |-> "pinned", arg |-> 0, scope |-> Keys,
                        oldest |-> OldestActiveReader]
  <2>2. PruneTyped(q)
    BY <1>1, <2>1 DEF PruneTyped
  <2>3. prune' = [prune EXCEPT ![p] = q]
    BY <1>2 DEF TriggerPrune
  <2> HIDE DEF q
  <2> QED BY <1>2, <2>2, <2>3, BookkeepingStep DEF TriggerPrune
<1>3. ASSUME NEW kind \in {"explicit", "namespace", "older"}, NEW arg \in Nat, NEW scope,
             RequestPrune(p, kind, arg, scope)
      PROVE  IInv'
  <2> DEFINE q == [pc |-> "apply", kind |-> kind, arg |-> arg, scope |-> scope,
                   oldest |-> OldestActiveReader]
  <2>1. PruneTyped(q)
    BY <1>1 DEF PruneTyped
  <2>2. prune' = [prune EXCEPT ![p] = q]
    BY <1>3 DEF RequestPrune
  <2> HIDE DEF q
  <2> QED BY <1>3, <2>1, <2>2, BookkeepingStep DEF RequestPrune
<1>4. CASE ObserveOldest(p)
  <2> DEFINE q == [pc |-> "apply", kind |-> prune[p].kind, arg |-> prune[p].arg,
                   scope |-> prune[p].scope, oldest |-> OldestActiveReader]
  <2>1. PruneTyped(q)
    BY <1>1, <1>4 DEF ObserveOldest, TypeInv, PruneTyped
  <2>2. prune' = [prune EXCEPT ![p] = q]
    BY <1>1, <1>4 DEF ObserveOldest, TypeInv
  <2> HIDE DEF q
  <2> QED BY <1>4, <2>1, <2>2, BookkeepingStep DEF ObserveOldest
<1>5. PruneTyped(Idle)
  BY DEF PruneTyped, Idle
<1>6. CASE PinFloor(p)
  BY <1>5, <1>6, BookkeepingStep DEF PinFloor
<1>7. CASE CompactHistory(p)
  BY <1>5, <1>7, BookkeepingStep DEF CompactHistory
<1>8. CASE PruneVersions(p)
  BY <1>8, PruneVersionsStep
<1>9. CASE PruneOlderThan(p)
  BY <1>9, PruneOlderThanStep
<1>10. MaxPerKey \subseteq Nat /\ MinVersions \subseteq Nat
  BY PruneArgumentAssumption
<1> QED BY <1>2, <1>3, <1>4, <1>6, <1>7, <1>8, <1>9, <1>10 DEF Prune

\* The invariant depends on the variables only.
LEMMA StutterStep ==
    ASSUME IInv, UNCHANGED vars
    PROVE  IInv'
BY DEF vars, IInv, TypeInv, CounterInv, ChainInv, StagedInv, LeaseInv, LeasesCounted,
       Publishing, Registered

\* The invariant, of every behaviour and for every value of the constants.
THEOREM InductiveInvariant == Spec => []IInv
<1>1. IInv /\ [Next]_vars => IInv'
  BY ReaderStep, CommitStep, PruneStep, StutterStep DEF Next
<1> QED BY <1>1, InitIInv, PTL DEF Spec

----------------------------------------------------------------------------
(* What the inductive invariant gives a reader of the store: faithful chains,
   complete current snapshots, snapshots that never see the future, and
   leases whose view no commit can take away. *)

(* Chains read against the history of commits.                             *)

Writes(k, h, ts) == {v \in 1..Len(h) : v <= ts /\ k \in DOMAIN h[v]}

Newest(k, h, ts) == IF Writes(k, h, ts) = {} THEN 0 ELSE Max(Writes(k, h, ts))

\* Newest is the last commit up to ts that wrote the key, 0 if there is none.
LEMMA NewestIsLast ==
    ASSUME NEW k, NEW h \in Seq(BatchType), NEW ts \in Nat
    PROVE  /\ Newest(k, h, ts) \in 0..Len(h) /\ Newest(k, h, ts) \in Nat
           /\ Newest(k, h, ts) # 0 => Newest(k, h, ts) \in Writes(k, h, ts)
           /\ \A v \in Writes(k, h, ts) : v <= Newest(k, h, ts)
<1>1. Len(h) \in Nat /\ Writes(k, h, ts) \in SUBSET Nat /\ \A v \in Writes(k, h, ts) : v <= Len(h)
  BY DEF Writes
<1>2. CASE Writes(k, h, ts) = {}
  BY <1>1, <1>2 DEF Newest
<1>3. CASE Writes(k, h, ts) # {}
  <2>1. /\ Max(Writes(k, h, ts)) \in Writes(k, h, ts)
        /\ \A v \in Writes(k, h, ts) : v <= Max(Writes(k, h, ts))
    BY <1>1, <1>3, MaxOfNaturals
  <2>2. Newest(k, h, ts) = Max(Writes(k, h, ts))
    BY <1>3 DEF Newest
  <2> QED BY <1>1, <2>1, <2>2 DEF Writes
<1> QED BY <1>2, <1>3

\* A write no later one follows is the newest.
LEMMA NewestIsMax ==
    ASSUME NEW k, NEW h \in Seq(BatchType), NEW ts \in Nat, NEW m \in Writes(k, h, ts),
           \A v \in Writes(k, h, ts) : v <= m
    PROVE  Newest(k, h, ts) = m
<1>1. Writes(k, h, ts) \in SUBSET Nat /\ Writes(k, h, ts) # {}
  BY DEF Writes
<1> QED BY <1>1, MaxIsUnique DEF Newest

\* What a chain retains was written.
LEMMA RetainedWasWritten ==
    ASSUME NEW c \in Chains, NEW k, NEW h \in Seq(BatchType), FaithfulChain(c, k, h),
           NEW v \in DOMAIN c.archived \cup {c.head}, v # 0
    PROVE  v \in 1..Len(h) /\ k \in DOMAIN h[v] /\ v <= c.head /\ c.head # 0
<1>1. c.head # 0
  BY DEF FaithfulChain, NoChain
<1>2. c.head \in 1..Len(h) /\ c.floor \in 1..c.head /\ Len(h) \in Nat
  BY <1>1 DEF FaithfulChain
<1> QED BY <1>1, <1>2 DEF FaithfulChain

\* A read returns 0 or a version the chain retains, at or below the snapshot.
LEMMA ReadIsRetained ==
    ASSUME NEW c \in Chains, NEW k, NEW h \in Seq(BatchType), FaithfulChain(c, k, h),
           NEW ts \in Versions
    PROVE  /\ VersionAt(c, ts) \in Nat
           /\ VersionAt(c, ts) # 0 =>
                /\ VersionAt(c, ts) \in DOMAIN c.archived \cup {c.head}
                /\ VersionAt(c, ts) <= ts /\ c.floor <= ts
<1>1. c.floor \in Nat /\ c.head \in Nat /\ ts \in Nat /\ DOMAIN c.archived \in SUBSET Nat
  BY ArchivedIsVersions DEF Versions
<1>2. CASE ts < c.floor
  BY <1>2 DEF VersionAt
<1>3. CASE ~(ts < c.floor) /\ ts >= c.head
  BY <1>1, <1>3 DEF VersionAt
<1>4. CASE ~(ts < c.floor) /\ ~(ts >= c.head) /\ ArchivedUpTo(c, ts) = {}
  BY <1>4 DEF VersionAt
<1>5. CASE ~(ts < c.floor) /\ ~(ts >= c.head) /\ ArchivedUpTo(c, ts) # {}
  <2>1. VersionAt(c, ts) = Max(ArchivedUpTo(c, ts))
    BY <1>5 DEF VersionAt
  <2>2. Max(ArchivedUpTo(c, ts)) \in ArchivedUpTo(c, ts)
    BY <1>5, ArchivedUpToMax
  <2> QED BY <1>1, <1>5, <2>1, <2>2 DEF ArchivedUpTo
<1> QED BY <1>2, <1>3, <1>4, <1>5

\* A read never returns a version newer than the last write its snapshot saw.
LEMMA ReadNotNewer ==
    ASSUME NEW c \in Chains, NEW k, NEW h \in Seq(BatchType), FaithfulChain(c, k, h),
           NEW ts \in Versions
    PROVE  VersionAt(c, ts) <= Newest(k, h, ts)
<1>1. ts \in Nat
  BY DEF Versions
<1>2. CASE VersionAt(c, ts) = 0
  BY <1>1, <1>2, NewestIsLast
<1>3. CASE VersionAt(c, ts) # 0
  <2>1. VersionAt(c, ts) \in DOMAIN c.archived \cup {c.head} /\ VersionAt(c, ts) <= ts
    BY <1>3, ReadIsRetained
  <2>2. VersionAt(c, ts) \in Writes(k, h, ts)
    BY <1>3, <2>1, RetainedWasWritten DEF Writes
  <2> QED BY <1>1, <2>2, NewestIsLast
<1> QED BY <1>2, <1>3

\* A chain that retains the last version a snapshot saw, at or above its floor,
\* gives that snapshot its view.
LEMMA RetainedGivesView ==
    ASSUME NEW c \in Chains, NEW k, NEW h \in Seq(BatchType), FaithfulChain(c, k, h),
           NEW ts \in Versions,
           Newest(k, h, ts) # 0 => /\ Newest(k, h, ts) \in DOMAIN c.archived \cup {c.head}
                                   /\ c.floor <= ts
    PROVE  VersionAt(c, ts) = Newest(k, h, ts)
<1> DEFINE m == Newest(k, h, ts)
<1>0. Newest(k, h, ts) = m
  OBVIOUS
<1>1. ts \in Nat /\ m \in Nat /\ VersionAt(c, ts) \in Nat /\ VersionAt(c, ts) <= m
  BY ReadIsRetained, ReadNotNewer, NewestIsLast DEF Versions
<1>2. CASE m = 0
  BY <1>1, <1>2
<1>3. CASE m # 0
  <2>1. m \in Writes(k, h, ts) /\ m <= ts
    BY <1>1, <1>3, NewestIsLast DEF Writes
  <2>2. c.floor \in Nat /\ c.head \in Nat /\ DOMAIN c.archived \in SUBSET Nat /\ ~(ts < c.floor)
    BY <1>1, <1>3, ArchivedIsVersions DEF Versions
  <2>3. m <= c.head
    BY <1>3, RetainedWasWritten
  <2> HIDE DEF m
  <2>4. CASE ts >= c.head
    BY <1>0, <1>1, <2>2, <2>3, <2>4 DEF VersionAt
  <2>5. CASE ~(ts >= c.head)
    <3>1. m \in ArchivedUpTo(c, ts)
      BY <1>0, <1>1, <1>3, <2>1, <2>2, <2>5 DEF ArchivedUpTo
    <3>2. VersionAt(c, ts) = Max(ArchivedUpTo(c, ts)) /\ m <= Max(ArchivedUpTo(c, ts))
      BY <2>2, <2>5, <3>1, ArchivedUpToMax DEF VersionAt
    <3> QED BY <1>0, <1>1, <3>2
  <2> QED BY <2>4, <2>5
<1> QED BY <1>2, <1>3

\* The specification's CommittedVersion is Newest of the history.
LEMMA CommittedIsNewest ==
    ASSUME NEW k, NEW ts
    PROVE  CommittedVersion(k, ts) = Newest(k, log, ts)
BY DEF CommittedVersion, WritesUpTo, Newest, Writes

\* What the invariant says of one chain.
LEMMA ChainFacts ==
    ASSUME IInv, NEW k \in Keys
    PROVE  /\ values[k] \in Chains /\ log \in Seq(BatchType) /\ Len(log) \in Nat
           /\ FaithfulChain(values[k], k, log) /\ NewestIn(values[k], k, log)
           /\ currentVersion \in Nat /\ currentVersion \in Versions /\ currentVersion <= Len(log)
BY DEF IInv, TypeInv, ChainInv, CounterInv, Versions

\* The head of a chain is the last commit that wrote the key.
LEMMA HeadIsNewest ==
    ASSUME IInv, NEW k \in Keys
    PROVE  values[k].head = Newest(k, log, Len(log))
<1> DEFINE c == values[k]
<1>1. /\ c \in Chains /\ log \in Seq(BatchType) /\ Len(log) \in Nat
      /\ FaithfulChain(c, k, log) /\ NewestIn(c, k, log)
  BY ChainFacts
<1> HIDE DEF c
<1>2. c.head \in 0..Len(log) /\ \A v \in Writes(k, log, Len(log)) : v <= c.head
  BY <1>1 DEF FaithfulChain, NewestIn, Writes
<1>3. CASE c.head = 0
  <2>1. Writes(k, log, Len(log)) = {}
    BY <1>1, <1>2, <1>3 DEF Writes
  <2> QED BY <1>3, <2>1 DEF Newest, c
<1>4. CASE c.head # 0
  <2>1. c.head \in Writes(k, log, Len(log))
    BY <1>1, <1>2, <1>4 DEF FaithfulChain, Writes
  <2>2. Newest(k, log, Len(log)) = c.head
    BY <1>1, <1>2, <2>1, NewestIsMax
  <2> QED BY <2>2 DEF c
<1> QED BY <1>3, <1>4

----------------------------------------------------------------------------
(* The safety properties of MvccStore.                                     *)

\* Every chain holds only what commits wrote and has the newest version of its
\* key as its head, through any mix of commits, aborts and prunes.
THEOREM ChainsStayFaithful == Spec => []ChainsFaithful
<1>1. IInv => ChainsFaithful
  BY ChainFacts, HeadIsNewest, CommittedIsNewest DEF ChainsFaithful
<1> QED BY <1>1, InductiveInvariant, PTL

\* With no publication under way, the current snapshot reads the last committed
\* version of every key: no prune, concurrent or not, takes it away.
THEOREM CurrentSnapshotIsComplete == Spec => []LatestSnapshotComplete
<1>1. IInv => LatestSnapshotComplete
  <2> SUFFICES ASSUME IInv, ~Publishing, NEW k \in Keys
               PROVE  VersionAt(values[k], currentVersion) = CommittedVersion(k, currentVersion)
    BY DEF LatestSnapshotComplete
  <2>1. currentVersion = Len(log)
    BY DEF IInv, CounterInv
  <2>2. Newest(k, log, currentVersion) = values[k].head
    BY <2>1, HeadIsNewest
  <2>3. values[k].head # 0 => values[k].floor <= currentVersion
    BY <2>1, ChainFacts, ArchivedIsVersions DEF FaithfulChain, Versions
  <2> QED BY <2>2, <2>3, ChainFacts, RetainedGivesView, CommittedIsNewest
<1> QED BY <1>1, InductiveInvariant, PTL

\* No snapshot the counter has announced reads a version committed after it,
\* even while the values of the next batch are already in place.
THEOREM NoSnapshotSeesTheFuture == Spec => []SnapshotNeverSeesFuture
<1>1. IInv => SnapshotNeverSeesFuture
  <2> SUFFICES ASSUME IInv, NEW ts \in 0..currentVersion, NEW k \in Keys
               PROVE  VersionAt(values[k], ts) <= CommittedVersion(k, ts)
    BY DEF SnapshotNeverSeesFuture
  <2>1. ts \in Versions
    BY ChainFacts DEF Versions
  <2> QED BY <2>1, ChainFacts, ReadNotNewer, CommittedIsNewest
<1> QED BY <1>1, InductiveInvariant, PTL

\* active_readers holds exactly the leases in force.
THEOREM LeasesStayCounted == Spec => []LeasesCounted
<1>1. IInv => LeasesCounted
  BY DEF IInv
<1> QED BY <1>1, InductiveInvariant, PTL

----------------------------------------------------------------------------
(* Leases keep their view.                                                 *)

View(c, k, h, ts) == VersionAt(c, ts) = Newest(k, h, ts)

\* A commit of another version leaves what an older snapshot should see.
LEMMA NewestUnderAppend ==
    ASSUME NEW k, NEW h \in Seq(BatchType), NEW w \in BatchType, NEW ts \in Nat, ts <= Len(h)
    PROVE  Newest(k, Append(h, w), ts) = Newest(k, h, ts)
<1>1. Writes(k, Append(h, w), ts) = Writes(k, h, ts)
  BY AppendedHistory DEF Writes
<1> QED BY <1>1 DEF Newest

\* Publishing the chain staged from c (or from what c was before a prune) keeps
\* the view of every snapshot that had one.
LEMMA StagedKeepsView ==
    ASSUME NEW c \in Chains, NEW s \in Chains, NEW k, NEW h \in Seq(BatchType),
           NEW w \in BatchType, FaithfulChain(c, k, h), FaithfulChain(s, k, Append(h, w)),
           StagedFrom(s, c), NEW ts \in Versions, ts <= Len(h), View(c, k, h, ts)
    PROVE  View(s, k, Append(h, w), ts)
<1> DEFINE m == Newest(k, h, ts)
<1>1. ts \in Nat /\ Append(h, w) \in Seq(BatchType)
  BY DEF Versions
<1>2. Newest(k, Append(h, w), ts) = m
  BY <1>1, NewestUnderAppend
<1>3. m # 0 => m \in DOMAIN s.archived \cup {s.head} /\ s.floor <= ts
  <2> SUFFICES ASSUME m # 0 PROVE m \in DOMAIN s.archived \cup {s.head} /\ s.floor <= ts
    OBVIOUS
  <2>1. VersionAt(c, ts) = m
    BY DEF View
  <2>2. m \in DOMAIN c.archived \cup {c.head} /\ c.floor <= ts
    BY <2>1, ReadIsRetained
  <2>3. c.head # 0
    BY <2>2, RetainedWasWritten
  <2>4. s.floor \in Nat /\ c.floor \in Nat
    BY ArchivedIsVersions DEF Versions
  <2> HIDE DEF m
  <2> QED BY <1>1, <2>2, <2>3, <2>4 DEF StagedFrom
<1> HIDE DEF m
<1> QED BY <1>1, <1>2, <1>3, RetainedGivesView DEF View

\* prune_to_max_versions keeps the view of the snapshot it takes as the oldest.
LEMMA PruneKeepsOldestView ==
    ASSUME NEW c \in Chains, NEW k, NEW h \in Seq(BatchType), FaithfulChain(c, k, h),
           NEW max, NEW ts \in Versions, View(c, k, h, ts)
    PROVE  View(PruneToMaxVersions(c, max, ts), k, h, ts)
<1> DEFINE c2 == PruneToMaxVersions(c, max, ts)
           m == Newest(k, h, ts)
           keep == Keep(c, max, ts)
<1>1. ts \in Nat /\ ts # NoReader /\ Ordered(c) /\ VersionAt(c, ts) = m
  BY FaithfulIsOrdered DEF Versions, View
<1>2. PrunedFrom(c2, c)
  BY <1>1, PruneToMaxVersionsPrunes
<1>3. c2 \in Chains /\ FaithfulChain(c2, k, h)
  BY <1>2, FaithfulAfterPrune DEF PrunedFrom
<1>4. m # 0 => m \in DOMAIN c2.archived \cup {c2.head} /\ c2.floor <= ts
  <2> SUFFICES ASSUME m # 0 PROVE m \in DOMAIN c2.archived \cup {c2.head} /\ c2.floor <= ts
    OBVIOUS
  <2>1. m \in DOMAIN c.archived \cup {c.head} /\ m <= ts /\ c.floor <= ts /\ c.head # 0
    BY <1>1, ReadIsRetained, RetainedWasWritten
  <2>2. ReaderAnchor(c, ts) = {m}
    <3>1. c.head \in Nat /\ c.floor \in Nat
      BY ArchivedIsVersions DEF Versions
    <3>2. CASE ts >= c.head
      <4>1. m = c.head
        BY <1>1, <2>1, <3>1, <3>2 DEF VersionAt
      <4> QED BY <1>1, <3>2, <4>1 DEF ReaderAnchor
    <3>3. CASE ~(ts >= c.head)
      <4>1. ArchivedUpTo(c, ts) # {} /\ m = Max(ArchivedUpTo(c, ts))
        BY <1>1, <2>1, <3>1, <3>3 DEF VersionAt
      <4> QED BY <1>1, <3>3, <4>1 DEF ReaderAnchor
    <3> QED BY <3>2, <3>3
  <2>3. m \in keep
    BY <2>2 DEF Keep
  <2>4. c2.head = c.head /\ DOMAIN c2.archived = DOMAIN c.archived \cap keep /\ c2.floor = Min(keep)
    BY <2>1 DEF PruneToMaxVersions, RetainOnly, Restrict, Keep
  <2>5. keep \in SUBSET Nat /\ Min(keep) \in Nat /\ Min(keep) <= m /\ m \in Nat
    BY <1>1, <2>3, KeepHasLeast DEF Versions
  <2> HIDE DEF c2, m, keep
  <2> QED BY <1>1, <2>1, <2>3, <2>4, <2>5
<1> HIDE DEF c2, m
<1>5. VersionAt(c2, ts) = Newest(k, h, ts)
  BY <1>3, <1>4, RetainedGivesView DEF m
<1> QED BY <1>5 DEF View, c2

\* A lease has its view when every chain gives it.
LEMMA ViewNeedsValues ==
    ASSUME NEW r \in Readers, NEW ts, ts = lease[r].ts, lease'[r] = lease[r],
           \A k \in Keys : View(values'[k], k, log', ts)
    PROVE  HasView(r)'
BY DEF HasView, View, CommittedVersion, WritesUpTo, Newest, Writes

\* A view of the store is a view of every chain.
LEMMA ViewOfValues ==
    ASSUME NEW r \in Readers, HasView(r), NEW k \in Keys
    PROVE  View(values[k], k, log, lease[r].ts)
BY CommittedIsNewest DEF HasView, View

\* A publication takes no lease's view away.
LEMMA PublishKeepsViews ==
    ASSUME IInv, PublishValues, NEW r \in Readers, lease'[r] = lease[r], HasView(r)
    PROVE  HasView(r)'
<1>1. commit.pc = "staged" /\ log' = Append(log, commit.writes)
  BY DEF PublishValues
<1>2. commit \in CommitType
  BY <1>1 DEF IInv, TypeInv, Idle
<1>3. /\ commit.writes \in BatchType /\ log \in Seq(BatchType)
      /\ commit.states \in [DOMAIN commit.states -> Chains]
      /\ DOMAIN commit.states = DOMAIN commit.writes
  <2>1. commit.states \in [DOMAIN commit.states -> Chains]
    BY <1>2 DEF CommitType
  <2> QED BY <1>1, <1>2, <2>1 DEF CommitType, IInv, TypeInv, StagedInv
<1>4. PICK ts \in Versions : ts = lease[r].ts
  BY DEF IInv, TypeInv
<1>5. ts \in Nat /\ ts <= Len(log)
  BY <1>4 DEF IInv, TypeInv, LeaseInv, CounterInv, Versions
<1>6. \A k \in Keys : View(values'[k], k, log', ts)
  <2> TAKE k \in Keys
  <2>1. View(values[k], k, log, ts) /\ values[k] \in Chains /\ FaithfulChain(values[k], k, log)
    BY <1>4, ViewOfValues, ChainFacts
  <2>2. CASE k \in DOMAIN commit.writes
    <3>1. values'[k] = commit.states[k]
      BY <1>3, <2>2 DEF PublishValues
    <3>2. /\ commit.states[k] \in Chains /\ StagedFrom(commit.states[k], values[k])
          /\ FaithfulChain(commit.states[k], k, Append(log, commit.writes))
      BY <1>1, <1>3, <2>2 DEF IInv, StagedInv
    <3> QED BY <1>1, <1>3, <1>5, <2>1, <3>1, <3>2, StagedKeepsView
  <2>3. CASE k \notin DOMAIN commit.writes
    <3>1. values'[k] = values[k]
      BY <1>3, <2>3 DEF PublishValues
    <3>2. Newest(k, log', ts) = Newest(k, log, ts)
      BY <1>1, <1>3, <1>5, NewestUnderAppend
    <3> QED BY <2>1, <3>1, <3>2 DEF View
  <2> QED BY <2>2, <2>3
<1> QED BY <1>4, <1>6, ViewNeedsValues

\* A prune that read this lease as the oldest keeps its view.
LEMMA OwnPruneKeepsViews ==
    ASSUME IInv, NEW p \in Pruners, PruneVersions(p), NEW r \in Readers,
           lease'[r] = lease[r], HasView(r), prune[p].oldest = lease[r].ts
    PROVE  HasView(r)'
<1>1. PICK ts \in Versions : ts = lease[r].ts
  BY DEF IInv, TypeInv
<1>2. \A k \in Keys : View(values'[k], k, log', ts)
  <2> TAKE k \in Keys
  <2>1. /\ View(values[k], k, log, ts) /\ values[k] \in Chains
        /\ FaithfulChain(values[k], k, log) /\ log \in Seq(BatchType)
    BY <1>1, ViewOfValues, ChainFacts
  <2>2. log' = log /\ (\/ values'[k] = values[k]
                      \/ values'[k] = PruneToMaxVersions(values[k], prune[p].arg, ts))
    BY <1>1 DEF PruneVersions
  <2> QED BY <2>1, <2>2, PruneKeepsOldestView
<1> QED BY <1>1, <1>2, ViewNeedsValues

\* A lease that has its view keeps it through every commit, every prune that
\* read it as the oldest lease, and every step of every other component; only
\* a prune that read another oldest lease, or none, can take it away.
THEOREM LeasesLoseViewsOnlyToForeignPrunes == Spec => ViewLostOnlyToForeignPrune
<1> DEFINE Keeps(r) ==
      Registered(r) /\ lease'[r] = lease[r] /\ HasView(r) /\ ~HasView(r)'
      => \E p \in Pruners : Pruned(p) /\ (prune[p].kind = "older" \/ prune[p].oldest # lease[r].ts)
<1>1. ASSUME IInv, Next, NEW r \in Readers
      PROVE  Keeps(r)
  <2> SUFFICES ASSUME lease'[r] = lease[r], HasView(r), ~HasView(r)'
               PROVE  \E p \in Pruners :
                        Pruned(p) /\ (prune[p].kind = "older" \/ prune[p].oldest # lease[r].ts)
    OBVIOUS
  <2>1. ~(UNCHANGED << values, log >>)
    BY DEF HasView, CommittedVersion, WritesUpTo
  <2>2. ~PublishValues
    BY <1>1, PublishKeepsViews
  <2>3. PICK p \in Pruners : PruneVersions(p) \/ PruneOlderThan(p)
    BY <1>1, <2>1, <2>2 DEF Next, Commit, Reader, Prune, StageBatch, AbortCommit, PublishLabels,
       PublishVersion, BeginSnapshot, RegisterSnapshot, DropLease, TriggerPrune, RequestPrune,
       ObserveOldest, PinFloor, CompactHistory
  <2>4. DOMAIN prune = Pruners
    BY <1>1 DEF IInv, TypeInv
  <2>5. Pruned(p)
    BY <2>3, <2>4 DEF PruneVersions, PruneOlderThan, Pruned, Idle
  <2>6. PruneVersions(p) => prune[p].oldest # lease[r].ts
    BY <1>1, OwnPruneKeepsViews
  <2>7. PruneOlderThan(p) => prune[p].kind = "older"
    BY DEF PruneOlderThan
  <2> QED BY <2>3, <2>5, <2>6, <2>7
<1>2. ASSUME IInv, [Next]_vars
      PROVE  [\A r \in Readers : Keeps(r)]_vars
  BY <1>1, <1>2
<1>3. ASSUME [\A r \in Readers : Keeps(r)]_vars
      PROVE  [\A r \in Readers :
                Registered(r) /\ lease'[r] = lease[r] /\ HasView(r) /\ ~HasView(r)'
                => \E p \in Pruners :
                      /\ Pruned(p)
                      /\ prune[p].kind = "older" \/ prune[p].oldest # lease[r].ts]_vars
  BY <1>3
<1> QED BY <1>2, <1>3, InductiveInvariant, PTL DEF Spec, ViewLostOnlyToForeignPrune

----------------------------------------------------------------------------
(* Type correctness, and the label indexes a publication and the prunes
   maintain: outside a publication they list exactly the live heads, and the
   history never loses a head. *)

(* What the batch in flight knows of the heads it replaces.                *)

BatchInv ==
    /\ commit.pc = "staged" =>
         /\ DOMAIN commit.old = DOMAIN commit.writes
         /\ \A k \in DOMAIN commit.writes :
               /\ commit.old[k] = values[k].current
               /\ commit.states[k].current = commit.writes[k]
    /\ commit.pc = "values" =>
         /\ DOMAIN commit.old = DOMAIN commit.writes
         /\ \A k \in DOMAIN commit.writes : values[k].current = commit.writes[k]

\* The record whose label the index shows for k.
Indexed(k) ==
    IF commit.pc = "values" /\ k \in DOMAIN commit.writes
    THEN commit.old[k] ELSE values[k].current

LabelInv ==
    /\ currentLabels \in [Labels -> SUBSET Keys]
    /\ \A l \in Labels : currentLabels[l] = {k \in Keys : Indexed(k) = l}

HistoryInv ==
    /\ labelHistory \in [Labels -> SUBSET Keys]
    /\ \A k \in Keys :
          /\ values[k].current \in Labels
          /\ ~(commit.pc = "values" /\ k \in DOMAIN commit.writes)
          => k \in labelHistory[values[k].current]

IndexInv == BatchInv /\ LabelInv /\ HistoryInv /\ floor \in Nat

\* A label is not the tombstone, and every record is a label or the tombstone.
LEMMA InitIndexInv == Init => IndexInv
BY DEF Init, Idle, NoChain, IndexInv, BatchInv, LabelInv, HistoryInv, Indexed

\* Only PublishValues changes the record at the head of a chain.
LEMMA HeadRecordsKept ==
    ASSUME IInv, Next, ~PublishValues, NEW k \in Keys
    PROVE  values'[k].current = values[k].current
<1>1. CASE UNCHANGED values
  BY <1>1
<1>2. ASSUME NEW p \in Pruners, PruneVersions(p)
      PROVE  values'[k].current = values[k].current
  BY <1>2 DEF PruneVersions, PruneToMaxVersions, RetainOnly
<1>3. ASSUME NEW p \in Pruners, PruneOlderThan(p)
      PROVE  values'[k].current = values[k].current
  BY <1>3 DEF PruneOlderThan, PruneToFloor, RetainOnly
<1> QED BY <1>1, <1>2, <1>3 DEF Next, Commit, Reader, Prune, StageBatch, AbortCommit, PublishLabels,
       PublishVersion, BeginSnapshot, RegisterSnapshot, DropLease, TriggerPrune, RequestPrune,
       ObserveOldest, PinFloor, CompactHistory

----------------------------------------------------------------------------
(* Floor, which reports only, stays a number.                              *)

\* The floors trigger_prune_now may pin for a reader are versions.
LEMMA PinnedFloorsType ==
    ASSUME IInv, NEW oldest \in Versions
    PROVE  PinnedFloors(oldest) \in SUBSET Nat
<1> SUFFICES ASSUME NEW k \in Keys
             PROVE  /\ values[k].head \in Nat
                    /\ ArchivedUpTo(values[k], oldest) # {} =>
                         Max(ArchivedUpTo(values[k], oldest)) \in Nat
  BY DEF PinnedFloors
<1>1. values[k] \in Chains
  BY DEF IInv, TypeInv
<1>2. DOMAIN values[k].archived \in SUBSET Nat /\ values[k].head \in Nat
  BY <1>1, ArchivedIsVersions DEF Versions
<1>3. ArchivedUpTo(values[k], oldest) # {} =>
        Max(ArchivedUpTo(values[k], oldest)) \in ArchivedUpTo(values[k], oldest)
  BY <1>1, ArchivedUpToMax
<1> QED BY <1>2, <1>3 DEF ArchivedUpTo

\* No step takes the published floor out of the natural numbers.
LEMMA FloorStep ==
    ASSUME IInv, Next, IInv', floor \in Nat
    PROVE  floor' \in Nat
<1>1. ASSUME NEW p \in Pruners, PinFloor(p)
      PROVE  floor' \in Nat
  <2>1. prune[p].oldest \in Versions
    BY <1>1 DEF PinFloor, IInv, TypeInv, PruneTyped
  <2>2. PICK S \in SUBSET Nat : S = PinnedFloors(prune[p].oldest)
    BY <2>1, PinnedFloorsType
  <2>3. S # {} => Min(S) \in S
    BY MinOfNaturals
  <2> QED BY <1>1, <2>2, <2>3 DEF PinFloor
<1>2. ASSUME NEW p \in Pruners, PruneVersions(p)
      PROVE  floor' \in Nat
  <2> DEFINE S == {values'[k].floor : k \in {j \in Keys : values'[j].head # 0}}
  <2>1. S \in SUBSET Nat
    <3>1. \A k \in Keys : values'[k] \in Chains
      BY DEF IInv, TypeInv
    <3>2. \A k \in Keys : values'[k].floor \in Nat
      BY <3>1, ArchivedIsVersions DEF Versions
    <3> QED BY <3>2
  <2>2. floor' = floor \/ floor' = MinOf(S)
    BY <1>2 DEF PruneVersions
  <2>3. MinOf(S) \in Nat
    <3> HIDE DEF S
    <3> QED BY <2>1, MinOfNaturals DEF MinOf
  <2> QED BY <2>2, <2>3
<1>3. ASSUME NEW p \in Pruners, PruneOlderThan(p)
      PROVE  floor' \in Nat
  <2> DEFINE q == prune[p]
  <2>1. q.oldest \in Versions \cup {NoReader} /\ q.arg \in Nat
    BY <1>3 DEF PruneOlderThan, IInv, TypeInv, PruneTyped
  <2>2. CASE q.oldest = NoReader
    BY <1>3, <2>1, <2>2 DEF PruneOlderThan
  <2>3. CASE q.oldest # NoReader
    <3>1. {q.arg, q.oldest} \in SUBSET Nat /\ {q.arg, q.oldest} # {}
      BY <2>1, <2>3 DEF Versions
    <3>2. Min({q.arg, q.oldest}) \in Nat
      BY <3>1, MinOfNaturals
    <3> QED BY <1>3, <2>3, <3>2 DEF PruneOlderThan
  <2> QED BY <2>2, <2>3
<1> QED BY <1>1, <1>2, <1>3 DEF Next, Commit, Reader, Prune, StageBatch, AbortCommit, PublishValues,
       PublishLabels, PublishVersion, BeginSnapshot, RegisterSnapshot, DropLease, TriggerPrune,
       RequestPrune, ObserveOldest, CompactHistory

----------------------------------------------------------------------------
(* The committer moves the indexes with the heads.                         *)

\* A commit in flight carries a batch.
LEMMA InFlight ==
    ASSUME TypeInv, commit.pc # "idle"
    PROVE  /\ commit \in CommitType
           /\ commit.writes \in [DOMAIN commit.writes -> Values] /\ DOMAIN commit.writes \subseteq Keys
<1>1. commit \in CommitType
  BY DEF TypeInv, Idle
<1> QED BY <1>1 DEF CommitType, BatchType

\* Staging a batch records the old labels the chains hold.
LEMMA StageIndexStep ==
    ASSUME IInv, IndexInv, NEW writes \in Batches, StageBatch(writes)
    PROVE  BatchInv' /\ LabelInv' /\ HistoryInv'
<1>1. UNCHANGED << values, currentLabels, labelHistory >> /\ commit.pc = "idle"
  BY DEF StageBatch
<1>2. /\ commit'.pc = "staged" /\ commit'.writes = writes
      /\ commit'.states = [k \in DOMAIN writes |-> AppendVersion(values[k], currentVersion + 1, writes[k])]
      /\ commit'.old = [k \in DOMAIN writes |-> values[k].current]
  BY DEF StageBatch
<1>3. BatchInv'
  BY <1>1, <1>2 DEF BatchInv, AppendVersion
<1>4. \A k \in Keys : Indexed(k)' = Indexed(k)
  BY <1>1, <1>2 DEF Indexed
<1>5. LabelInv'
  BY <1>1, <1>4 DEF IndexInv, LabelInv
<1>6. HistoryInv'
  BY <1>1, <1>2 DEF IndexInv, HistoryInv
<1> QED BY <1>3, <1>5, <1>6

\* The published chains carry exactly the labels the batch will index.
LEMMA PublishValuesIndexStep ==
    ASSUME IInv, IndexInv, PublishValues
    PROVE  BatchInv' /\ LabelInv' /\ HistoryInv'
<1>1. /\ UNCHANGED << currentLabels, labelHistory >> /\ commit.pc = "staged"
      /\ commit' = [commit EXCEPT !.pc = "values"]
  BY DEF PublishValues
<1>2. commit \in CommitType /\ DOMAIN commit.writes \subseteq Keys
  BY <1>1, InFlight DEF IInv
<1>3. commit'.pc = "values" /\ commit'.writes = commit.writes /\ commit'.old = commit.old
  BY <1>1, <1>2 DEF CommitType
<1>4. values' = [k \in Keys |-> IF k \in DOMAIN commit.writes THEN commit.states[k] ELSE values[k]]
  BY <1>1 DEF PublishValues, IInv, StagedInv
<1>5. BatchInv'
  BY <1>1, <1>2, <1>3, <1>4 DEF IndexInv, BatchInv
<1>6. \A k \in Keys : Indexed(k)' = Indexed(k)
  BY <1>1, <1>3, <1>4 DEF IndexInv, BatchInv, Indexed
<1>7. LabelInv'
  BY <1>1, <1>6 DEF IndexInv, LabelInv
<1>8. HistoryInv'
  BY <1>1, <1>3, <1>4 DEF IndexInv, HistoryInv
<1> QED BY <1>5, <1>7, <1>8

\* After the index step the current labels are those of the heads again, and the
\* history has every new label.
LEMMA PublishLabelsIndexStep ==
    ASSUME IInv, IndexInv, PublishLabels
    PROVE  BatchInv' /\ LabelInv' /\ HistoryInv'
<1>1. /\ UNCHANGED values /\ commit.pc = "values"
      /\ commit' = [commit EXCEPT !.pc = "labels"]
  BY DEF PublishLabels
<1>2. /\ commit \in CommitType /\ DOMAIN commit.writes \subseteq Keys
      /\ commit'.pc = "labels" /\ commit'.writes = commit.writes
  BY <1>1, InFlight DEF IInv, CommitType
<1>3. /\ DOMAIN commit.old = DOMAIN commit.writes
      /\ \A k \in DOMAIN commit.writes : values[k].current = commit.writes[k]
  BY <1>1 DEF IndexInv, BatchInv
<1>4. BatchInv'
  BY <1>2 DEF BatchInv
<1>5. LabelInv'
  <2>1. currentLabels' \in [Labels -> SUBSET Keys]
    BY <1>2 DEF PublishLabels, IndexInv, LabelInv
  <2>2. ASSUME NEW l \in Labels
        PROVE  currentLabels'[l] = {k \in Keys : values[k].current = l}
    <3>1. currentLabels[l] = {k \in Keys : Indexed(k) = l}
      BY DEF IndexInv, LabelInv
    <3>2. currentLabels'[l] = (currentLabels[l] \ {k \in DOMAIN commit.old : commit.old[k] = l})
                              \cup {k \in DOMAIN commit.writes : commit.writes[k] = l}
      BY DEF PublishLabels
    <3> QED BY <1>1, <1>2, <1>3, <3>1, <3>2 DEF Indexed
  <2>3. \A k \in Keys : Indexed(k)' = values[k].current
    BY <1>1, <1>2 DEF Indexed
  <2> QED BY <2>1, <2>2, <2>3 DEF LabelInv
<1>6. HistoryInv'
  <2>1. labelHistory' \in [Labels -> SUBSET Keys]
    BY <1>2 DEF PublishLabels, IndexInv, HistoryInv
  <2>2. \A k \in Keys : values[k].current \in Labels => k \in labelHistory'[values[k].current]
    BY <1>1, <1>3 DEF PublishLabels, IndexInv, HistoryInv
  <2> QED BY <1>1, <2>1, <2>2 DEF HistoryInv
<1> QED BY <1>4, <1>5, <1>6

\* Compaction removes a key from the history of a label only when no retained
\* version carries that label: the head keeps its own.
LEMMA CompactIndexStep ==
    ASSUME IInv, IndexInv, NEW p \in Pruners, CompactHistory(p)
    PROVE  BatchInv' /\ LabelInv' /\ HistoryInv'
<1>1. UNCHANGED << values, currentLabels, commit >>
  BY DEF CompactHistory
<1>2. \A l \in Labels : labelHistory'[l] \subseteq labelHistory[l]
  BY DEF CompactHistory
<1>3. labelHistory' \in [Labels -> SUBSET Keys]
  BY DEF CompactHistory, IndexInv, HistoryInv
<1>4. ASSUME NEW k \in Keys, values[k].current \in Labels, k \in labelHistory[values[k].current]
      PROVE  k \in labelHistory'[values[k].current]
  BY <1>4 DEF CompactHistory, RetainedLabels
<1> QED BY <1>1, <1>3, <1>4 DEF IndexInv, BatchInv, LabelInv, HistoryInv, Indexed

\* Every other step leaves the indexes, the head records and the batch.
LEMMA OtherIndexStep ==
    ASSUME IInv, IndexInv, Next, UNCHANGED << currentLabels, labelHistory >>,
           UNCHANGED commit \/ (commit' = Idle /\ commit.pc \in {"staged", "labels"}),
           ~PublishValues
    PROVE  BatchInv' /\ LabelInv' /\ HistoryInv'
<1>1. \A k \in Keys : values'[k].current = values[k].current
  BY HeadRecordsKept
<1>2. commit'.pc = "values" => UNCHANGED commit
  BY DEF Idle
<1>3. commit.pc = "values" => UNCHANGED commit
  OBVIOUS
<1>4. commit.pc # "idle" => DOMAIN commit.writes \subseteq Keys
  BY InFlight DEF IInv
<1>5. BatchInv'
  BY <1>1, <1>4 DEF IndexInv, BatchInv, Idle
<1>6. \A k \in Keys : Indexed(k)' = Indexed(k)
  BY <1>1, <1>2, <1>3 DEF Indexed
<1>7. LabelInv'
  BY <1>6 DEF IndexInv, LabelInv
<1>8. HistoryInv'
  BY <1>1, <1>2, <1>3 DEF IndexInv, HistoryInv
<1> QED BY <1>5, <1>7, <1>8

\* Every step keeps the index invariant.
LEMMA IndexStep ==
    ASSUME IInv, IInv', IndexInv, Next
    PROVE  IndexInv'
<1>1. floor' \in Nat
  BY FloorStep DEF IndexInv
<1>2. \/ \E writes \in Batches : StageBatch(writes)
      \/ PublishValues
      \/ PublishLabels
      \/ \E p \in Pruners : CompactHistory(p)
      \/ /\ UNCHANGED << currentLabels, labelHistory >>
         /\ UNCHANGED commit \/ (commit' = Idle /\ commit.pc \in {"staged", "labels"})
  BY DEF Next, Commit, Reader, Prune, AbortCommit, PublishVersion, BeginSnapshot, RegisterSnapshot,
     DropLease, TriggerPrune, RequestPrune, ObserveOldest, PinFloor, PruneVersions, PruneOlderThan
<1>3. BatchInv' /\ LabelInv' /\ HistoryInv'
  BY <1>2, StageIndexStep, PublishValuesIndexStep, PublishLabelsIndexStep, CompactIndexStep,
     OtherIndexStep
<1> QED BY <1>1, <1>3 DEF IndexInv

\* The label indexes follow the chains: exact outside a publication, one batch
\* behind inside it (publish_record_batch, compact_history_candidates).
THEOREM IndexInvariant == Spec => []IndexInv
<1>1. IInv /\ IInv' /\ IndexInv /\ [Next]_vars => IndexInv'
  <2>1. ASSUME UNCHANGED vars, IndexInv PROVE IndexInv'
    BY <2>1 DEF vars, IndexInv, BatchInv, LabelInv, HistoryInv, Indexed
  <2> QED BY <2>1, IndexStep
<1> QED BY <1>1, InitIndexInv, InductiveInvariant, PTL DEF Spec

----------------------------------------------------------------------------
\* Outside a publication the label index lists exactly the live heads.
THEOREM CurrentLabelsStayExact == Spec => []CurrentLabelsExact
<1>1. IndexInv => CurrentLabelsExact
  BY DEF IndexInv, LabelInv, Indexed, CurrentLabelsExact, Publishing
<1> QED BY <1>1, IndexInvariant, PTL

\* Compaction after a prune, which reads the chains without the prune's lock,
\* never drops a head from the history of its label.
THEOREM HeadsStayInHistory == Spec => []HeadsInHistory
<1>1. IInv /\ IndexInv => HeadsInHistory
  <2> SUFFICES ASSUME IInv, IndexInv, commit.pc # "values", NEW k \in Keys,
                      values[k].current # Tombstone
               PROVE  k \in labelHistory[values[k].current]
    BY DEF HeadsInHistory
  <2>1. values[k].current \in Labels
    BY ArchivedIsVersions DEF IInv, TypeInv, Values
  <2> QED BY <2>1 DEF IndexInv, HistoryInv
<1> QED BY <1>1, InductiveInvariant, IndexInvariant, PTL

\* The type invariant.
THEOREM TypeCorrect == Spec => []TypeOK
<1>1. IInv /\ IndexInv => TypeOK
  <2> SUFFICES ASSUME IInv, IndexInv PROVE TypeOK
    OBVIOUS
  <2>1. activeReaders \in [Versions -> 0..Cardinality(Readers)]
    <3>1. ASSUME NEW ts \in Versions
          PROVE  activeReaders[ts] \in 0..Cardinality(Readers)
      <4>1. Holders(ts) \subseteq Readers
        BY DEF Holders
      <4>2. Cardinality(Holders(ts)) \in Nat /\ Cardinality(Readers) \in Nat
        BY HoldersFinite, ReadersAssumption, FS_CardinalityType
      <4>3. Cardinality(Holders(ts)) <= Cardinality(Readers)
        BY <4>1, ReadersAssumption, FS_Subset
      <4>4. activeReaders[ts] = Cardinality(Holders(ts))
        BY DEF IInv, LeasesCounted, Holders
      <4> QED BY <4>2, <4>3, <4>4
    <3> QED BY <3>1 DEF IInv, TypeInv
  <2>2. currentLabels \in [Labels -> SUBSET Keys]
    BY DEF IndexInv, LabelInv
  <2>3. commit.pc \in {"idle", "staged", "values", "labels"}
    BY DEF IInv, TypeInv, CommitType, Idle
  <2> QED BY <2>1, <2>2, <2>3 DEF IInv, IndexInv, TypeInv, HistoryInv, PruneTyped, TypeOK
<1> QED BY <1>1, InductiveInvariant, IndexInvariant, PTL
=============================================================================
