-------------------------- MODULE CassandraProofs ---------------------------
(***************************************************************************)
(* Proofs about CassandraCoordinator, for every finite set of nodes,       *)
(* commands, callers and workers and every bound.                          *)
(*                                                                         *)
(* Accounts: what a replica has applied, with the hint that waits for it,  *)
(* pays for every acknowledged write; a replay that is about to delete its *)
(* hint and a write under way have paid already.  Majorities: the answers  *)
(* of a write and of a read on the same replicas share one.                *)
(***************************************************************************)
EXTENDS CassandraCoordinator, OrderLemmas, FiniteSetTheorems

USE CassandraAssumption

Phases == {"idle", "write", "hint", "read", "probe"}
Calls == [phase : Phases, command : Nat, level : Levels \cup {"one"},
          plan : SUBSET Nodes, todo : SUBSET Nodes, answered : SUBSET Nodes,
          failed : SUBSET Nodes, found : BOOLEAN, covered : BOOLEAN]

\* The progress of a call: the replicas it has yet to call, or to enqueue a
\* record for, and those that answered or failed.
Progress(f) ==
    /\ f \in Calls
    /\ f.todo \cup f.answered \cup f.failed \subseteq f.plan
    /\ f.answered \cap f.failed = {}
    /\ f.phase \in {"write", "read"} => f.todo \cap (f.answered \cup f.failed) = {}
    /\ f.phase = "write" => f.plan = f.todo \cup f.answered \cup f.failed
    /\ f.phase = "hint" => f.plan = f.answered \cup f.failed
    /\ f.phase \in {"hint", "probe"} =>
          /\ f.todo \subseteq f.failed
          /\ Cardinality(f.answered) >= Required(f.level, f.plan)
    /\ f.phase \in {"write", "hint"} => f.command \in Commands

Replays == [phase : {"idle", "replay", "delete", "retain", "ended"}, batch : SUBSET Records]

\* A replay works on at most MaxRecords records.
Batched(g) ==
    /\ g \in Replays
    /\ Cardinality(g.batch) <= MaxRecords
    /\ g.batch = {} <=> g.phase \in {"idle", "ended"}

CountTypes == {applied, accepted, sent, coalesced} \subseteq Counts
QueueTypes == queue \subseteq Records /\ excused \subseteq Hints
HistoryTypes == quorumMet \subseteq Commands /\ covered \subseteq SUBSET Nodes
NodeTypes == health \in [Nodes -> Healths] /\ reachable \subseteq Nodes
CallTypes == call \in [Callers -> Calls] /\ \A a \in Callers : Progress(call[a])
WorkerTypes == worker \in [Workers -> Replays] /\ \A w \in Workers : Batched(worker[w])

Types == CountTypes /\ QueueTypes /\ HistoryTypes /\ NodeTypes /\ CallTypes /\ WorkerTypes

----------------------------------------------------------------------------
(* The order of the records, and the first of them.                        *)

LEMMA RecordParts ==
    ASSUME NEW r \in Records
    PROVE  /\ r = <<r[1], r[2], r[3]>>
           /\ r[1] \in Nat /\ r[2] \in Nat /\ r[3] \in Nat
           /\ Target(r) \in Nodes
           /\ r \in Hints => r[3] \in Commands /\ r = Hint(r[2], r[3])
  BY DEF Records, Hints, Hint, Probe, Target

LEMMA HintParts ==
    ASSUME NEW n \in Nodes, NEW c \in Commands
    PROVE  Hint(n, c) \in Hints /\ Hint(n, c) \in Records /\ Target(Hint(n, c)) = n
           /\ Hint(n, c)[3] = c
           /\ \A m \in Nodes, d \in Commands : Hint(m, d) = Hint(n, c) => m = n /\ d = c
  BY DEF Records, Hints, Hint, Target

\* The records are totally ordered.
LEMMA BeforeIsAnOrder ==
    ASSUME NEW r \in Records, NEW s \in Records
    PROVE  /\ ~Before(r, r)
           /\ r # s => Before(r, s) \/ Before(s, r)
           /\ \A t \in Records : Before(r, s) /\ Before(s, t) => Before(r, t)
<1>1. ~Before(r, r)
  BY RecordParts DEF Before
<1>2. r # s => Before(r, s) \/ Before(s, r)
  BY RecordParts DEF Before
<1>3. \A t \in Records : Before(r, s) /\ Before(s, t) => Before(r, t)
  BY RecordParts DEF Before
<1> QED BY <1>1, <1>2, <1>3

\* A nonempty set of records has a first one.
LEMMA FirstIsFirst ==
    ASSUME NEW S \in SUBSET Records, S # {}
    PROVE  FirstOf(S) \in S
<1> DEFINE A == {r[1] : r \in S}
           a == Min(A)
           B == {r[2] : r \in {s \in S : s[1] = a}}
           b == Min(B)
           C == {r[3] : r \in {s \in S : s[1] = a /\ s[2] = b}}
           c == Min(C)
<1>1. a \in A /\ \A k \in A : a <= k
  <2>1. A \in SUBSET Nat /\ A # {}
    BY RecordParts
  <2> HIDE DEF A
  <2> QED BY <2>1, MinOfNaturals
<1>2. b \in B /\ \A k \in B : b <= k
  <2>1. (\A s \in S : s[2] \in Nat) /\ \E s \in S : s[1] = a
    BY <1>1, RecordParts
  <2>2. B \in SUBSET Nat /\ B # {}
    BY <2>1
  <2> HIDE DEF B
  <2> QED BY <2>2, MinOfNaturals
<1>3. c \in C /\ \A k \in C : c <= k
  <2>1. (\A s \in S : s[3] \in Nat) /\ \E s \in S : s[1] = a /\ s[2] = b
    BY <1>2, RecordParts
  <2>2. C \in SUBSET Nat /\ C # {}
    BY <2>1
  <2> HIDE DEF C
  <2> QED BY <2>2, MinOfNaturals
<1>4. PICK r \in S : r[1] = a /\ r[2] = b /\ r[3] = c
  BY <1>3
<1>5. ASSUME NEW s \in S \ {r} PROVE Before(r, s)
  <2>1. /\ a <= s[1] /\ (s[1] = a => b <= s[2]) /\ (s[1] = a /\ s[2] = b => c <= s[3])
    BY <1>1, <1>2, <1>3
  <2>2. /\ r = <<r[1], r[2], r[3]>> /\ s = <<s[1], s[2], s[3]>>
        /\ r[1] \in Nat /\ r[2] \in Nat /\ r[3] \in Nat /\ s[1] \in Nat /\ s[2] \in Nat /\ s[3] \in Nat
    BY RecordParts
  <2> HIDE DEF a, b, c
  <2> QED BY <1>4, <2>1, <2>2 DEF Before
<1> HIDE DEF a, b, c
<1> QED BY <1>5 DEF FirstOf

LEMMA RecordsAreFinite == IsFiniteSet(Records)
<1> DEFINE ThreeNumbers == Nodes \X (Commands \cup {0})
           hint == [x \in ThreeNumbers |-> <<1, x[1], x[2]>>]
           probe == [n \in Nodes |-> Probe(n)]
           H == {<<1, x[1], x[2]>> : x \in ThreeNumbers}
           P == {Probe(n) : n \in Nodes}
<1>1. IsFiniteSet(Commands \cup {0})
  BY FS_AddElement
<1>2. IsFiniteSet(ThreeNumbers)
  BY <1>1, FS_Product
<1>3. IsFiniteSet(H)
  <2>1. hint \in Surjection(ThreeNumbers, H)
    BY DEF Surjection
  <2> HIDE DEF hint, H, ThreeNumbers
  <2> QED BY <1>2, <2>1, FS_Surjection
<1>4. IsFiniteSet(P)
  <2>1. probe \in Surjection(Nodes, P)
    BY DEF Surjection
  <2> HIDE DEF probe, P
  <2> QED BY <2>1, FS_Surjection
<1>5. IsFiniteSet(H \cup P)
  BY <1>3, <1>4, FS_Union
<1>6. Records \subseteq H \cup P
  <2>1. ASSUME NEW n \in Nodes, NEW c \in Commands PROVE <<1, n, c>> \in H
    <3>1. <<n, c>> \in ThreeNumbers /\ <<1, n, c>> = <<1, <<n, c>>[1], <<n, c>>[2]>>
      OBVIOUS
    <3> QED BY <3>1
  <2> HIDE DEF H
  <2> QED BY <2>1 DEF Records, Hints, Hint
<1> HIDE DEF H, P
<1> QED BY <1>5, <1>6, FS_Subset

\* A batch holds at most MaxRecords records: the rank of a record in the queue
\* tells the records of a batch apart.
LEMMA BatchesAreSmall ==
    ASSUME queue \subseteq Records
    PROVE  /\ FirstRecords \subseteq Records /\ Cardinality(FirstRecords) <= MaxRecords
           /\ queue # {} => FirstRecords # {}
<1> DEFINE below(r) == {s \in queue : Before(s, r)}
           rank == [r \in FirstRecords |-> Cardinality(below(r))]
<1>1. ASSUME NEW r \in queue
      PROVE  IsFiniteSet(below(r)) /\ Cardinality(below(r)) \in Nat
  BY RecordsAreFinite, FS_Subset, FS_CardinalityType
<1>2. ASSUME NEW r \in queue, NEW s \in queue, Before(r, s)
      PROVE  Cardinality(below(r)) < Cardinality(below(s))
  <2>1. below(r) \cup {r} \subseteq below(s) /\ r \notin below(r)
    BY <1>2, BeforeIsAnOrder
  <2>2. /\ IsFiniteSet(below(r)) /\ IsFiniteSet(below(s))
        /\ Cardinality(below(r)) \in Nat /\ Cardinality(below(s)) \in Nat
    BY <1>1
  <2> HIDE DEF below
  <2>3. Cardinality(below(r) \cup {r}) = Cardinality(below(r)) + 1
    BY <2>1, <2>2, FS_AddElement
  <2>4. Cardinality(below(r) \cup {r}) <= Cardinality(below(s))
    BY <2>1, <2>2, FS_Subset
  <2> QED BY <2>2, <2>3, <2>4
<1>3. rank \in Injection(FirstRecords, 0 .. MaxRecords - 1)
  <2>1. ASSUME NEW r \in FirstRecords PROVE Cardinality(below(r)) \in 0 .. MaxRecords - 1
    <3>1. r \in queue /\ Cardinality(below(r)) < MaxRecords
      BY DEF FirstRecords
    <3>2. Cardinality(below(r)) \in Nat
      BY <1>1, <3>1
    <3> HIDE DEF below
    <3> QED BY <3>1, <3>2
  <2>2. ASSUME NEW r \in FirstRecords, NEW s \in FirstRecords, r # s
        PROVE  Cardinality(below(r)) # Cardinality(below(s))
    <3>1. r \in queue /\ s \in queue
      BY DEF FirstRecords
    <3>2. Before(r, s) \/ Before(s, r)
      BY <2>2, <3>1, BeforeIsAnOrder
    <3>3. Cardinality(below(r)) \in Nat /\ Cardinality(below(s)) \in Nat
      BY <1>1, <3>1
    <3> HIDE DEF below
    <3> QED BY <1>2, <3>1, <3>2, <3>3
  <2> HIDE DEF below
  <2> QED BY <2>1, <2>2 DEF Injection, IsInjective
<1>4. IsFiniteSet(0 .. MaxRecords - 1) /\ Cardinality(0 .. MaxRecords - 1) = MaxRecords
  BY FS_Interval
<1>5. Cardinality(FirstRecords) <= MaxRecords
  <2> HIDE DEF rank
  <2> QED BY <1>3, <1>4, FS_Injection
<1>6. ASSUME queue # {} PROVE FirstRecords # {}
  <2>1. PICK m \in Nat : \E s \in queue : Cardinality(below(s)) = m
    BY <1>1, <1>6
  <2>2. PICK k \in {Cardinality(below(s)) : s \in queue} :
           \A j \in {Cardinality(below(s)) : s \in queue} : k <= j
    <3> DEFINE K == {Cardinality(below(s)) : s \in queue}
    <3>1. K \in SUBSET Nat /\ K # {}
      BY <1>1, <2>1
    <3> HIDE DEF K
    <3>2. Min(K) \in K /\ \A j \in K : Min(K) <= j
      BY <3>1, MinOfNaturals
    <3> QED BY <3>2 DEF K
  <2>3. PICK s \in queue : Cardinality(below(s)) = k
    OBVIOUS
  <2>4. below(s) = {}
    <3>1. ASSUME NEW t \in below(s) PROVE FALSE
      <4>1. t \in queue /\ Before(t, s)
        OBVIOUS
      <4>2. Cardinality(below(t)) < Cardinality(below(s)) /\ Cardinality(below(t)) \in Nat
            /\ Cardinality(below(s)) \in Nat
        BY <1>1, <1>2, <4>1
      <4>3. k <= Cardinality(below(t))
        BY <2>2, <4>1
      <4> HIDE DEF below
      <4> QED BY <2>3, <4>2, <4>3
    <3> QED BY <3>1
  <2>5. Cardinality(below(s)) = 0
    BY <2>4, FS_EmptySet
  <2> QED BY <2>5 DEF FirstRecords
<1> QED BY <1>5, <1>6 DEF FirstRecords

----------------------------------------------------------------------------
(* Counts, and what a step does to the call it belongs to.                 *)

\* What Plus makes of one count.
LEMMA PlusValue ==
    ASSUME NEW counts \in Counts, NEW S, NEW c \in Commands, NEW n \in Nodes, NEW d \in Commands
    PROVE  Plus(counts, S, c)[n][d] = counts[n][d] + (IF n \in S /\ d = c THEN 1 ELSE 0)
<1>1. counts[n] \in [Commands -> Nat]
  BY DEF Counts
<1>2. counts[n][d] \in Nat
  BY <1>1
<1>3. Plus(counts, S, c)[n] = [counts[n] EXCEPT ![c] = IF n \in S THEN @ + 1 ELSE @]
  BY DEF Plus
<1> QED BY <1>1, <1>2, <1>3

\* A count that Plus changes, and one it leaves alone.
LEMMA PlusIn ==
    ASSUME NEW counts \in Counts, NEW S, NEW c \in Commands, NEW n \in Nodes, n \in S
    PROVE  Plus(counts, S, c)[n][c] = counts[n][c] + 1
  BY PlusValue

LEMMA PlusOut ==
    ASSUME NEW counts \in Counts, NEW S, NEW c \in Commands, NEW n \in Nodes, NEW d \in Commands,
           ~(n \in S /\ d = c)
    PROVE  Plus(counts, S, c)[n][d] = counts[n][d]
<1>1. counts[n] \in [Commands -> Nat]
  BY DEF Counts
<1>2. counts[n][d] \in Nat
  BY <1>1
<1>3. Plus(counts, S, c)[n] = [counts[n] EXCEPT ![c] = IF n \in S THEN @ + 1 ELSE @]
  BY DEF Plus
<1> QED BY <1>1, <1>2, <1>3

\* Plus adds one at a set of nodes.
LEMMA PlusCounts ==
    ASSUME NEW counts \in Counts, NEW S, NEW c \in Commands
    PROVE  /\ Plus(counts, S, c) \in Counts
           /\ \A n \in Nodes, d \in Commands :
                 Plus(counts, S, c)[n][d] = counts[n][d] + (IF n \in S /\ d = c THEN 1 ELSE 0)
<1>1. \A n \in Nodes : counts[n] \in [Commands -> Nat]
  BY DEF Counts
<1>2. \A n \in Nodes : [counts[n] EXCEPT ![c] = IF n \in S THEN @ + 1 ELSE @] \in [Commands -> Nat]
  <2> TAKE n \in Nodes
  <2>0. counts[n] \in [Commands -> Nat]
    BY <1>1
  <2> DEFINE g == counts[n]
  <2>4. g \in [Commands -> Nat] => g[c] \in Nat
    <3> HIDE DEF g
    <3> QED OBVIOUS
  <2>1. counts[n] \in [Commands -> Nat] /\ counts[n][c] \in Nat
    BY <2>0, <2>4
  <2> DEFINE k == IF n \in S THEN counts[n][c] + 1 ELSE counts[n][c]
  <2>2. k \in Nat
    BY <2>1
  <2> HIDE DEF k
  <2>3. [counts[n] EXCEPT ![c] = k] \in [Commands -> Nat]
    BY <2>1, <2>2
  <2> QED BY <2>3 DEF k
<1>3. Plus(counts, S, c) \in Counts
  BY <1>2 DEF Plus, Counts
<1>4. \A n \in Nodes, d \in Commands :
         Plus(counts, S, c)[n][d] = counts[n][d] + (IF n \in S /\ d = c THEN 1 ELSE 0)
  BY PlusValue
<1> QED BY <1>3, <1>4

\* Plus at one node.
LEMMA PlusOne ==
    ASSUME NEW counts \in Counts, NEW m \in Nodes, NEW c \in Commands
    PROVE  /\ Plus(counts, {m}, c) \in Counts
           /\ \A n \in Nodes, d \in Commands :
                 Plus(counts, {m}, c)[n][d] = counts[n][d] + (IF n = m /\ d = c THEN 1 ELSE 0)
<1> DEFINE S == {m}
<1>1. \A n : n \in S <=> n = m
  OBVIOUS
<1> HIDE DEF S
<1>2. /\ Plus(counts, S, c) \in Counts
      /\ \A n \in Nodes, d \in Commands :
            Plus(counts, S, c)[n][d] = counts[n][d] + (IF n = m /\ d = c THEN 1 ELSE 0)
  BY <1>1, PlusCounts
<1> QED BY <1>2 DEF S

\* The step of a call stays with its command and its plan.
Same(a) ==
    /\ call'[a].command = call[a].command /\ call'[a].level = call[a].level
    /\ call'[a].plan = call[a].plan /\ call'[a].covered = call[a].covered

Next3(a, todo, answered, failed) ==
    /\ call'[a].todo = todo /\ call'[a].answered = answered /\ call'[a].failed = failed

Others(a) == \A b \in Callers \ {a} : call'[b] = call[b]

\* The first replica of those to do.
LEMMA FirstToDo ==
    ASSUME Types, NEW a \in Callers, call[a].todo # {}
    PROVE  /\ Min(call[a].todo) \in call[a].todo /\ Min(call[a].todo) \in Nodes
<1>1. call[a].todo \in SUBSET Nat /\ call[a].todo \subseteq Nodes
  BY DEF Types, CallTypes, Calls
<1> QED BY <1>1, MinOfNaturals

LEMMA NoCallProgress == Progress(NoCall) /\ NoCall.phase = "idle"
  BY DEF NoCall, Progress, Calls, Phases

\* A call that ends.
LEMMA CallEnds ==
    ASSUME Types, NEW a \in Callers, call' = [call EXCEPT ![a] = NoCall]
    PROVE  call'[a] = NoCall /\ Others(a) /\ call' \in [Callers -> Calls] /\ Progress(call'[a])
<1>1. NoCall \in Calls
  BY NoCallProgress DEF Progress
<1> QED BY <1>1, NoCallProgress DEF Types, CallTypes, Others

LEMMA BeginWriteMoves ==
    ASSUME Types, NEW a \in Callers, NEW c \in Commands, NEW level \in Levels,
           BeginWrite(a, c, level)
    PROVE  /\ call' \in [Callers -> Calls] /\ Others(a) /\ Progress(call'[a])
           /\ call[a].phase = "idle" /\ call'[a].phase = "write" /\ call'[a].answered = {}
           /\ call'[a].failed = {} /\ ~call'[a].covered
<1> DEFINE f == [NoCall EXCEPT !.phase = "write", !.command = c, !.level = level,
                     !.plan = WritePlan, !.todo = WritePlan]
<1>1. /\ f.phase = "write" /\ f.command = c /\ f.level = level /\ f.plan = WritePlan
      /\ f.todo = WritePlan /\ f.answered = {} /\ f.failed = {} /\ ~f.covered
  BY DEF NoCall
<1>2. WritePlan \subseteq Nodes
  BY DEF WritePlan
<1>3. f \in Calls
  BY <1>2 DEF Calls, NoCall, Phases
<1>4. call' = [call EXCEPT ![a] = f] /\ call[a].phase = "idle"
  BY DEF BeginWrite
<1> HIDE DEF f
<1>5. Progress(f)
  BY <1>1, <1>2, <1>3 DEF Progress
<1> QED BY <1>1, <1>3, <1>4, <1>5 DEF Types, CallTypes, Others

LEMMA BeginReadMoves ==
    ASSUME Types, NEW a \in Callers, NEW level \in Levels, BeginRead(a, level)
    PROVE  /\ call' \in [Callers -> Calls] /\ Others(a) /\ Progress(call'[a])
           /\ call[a].phase = "idle" /\ call'[a].phase = "read" /\ call'[a].answered = {}
           /\ call'[a].level = level
           /\ call'[a].covered => call'[a].plan \in covered
<1> DEFINE f == [NoCall EXCEPT !.phase = "read", !.level = level, !.plan = ReadPlan,
                     !.todo = ReadPlan, !.covered = ReadPlan \in covered]
<1>1. /\ f.phase = "read" /\ f.level = level /\ f.plan = ReadPlan
      /\ f.todo = ReadPlan /\ f.answered = {} /\ f.failed = {}
      /\ f.covered = (ReadPlan \in covered)
  BY DEF NoCall
<1>2. ReadPlan \subseteq Nodes
  BY DEF ReadPlan
<1>3. f \in Calls
  <2> DEFINE seen == ReadPlan \in covered
  <2>1. seen \in BOOLEAN /\ level \in Levels \cup {"one"} /\ "read" \in Phases
    BY DEF Phases
  <2>2. NoCall \in Calls
    BY NoCallProgress DEF Progress
  <2> HIDE DEF seen
  <2>3. [NoCall EXCEPT !.phase = "read", !.level = level, !.plan = ReadPlan,
             !.todo = ReadPlan, !.covered = seen] \in Calls
    BY <1>2, <2>1, <2>2 DEF Calls
  <2> QED BY <2>3 DEF seen
<1>4. call' = [call EXCEPT ![a] = f] /\ call[a].phase = "idle"
  BY DEF BeginRead
<1> HIDE DEF f
<1>5. Progress(f)
  BY <1>1, <1>2, <1>3 DEF Progress
<1> QED BY <1>1, <1>3, <1>4, <1>5 DEF Types, CallTypes, Others

\* The steps of a write over its replicas.
LEMMA ApplyMoves ==
    ASSUME Types, NEW a \in Callers,
           ApplyReplica(a) \/ ApplyReplicaFails(a) \/ ApplyReplicaAnswerLost(a)
    PROVE  LET n == Min(call[a].todo)
           IN  /\ call' \in [Callers -> Calls] /\ Others(a) /\ Progress(call'[a])
               /\ n \in call[a].todo /\ n \in Nodes /\ call[a].command \in Commands
               /\ call[a].phase = "write" /\ call'[a].phase = "write" /\ Same(a)
               /\ call'[a].todo = call[a].todo \ {n}
               /\ \/ /\ ApplyReplica(a)
                     /\ call'[a].answered = call[a].answered \cup {n}
                     /\ call'[a].failed = call[a].failed
                  \/ /\ ApplyReplicaFails(a) \/ ApplyReplicaAnswerLost(a)
                     /\ call'[a].answered = call[a].answered
                     /\ call'[a].failed = call[a].failed \cup {n}
<1> DEFINE c == call[a]
           n == Min(c.todo)
<1>1. /\ call \in [Callers -> Calls] /\ c \in Calls /\ Progress(c) /\ c.phase = "write"
      /\ c.todo # {}
  BY DEF Types, CallTypes, ApplyReplica, ApplyReplicaFails, ApplyReplicaAnswerLost
<1>2. n \in c.todo /\ n \in Nodes /\ c.command \in Commands
  BY <1>1, FirstToDo DEF Progress
<1> HIDE DEF n
<1>3. CASE ApplyReplica(a)
  <2> DEFINE f == [c EXCEPT !.todo = @ \ {n}, !.answered = @ \cup {n}]
  <2>1. call' = [call EXCEPT ![a] = f]
    BY <1>1, <1>3 DEF ApplyReplica, n
  <2>2. f \in Calls
    BY <1>1, <1>2 DEF Calls
  <2>3. /\ f.phase = "write" /\ f.command = c.command /\ f.level = c.level /\ f.plan = c.plan
        /\ f.covered = c.covered /\ f.todo = c.todo \ {n} /\ f.answered = c.answered \cup {n}
        /\ f.failed = c.failed
    BY <1>1 DEF Calls
  <2> HIDE DEF f
  <2>4. Progress(f)
    BY <1>1, <1>2, <2>2, <2>3 DEF Progress
  <2>5. call'[a] = f /\ Others(a) /\ call' \in [Callers -> Calls]
    BY <1>1, <2>1, <2>2 DEF Others
  <2> QED BY <1>1, <1>2, <1>3, <2>3, <2>4, <2>5 DEF Same, n
<1>4. CASE ApplyReplicaFails(a) \/ ApplyReplicaAnswerLost(a)
  <2> DEFINE f == [c EXCEPT !.todo = @ \ {n}, !.failed = @ \cup {n}]
  <2>1. call' = [call EXCEPT ![a] = f]
    BY <1>1, <1>4 DEF ApplyReplicaFails, ApplyReplicaAnswerLost, n
  <2>2. f \in Calls
    BY <1>1, <1>2 DEF Calls
  <2>3. /\ f.phase = "write" /\ f.command = c.command /\ f.level = c.level /\ f.plan = c.plan
        /\ f.covered = c.covered /\ f.todo = c.todo \ {n} /\ f.answered = c.answered
        /\ f.failed = c.failed \cup {n}
    BY <1>1 DEF Calls
  <2> HIDE DEF f
  <2>4. Progress(f)
    BY <1>1, <1>2, <2>2, <2>3 DEF Progress
  <2>5. call'[a] = f /\ Others(a) /\ call' \in [Callers -> Calls]
    BY <1>1, <2>1, <2>2 DEF Others
  <2> QED BY <1>1, <1>2, <1>4, <2>3, <2>4, <2>5 DEF Same, n
<1> QED BY <1>3, <1>4

\* A write or a read that called all its replicas.
LEMMA EndCallsMoves ==
    ASSUME Types, NEW a \in Callers, EndCalls(a) \/ EndReads(a)
    PROVE  /\ call' \in [Callers -> Calls] /\ Others(a) /\ Progress(call'[a])
           /\ call[a].todo = {}
           /\ \/ call'[a] = NoCall /\ quorumMet' = quorumMet
              \/ /\ Same(a) /\ call'[a].found = call[a].found
                 /\ Next3(a, call[a].failed, call[a].answered, call[a].failed)
                 /\ \/ /\ EndCalls(a) /\ call[a].phase = "write" /\ call'[a].phase = "hint"
                       /\ quorumMet' = quorumMet \cup {call[a].command}
                    \/ /\ EndReads(a) /\ call[a].phase = "read" /\ call'[a].phase = "probe"
                       /\ quorumMet' = quorumMet
<1> DEFINE c == call[a]
<1>1. /\ call \in [Callers -> Calls] /\ c \in Calls /\ Progress(c) /\ c.todo = {}
  BY DEF Types, CallTypes, EndCalls, EndReads
<1>2. CASE ~Met(a)
  <2>1. call' = [call EXCEPT ![a] = NoCall] /\ quorumMet' = quorumMet
    BY <1>2 DEF EndCalls, EndReads, histories
  <2> QED BY <1>1, <2>1, CallEnds
<1>3. CASE Met(a) /\ EndCalls(a)
  <2> DEFINE f == [c EXCEPT !.phase = "hint", !.todo = c.failed]
  <2>1. call' = [call EXCEPT ![a] = f] /\ c.phase = "write"
        /\ quorumMet' = quorumMet \cup {c.command}
    BY <1>1, <1>3 DEF EndCalls
  <2>2. f \in Calls
    BY <1>1 DEF Calls, Phases
  <2>3. /\ f.phase = "hint" /\ f.command = c.command /\ f.level = c.level /\ f.plan = c.plan
        /\ f.covered = c.covered /\ f.todo = c.failed /\ f.answered = c.answered
        /\ f.failed = c.failed /\ f.found = c.found
    BY <1>1 DEF Calls
  <2> HIDE DEF f
  <2>4. Progress(f)
    BY <1>1, <1>3, <2>1, <2>2, <2>3 DEF Progress, Met
  <2>5. call'[a] = f /\ Others(a) /\ call' \in [Callers -> Calls]
    BY <1>1, <2>1, <2>2 DEF Others
  <2> QED BY <1>1, <1>3, <2>1, <2>3, <2>4, <2>5 DEF Same, Next3
<1>4. CASE Met(a) /\ EndReads(a)
  <2> DEFINE f == [c EXCEPT !.phase = "probe", !.todo = c.failed]
  <2>1. call' = [call EXCEPT ![a] = f] /\ c.phase = "read" /\ quorumMet' = quorumMet
    BY <1>1, <1>4 DEF EndReads, histories
  <2>2. f \in Calls
    BY <1>1 DEF Calls, Phases
  <2>3. /\ f.phase = "probe" /\ f.command = c.command /\ f.level = c.level /\ f.plan = c.plan
        /\ f.covered = c.covered /\ f.todo = c.failed /\ f.answered = c.answered
        /\ f.failed = c.failed /\ f.found = c.found
    BY <1>1 DEF Calls
  <2> HIDE DEF f
  <2>4. Progress(f)
    BY <1>1, <1>4, <2>1, <2>2, <2>3 DEF Progress, Met
  <2>5. call'[a] = f /\ Others(a) /\ call' \in [Callers -> Calls]
    BY <1>1, <2>1, <2>2 DEF Others
  <2> QED BY <1>1, <1>4, <2>1, <2>3, <2>4, <2>5 DEF Same, Next3
<1> QED BY <1>2, <1>3, <1>4

\* A record is enqueued for one replica.
LEMMA EnqueueMoves ==
    ASSUME Types, NEW a \in Callers, EnqueueHint(a) \/ EnqueueProbe(a)
    PROVE  LET n == Min(call[a].todo)
           IN  /\ call' \in [Callers -> Calls] /\ Others(a) /\ Progress(call'[a])
               /\ n \in call[a].todo /\ n \in Nodes
               /\ call'[a].phase = call[a].phase /\ Same(a) /\ call'[a].found = call[a].found
               /\ Next3(a, call[a].todo \ {n}, call[a].answered, call[a].failed)
               /\ EnqueueHint(a) => call[a].phase = "hint" /\ call[a].command \in Commands
               /\ EnqueueProbe(a) => call[a].phase = "probe"
<1> DEFINE c == call[a]
           n == Min(c.todo)
<1>1. /\ call \in [Callers -> Calls] /\ c \in Calls /\ Progress(c) /\ c.todo # {}
      /\ c.phase \in {"hint", "probe"}
      /\ EnqueueHint(a) => c.phase = "hint" /\ c.command \in Commands
      /\ EnqueueProbe(a) => c.phase = "probe"
  BY DEF Types, CallTypes, EnqueueHint, EnqueueProbe, Progress
<1>2. n \in c.todo /\ n \in Nodes
  BY <1>1, FirstToDo
<1> HIDE DEF n
<1> DEFINE f == [c EXCEPT !.todo = @ \ {n}]
<1>3. call' = [call EXCEPT ![a] = f]
  BY <1>1 DEF EnqueueHint, EnqueueProbe, n
<1>4. f \in Calls
  BY <1>1 DEF Calls
<1>5. /\ f.phase = c.phase /\ f.command = c.command /\ f.level = c.level /\ f.plan = c.plan
      /\ f.covered = c.covered /\ f.todo = c.todo \ {n} /\ f.answered = c.answered
      /\ f.failed = c.failed /\ f.found = c.found
  BY <1>1 DEF Calls
<1> HIDE DEF f
<1>6. Progress(f)
  BY <1>1, <1>4, <1>5 DEF Progress
<1>7. call'[a] = f /\ Others(a) /\ call' \in [Callers -> Calls]
  BY <1>1, <1>3, <1>4 DEF Others
<1> QED BY <1>1, <1>2, <1>5, <1>6, <1>7 DEF Same, Next3, n

\* The steps of a read over its replicas.
LEMMA ReadMoves ==
    ASSUME Types, NEW a \in Callers, NEW n \in Nodes, ReadReplica(a, n) \/ ReadReplicaFails(a, n)
    PROVE  /\ call' \in [Callers -> Calls] /\ Others(a) /\ Progress(call'[a])
           /\ call[a].phase = "read" /\ call'[a].phase = "read" /\ Same(a)
           /\ \/ /\ call'[a].answered = call[a].answered \cup {n}
                 /\ call'[a].found =
                      (call[a].found \/ \E c \in Commands : applied[n][c] > 0)
              \/ call'[a].answered = call[a].answered /\ call'[a].found = call[a].found
<1> DEFINE c == call[a]
<1>1. /\ call \in [Callers -> Calls] /\ c \in Calls /\ Progress(c) /\ c.phase = "read"
      /\ n \in c.todo
  BY DEF Types, CallTypes, ReadReplica, ReadReplicaFails
<1>2. CASE ReadReplica(a, n)
  <2> DEFINE answered == c.answered \cup {n}
             found == c.found \/ \E d \in Commands : applied[n][d] > 0
             enough == Cardinality(answered) >= Required(c.level, c.plan)
             todo == IF enough /\ found THEN {} ELSE c.todo \ {n}
             f == [c EXCEPT !.answered = answered, !.found = found, !.todo = todo]
  <2>1. call' = [call EXCEPT ![a] = f]
    BY <1>1, <1>2 DEF ReadReplica
  <2>2. answered \in SUBSET Nodes /\ found \in BOOLEAN /\ todo \in SUBSET Nodes
        /\ todo \subseteq c.todo \ {n}
    BY <1>1 DEF Calls
  <2> HIDE DEF answered, found, todo
  <2>3. f \in Calls
    BY <1>1, <2>2 DEF Calls
  <2>4. /\ f.phase = "read" /\ f.command = c.command /\ f.level = c.level /\ f.plan = c.plan
        /\ f.covered = c.covered /\ f.todo = todo /\ f.answered = answered
        /\ f.failed = c.failed /\ f.found = found
    BY <1>1 DEF Calls
  <2>7. answered = c.answered \cup {n}
    BY DEF answered
  <2> HIDE DEF f
  <2>8. /\ f.todo \cup f.answered \cup f.failed \subseteq f.plan
        /\ f.answered \cap f.failed = {} /\ f.todo \cap (f.answered \cup f.failed) = {}
    <3>1. /\ c.todo \cup c.answered \cup c.failed \subseteq c.plan
          /\ c.answered \cap c.failed = {} /\ c.todo \cap (c.answered \cup c.failed) = {}
      BY <1>1 DEF Progress
    <3>2. /\ f.plan = c.plan /\ f.todo \subseteq c.todo \ {n} /\ f.failed = c.failed
          /\ f.answered = c.answered \cup {n}
      BY <2>2, <2>4, <2>7
    <3> QED BY <1>1, <3>1, <3>2
  <2>5. Progress(f)
    BY <2>3, <2>4, <2>8 DEF Progress
  <2>6. call'[a] = f /\ Others(a) /\ call' \in [Callers -> Calls]
    BY <1>1, <2>1, <2>3 DEF Others
  <2> QED BY <1>1, <2>4, <2>5, <2>6 DEF Same, answered, found
<1>3. CASE ReadReplicaFails(a, n)
  <2> DEFINE f == [c EXCEPT !.todo = @ \ {n}, !.failed = @ \cup {n}]
  <2>1. call' = [call EXCEPT ![a] = f]
    BY <1>1, <1>3 DEF ReadReplicaFails
  <2>2. f \in Calls
    BY <1>1 DEF Calls
  <2>3. /\ f.phase = "read" /\ f.command = c.command /\ f.level = c.level /\ f.plan = c.plan
        /\ f.covered = c.covered /\ f.todo = c.todo \ {n} /\ f.answered = c.answered
        /\ f.failed = c.failed \cup {n} /\ f.found = c.found
    BY <1>1 DEF Calls
  <2> HIDE DEF f
  <2>4. Progress(f)
    BY <1>1, <2>2, <2>3 DEF Progress
  <2>5. call'[a] = f /\ Others(a) /\ call' \in [Callers -> Calls]
    BY <1>1, <2>1, <2>2 DEF Others
  <2> QED BY <1>1, <2>3, <2>4, <2>5 DEF Same
<1> QED BY <1>2, <1>3

----------------------------------------------------------------------------
(* What a step does to the replay it belongs to.                           *)

OtherReplays(w) == \A v \in Workers \ {w} : worker'[v] = worker[v]

\* The record a replay works on is one of its batch.
LEMMA HeldIsInTheBatch ==
    ASSUME Types, NEW w \in Workers, worker[w].phase \notin {"idle", "ended"}
    PROVE  Held(w) \in worker[w].batch /\ Held(w) \in Records
<1>1. worker[w].batch \in SUBSET Records /\ worker[w].batch # {}
  BY DEF Types, WorkerTypes, Batched, Replays
<1> QED BY <1>1, FirstIsFirst DEF Held

LEMMA PhaseMoves ==
    ASSUME Types, NEW w \in Workers, NEW p \in {"replay", "delete", "retain"},
           worker[w].phase \notin {"idle", "ended"},
           worker' = [worker EXCEPT ![w].phase = p]
    PROVE  /\ worker' \in [Workers -> Replays] /\ OtherReplays(w) /\ Batched(worker'[w])
           /\ worker'[w].phase = p /\ worker'[w].batch = worker[w].batch
<1> DEFINE g == [worker[w] EXCEPT !.phase = p]
<1>1. worker \in [Workers -> Replays] /\ worker[w] \in Replays /\ Batched(worker[w])
  BY DEF Types, WorkerTypes
<1>2. g \in Replays /\ g.phase = p /\ g.batch = worker[w].batch
  BY <1>1 DEF Replays
<1>3. worker' = [worker EXCEPT ![w] = g]
  BY <1>1
<1> HIDE DEF g
<1>4. Batched(g)
  BY <1>1, <1>2 DEF Batched
<1> QED BY <1>1, <1>2, <1>3, <1>4 DEF OtherReplays

\* A replay that stops, idle or for good.
LEMMA StopMoves ==
    ASSUME Types, NEW w \in Workers, NEW p \in {"idle", "ended"},
           worker' = [worker EXCEPT ![w] = [phase |-> p, batch |-> {}]]
    PROVE  /\ worker' \in [Workers -> Replays] /\ OtherReplays(w) /\ Batched(worker'[w])
           /\ worker'[w].phase = p /\ worker'[w].batch = {}
<1> DEFINE g == [phase |-> p, batch |-> {}]
<1>1. g \in Replays /\ g.phase = p /\ g.batch = {}
  BY DEF Replays
<1> HIDE DEF g
<1>2. Batched(g)
  BY <1>1, FS_EmptySet DEF Batched
<1> QED BY <1>1, <1>2 DEF Types, WorkerTypes, OtherReplays, g

LEMMA AdvanceMoves ==
    ASSUME Types, NEW w \in Workers, worker[w].phase \notin {"idle", "ended"}, Advance(w)
    PROVE  /\ worker' \in [Workers -> Replays] /\ OtherReplays(w) /\ Batched(worker'[w])
           /\ worker'[w].phase \in {"idle", "replay"}
           /\ worker'[w].batch = worker[w].batch \ {Held(w)}
<1> DEFINE rest == worker[w].batch \ {Held(w)}
<1>1. worker \in [Workers -> Replays] /\ worker[w] \in Replays /\ Batched(worker[w])
  BY DEF Types, WorkerTypes
<1>2. CASE rest = {}
  <2>1. worker' = [worker EXCEPT ![w] = [phase |-> "idle", batch |-> {}]]
    BY <1>2 DEF Advance, NoReplay
  <2> QED BY <1>2, <2>1, StopMoves
<1>3. CASE rest # {}
  <2> DEFINE g == [phase |-> "replay", batch |-> rest]
  <2>1. worker' = [worker EXCEPT ![w] = g]
    BY <1>3 DEF Advance
  <2>2. g \in Replays /\ g.phase = "replay" /\ g.batch = rest
    BY <1>1 DEF Replays
  <2>3. IsFiniteSet(worker[w].batch) /\ Cardinality(worker[w].batch) \in Nat
    BY <1>1, RecordsAreFinite, FS_Subset, FS_CardinalityType DEF Replays
  <2>4. Cardinality(rest) <= Cardinality(worker[w].batch) /\ Cardinality(rest) \in Nat
    BY <2>3, FS_Subset, FS_CardinalityType
  <2> HIDE DEF g
  <2>5. Batched(g)
    BY <1>1, <1>3, <2>2, <2>3, <2>4 DEF Batched
  <2> QED BY <1>1, <2>1, <2>2, <2>5 DEF OtherReplays
<1> QED BY <1>2, <1>3

LEMMA BeginReplayMoves ==
    ASSUME Types, NEW w \in Workers, BeginReplay(w)
    PROVE  /\ worker' \in [Workers -> Replays] /\ OtherReplays(w) /\ Batched(worker'[w])
           /\ worker[w].phase = "idle" /\ worker'[w].phase = "replay"
           /\ worker'[w].batch = FirstRecords /\ FirstRecords \subseteq queue
<1> DEFINE g == [phase |-> "replay", batch |-> FirstRecords]
<1>1. worker' = [worker EXCEPT ![w] = g] /\ queue # {} /\ worker[w].phase = "idle"
  BY DEF BeginReplay
<1>2. FirstRecords \subseteq Records /\ Cardinality(FirstRecords) <= MaxRecords /\ FirstRecords # {}
  BY <1>1, BatchesAreSmall DEF Types, QueueTypes
<1>3. g \in Replays /\ g.phase = "replay" /\ g.batch = FirstRecords
  BY <1>2 DEF Replays
<1> HIDE DEF g
<1>4. Batched(g)
  BY <1>2, <1>3 DEF Batched
<1> QED BY <1>1, <1>3, <1>4 DEF Types, WorkerTypes, OtherReplays, FirstRecords

\* The steps of a replay, by what they do to its batch.
Works(w) == ReplaySucceeds(w) \/ ReplayFails(w) \/ ReplayAnswerLost(w)
Leaves(w) == DeleteRecord(w) \/ RetainRecord(w)
Ends(w) == QueueFails(w) \/ (w \in Scheduled /\ Shutdown(w))

LEMMA WorkMoves ==
    ASSUME Types, NEW w \in Workers, Works(w)
    PROVE  /\ worker' \in [Workers -> Replays] /\ OtherReplays(w) /\ Batched(worker'[w])
           /\ worker[w].phase = "replay" /\ worker'[w].batch = worker[w].batch
           /\ Held(w) \in worker[w].batch /\ Held(w) \in Records
           /\ worker'[w].phase = (IF ReplaySucceeds(w) THEN "delete" ELSE "retain")
<1>1. worker[w].phase = "replay"
  BY DEF Works, ReplaySucceeds, ReplayFails, ReplayAnswerLost
<1>2. Held(w) \in worker[w].batch /\ Held(w) \in Records
  BY <1>1, HeldIsInTheBatch
<1>3. CASE ReplaySucceeds(w)
  <2>1. worker' = [worker EXCEPT ![w].phase = "delete"]
    BY <1>3 DEF ReplaySucceeds
  <2> QED BY <1>1, <1>2, <1>3, <2>1, PhaseMoves
<1>4. CASE ~ReplaySucceeds(w)
  <2>1. worker' = [worker EXCEPT ![w].phase = "retain"]
    BY <1>4 DEF Works, ReplayFails, ReplayAnswerLost
  <2> QED BY <1>1, <1>2, <1>4, <2>1, PhaseMoves
<1> QED BY <1>3, <1>4

LEMMA LeaveMoves ==
    ASSUME Types, NEW w \in Workers, Leaves(w)
    PROVE  /\ worker' \in [Workers -> Replays] /\ OtherReplays(w) /\ Batched(worker'[w])
           /\ worker[w].phase = (IF DeleteRecord(w) THEN "delete" ELSE "retain")
           /\ worker'[w].phase \in {"idle", "replay"}
           /\ worker'[w].batch = worker[w].batch \ {Held(w)}
           /\ Held(w) \in worker[w].batch /\ Held(w) \in Records
<1>1. worker[w].phase = (IF DeleteRecord(w) THEN "delete" ELSE "retain") /\ Advance(w)
  BY DEF Leaves, DeleteRecord, RetainRecord
<1>2. worker[w].phase \notin {"idle", "ended"}
  BY <1>1
<1> QED BY <1>1, <1>2, HeldIsInTheBatch, AdvanceMoves

LEMMA EndMoves ==
    ASSUME Types, NEW w \in Workers, Ends(w)
    PROVE  /\ worker' \in [Workers -> Replays] /\ OtherReplays(w) /\ Batched(worker'[w])
           /\ worker'[w].phase \in {"idle", "ended"} /\ worker'[w].batch = {}
<1>1. CASE QueueFails(w)
  <2>1. worker' = [worker EXCEPT ![w] = Stopped(w)]
    BY <1>1 DEF QueueFails
  <2>2. \/ Stopped(w) = [phase |-> "idle", batch |-> {}]
        \/ Stopped(w) = [phase |-> "ended", batch |-> {}]
    BY DEF Stopped, NoReplay
  <2> QED BY <2>1, <2>2, StopMoves
<1>2. CASE Shutdown(w)
  <2>1. worker[w] \in Replays /\ worker[w].batch = {} /\ worker' = [worker EXCEPT ![w].phase = "ended"]
    BY <1>2 DEF Shutdown, Types, WorkerTypes, Batched
  <2>2. [worker[w] EXCEPT !.phase = "ended"] = [phase |-> "ended", batch |-> {}]
    <3>1. PICK p, B : worker[w] = [phase |-> p, batch |-> B]
      BY <2>1 DEF Replays
    <3>2. B = {}
      BY <2>1, <3>1
    <3> QED BY <3>1, <3>2
  <2>3. worker' = [worker EXCEPT ![w] = [phase |-> "ended", batch |-> {}]]
    BY <2>1, <2>2
  <2> QED BY <2>3, StopMoves
<1> QED BY <1>1, <1>2 DEF Ends

----------------------------------------------------------------------------
(* Type correctness.                                                       *)

Writes(a) == ApplyReplica(a) \/ ApplyReplicaFails(a) \/ ApplyReplicaAnswerLost(a)
Stops(a) == EnqueueFails(a) \/ EndWrite(a) \/ EndRead(a)
Begins(a) == \/ \E c \in Commands, level \in Levels : BeginWrite(a, c, level)
             \/ \E level \in Levels : BeginRead(a, level)
Reads(a) == \E n \in Nodes : ReadReplica(a, n) \/ ReadReplicaFails(a, n)

\* A step is one of a participant, of one call or of one replay.
LEMMA StepKinds ==
    ASSUME Next
    PROVE  \/ /\ \/ \E n \in Nodes, h \in Healths : RegisterPeer(n, h)
                 \/ \E n \in Nodes : StopAnswering(n)
              /\ UNCHANGED <<applied, queue, call, worker, histories>>
           \/ /\ \E a \in Callers :
                    \/ Begins(a) \/ Writes(a) \/ EndCalls(a) \/ EndReads(a)
                    \/ EnqueueHint(a) \/ EnqueueProbe(a) \/ Reads(a) \/ Stops(a)
              /\ UNCHANGED <<health, reachable, worker>>
           \/ /\ \E w \in Workers : BeginReplay(w) \/ Works(w) \/ Leaves(w) \/ Ends(w)
              /\ UNCHANGED <<health, reachable, call, accepted, sent, coalesced, quorumMet, covered>>
<1>1. ASSUME NEW n \in Nodes, NEW h \in Healths, RegisterPeer(n, h)
      PROVE  UNCHANGED <<applied, queue, call, worker, histories>>
  BY <1>1 DEF RegisterPeer
<1>2. ASSUME NEW n \in Nodes, StopAnswering(n)
      PROVE  UNCHANGED <<applied, queue, call, worker, histories>>
  BY <1>2 DEF StopAnswering
<1>3. ASSUME NEW a \in Callers,
             \/ \E c \in Commands, level \in Levels : BeginWrite(a, c, level)
             \/ \E level \in Levels : BeginRead(a, level)
             \/ Coordinate(a)
      PROVE  /\ \/ Begins(a) \/ Writes(a) \/ EndCalls(a) \/ EndReads(a)
                \/ EnqueueHint(a) \/ EnqueueProbe(a) \/ Reads(a) \/ Stops(a)
             /\ UNCHANGED <<health, reachable, worker>>
  <2>1. CASE Begins(a)
    BY <2>1 DEF Begins, BeginWrite, BeginRead
  <2>2. CASE ApplyReplica(a) \/ ApplyReplicaFails(a) \/ ApplyReplicaAnswerLost(a)
    BY <2>2 DEF Writes, ApplyReplica, ApplyReplicaFails, ApplyReplicaAnswerLost
  <2>3. CASE EndCalls(a) \/ EndReads(a)
    BY <2>3 DEF EndCalls, EndReads
  <2>4. CASE EnqueueHint(a) \/ EnqueueProbe(a)
    BY <2>4 DEF EnqueueHint, EnqueueProbe
  <2>5. CASE Stops(a)
    BY <2>5 DEF Stops, EnqueueFails, EndWrite, EndRead
  <2>6. CASE Reads(a)
    BY <2>6 DEF Reads, ReadReplica, ReadReplicaFails
  <2> QED BY <1>3, <2>1, <2>2, <2>3, <2>4, <2>5, <2>6 DEF Begins, Coordinate, Stops, Reads
<1>4. ASSUME NEW w \in Workers,
             BeginReplay(w) \/ Replay(w) \/ QueueFails(w) \/ (w \in Scheduled /\ Shutdown(w))
      PROVE  /\ BeginReplay(w) \/ Works(w) \/ Leaves(w) \/ Ends(w)
             /\ UNCHANGED <<health, reachable, call, accepted, sent, coalesced, quorumMet, covered>>
  <2>1. CASE BeginReplay(w)
    BY <2>1 DEF BeginReplay, histories
  <2>2. CASE Works(w)
    BY <2>2 DEF Works, ReplaySucceeds, ReplayFails, ReplayAnswerLost, histories
  <2>3. CASE Leaves(w)
    BY <2>3 DEF Leaves, DeleteRecord, RetainRecord, histories
  <2>4. CASE Ends(w)
    BY <2>4 DEF Ends, QueueFails, Shutdown, histories
  <2> QED BY <1>4, <2>1, <2>2, <2>3, <2>4 DEF Replay, Works, Leaves, Ends
<1> QED BY <1>1, <1>2, <1>3, <1>4 DEF Next, Workers

\* The call a step belongs to goes on by the rules of its progress.
LEMMA CallsProgress ==
    ASSUME Types, NEW a \in Callers,
           \/ Begins(a) \/ Writes(a) \/ EndCalls(a) \/ EndReads(a)
           \/ EnqueueHint(a) \/ EnqueueProbe(a) \/ Reads(a) \/ Stops(a)
    PROVE  call' \in [Callers -> Calls] /\ Others(a) /\ Progress(call'[a])
<1>1. CASE Begins(a)
  BY <1>1, BeginWriteMoves, BeginReadMoves DEF Begins
<1>2. CASE Writes(a)
  BY <1>2, ApplyMoves DEF Writes
<1>3. CASE EndCalls(a) \/ EndReads(a)
  BY <1>3, EndCallsMoves
<1>4. CASE EnqueueHint(a) \/ EnqueueProbe(a)
  BY <1>4, EnqueueMoves
<1>5. CASE Reads(a)
  BY <1>5, ReadMoves DEF Reads
<1>6. CASE Stops(a)
  <2>1. call' = [call EXCEPT ![a] = NoCall]
    BY <1>6 DEF Stops, EnqueueFails, EndWrite, EndRead
  <2> QED BY <2>1, CallEnds
<1> QED BY <1>1, <1>2, <1>3, <1>4, <1>5, <1>6

\* What the calls leave alone.
LEMMA CallsFrame ==
    ASSUME NEW a \in Callers
    PROVE  /\ Begins(a) \/ EndReads(a) \/ Reads(a) \/ EndRead(a) \/ EnqueueFails(a) =>
                UNCHANGED <<applied, queue, accepted, sent, coalesced, quorumMet, covered, excused>>
           /\ EnqueueProbe(a) =>
                UNCHANGED <<applied, accepted, sent, coalesced, quorumMet, covered, excused>>
           /\ EndCalls(a) =>
                UNCHANGED <<applied, queue, accepted, sent, coalesced, covered, excused>>
           /\ Writes(a) => UNCHANGED <<queue, accepted, coalesced, quorumMet, covered>>
           /\ EnqueueHint(a) => UNCHANGED <<applied, accepted, sent, quorumMet, covered, excused>>
           /\ EndWrite(a) => UNCHANGED <<applied, queue, sent, coalesced, quorumMet, excused>>
<1>1. Begins(a) => UNCHANGED <<applied, queue, accepted, sent, coalesced, quorumMet, covered, excused>>
  BY DEF Begins, BeginWrite, BeginRead, histories
<1>2. EndReads(a) \/ EndRead(a) \/ EnqueueFails(a) =>
         UNCHANGED <<applied, queue, accepted, sent, coalesced, quorumMet, covered, excused>>
  BY DEF EndReads, EndRead, EnqueueFails, histories
<1>3. Reads(a) => UNCHANGED <<applied, queue, accepted, sent, coalesced, quorumMet, covered, excused>>
  BY DEF Reads, ReadReplica, ReadReplicaFails, histories
<1>4. EnqueueProbe(a) => UNCHANGED <<applied, accepted, sent, coalesced, quorumMet, covered, excused>>
  BY DEF EnqueueProbe, histories
<1>5. EndCalls(a) => UNCHANGED <<applied, queue, accepted, sent, coalesced, covered, excused>>
  BY DEF EndCalls
<1>6. Writes(a) => UNCHANGED <<queue, accepted, coalesced, quorumMet, covered>>
  BY DEF Writes, ApplyReplica, ApplyReplicaFails, ApplyReplicaAnswerLost
<1>7. EnqueueHint(a) => UNCHANGED <<applied, accepted, sent, quorumMet, covered, excused>>
  BY DEF EnqueueHint
<1>8. EndWrite(a) => UNCHANGED <<applied, queue, sent, coalesced, quorumMet, excused>>
  BY DEF EndWrite
<1> QED BY <1>1, <1>2, <1>3, <1>4, <1>5, <1>6, <1>7, <1>8

\* A step of a call and the histories.
LEMMA CallsKeepTypes ==
    ASSUME Types, NEW a \in Callers,
           \/ Begins(a) \/ Writes(a) \/ EndCalls(a) \/ EndReads(a)
           \/ EnqueueHint(a) \/ EnqueueProbe(a) \/ Reads(a) \/ Stops(a)
    PROVE  CountTypes' /\ QueueTypes' /\ HistoryTypes'
<1> USE DEF CountTypes, QueueTypes, HistoryTypes
<1>1. CountTypes /\ QueueTypes /\ HistoryTypes /\ call[a] \in Calls /\ Progress(call[a])
  BY DEF Types, CallTypes
<1>2. CASE Begins(a) \/ EndReads(a) \/ Reads(a) \/ EndRead(a) \/ EnqueueFails(a)
  BY <1>1, <1>2, CallsFrame
<1>3. CASE EnqueueProbe(a)
  <2>1. Min(call[a].todo) \in Nodes
    BY <1>3, EnqueueMoves
  <2>2. Probe(Min(call[a].todo)) \in Records
    BY <2>1 DEF Records
  <2>3. queue' = queue \cup {Probe(Min(call[a].todo))}
    BY <1>3 DEF EnqueueProbe
  <2> QED BY <1>1, <1>3, <2>2, <2>3, CallsFrame
<1>4. CASE EndCalls(a)
  <2>1. quorumMet' = quorumMet \/ quorumMet' = quorumMet \cup {call[a].command}
    BY <1>4, EndCallsMoves
  <2>2. call[a].command \in Commands
    BY <1>1, <1>4 DEF EndCalls, Progress
  <2> QED BY <1>1, <1>4, <2>1, <2>2, CallsFrame
<1>5. CASE Writes(a)
  <2> DEFINE n == Min(call[a].todo)
             c == call[a].command
  <2>1. n \in Nodes /\ c \in Commands
    BY <1>5, ApplyMoves DEF Writes
  <2>2. /\ applied' \in {applied, Plus(applied, {n}, c)} /\ sent' = Plus(sent, {n}, c)
        /\ excused' \in {excused, excused \cup {Hint(n, c)}}
    BY <1>5 DEF Writes, ApplyReplica, ApplyReplicaFails, ApplyReplicaAnswerLost
  <2> HIDE DEF n, c
  <2>3. Plus(applied, {n}, c) \in Counts /\ Plus(sent, {n}, c) \in Counts
    <3>1. /\ applied \in Counts /\ accepted \in Counts /\ sent \in Counts
          /\ coalesced \in Counts
      BY <1>1
    <3> QED BY <2>1, <3>1, PlusOne
  <2>4. Hint(n, c) \in Hints
    BY <2>1, HintParts
  <2>5. UNCHANGED <<queue, accepted, coalesced, quorumMet, covered>>
    BY <1>5, CallsFrame
  <2> QED BY <1>1, <2>2, <2>3, <2>4, <2>5
<1>6. CASE EnqueueHint(a)
  <2> DEFINE n == Min(call[a].todo)
             c == call[a].command
  <2>1. n \in Nodes /\ c \in Commands
    BY <1>6, EnqueueMoves
  <2>2. /\ queue' = queue \cup {Hint(n, c)}
        /\ coalesced' \in {coalesced, Plus(coalesced, {n}, c)}
    BY <1>6 DEF EnqueueHint
  <2> HIDE DEF n, c
  <2>3. Plus(coalesced, {n}, c) \in Counts
    <3>1. /\ applied \in Counts /\ accepted \in Counts /\ sent \in Counts
          /\ coalesced \in Counts
      BY <1>1
    <3> QED BY <2>1, <3>1, PlusOne
  <2>4. Hint(n, c) \in Records
    BY <2>1, HintParts
  <2>5. UNCHANGED <<applied, accepted, sent, quorumMet, covered, excused>>
    BY <1>6, CallsFrame
  <2> QED BY <1>1, <2>2, <2>3, <2>4, <2>5
<1>7. CASE EndWrite(a)
  <2>1. call[a].command \in Commands /\ call[a].plan \subseteq Nodes
    BY <1>1, <1>7 DEF EndWrite, Progress, Calls
  <2>2. /\ accepted' = Plus(accepted, call[a].plan, call[a].command)
        /\ covered' \in {covered, covered \cup {call[a].plan}}
    BY <1>7 DEF EndWrite
  <2>3. Plus(accepted, call[a].plan, call[a].command) \in Counts
    <3>1. /\ applied \in Counts /\ accepted \in Counts /\ sent \in Counts
          /\ coalesced \in Counts
      BY <1>1
    <3> HIDE CassandraAssumption DEF CountTypes, QueueTypes, HistoryTypes
    <3> QED BY <2>1, <3>1, PlusCounts
  <2>4. UNCHANGED <<applied, queue, sent, coalesced, quorumMet, excused>>
    BY <1>7, CallsFrame
  <2>5. accepted' \in Counts /\ covered' \in SUBSET SUBSET Nodes
    BY <1>1, <2>1, <2>2, <2>3
  <2> QED BY <1>1, <2>4, <2>5
<1> QED BY <1>2, <1>3, <1>4, <1>5, <1>6, <1>7 DEF Stops

\* What the replays leave alone.
LEMMA ReplaysFrame ==
    ASSUME NEW w \in Workers
    PROVE  /\ BeginReplay(w) => UNCHANGED <<applied, queue, excused>>
           /\ Works(w) => queue' = queue
           /\ Leaves(w) => applied' = applied
           /\ DeleteRecord(w) => excused' = excused
           /\ Ends(w) => UNCHANGED <<applied, queue>>
<1>1. BeginReplay(w) => UNCHANGED <<applied, queue, excused>>
  BY DEF BeginReplay, histories
<1>2. Works(w) => queue' = queue
  BY DEF Works, ReplaySucceeds, ReplayFails, ReplayAnswerLost
<1>3. Leaves(w) => applied' = applied
  BY DEF Leaves, DeleteRecord, RetainRecord
<1>4. Ends(w) => UNCHANGED <<applied, queue>>
  BY DEF Ends, QueueFails, Shutdown
<1>5. DeleteRecord(w) => excused' = excused
  BY DEF DeleteRecord, histories
<1> QED BY <1>1, <1>2, <1>3, <1>4, <1>5

\* A replay applies the command of the hint it holds, or nothing.
LEMMA WorksApply ==
    ASSUME Types, NEW w \in Workers, Works(w)
    PROVE  \/ applied' = applied /\ (ReplayFails(w) \/ Held(w) \notin Hints)
           \/ /\ Held(w) \in Hints /\ Held(w)[2] \in Nodes /\ Held(w)[3] \in Commands
              /\ Held(w) = Hint(Held(w)[2], Held(w)[3])
              /\ applied' = Plus(applied, {Held(w)[2]}, Held(w)[3])
              /\ ReplaySucceeds(w) \/ Held(w) \in excused'
<1>1. Held(w) \in Records
  BY WorkMoves
<1>2. CASE ReplayFails(w)
  BY <1>2 DEF ReplayFails
<1>3. CASE ReplaySucceeds(w)
  <2>1. applied' = IF Held(w) \in Hints THEN Plus(applied, {Target(Held(w))}, Held(w)[3]) ELSE applied
    BY <1>3 DEF ReplaySucceeds
  <2> QED BY <1>1, <1>3, <2>1, RecordParts DEF Target
<1>4. CASE ReplayAnswerLost(w)
  <2>1. /\ applied' = Plus(applied, {Target(Held(w))}, Held(w)[3]) /\ Held(w) \in Hints
        /\ excused' = excused \cup {Held(w)}
    BY <1>4 DEF ReplayAnswerLost
  <2> QED BY <1>1, <2>1, RecordParts DEF Target
<1> QED BY <1>2, <1>3, <1>4 DEF Works

LEMMA ReplaysKeepTypes ==
    ASSUME Types, NEW w \in Workers, BeginReplay(w) \/ Works(w) \/ Leaves(w) \/ Ends(w),
           UNCHANGED <<accepted, sent, coalesced>>
    PROVE  CountTypes' /\ QueueTypes'
<1> USE DEF CountTypes, QueueTypes
<1>1. CountTypes /\ QueueTypes
  BY DEF Types
<1>2. CASE BeginReplay(w)
  BY <1>1, <1>2, ReplaysFrame
<1>3. CASE Works(w)
  <2>1. applied' \in Counts
    <3>1. applied \in Counts
      BY <1>1
    <3>2. CASE applied' = applied
      BY <3>1, <3>2
    <3>3. CASE /\ Held(w)[2] \in Nodes /\ Held(w)[3] \in Commands
               /\ applied' = Plus(applied, {Held(w)[2]}, Held(w)[3])
      BY <3>1, <3>3, PlusOne
    <3> QED BY <1>3, <3>2, <3>3, WorksApply
  <2>2. excused' \subseteq Hints
    BY <1>1, <1>3 DEF Works, ReplaySucceeds, ReplayFails, ReplayAnswerLost, histories
  <2> QED BY <1>1, <1>3, <2>1, <2>2, ReplaysFrame
<1>4. CASE Leaves(w)
  <2>1. Held(w) \in Records
    BY <1>4, LeaveMoves
  <2>2. /\ queue' \in {queue \ {Held(w)}, queue \cup {Held(w)}}
        /\ excused' = excused \/ (Held(w) \in Hints /\ excused' = excused \cup {Held(w)})
    BY <1>4 DEF Leaves, DeleteRecord, RetainRecord, histories
  <2> QED BY <1>1, <1>4, <2>1, <2>2, ReplaysFrame
<1>5. CASE Ends(w)
  <2>1. excused' \subseteq Hints
    BY <1>1, <1>5 DEF Ends, QueueFails, Shutdown, histories
  <2> QED BY <1>1, <1>5, <2>1, ReplaysFrame
<1> QED BY <1>2, <1>3, <1>4, <1>5

LEMMA InitialTypes == Init => Types
<1> SUFFICES ASSUME Init PROVE Types
  OBVIOUS
<1>1. NoCounts \in Counts
  BY DEF NoCounts, Counts
<1>2. CallTypes
  BY NoCallProgress DEF Init, CallTypes, Progress
<1>3. WorkerTypes
  <2>1. NoReplay \in Replays /\ Batched(NoReplay)
    BY FS_EmptySet DEF NoReplay, Replays, Batched
  <2> QED BY <2>1 DEF Init, WorkerTypes
<1>4. NodeTypes
  BY DEF Init, NodeTypes, Healths
<1> QED BY <1>1, <1>2, <1>3, <1>4 DEF Init, Types, CountTypes, QueueTypes, HistoryTypes

LEMMA TypesStep == Types /\ [Next]_vars => Types'
<1> SUFFICES ASSUME Types, [Next]_vars PROVE Types'
  OBVIOUS
<1>1. CASE UNCHANGED vars
  BY <1>1 DEF vars, Types, CountTypes, QueueTypes, HistoryTypes, NodeTypes, CallTypes, WorkerTypes
<1>2. CASE /\ \/ \E n \in Nodes, h \in Healths : RegisterPeer(n, h)
              \/ \E n \in Nodes : StopAnswering(n)
           /\ UNCHANGED <<applied, queue, call, worker, histories>>
  <2>1. NodeTypes'
    BY <1>2 DEF Types, NodeTypes, RegisterPeer, StopAnswering
  <2> QED BY <1>2, <2>1 DEF histories, Types, CountTypes, QueueTypes, HistoryTypes, CallTypes, WorkerTypes
<1>3. CASE /\ \E a \in Callers :
                 \/ Begins(a) \/ Writes(a) \/ EndCalls(a) \/ EndReads(a)
                 \/ EnqueueHint(a) \/ EnqueueProbe(a) \/ Reads(a) \/ Stops(a)
           /\ UNCHANGED <<health, reachable, worker>>
  <2>1. PICK a \in Callers :
                 \/ Begins(a) \/ Writes(a) \/ EndCalls(a) \/ EndReads(a)
                 \/ EnqueueHint(a) \/ EnqueueProbe(a) \/ Reads(a) \/ Stops(a)
    BY <1>3
  <2>2. call' \in [Callers -> Calls] /\ Others(a) /\ Progress(call'[a])
    BY <2>1, CallsProgress
  <2>3. CountTypes' /\ QueueTypes' /\ HistoryTypes'
    BY <2>1, CallsKeepTypes
  <2>4. CallTypes'
    BY <2>2 DEF Types, CallTypes, Others
  <2> QED BY <1>3, <2>3, <2>4 DEF Types, NodeTypes, WorkerTypes
<1>4. CASE /\ \E w \in Workers : BeginReplay(w) \/ Works(w) \/ Leaves(w) \/ Ends(w)
           /\ UNCHANGED <<health, reachable, call, accepted, sent, coalesced, quorumMet, covered>>
  <2>1. PICK w \in Workers : BeginReplay(w) \/ Works(w) \/ Leaves(w) \/ Ends(w)
    BY <1>4
  <2>2. worker' \in [Workers -> Replays] /\ OtherReplays(w) /\ Batched(worker'[w])
    BY <2>1, BeginReplayMoves, WorkMoves, LeaveMoves, EndMoves
  <2>3. CountTypes' /\ QueueTypes'
    BY <1>4, <2>1, ReplaysKeepTypes
  <2>4. WorkerTypes'
    BY <2>2 DEF Types, WorkerTypes, OtherReplays
  <2> QED BY <1>4, <2>3, <2>4 DEF Types, NodeTypes, HistoryTypes, CallTypes
<1> QED BY <1>1, <1>2, <1>3, <1>4, StepKinds

LEMMA TypesAlways == Spec => []Types
  BY InitialTypes, TypesStep, PTL DEF Spec

\* The type invariant of the coordinators, the queue and its replays: a call
\* stays within its plan, a replica either answered or failed, and a batch of
\* a replay is never larger than its worker allows.
THEOREM TypeCorrect == Spec => []TypeOK
<1>1. Types => TypeOK
  <2> SUFFICES ASSUME Types PROVE TypeOK
    OBVIOUS
  <2>1. ASSUME NEW a \in Callers
        PROVE  /\ call[a].phase \in {"idle", "write", "hint", "read", "probe"}
               /\ call[a].plan \subseteq Nodes
               /\ call[a].todo \cup call[a].answered \cup call[a].failed \subseteq call[a].plan
               /\ call[a].answered \cap call[a].failed = {}
    BY DEF Types, CallTypes, Progress, Calls, Phases
  <2>2. ASSUME NEW w \in Workers
        PROVE  /\ worker[w].phase \in {"idle", "replay", "delete", "retain", "ended"}
               /\ worker[w].batch \subseteq Records
               /\ Cardinality(worker[w].batch) <= MaxRecords
               /\ worker[w].batch = {} <=> worker[w].phase \in {"idle", "ended"}
    BY DEF Types, WorkerTypes, Batched, Replays
  <2> QED BY <2>1, <2>2 DEF Types, TypeOK, CountTypes, QueueTypes, HistoryTypes, NodeTypes
<1> QED BY <1>1, TypesAlways, PTL

----------------------------------------------------------------------------
(* What a refused write leaves behind.                                     *)

\* A write that enqueues hints met its requirement.
HintsAreMet == \A a \in Callers : call[a].phase = "hint" => call[a].command \in quorumMet

LEMMA RefusedStep ==
    ASSUME Types, RefusedWritesAreNotReplayed, HintsAreMet, [Next]_vars
    PROVE  RefusedWritesAreNotReplayed' /\ HintsAreMet'
<1> USE DEF RefusedWritesAreNotReplayed, HintsAreMet
<1>1. CASE UNCHANGED vars
  BY <1>1 DEF vars
<1>2. CASE UNCHANGED <<applied, queue, call, worker, histories>>
  BY <1>2 DEF histories
<1>3. ASSUME NEW a \in Callers,
             \/ Begins(a) \/ Writes(a) \/ EndCalls(a) \/ EndReads(a)
             \/ EnqueueHint(a) \/ EnqueueProbe(a) \/ Reads(a) \/ Stops(a),
             UNCHANGED <<health, reachable, worker>>
      PROVE  RefusedWritesAreNotReplayed' /\ HintsAreMet'
  <2>1. /\ quorumMet \subseteq quorumMet'
        /\ call'[a].phase = "hint" => call'[a].command \in quorumMet'
    <3>1. CASE Begins(a)
      <4>1. call'[a].phase \in {"write", "read"}
        BY <3>1, BeginWriteMoves, BeginReadMoves DEF Begins
      <4> QED BY <3>1, <4>1, CallsFrame
    <3>2. CASE Writes(a)
      <4>1. call'[a].phase = "write"
        BY <3>2, ApplyMoves DEF Writes
      <4> QED BY <3>2, <4>1, CallsFrame
    <3>3. CASE EndCalls(a) \/ EndReads(a)
      BY <3>3, EndCallsMoves, NoCallProgress DEF Same
    <3>4. CASE EnqueueHint(a) \/ EnqueueProbe(a)
      <4>1. call'[a].phase = call[a].phase /\ call'[a].command = call[a].command
        BY <3>4, EnqueueMoves DEF Same
      <4>2. quorumMet' = quorumMet
        BY <3>4, CallsFrame
      <4> QED BY <4>1, <4>2
    <3>5. CASE Reads(a)
      <4>1. call'[a].phase = "read"
        BY <3>5, ReadMoves DEF Reads
      <4> QED BY <3>5, <4>1, CallsFrame
    <3>6. CASE Stops(a)
      <4>1. call' = [call EXCEPT ![a] = NoCall]
        BY <3>6 DEF Stops, EnqueueFails, EndWrite, EndRead
      <4>2. call'[a] = NoCall
        BY <4>1, CallEnds
      <4> QED BY <3>6, <4>2, NoCallProgress, CallsFrame DEF Stops
    <3> QED BY <1>3, <3>1, <3>2, <3>3, <3>4, <3>5, <3>6
  <2>2. HintsAreMet'
    BY <1>3, <2>1, CallsProgress DEF Others
  <2>3. ASSUME NEW r \in Hints, r \in queue' \ queue PROVE r[3] \in quorumMet
    <3>1. EnqueueHint(a) \/ EnqueueProbe(a)
      BY <1>3, <2>3, CallsFrame DEF Stops
    <3>2. CASE EnqueueProbe(a)
      <4>1. r = Probe(Min(call[a].todo))
        BY <2>3, <3>2 DEF EnqueueProbe
      <4> QED BY <4>1 DEF Probe, Hints, Hint
    <3>3. CASE EnqueueHint(a)
      <4>1. r = Hint(Min(call[a].todo), call[a].command) /\ call[a].phase = "hint"
        BY <2>3, <3>3 DEF EnqueueHint
      <4>2. r[3] = call[a].command
        BY <4>1 DEF Hint
      <4> QED BY <4>1, <4>2
    <3> QED BY <3>1, <3>2, <3>3
  <2> QED BY <1>3, <2>1, <2>2, <2>3
<1>4. ASSUME NEW w \in Workers, BeginReplay(w) \/ Works(w) \/ Leaves(w) \/ Ends(w),
             UNCHANGED <<health, reachable, call, accepted, sent, coalesced, quorumMet, covered>>
      PROVE  RefusedWritesAreNotReplayed' /\ HintsAreMet'
  <2>1. OtherReplays(w) /\ worker'[w].batch \subseteq worker[w].batch \cup queue
    BY <1>4, BeginReplayMoves, WorkMoves, LeaveMoves, EndMoves
  <2>2. queue' \subseteq queue \cup worker[w].batch
    <3>1. CASE Leaves(w)
      <4>1. Held(w) \in worker[w].batch
        BY <3>1, LeaveMoves
      <4>2. queue' \in {queue \ {Held(w)}, queue \cup {Held(w)}}
        BY <3>1 DEF Leaves, DeleteRecord, RetainRecord
      <4> QED BY <4>1, <4>2
    <3> QED BY <1>4, <3>1, ReplaysFrame
  <2> QED BY <1>4, <2>1, <2>2 DEF OtherReplays
<1> QED BY <1>1, <1>2, <1>3, <1>4, StepKinds

\* Nothing that is replayed is of refused writes only: a hint in the queue or
\* in the batch of a replay is of a command some write of which was accepted
\* by as many replicas as its level requires.
THEOREM RefusedNeverReplayed == Spec => []RefusedWritesAreNotReplayed
<1>1. Init => RefusedWritesAreNotReplayed /\ HintsAreMet
  BY NoCallProgress DEF Init, RefusedWritesAreNotReplayed, HintsAreMet, NoReplay
<1> QED BY <1>1, TypesAlways, RefusedStep, PTL DEF Spec

----------------------------------------------------------------------------
(* Majorities: what a read that found nothing has not missed.              *)

Has(n) == \E c \in Commands : applied[n][c] > 0
Majority(A, plan) == A \subseteq plan /\ Cardinality(A) >= Cardinality(plan) \div 2 + 1

\* No replica forgets a command.
LEMMA AppliedGrows ==
    ASSUME Types, [Next]_vars
    PROVE  \A n \in Nodes, c \in Commands :
              applied'[n][c] \in Nat /\ applied[n][c] \in Nat /\ applied'[n][c] >= applied[n][c]
<1>1. applied \in Counts /\ applied' \in Counts
  BY TypesStep DEF Types, CountTypes
<1>2. \/ applied' = applied
      \/ \E m \in Nodes, d \in Commands : applied' = Plus(applied, {m}, d)
  <2>1. CASE UNCHANGED vars
    BY <2>1 DEF vars
  <2>2. CASE UNCHANGED <<applied, queue, call, worker, histories>>
    BY <2>2
  <2>3. ASSUME NEW a \in Callers, Writes(a)
        PROVE  \/ applied' = applied
               \/ \E m \in Nodes, d \in Commands : applied' = Plus(applied, {m}, d)
    <3>1. Min(call[a].todo) \in Nodes /\ call[a].command \in Commands
      BY <2>3, ApplyMoves DEF Writes
    <3>2. applied' \in {applied, Plus(applied, {Min(call[a].todo)}, call[a].command)}
      BY <2>3 DEF Writes, ApplyReplica, ApplyReplicaFails, ApplyReplicaAnswerLost
    <3> QED BY <3>1, <3>2
  <2>4. ASSUME NEW a \in Callers,
               \/ Begins(a) \/ EndCalls(a) \/ EndReads(a)
               \/ EnqueueHint(a) \/ EnqueueProbe(a) \/ Reads(a) \/ Stops(a)
        PROVE  applied' = applied
    BY <2>4, CallsFrame DEF Stops
  <2>5. ASSUME NEW w \in Workers, Works(w)
        PROVE  \/ applied' = applied
               \/ \E m \in Nodes, d \in Commands : applied' = Plus(applied, {m}, d)
    BY <2>5, WorksApply
  <2>6. ASSUME NEW w \in Workers, BeginReplay(w) \/ Leaves(w) \/ Ends(w)
        PROVE  applied' = applied
    BY <2>6, ReplaysFrame
  <2> QED BY <2>1, <2>2, <2>3, <2>4, <2>5, <2>6, StepKinds
<1>3. ASSUME NEW n \in Nodes, NEW c \in Commands
      PROVE  applied'[n][c] \in Nat /\ applied[n][c] \in Nat
  BY <1>1 DEF Counts
<1>4. ASSUME NEW n \in Nodes, NEW c \in Commands PROVE applied'[n][c] >= applied[n][c]
  <2> DEFINE old == applied[n][c]
             new == applied'[n][c]
  <2>1. old \in Nat /\ new \in Nat
    BY <1>3
  <2>2. ASSUME applied' = applied PROVE new >= old
    <3>1. new = old
      BY <2>2
    <3> HIDE DEF old, new
    <3> QED BY <2>1, <3>1
  <2>3. ASSUME NEW m \in Nodes, NEW d \in Commands, applied' = Plus(applied, {m}, d)
        PROVE  new >= old
    <3>1. new = old + (IF n = m /\ c = d THEN 1 ELSE 0)
      BY <1>1, <2>3, PlusOne
    <3> HIDE DEF old, new
    <3> QED BY <2>1, <3>1
  <2> HIDE DEF old, new
  <2>4. new >= old
    BY <1>2, <2>2, <2>3
  <2> QED BY <2>4 DEF old, new
<1> QED BY <1>3, <1>4

\* A majority of every plan that an acknowledged write at quorum or all had
\* has applied something.
CoveredApplied == \A P \in covered : \E A : Majority(A, P) /\ \A n \in A : Has(n)

\* The replicas that answered a write have applied its command.
AnswersApplied == \A a \in Callers : call[a].phase \in {"write", "hint"} =>
                      \A n \in call[a].answered : Has(n)

\* A read that goes on without a value has not asked the majority that has one.
ReadsGoOn == \A a \in Callers :
    call[a].phase \in {"read", "probe"} /\ call[a].covered /\ ~call[a].found =>
        \E A : /\ Majority(A, call[a].plan) /\ \A n \in A : Has(n)
               /\ A \cap call[a].answered = {}

LEMMA HasGrows ==
    ASSUME Types, [Next]_vars, NEW n \in Nodes, Has(n)
    PROVE  Has(n)'
<1>1. PICK c \in Commands : applied[n][c] > 0
  BY DEF Has
<1>2. applied'[n][c] > 0
  BY <1>1, AppliedGrows
<1> QED BY <1>2 DEF Has

\* The replicas that answered a write at quorum or all are a majority.
LEMMA QuorumIsAMajority ==
    ASSUME Types, NEW a \in Callers, call[a].phase \in {"hint", "probe"},
           call[a].level \in {"quorum", "all"}
    PROVE  Majority(call[a].answered, call[a].plan)
<1>1. /\ call[a].answered \subseteq call[a].plan /\ call[a].plan \subseteq Nodes
      /\ Cardinality(call[a].answered) >= Required(call[a].level, call[a].plan)
  BY DEF Types, CallTypes, Progress, Calls
<1>2. /\ IsFiniteSet(call[a].plan) /\ Cardinality(call[a].plan) \in Nat
      /\ IsFiniteSet(call[a].answered) /\ Cardinality(call[a].answered) \in Nat
  BY <1>1, FS_Subset, FS_CardinalityType
<1>3. Cardinality(call[a].plan) = 0 <=> call[a].plan = {}
  BY <1>2, FS_EmptySet
<1>4. Required(call[a].level, call[a].plan) >= Cardinality(call[a].plan) \div 2 + 1
  <2> DEFINE p == Cardinality(call[a].plan)
  <2>1. CASE call[a].level = "quorum"
    <3>1. Required(call[a].level, call[a].plan) = p \div 2 + 1
      BY <2>1 DEF Required
    <3> QED BY <1>2, <3>1
  <2>2. CASE call[a].level = "all"
    <3>1. Required(call[a].level, call[a].plan) = IF call[a].plan = {} THEN 1 ELSE p
      BY <2>2 DEF Required
    <3> HIDE DEF p
    <3>2. p \in Nat /\ (p = 0 <=> call[a].plan = {})
      BY <1>2, <1>3 DEF p
    <3> QED BY <3>1, <3>2 DEF p
  <2> QED BY <2>1, <2>2
<1>5. Required(call[a].level, call[a].plan) \in Int
  BY <1>2 DEF Required
<1> QED BY <1>1, <1>2, <1>4, <1>5 DEF Majority

LEMMA CoveredStep ==
    ASSUME Types, CoveredApplied, AnswersApplied, [Next]_vars
    PROVE  CoveredApplied'
<1>1. covered' = covered \/ \E a \in Callers : EndWrite(a)
  BY StepKinds, CallsFrame DEF vars, histories, Stops
<1>2. ASSUME NEW P \in covered PROVE (\E A : Majority(A, P) /\ \A n \in A : Has(n))'
  <2>1. PICK A : Majority(A, P) /\ \A n \in A : Has(n)
    BY DEF CoveredApplied
  <2>2. \A n \in A : n \in Nodes
    BY <2>1 DEF Majority, Types, HistoryTypes
  <2>3. \A n \in A : Has(n)'
    BY <2>1, <2>2, HasGrows
  <2> QED BY <2>1, <2>3 DEF Majority
<1>3. ASSUME NEW a \in Callers, EndWrite(a), call[a].level \in {"quorum", "all"}
      PROVE  (\E A : Majority(A, call[a].plan) /\ \A n \in A : applied' = applied /\ Has(n))
  <2>1. call[a].phase = "hint" /\ applied' = applied
    BY <1>3 DEF EndWrite
  <2> QED BY <1>3, <2>1, QuorumIsAMajority DEF AnswersApplied
<1>4. ASSUME NEW a \in Callers, EndWrite(a), NEW P \in covered'
      PROVE  (\E A : Majority(A, P) /\ \A n \in A : Has(n)')
  <2>1. CASE P \in covered
    BY <1>2, <2>1 DEF Majority
  <2>2. CASE P \notin covered
    <3>1. P = call[a].plan /\ call[a].level \in {"quorum", "all"}
      BY <1>4, <2>2 DEF EndWrite
    <3>2. PICK A : Majority(A, call[a].plan) /\ \A n \in A : applied' = applied /\ Has(n)
      BY <1>3, <1>4, <3>1
    <3>3. \A n \in A : Has(n)'
      BY <3>2 DEF Has
    <3> QED BY <3>1, <3>2, <3>3
  <2> QED BY <2>1, <2>2
<1> QED BY <1>1, <1>2, <1>4 DEF CoveredApplied, Majority

LEMMA AnswersStep ==
    ASSUME Types, AnswersApplied, [Next]_vars
    PROVE  AnswersApplied'
<1>1. ASSUME NEW b \in Callers, call'[b] = call[b]
      PROVE  (call[b].phase \in {"write", "hint"} => \A n \in call[b].answered : Has(n))'
  <2>1. call[b].answered \subseteq Nodes
    BY DEF Types, CallTypes, Calls
  <2> QED BY <1>1, <2>1, HasGrows DEF AnswersApplied
<1>2. CASE call' = call
  BY <1>1, <1>2 DEF AnswersApplied
<1>3. ASSUME NEW a \in Callers,
             \/ Begins(a) \/ Writes(a) \/ EndCalls(a) \/ EndReads(a)
             \/ EnqueueHint(a) \/ EnqueueProbe(a) \/ Reads(a) \/ Stops(a)
      PROVE  AnswersApplied'
  <2>1. ASSUME call'[a].phase \in {"write", "hint"}, NEW n \in call'[a].answered
        PROVE  Has(n)'
    <3>1. call[a].answered \subseteq Nodes
      BY DEF Types, CallTypes, Calls
    <3>2. CASE Begins(a)
      BY <2>1, <3>2, BeginWriteMoves, BeginReadMoves DEF Begins
    <3>3. CASE Writes(a) /\ n \in call[a].answered
      <4>1. call[a].phase = "write"
        BY <3>3, ApplyMoves DEF Writes
      <4> QED BY <3>1, <3>3, <4>1, HasGrows DEF AnswersApplied
    <3>4. CASE Writes(a) /\ n \notin call[a].answered
      <4> DEFINE m == Min(call[a].todo)
                 c == call[a].command
      <4>1. ApplyReplica(a) /\ n = m /\ m \in Nodes /\ c \in Commands
        BY <2>1, <3>4, ApplyMoves DEF Writes
      <4>2. applied' = Plus(applied, {m}, c)
        BY <4>1 DEF ApplyReplica
      <4> HIDE DEF m, c
      <4>6. applied \in Counts
        BY DEF Types, CountTypes
      <4>3. applied[m][c] \in Nat
        BY <4>1, <4>6 DEF Counts
      <4>7. Plus(applied, {m}, c)[m][c] = applied[m][c] + (IF m = m /\ c = c THEN 1 ELSE 0)
        BY <4>1, <4>6, PlusOne
      <4>4. applied'[m][c] = applied[m][c] + 1
        BY <4>2, <4>7
      <4>5. applied'[m][c] > 0
        BY <4>3, <4>4
      <4> QED BY <4>1, <4>5 DEF Has
    <3>5. CASE EndCalls(a) \/ EndReads(a)
      <4>1. call[a].phase = "write" /\ call'[a].answered = call[a].answered
        BY <2>1, <3>5, EndCallsMoves, NoCallProgress DEF Next3
      <4> QED BY <2>1, <3>1, <4>1, HasGrows DEF AnswersApplied
    <3>6. CASE EnqueueHint(a) \/ EnqueueProbe(a)
      <4>1. call[a].phase = call'[a].phase /\ call'[a].answered = call[a].answered
        BY <3>6, EnqueueMoves DEF Next3
      <4> QED BY <2>1, <3>1, <4>1, HasGrows DEF AnswersApplied
    <3>7. CASE Reads(a)
      BY <2>1, <3>7, ReadMoves DEF Reads
    <3>8. CASE Stops(a)
      <4>1. call' = [call EXCEPT ![a] = NoCall]
        BY <3>8 DEF Stops, EnqueueFails, EndWrite, EndRead
      <4> QED BY <2>1, <4>1, CallEnds, NoCallProgress
    <3> QED BY <1>3, <3>2, <3>3, <3>4, <3>5, <3>6, <3>7, <3>8
  <2> QED BY <1>1, <1>3, <2>1, CallsProgress DEF AnswersApplied, Others
<1> QED BY <1>2, <1>3, StepKinds DEF vars

LEMMA ReadsStep ==
    ASSUME Types, CoveredApplied, ReadsGoOn, [Next]_vars
    PROVE  ReadsGoOn'
<1> DEFINE GoesOn(plan, answered) ==
              \E A : Majority(A, plan) /\ (\A n \in A : Has(n)) /\ A \cap answered = {}
           GoesOnNext(plan, answered) ==
              \E A : Majority(A, plan) /\ (\A n \in A : Has(n)') /\ A \cap answered = {}
<1>1. ASSUME NEW plan, plan \subseteq Nodes, NEW answered, GoesOn(plan, answered)
      PROVE  GoesOnNext(plan, answered)
  <2>1. PICK A : Majority(A, plan) /\ (\A n \in A : Has(n)) /\ A \cap answered = {}
    BY <1>1
  <2>2. \A n \in A : Has(n)'
    BY <1>1, <2>1, HasGrows DEF Majority
  <2> QED BY <2>1, <2>2
<1>2. ASSUME NEW b \in Callers, call'[b] = call[b]
      PROVE  call'[b].phase \in {"read", "probe"} /\ call'[b].covered /\ ~call'[b].found
                => GoesOnNext(call'[b].plan, call'[b].answered)
  <2>1. call[b].plan \subseteq Nodes
    BY DEF Types, CallTypes, Calls
  <2> HIDE DEF GoesOnNext
  <2> QED BY <1>1, <1>2, <2>1 DEF ReadsGoOn
<1>3. CASE call' = call
  BY <1>2, <1>3 DEF ReadsGoOn, Majority
<1>4. ASSUME NEW a \in Callers,
             \/ Begins(a) \/ Writes(a) \/ EndCalls(a) \/ EndReads(a)
             \/ EnqueueHint(a) \/ EnqueueProbe(a) \/ Reads(a) \/ Stops(a)
      PROVE  call'[a].phase \in {"read", "probe"} /\ call'[a].covered /\ ~call'[a].found
                => GoesOnNext(call'[a].plan, call'[a].answered)
  <2> SUFFICES ASSUME call'[a].phase \in {"read", "probe"}, call'[a].covered, ~call'[a].found
               PROVE  GoesOnNext(call'[a].plan, call'[a].answered)
    OBVIOUS
  <2>1. call[a].plan \subseteq Nodes /\ call[a].found \in BOOLEAN
    BY DEF Types, CallTypes, Calls
  <2>2. CASE Begins(a)
    <3>1. call'[a].answered = {} /\ call'[a].plan \in covered
      BY <2>2, BeginWriteMoves, BeginReadMoves DEF Begins
    <3>2. PICK A : Majority(A, call'[a].plan) /\ \A n \in A : Has(n)
      BY <3>1 DEF CoveredApplied
    <3>3. call'[a].plan \subseteq Nodes
      BY <3>1 DEF Types, HistoryTypes
    <3>4. GoesOn(call'[a].plan, call'[a].answered)
      BY <3>1, <3>2
    <3> HIDE DEF GoesOn, GoesOnNext
    <3> QED BY <1>1, <3>3, <3>4
  <2>3. CASE Writes(a)
    BY <2>3, ApplyMoves DEF Writes
  <2>4. CASE EndCalls(a) \/ EndReads(a)
    <3>1. /\ call[a].phase = "read" /\ call'[a].answered = call[a].answered
          /\ call'[a].plan = call[a].plan /\ call[a].covered /\ ~call[a].found
      BY <2>4, EndCallsMoves, NoCallProgress DEF Next3, Same
    <3>2. GoesOn(call[a].plan, call[a].answered)
      BY <3>1 DEF ReadsGoOn
    <3> HIDE DEF GoesOn, GoesOnNext
    <3> QED BY <1>1, <2>1, <3>1, <3>2
  <2>5. CASE EnqueueHint(a) \/ EnqueueProbe(a)
    <3>1. /\ call[a].phase = "probe" /\ call'[a].answered = call[a].answered
          /\ call'[a].plan = call[a].plan /\ call[a].covered /\ ~call[a].found
      BY <2>5, EnqueueMoves DEF Next3, Same
    <3>2. GoesOn(call[a].plan, call[a].answered)
      BY <3>1 DEF ReadsGoOn
    <3> HIDE DEF GoesOn, GoesOnNext
    <3> QED BY <1>1, <2>1, <3>1, <3>2
  <2>6. ASSUME NEW n \in Nodes, ReadReplica(a, n) \/ ReadReplicaFails(a, n)
        PROVE  GoesOnNext(call'[a].plan, call'[a].answered)
    <3>1. /\ call[a].phase = "read" /\ call'[a].plan = call[a].plan /\ call[a].covered
      BY <2>6, ReadMoves DEF Same
    <3>2. \/ ~call[a].found /\ ~Has(n) /\ call'[a].answered = call[a].answered \cup {n}
          \/ ~call[a].found /\ call'[a].answered = call[a].answered
      BY <2>6, ReadMoves DEF Has
    <3>3. PICK A : /\ Majority(A, call[a].plan) /\ \A m \in A : Has(m)
                   /\ A \cap call[a].answered = {}
      BY <3>1, <3>2 DEF ReadsGoOn
    <3>4. A \cap call'[a].answered = {}
      BY <3>2, <3>3
    <3>5. GoesOn(call'[a].plan, call'[a].answered)
      BY <3>1, <3>3, <3>4
    <3> HIDE DEF GoesOn, GoesOnNext
    <3> QED BY <1>1, <2>1, <3>1, <3>5
  <2>7. CASE Stops(a)
    <3>1. call' = [call EXCEPT ![a] = NoCall]
      BY <2>7 DEF Stops, EnqueueFails, EndWrite, EndRead
    <3> QED BY <3>1, CallEnds, NoCallProgress
  <2> HIDE DEF GoesOn, GoesOnNext
  <2> QED BY <1>4, <2>2, <2>3, <2>4, <2>5, <2>6, <2>7 DEF Reads
<1>5. ASSUME NEW a \in Callers,
             \/ Begins(a) \/ Writes(a) \/ EndCalls(a) \/ EndReads(a)
             \/ EnqueueHint(a) \/ EnqueueProbe(a) \/ Reads(a) \/ Stops(a),
             NEW b \in Callers
      PROVE  call'[b].phase \in {"read", "probe"} /\ call'[b].covered /\ ~call'[b].found
                => GoesOnNext(call'[b].plan, call'[b].answered)
  <2> HIDE DEF GoesOn, GoesOnNext
  <2> QED BY <1>2, <1>4, <1>5, CallsProgress DEF Others
<1>6. CASE \E a \in Callers :
             \/ Begins(a) \/ Writes(a) \/ EndCalls(a) \/ EndReads(a)
             \/ EnqueueHint(a) \/ EnqueueProbe(a) \/ Reads(a) \/ Stops(a)
  BY <1>5, <1>6 DEF ReadsGoOn, Majority
<1> QED BY <1>3, <1>6, StepKinds DEF vars

\* A read at quorum or all that returns nothing found nothing acknowledged
\* before it began at quorum or all on the same replicas.
THEOREM EmptyReadsNeverMiss == Spec => []EmptyReadsMissNothing
<1> DEFINE Inv == CoveredApplied /\ AnswersApplied /\ ReadsGoOn
<1>1. Init => Inv
  BY NoCallProgress DEF Init, CoveredApplied, AnswersApplied, ReadsGoOn
<1>2. Types /\ Inv /\ [Next]_vars => Inv'
  BY CoveredStep, AnswersStep, ReadsStep
<1>3. Types /\ Inv => EmptyReadsMissNothing
  <2> SUFFICES ASSUME Types, ReadsGoOn, NEW a \in Callers, call[a].phase = "probe",
                      call[a].level \in {"quorum", "all"}, ~call[a].found, call[a].covered
               PROVE  FALSE
    BY DEF EmptyReadsMissNothing
  <2>1. PICK A : Majority(A, call[a].plan) /\ A \cap call[a].answered = {}
    BY DEF ReadsGoOn
  <2>2. Majority(call[a].answered, call[a].plan)
    BY QuorumIsAMajority
  <2>3. call[a].plan \subseteq Nodes
    BY DEF Types, CallTypes, Calls
  <2>4. /\ IsFiniteSet(call[a].plan) /\ Cardinality(call[a].plan) \in Nat
        /\ IsFiniteSet(A) /\ Cardinality(A) \in Nat
        /\ IsFiniteSet(call[a].answered) /\ Cardinality(call[a].answered) \in Nat
    BY <2>1, <2>2, <2>3, FS_Subset, FS_CardinalityType DEF Majority
  <2>5. Cardinality(A) + Cardinality(call[a].answered) > Cardinality(call[a].plan)
    BY <2>1, <2>2, <2>4 DEF Majority
  <2>6. A \cap call[a].answered # {}
    BY <2>1, <2>2, <2>4, <2>5, FS_MajoritiesIntersect DEF Majority
  <2> QED BY <2>1, <2>6
<1> HIDE DEF Inv
<1> QED BY <1>1, <1>2, <1>3, TypesAlways, PTL DEF Spec

----------------------------------------------------------------------------
(* Accounts.                                                               *)

One(b) == IF b THEN 1 ELSE 0

\* The size of a set of which one member comes or goes.
LEMMA OneChanges ==
    ASSUME NEW S, NEW T, NEW x, IsFiniteSet(S), T \ {x} = S \ {x}
    PROVE  /\ IsFiniteSet(T) /\ Cardinality(S) \in Nat /\ Cardinality(T) \in Nat
           /\ Cardinality(T) + One(x \in S) = Cardinality(S) + One(x \in T)
<1>1. IsFiniteSet(S \ {x}) /\ IsFiniteSet(T \ {x})
  BY FS_RemoveElement
<1>2. IsFiniteSet((T \ {x}) \cup {x})
  BY <1>1, FS_AddElement
<1>3. T \subseteq (T \ {x}) \cup {x}
  OBVIOUS
<1>4. IsFiniteSet(T)
  BY <1>2, <1>3, FS_Subset
<1>5. Cardinality(S) \in Nat /\ Cardinality(T) \in Nat
  BY <1>4, FS_CardinalityType
<1>6. Cardinality(S \ {x}) = IF x \in S THEN Cardinality(S) - 1 ELSE Cardinality(S)
  BY FS_RemoveElement
<1>7. Cardinality(T \ {x}) = IF x \in T THEN Cardinality(T) - 1 ELSE Cardinality(T)
  BY <1>4, FS_RemoveElement
<1> DEFINE cs == Cardinality(S)
           ct == Cardinality(T)
           r == Cardinality(S \ {x})
<1>8. /\ cs \in Nat /\ ct \in Nat /\ r = (IF x \in S THEN cs - 1 ELSE cs)
      /\ r = (IF x \in T THEN ct - 1 ELSE ct)
  BY <1>5, <1>6, <1>7
<1> HIDE DEF cs, ct, r
<1>9. ct + One(x \in S) = cs + One(x \in T)
  BY <1>8 DEF One
<1> QED BY <1>4, <1>8, <1>9 DEF cs, ct

\* The write of a has reached n: it applied the command or its hint waits.
Reached(a, n, c) ==
    /\ call[a].command = c
    /\ \/ call[a].phase = "write" /\ n \in call[a].answered
       \/ call[a].phase = "hint" /\ n \in call[a].plan \ call[a].todo
Reaching(n, c) == {a \in Callers : Reached(a, n, c)}

\* w has applied the hint it is about to delete.
Deletes(w, n, c) == worker[w].phase = "delete" /\ Held(w) = Hint(n, c)
Deleting(n, c) == {w \in Workers : Deletes(w, n, c)}

Waits(n, c) == One(Hint(n, c) \in queue)

Paid(n, c) ==
    accepted[n][c] + Cardinality(Reaching(n, c)) + Cardinality(Deleting(n, c))
        <= applied[n][c] + coalesced[n][c] + Waits(n, c)

Accounts == \A n \in Nodes, c \in Commands : Paid(n, c)

LEMMA CountsAreNumbers ==
    ASSUME Types, NEW n \in Nodes, NEW c \in Commands
    PROVE  /\ accepted[n][c] \in Nat /\ applied[n][c] \in Nat
           /\ coalesced[n][c] \in Nat /\ sent[n][c] \in Nat
<1>1. /\ applied \in Counts /\ accepted \in Counts /\ sent \in Counts /\ coalesced \in Counts
  BY DEF Types, CountTypes
<1> QED BY <1>1 DEF Counts

LEMMA TypesNext == ASSUME Types, [Next]_vars PROVE Types'
  BY TypesStep

\* The count of c at n after Plus.
LEMMA PlusAt ==
    ASSUME NEW counts \in Counts, NEW m \in Nodes, NEW d \in Commands,
           NEW n \in Nodes, NEW c \in Commands
    PROVE  Plus(counts, {m}, d)[n][c] = counts[n][c] + One(n = m /\ c = d)
<1> DEFINE S == {m}
<1>1. n \in S <=> n = m
  OBVIOUS
<1>2. counts[n][c] \in Nat
  BY DEF Counts
<1> HIDE DEF S
<1>3. CASE n = m /\ c = d
  <2>1. Plus(counts, S, d)[m][d] = counts[m][d] + 1
    BY <1>1, <1>3, PlusIn
  <2> QED BY <1>3, <2>1 DEF One, S
<1>4. CASE ~(n = m /\ c = d)
  <2>1. Plus(counts, S, d)[n][c] = counts[n][c]
    BY <1>1, <1>4, PlusOut
  <2>2. counts[n][c] = counts[n][c] + One(n = m /\ c = d)
    BY <1>2, <1>4 DEF One
  <2> QED BY <2>1, <2>2 DEF S
<1> QED BY <1>3, <1>4

\* A step of a call pays for what it adds.
LEMMA CallPays ==
    ASSUME Types, NEW a \in Callers, NEW n \in Nodes, NEW c \in Commands,
           \/ Begins(a) \/ Writes(a) \/ EndCalls(a) \/ EndReads(a)
           \/ EnqueueHint(a) \/ EnqueueProbe(a) \/ Reads(a) \/ Stops(a)
    PROVE  \E gain \in Nat :
              /\ applied'[n][c] + coalesced'[n][c] + Waits(n, c)'
                    >= applied[n][c] + coalesced[n][c] + Waits(n, c) + gain
              /\ accepted'[n][c] + One(Reached(a, n, c)')
                    <= accepted[n][c] + One(Reached(a, n, c)) + gain
<1> DEFINE x == applied[n][c]
           k == coalesced[n][c]
           s == accepted[n][c]
           q == Waits(n, c)
           p == One(Reached(a, n, c))
           p1 == One(Reached(a, n, c)')
           q1 == Waits(n, c)'
<1>1. x \in Nat /\ k \in Nat /\ s \in Nat
  BY CountsAreNumbers
<1>2. q \in {0, 1} /\ p \in {0, 1} /\ p1 \in {0, 1} /\ q1 \in {0, 1}
  BY DEF One, Waits
<1>3. call[a] \in Calls /\ Progress(call[a])
  BY DEF Types, CallTypes
<1>8. /\ applied \in Counts /\ accepted \in Counts /\ coalesced \in Counts
  BY DEF Types, CountTypes
<1>4. ASSUME applied'[n][c] = x, coalesced'[n][c] = k, q1 >= q, accepted'[n][c] = s, p1 <= p
      PROVE  /\ applied'[n][c] + coalesced'[n][c] + q1 >= x + k + q + 0
             /\ accepted'[n][c] + p1 <= s + p + 0
  <2> HIDE DEF x, k, s, q, p, p1, q1
  <2> QED BY <1>1, <1>2, <1>4
<1>5. ASSUME Begins(a) \/ EndReads(a) \/ Reads(a) \/ EndRead(a) \/ EnqueueFails(a)
             \/ EnqueueProbe(a) \/ EndCalls(a)
      PROVE  /\ applied'[n][c] = x /\ coalesced'[n][c] = k /\ q1 >= q /\ accepted'[n][c] = s
             /\ p1 <= p
  <2>1. UNCHANGED <<applied, coalesced, accepted>> /\ queue \subseteq queue'
    BY <1>5, CallsFrame DEF EnqueueProbe
  <2>2. q1 >= q
    BY <2>1 DEF Waits, One
  <2>3. Reached(a, n, c)' => Reached(a, n, c)
    <3>1. CASE Begins(a)
      <4>1. call'[a].phase = "read" \/ (call'[a].phase = "write" /\ call'[a].answered = {})
        BY <3>1, BeginWriteMoves, BeginReadMoves DEF Begins
      <4> QED BY <4>1 DEF Reached
    <3>2. CASE Reads(a)
      <4>1. call'[a].phase = "read"
        BY <3>2, ReadMoves DEF Reads
      <4> QED BY <4>1 DEF Reached
    <3>3. CASE EndRead(a) \/ EnqueueFails(a)
      <4>1. call' = [call EXCEPT ![a] = NoCall]
        BY <3>3 DEF EndRead, EnqueueFails
      <4>2. call'[a].phase = "idle"
        BY <4>1, CallEnds, NoCallProgress
      <4> QED BY <4>2 DEF Reached
    <3>4. CASE EnqueueProbe(a)
      <4>1. call'[a].phase = "probe"
        BY <3>4, EnqueueMoves
      <4> QED BY <4>1 DEF Reached
    <3>5. CASE EndCalls(a) \/ EndReads(a)
      <4>1. CASE call'[a].phase \in {"idle", "probe"}
        BY <4>1 DEF Reached
      <4>2. CASE call'[a].phase \notin {"idle", "probe"}
        <5>1. /\ call[a].phase = "write" /\ call'[a].phase = "hint" /\ call[a].todo = {}
              /\ call'[a].command = call[a].command /\ call'[a].plan = call[a].plan
              /\ call'[a].todo = call[a].failed
          BY <3>5, <4>2, EndCallsMoves, NoCallProgress DEF Same, Next3
        <5>2. call[a].plan = call[a].todo \cup call[a].answered \cup call[a].failed
          BY <1>3, <5>1 DEF Progress
        <5> QED BY <5>1, <5>2 DEF Reached
      <4> QED BY <4>1, <4>2
    <3> QED BY <1>5, <3>1, <3>2, <3>3, <3>4, <3>5
  <2>4. p1 <= p
    BY <2>3 DEF One
  <2> QED BY <2>1, <2>2, <2>4
<1>6. CASE Begins(a) \/ EndReads(a) \/ Reads(a) \/ EndRead(a) \/ EnqueueFails(a)
             \/ EnqueueProbe(a) \/ EndCalls(a)
  <2>1. /\ applied'[n][c] + coalesced'[n][c] + q1 >= x + k + q + 0
        /\ accepted'[n][c] + p1 <= s + p + 0
    BY <1>4, <1>5, <1>6
  <2> HIDE DEF x, k, s, q, p, p1, q1
  <2>2. \E gain \in Nat : /\ applied'[n][c] + coalesced'[n][c] + q1 >= x + k + q + gain
                          /\ accepted'[n][c] + p1 <= s + p + gain
    BY <2>1
  <2> QED BY <2>2 DEF x, k, s, q, p, p1, q1
<1>7. CASE Writes(a)
  <2> DEFINE m == Min(call[a].todo)
             d == call[a].command
             g == One(n = m /\ c = d)
  <2>1. /\ m \in Nodes /\ d \in Commands /\ m \in call[a].todo
        /\ call[a].phase = "write" /\ call'[a].phase = "write" /\ call'[a].command = d
        /\ \/ ApplyReplica(a) /\ call'[a].answered = call[a].answered \cup {m}
           \/ ApplyReplicaFails(a) /\ call'[a].answered = call[a].answered
           \/ ApplyReplicaAnswerLost(a) /\ call'[a].answered = call[a].answered
    BY <1>7, ApplyMoves DEF Writes, Same
  <2>2. UNCHANGED <<queue, accepted, coalesced>>
    BY <1>7, CallsFrame
  <2>3. g \in {0, 1}
    BY DEF One
  <2>4. \/ ApplyReplica(a) /\ applied' = Plus(applied, {m}, d)
        \/ ~ApplyReplica(a) /\ applied' = applied /\ call'[a].answered = call[a].answered
        \/ applied' = Plus(applied, {m}, d) /\ call'[a].answered = call[a].answered
    BY <2>1 DEF ApplyReplica, ApplyReplicaFails, ApplyReplicaAnswerLost
  <2>5. p1 <= p + g /\ (call'[a].answered = call[a].answered => p1 <= p)
    BY <2>1 DEF Reached, One
  <2>6. q1 = q
    BY <2>2 DEF Waits
  <2> HIDE DEF m, d
  <2>7. Plus(applied, {m}, d)[n][c] = x + g
    BY <1>8, <2>1, PlusAt
  <2>8. \/ applied'[n][c] = x + g
        \/ applied'[n][c] = x /\ p1 <= p
    BY <2>4, <2>5, <2>7
  <2>9. coalesced'[n][c] = k /\ accepted'[n][c] = s
    BY <2>2
  <2> HIDE DEF x, k, s, q, p, p1, q1, g
  <2>10. \E gain \in Nat : /\ applied'[n][c] + coalesced'[n][c] + q1 >= x + k + q + gain
                           /\ accepted'[n][c] + p1 <= s + p + gain
    <3>1. CASE applied'[n][c] = x + g
      <4>1. /\ applied'[n][c] + coalesced'[n][c] + q1 >= x + k + q + g
            /\ accepted'[n][c] + p1 <= s + p + g /\ g \in Nat
        BY <1>1, <1>2, <2>3, <2>5, <2>6, <2>9, <3>1
      <4> QED BY <4>1
    <3>2. CASE applied'[n][c] = x /\ p1 <= p
      <4>1. /\ applied'[n][c] + coalesced'[n][c] + q1 >= x + k + q + 0
            /\ accepted'[n][c] + p1 <= s + p + 0
        BY <1>1, <1>2, <2>6, <2>9, <3>2
      <4> QED BY <4>1
    <3> QED BY <2>8, <3>1, <3>2
  <2> QED BY <2>10 DEF x, k, s, q, p, p1, q1
<1>9. CASE EnqueueHint(a)
  <2> DEFINE m == Min(call[a].todo)
             d == call[a].command
             g == One(n = m /\ c = d)
  <2>1. /\ m \in Nodes /\ d \in Commands /\ m \in call[a].todo
        /\ call[a].phase = "hint" /\ call'[a].phase = "hint" /\ call'[a].command = d
        /\ call'[a].plan = call[a].plan /\ call'[a].todo = call[a].todo \ {m}
    BY <1>9, EnqueueMoves DEF Same, Next3
  <2>2. UNCHANGED <<applied, accepted>>
    BY <1>9, CallsFrame
  <2>3. g \in {0, 1}
    BY DEF One
  <2>4. /\ queue' = queue \cup {Hint(m, d)}
        /\ \/ Hint(m, d) \in queue /\ coalesced' = Plus(coalesced, {m}, d)
           \/ Hint(m, d) \notin queue /\ coalesced' = coalesced
    BY <1>9 DEF EnqueueHint
  <2>5. p1 <= p + g
    BY <2>1 DEF Reached, One
  <2> HIDE DEF m, d
  <2>6. Plus(coalesced, {m}, d)[n][c] = k + g
    BY <1>8, <2>1, PlusAt
  <2>7. Hint(n, c) = Hint(m, d) <=> n = m /\ c = d
    BY <2>1, HintParts
  <2>8. \/ coalesced'[n][c] = k + g /\ q1 = q
        \/ coalesced'[n][c] = k /\ q1 = q + g
    <3>1. CASE Hint(m, d) \in queue /\ coalesced' = Plus(coalesced, {m}, d)
      BY <2>4, <2>6, <3>1 DEF Waits
    <3>2. CASE Hint(m, d) \notin queue /\ coalesced' = coalesced
      <4>1. CASE n = m /\ c = d
        BY <2>4, <2>7, <3>2, <4>1 DEF Waits, One
      <4>2. CASE ~(n = m /\ c = d)
        BY <2>4, <2>7, <3>2, <4>2 DEF Waits, One
      <4> QED BY <4>1, <4>2
    <3> QED BY <2>4, <3>1, <3>2
  <2>9. applied'[n][c] = x /\ accepted'[n][c] = s
    BY <2>2
  <2> HIDE DEF x, k, s, q, p, p1, q1, g
  <2>10. /\ applied'[n][c] + coalesced'[n][c] + q1 >= x + k + q + g
         /\ accepted'[n][c] + p1 <= s + p + g /\ g \in Nat
    BY <1>1, <1>2, <2>3, <2>5, <2>8, <2>9
  <2>11. \E gain \in Nat : /\ applied'[n][c] + coalesced'[n][c] + q1 >= x + k + q + gain
                           /\ accepted'[n][c] + p1 <= s + p + gain
    BY <2>10
  <2> QED BY <2>11 DEF x, k, s, q, p, p1, q1
<1>10. CASE EndWrite(a)
  <2> DEFINE d == call[a].command
             P == call[a].plan
             g == One(n \in P /\ c = d)
  <2>1. /\ d \in Commands /\ call[a].phase = "hint" /\ call[a].todo = {}
        /\ accepted' = Plus(accepted, P, d) /\ call' = [call EXCEPT ![a] = NoCall]
    BY <1>3, <1>10 DEF EndWrite, Progress
  <2>2. UNCHANGED <<applied, queue, coalesced>>
    BY <1>10, CallsFrame
  <2>3. call'[a].phase = "idle"
    BY <2>1, CallEnds, NoCallProgress
  <2>4. p1 = 0 /\ p = g
    BY <2>1, <2>3 DEF Reached, One
  <2> HIDE DEF P, d
  <2>5. accepted'[n][c] = s + g
    <3>1. Plus(accepted, P, d)[n][c] = s + (IF n \in P /\ c = d THEN 1 ELSE 0)
      BY <1>8, <2>1, PlusCounts
    <3> QED BY <2>1, <3>1 DEF One
  <2>6. applied'[n][c] = x /\ coalesced'[n][c] = k /\ q1 = q
    BY <2>2 DEF Waits
  <2> HIDE DEF x, k, s, q, p, p1, q1, g
  <2>7. /\ applied'[n][c] + coalesced'[n][c] + q1 >= x + k + q + 0
        /\ accepted'[n][c] + p1 <= s + p + 0
    BY <1>1, <1>2, <2>4, <2>5, <2>6
  <2>8. \E gain \in Nat : /\ applied'[n][c] + coalesced'[n][c] + q1 >= x + k + q + gain
                          /\ accepted'[n][c] + p1 <= s + p + gain
    BY <2>7
  <2> QED BY <2>8 DEF x, k, s, q, p, p1, q1
<1> QED BY <1>6, <1>7, <1>9, <1>10 DEF Stops

\* A step of a replay pays for what it adds, and may spend what it has added.
LEMMA ReplayPays ==
    ASSUME Types, [Next]_vars, NEW w \in Workers, NEW n \in Nodes, NEW c \in Commands,
           BeginReplay(w) \/ Works(w) \/ Leaves(w) \/ Ends(w)
    PROVE  applied'[n][c] + Waits(n, c)' + One(Deletes(w, n, c))
              >= applied[n][c] + Waits(n, c) + One(Deletes(w, n, c)')
<1> DEFINE x == applied[n][c]
           x1 == applied'[n][c]
           q == Waits(n, c)
           q1 == Waits(n, c)'
           p == One(Deletes(w, n, c))
           p1 == One(Deletes(w, n, c)')
<1>1. x \in Nat /\ x1 \in Nat /\ x1 >= x
  BY AppliedGrows
<1>2. q \in {0, 1} /\ p \in {0, 1} /\ p1 \in {0, 1} /\ q1 \in {0, 1}
  BY DEF One, Waits
<1>3. CASE BeginReplay(w) \/ Ends(w) \/ RetainRecord(w)
  <2>1. worker'[w].phase # "delete"
    BY <1>3, BeginReplayMoves, EndMoves, LeaveMoves DEF Leaves
  <2>2. p1 = 0
    BY <2>1 DEF Deletes, One
  <2>3. queue \subseteq queue'
    BY <1>3, ReplaysFrame DEF RetainRecord
  <2>4. q1 >= q
    BY <2>3 DEF Waits, One
  <2> HIDE DEF x, x1, q, q1, p, p1
  <2>5. x1 + q1 + p >= x + q + p1
    BY <1>1, <1>2, <2>2, <2>4
  <2> QED BY <2>5 DEF x, x1, q, q1, p, p1
<1>4. CASE DeleteRecord(w)
  <2>1. worker'[w].phase # "delete" /\ worker[w].phase = "delete"
    BY <1>4, LeaveMoves DEF Leaves
  <2>2. p1 = 0
    BY <2>1 DEF Deletes, One
  <2>3. queue' = queue \ {Held(w)}
    BY <1>4 DEF DeleteRecord
  <2>4. q1 + p >= q
    BY <2>1, <2>3 DEF Waits, One, Deletes
  <2> HIDE DEF x, x1, q, q1, p, p1
  <2>5. x1 + q1 + p >= x + q + p1
    BY <1>1, <1>2, <2>2, <2>4
  <2> QED BY <2>5 DEF x, x1, q, q1, p, p1
<1>5. CASE Works(w)
  <2>1. queue' = queue /\ worker'[w].batch = worker[w].batch
    BY <1>5, ReplaysFrame, WorkMoves
  <2>2. q1 = q /\ Held(w)' = Held(w)
    BY <2>1 DEF Waits, Held
  <2>3. x1 >= x + p1
    <3>1. CASE ~(Deletes(w, n, c)')
      <4>1. p1 = 0
        BY <3>1 DEF One
      <4> HIDE DEF x, x1, p1
      <4> QED BY <1>1, <4>1
    <3>2. CASE Deletes(w, n, c)'
      <4>1. Held(w) = Hint(n, c) /\ worker'[w].phase = "delete" /\ p1 = 1
        BY <2>2, <3>2 DEF Deletes, One
      <4>2. ReplaySucceeds(w)
        BY <1>5, <4>1, WorkMoves
      <4>3. Held(w) \in Hints /\ Target(Held(w)) = n /\ Held(w)[3] = c
        BY <4>1, HintParts
      <4>4. applied' = Plus(applied, {n}, c)
        BY <4>2, <4>3 DEF ReplaySucceeds
      <4>5. applied \in Counts
        BY DEF Types, CountTypes
      <4>6. Plus(applied, {n}, c)[n][c] = x + One(n = n /\ c = c)
        BY <4>5, PlusAt
      <4>7. x1 = x + 1
        BY <4>4, <4>6 DEF One
      <4> HIDE DEF x, x1, p1
      <4> QED BY <1>1, <4>1, <4>7
    <3> QED BY <3>1, <3>2
  <2> HIDE DEF x, x1, q, q1, p, p1
  <2>5. x1 + q1 + p >= x + q + p1
    BY <1>1, <1>2, <2>2, <2>3
  <2> QED BY <2>5 DEF x, x1, q, q1, p, p1
<1> QED BY <1>3, <1>4, <1>5 DEF Leaves

\* Of the calls, and of the replays, a step changes one.
LEMMA ReachingChanges ==
    ASSUME NEW a \in Callers, Others(a), NEW n \in Nodes, NEW c \in Commands
    PROVE  /\ Cardinality(Reaching(n, c)) \in Nat /\ Cardinality(Reaching(n, c))' \in Nat
           /\ Cardinality(Reaching(n, c))' + One(Reached(a, n, c))
                = Cardinality(Reaching(n, c)) + One(Reached(a, n, c)')
<1> DEFINE S == Reaching(n, c)
           T == Reaching(n, c)'
<1>1. T \ {a} = S \ {a}
  BY DEF Reaching, Reached, Others
<1>2. (a \in S <=> Reached(a, n, c)) /\ (a \in T <=> Reached(a, n, c)')
  BY DEF Reaching
<1>3. IsFiniteSet(S)
  BY FS_Subset DEF Reaching
<1> HIDE DEF S, T
<1>4. /\ Cardinality(S) \in Nat /\ Cardinality(T) \in Nat
      /\ Cardinality(T) + One(a \in S) = Cardinality(S) + One(a \in T)
  BY <1>1, <1>3, OneChanges
<1>5. One(a \in S) = One(Reached(a, n, c)) /\ One(a \in T) = One(Reached(a, n, c)')
  BY <1>2 DEF One
<1>6. Cardinality(T) + One(Reached(a, n, c)) = Cardinality(S) + One(Reached(a, n, c)')
  BY <1>4, <1>5
<1> QED BY <1>4, <1>6 DEF S, T

LEMMA DeletingChanges ==
    ASSUME NEW w \in Workers, OtherReplays(w), NEW n \in Nodes, NEW c \in Commands
    PROVE  /\ Cardinality(Deleting(n, c)) \in Nat /\ Cardinality(Deleting(n, c))' \in Nat
           /\ Cardinality(Deleting(n, c))' + One(Deletes(w, n, c))
                = Cardinality(Deleting(n, c)) + One(Deletes(w, n, c)')
<1> DEFINE S == Deleting(n, c)
           T == Deleting(n, c)'
<1>1. T \ {w} = S \ {w}
  BY DEF Deleting, Deletes, OtherReplays, Held
<1>2. (w \in S <=> Deletes(w, n, c)) /\ (w \in T <=> Deletes(w, n, c)')
  BY DEF Deleting
<1>3. IsFiniteSet(Workers)
  BY FS_Union DEF Workers
<1>4. IsFiniteSet(S)
  BY <1>3, FS_Subset DEF Deleting
<1> HIDE DEF S, T
<1>5. /\ Cardinality(S) \in Nat /\ Cardinality(T) \in Nat
      /\ Cardinality(T) + One(w \in S) = Cardinality(S) + One(w \in T)
  BY <1>1, <1>4, OneChanges
<1>6. One(w \in S) = One(Deletes(w, n, c)) /\ One(w \in T) = One(Deletes(w, n, c)')
  BY <1>2 DEF One
<1>7. Cardinality(T) + One(Deletes(w, n, c)) = Cardinality(S) + One(Deletes(w, n, c)')
  BY <1>5, <1>6
<1> QED BY <1>5, <1>7 DEF S, T

LEMMA FiniteActors ==
    /\ \A n \in Nodes, c \in Commands :
          Cardinality(Reaching(n, c)) \in Nat /\ Cardinality(Deleting(n, c)) \in Nat
<1> SUFFICES ASSUME NEW n \in Nodes, NEW c \in Commands
             PROVE  Cardinality(Reaching(n, c)) \in Nat /\ Cardinality(Deleting(n, c)) \in Nat
  OBVIOUS
<1>1. IsFiniteSet(Workers)
  BY FS_Union DEF Workers
<1>2. Reaching(n, c) \subseteq Callers /\ Deleting(n, c) \subseteq Workers
  BY DEF Reaching, Deleting
<1> QED BY <1>1, <1>2, FS_Subset, FS_CardinalityType

LEMMA AccountsStep ==
    ASSUME Types, Accounts, [Next]_vars, NEW n \in Nodes, NEW c \in Commands
    PROVE  Paid(n, c)'
<1> DEFINE x == applied[n][c]
           x1 == applied'[n][c]
           k == coalesced[n][c]
           k1 == coalesced'[n][c]
           s == accepted[n][c]
           s1 == accepted'[n][c]
           q == Waits(n, c)
           q1 == Waits(n, c)'
           r == Cardinality(Reaching(n, c))
           r1 == Cardinality(Reaching(n, c))'
           d == Cardinality(Deleting(n, c))
           d1 == Cardinality(Deleting(n, c))'
<1>1. /\ x \in Nat /\ x1 \in Nat /\ k \in Nat /\ k1 \in Nat /\ s \in Nat /\ s1 \in Nat
      /\ q \in Nat /\ q1 \in Nat /\ r \in Nat /\ d \in Nat
  <2>1. x \in Nat /\ k \in Nat /\ s \in Nat
    BY CountsAreNumbers
  <2>2. /\ applied' \in Counts /\ accepted' \in Counts /\ coalesced' \in Counts
    BY TypesNext DEF Types, CountTypes
  <2>3. x1 \in Nat /\ k1 \in Nat /\ s1 \in Nat
    BY <2>2 DEF Counts
  <2>4. q \in Nat /\ q1 \in Nat
    BY DEF Waits, One
  <2> QED BY <2>1, <2>3, <2>4, FiniteActors
<1>2. s + r + d <= x + k + q
  BY DEF Accounts, Paid
<1>3. CASE UNCHANGED <<applied, queue, call, worker, histories>>
  <2>1. r1 = r
    BY <1>3 DEF Reaching, Reached
  <2>2. d1 = d
    BY <1>3 DEF Deleting, Deletes, Held
  <2>3. q1 = q /\ x1 = x /\ k1 = k /\ s1 = s
    BY <1>3 DEF Waits, histories
  <2>4. s1 + r1 + d1 <= x1 + k1 + q1
    BY <1>2, <2>1, <2>2, <2>3
  <2> QED BY <2>4 DEF Paid
<1>4. ASSUME NEW a \in Callers,
             \/ Begins(a) \/ Writes(a) \/ EndCalls(a) \/ EndReads(a)
             \/ EnqueueHint(a) \/ EnqueueProbe(a) \/ Reads(a) \/ Stops(a),
             worker' = worker
      PROVE  Paid(n, c)'
  <2> DEFINE p == One(Reached(a, n, c))
             p1 == One(Reached(a, n, c)')
  <2>1. PICK gain \in Nat : /\ x1 + k1 + q1 >= x + k + q + gain
                            /\ s1 + p1 <= s + p + gain
    BY <1>4, CallPays
  <2>2. Others(a)
    BY <1>4, CallsProgress
  <2>3. r1 \in Nat /\ r1 + p = r + p1
    BY <2>2, ReachingChanges
  <2>4. d1 = d
    BY <1>4 DEF Deleting, Deletes, Held
  <2>5. p \in Nat /\ p1 \in Nat
    BY DEF One
  <2> HIDE DEF x, x1, k, k1, s, s1, q, q1, r, r1, d, d1, p, p1
  <2>6. s1 + r1 + d1 <= x1 + k1 + q1
    BY <1>1, <1>2, <2>1, <2>3, <2>4, <2>5
  <2> QED BY <2>6 DEF Paid, x, x1, k, k1, s, s1, q, q1, r, r1, d, d1
<1>5. ASSUME NEW w \in Workers, BeginReplay(w) \/ Works(w) \/ Leaves(w) \/ Ends(w),
             UNCHANGED <<call, accepted, coalesced>>
      PROVE  Paid(n, c)'
  <2> DEFINE p == One(Deletes(w, n, c))
             p1 == One(Deletes(w, n, c)')
  <2>1. x1 + q1 + p >= x + q + p1
    BY <1>5, ReplayPays
  <2>2. OtherReplays(w)
    BY <1>5, BeginReplayMoves, WorkMoves, LeaveMoves, EndMoves
  <2>3. d1 \in Nat /\ d1 + p = d + p1
    BY <2>2, DeletingChanges
  <2>4. r1 = r
    BY <1>5 DEF Reaching, Reached
  <2>5. p \in Nat /\ p1 \in Nat
    BY DEF One
  <2>6. k1 = k /\ s1 = s
    BY <1>5
  <2> HIDE DEF x, x1, k, k1, s, s1, q, q1, r, r1, d, d1, p, p1
  <2>7. s1 + r1 + d1 <= x1 + k1 + q1
    BY <1>1, <1>2, <2>1, <2>3, <2>4, <2>5, <2>6
  <2> QED BY <2>7 DEF Paid, x, x1, k, k1, s, s1, q, q1, r, r1, d, d1
<1>6. UNCHANGED vars => UNCHANGED <<applied, queue, call, worker, histories>>
  BY DEF vars, histories
<1> QED BY <1>3, <1>4, <1>5, <1>6, StepKinds

LEMMA InitialAccounts == Init => Accounts
<1> SUFFICES ASSUME Init, NEW n \in Nodes, NEW c \in Commands PROVE Paid(n, c)
  BY DEF Accounts
<1>1. /\ applied[n][c] = 0 /\ accepted[n][c] = 0 /\ coalesced[n][c] = 0
  BY DEF Init, NoCounts
<1>2. Reaching(n, c) = {} /\ Deleting(n, c) = {}
  BY NoCallProgress DEF Init, Reaching, Reached, Deleting, Deletes, NoReplay
<1>3. Waits(n, c) = 0
  BY DEF Init, Waits, One
<1> QED BY <1>1, <1>2, <1>3, FS_EmptySet DEF Paid

\* Every replica that an acknowledged write planned has applied its command,
\* or the hint waits: failing replays, replays that overlap and errors of the
\* queue lose none.
THEOREM AckedAlwaysReach == Spec => []AckedReachEveryReplica
<1>1. Types /\ Accounts => AckedReachEveryReplica
  <2> SUFFICES ASSUME Types, Accounts, NEW n \in Nodes, NEW c \in Commands
               PROVE  accepted[n][c] <= applied[n][c] + coalesced[n][c] + Waits(n, c)
    BY DEF AckedReachEveryReplica, Waits, One
  <2> DEFINE x == applied[n][c]
             k == coalesced[n][c]
             s == accepted[n][c]
             q == Waits(n, c)
             r == Cardinality(Reaching(n, c))
             d == Cardinality(Deleting(n, c))
  <2>1. s + r + d <= x + k + q
    BY DEF Accounts, Paid
  <2>2. x \in Nat /\ k \in Nat /\ s \in Nat /\ r \in Nat /\ d \in Nat
    BY CountsAreNumbers, FiniteActors
  <2>3. q \in Nat
    BY DEF Waits, One
  <2> HIDE DEF x, k, s, q, r, d
  <2>4. s <= x + k + q
    BY <2>1, <2>2, <2>3
  <2> QED BY <2>4 DEF x, k, s, q
<1>2. Types /\ Accounts /\ [Next]_vars => Accounts'
  BY AccountsStep DEF Accounts
<1> QED BY <1>1, <1>2, InitialAccounts, TypesAlways, PTL DEF Spec

----------------------------------------------------------------------------
(* What is due.                                                            *)

\* The write of a has a hint to enqueue for n.
Pending(a, n, c) ==
    /\ call[a].command = c
    /\ \/ call[a].phase = "write" /\ n \in call[a].failed
       \/ call[a].phase = "hint" /\ n \in call[a].todo
Pendings(n, c) == {a \in Callers : Pending(a, n, c)}

\* The hint waits and no replay has just applied it.
Fresh(n, c) == One(Hint(n, c) \in queue /\ \A w \in Workers : ~Deletes(w, n, c))

Due(n, c) == Hint(n, c) \notin excused =>
                applied[n][c] + Cardinality(Pendings(n, c)) + Fresh(n, c) <= sent[n][c]

AllDue == \A n \in Nodes, c \in Commands : Due(n, c)

LEMMA FreshFalls ==
    ASSUME NEW n \in Nodes, NEW c \in Commands,
           Hint(n, c) \in queue' => Hint(n, c) \in queue,
           \A w \in Workers : Deletes(w, n, c) => Deletes(w, n, c)'
    PROVE  Fresh(n, c)' <= Fresh(n, c)
  BY DEF Fresh, One

LEMMA PendingsChange ==
    ASSUME NEW a \in Callers, Others(a), NEW n \in Nodes, NEW c \in Commands
    PROVE  /\ Cardinality(Pendings(n, c)) \in Nat /\ Cardinality(Pendings(n, c))' \in Nat
           /\ Cardinality(Pendings(n, c))' + One(Pending(a, n, c))
                = Cardinality(Pendings(n, c)) + One(Pending(a, n, c)')
<1> DEFINE S == Pendings(n, c)
           T == Pendings(n, c)'
<1>1. T \ {a} = S \ {a}
  BY DEF Pendings, Pending, Others
<1>2. (a \in S <=> Pending(a, n, c)) /\ (a \in T <=> Pending(a, n, c)')
  BY DEF Pendings
<1>3. IsFiniteSet(S)
  BY FS_Subset DEF Pendings
<1> HIDE DEF S, T
<1>4. /\ Cardinality(S) \in Nat /\ Cardinality(T) \in Nat
      /\ Cardinality(T) + One(a \in S) = Cardinality(S) + One(a \in T)
  BY <1>1, <1>3, OneChanges
<1>5. One(a \in S) = One(Pending(a, n, c)) /\ One(a \in T) = One(Pending(a, n, c)')
  BY <1>2 DEF One
<1>6. Cardinality(T) + One(Pending(a, n, c)) = Cardinality(S) + One(Pending(a, n, c)')
  BY <1>4, <1>5
<1> QED BY <1>4, <1>6 DEF S, T

\* A write that is sent once is applied at most once, now or by a replay.
LEMMA CallDue ==
    ASSUME Types, NEW a \in Callers, NEW n \in Nodes, NEW c \in Commands,
           \/ Begins(a) \/ Writes(a) \/ EndCalls(a) \/ EndReads(a)
           \/ EnqueueHint(a) \/ EnqueueProbe(a) \/ Reads(a) \/ Stops(a),
           worker' = worker, Hint(n, c) \notin excused'
    PROVE  applied'[n][c] + One(Pending(a, n, c)') + Fresh(n, c)' + sent[n][c]
              <= applied[n][c] + One(Pending(a, n, c)) + Fresh(n, c) + sent'[n][c]
<1> DEFINE x == applied[n][c]
           x1 == applied'[n][c]
           s == sent[n][c]
           s1 == sent'[n][c]
           p == One(Pending(a, n, c))
           p1 == One(Pending(a, n, c)')
           f == Fresh(n, c)
           f1 == Fresh(n, c)'
           Goal == x1 + p1 + f1 + s <= x + p + f + s1
<1>1. x \in Nat /\ s \in Nat
  BY CountsAreNumbers
<1>2. p \in {0, 1} /\ p1 \in {0, 1} /\ f \in {0, 1} /\ f1 \in {0, 1}
  BY DEF One, Fresh
<1>3. call[a] \in Calls /\ Progress(call[a])
  BY DEF Types, CallTypes
<1>4. \A w \in Workers : Deletes(w, n, c)' <=> Deletes(w, n, c)
  BY DEF Deletes, Held
<1>5. CASE \/ Begins(a) \/ EndReads(a) \/ Reads(a) \/ EndRead(a) \/ EnqueueFails(a)
           \/ EnqueueProbe(a) \/ EndCalls(a) \/ EndWrite(a)
  <2>1. UNCHANGED <<applied, sent>>
    BY <1>5, CallsFrame
  <2>2. Hint(n, c) \in queue' => Hint(n, c) \in queue
    <3>1. CASE EnqueueProbe(a)
      <4>1. queue' = queue \cup {Probe(Min(call[a].todo))}
        BY <3>1 DEF EnqueueProbe
      <4> QED BY <4>1 DEF Hint, Probe
    <3> QED BY <1>5, <3>1, CallsFrame
  <2>3. Pending(a, n, c)' => Pending(a, n, c)
    <3>1. CASE Begins(a)
      <4>1. call'[a].phase = "read" \/ (call'[a].phase = "write" /\ call'[a].failed = {})
        BY <3>1, BeginWriteMoves, BeginReadMoves DEF Begins
      <4> QED BY <4>1 DEF Pending
    <3>2. CASE Reads(a)
      <4>1. call'[a].phase = "read"
        BY <3>2, ReadMoves DEF Reads
      <4> QED BY <4>1 DEF Pending
    <3>3. CASE EndRead(a) \/ EnqueueFails(a) \/ EndWrite(a)
      <4>1. call' = [call EXCEPT ![a] = NoCall]
        BY <3>3 DEF EndRead, EnqueueFails, EndWrite
      <4>2. call'[a].phase = "idle"
        BY <4>1, CallEnds, NoCallProgress
      <4> QED BY <4>2 DEF Pending
    <3>4. CASE EnqueueProbe(a)
      <4>1. call'[a].phase = "probe"
        BY <3>4, EnqueueMoves
      <4> QED BY <4>1 DEF Pending
    <3>5. CASE EndCalls(a) \/ EndReads(a)
      <4>1. CASE call'[a].phase \in {"idle", "probe"}
        BY <4>1 DEF Pending
      <4>2. CASE call'[a].phase \notin {"idle", "probe"}
        <5>1. /\ call[a].phase = "write" /\ call'[a].phase = "hint"
              /\ call'[a].command = call[a].command /\ call'[a].todo = call[a].failed
          BY <3>5, <4>2, EndCallsMoves, NoCallProgress DEF Same, Next3
        <5> QED BY <5>1 DEF Pending
      <4> QED BY <4>1, <4>2
    <3> QED BY <1>5, <3>1, <3>2, <3>3, <3>4, <3>5
  <2>4. p1 <= p
    BY <2>3 DEF One
  <2>5. f1 <= f
    BY <1>4, <2>2, FreshFalls
  <2>6. x1 = x /\ s1 = s
    BY <2>1
  <2> HIDE DEF x, x1, s, s1, p, p1, f, f1
  <2> QED BY <1>1, <1>2, <2>4, <2>5, <2>6 DEF x, x1, s, s1, p, p1, f, f1
<1>6. CASE Writes(a)
  <2> DEFINE m == Min(call[a].todo)
             d == call[a].command
             g == One(n = m /\ c = d)
  <2>1. /\ m \in Nodes /\ d \in Commands /\ m \in call[a].todo
        /\ call[a].phase = "write" /\ call'[a].phase = "write" /\ call'[a].command = d
        /\ \/ ApplyReplica(a) /\ call'[a].failed = call[a].failed
           \/ /\ ApplyReplicaFails(a) \/ ApplyReplicaAnswerLost(a)
              /\ call'[a].failed = call[a].failed \cup {m}
    BY <1>6, ApplyMoves DEF Writes, Same
  <2>2. queue' = queue
    BY <1>6, CallsFrame
  <2>3. g \in {0, 1}
    BY DEF One
  <2>4. /\ sent' = Plus(sent, {m}, d)
        /\ \/ applied' = Plus(applied, {m}, d) /\ call'[a].failed = call[a].failed
           \/ applied' = applied
           \/ applied' = Plus(applied, {m}, d) /\ Hint(m, d) \in excused'
    BY <2>1 DEF ApplyReplica, ApplyReplicaFails, ApplyReplicaAnswerLost
  <2>5. p1 <= p + g /\ (call'[a].failed = call[a].failed => p1 <= p)
    BY <2>1 DEF Pending, One
  <2>6. f1 <= f
    BY <1>4, <2>2, FreshFalls
  <2>7. Hint(m, d) \in excused' => g = 0
    BY DEF One
  <2> HIDE DEF m, d
  <2>8. applied \in Counts /\ sent \in Counts
    BY DEF Types, CountTypes
  <2>9. Plus(applied, {m}, d)[n][c] = x + g
    BY <2>1, <2>8, PlusAt
  <2>10. Plus(sent, {m}, d)[n][c] = s + g
    BY <2>1, <2>8, PlusAt
  <2>11. /\ s1 = s + g
         /\ \/ x1 = x + g /\ p1 <= p
            \/ x1 = x
            \/ x1 = x + g /\ g = 0
    BY <2>4, <2>5, <2>7, <2>9, <2>10
  <2> HIDE DEF x, x1, s, s1, p, p1, f, f1, g
  <2> QED BY <1>1, <1>2, <2>3, <2>5, <2>6, <2>11 DEF x, x1, s, s1, p, p1, f, f1
<1>7. CASE EnqueueHint(a)
  <2> DEFINE m == Min(call[a].todo)
             d == call[a].command
  <2>1. /\ m \in Nodes /\ d \in Commands /\ m \in call[a].todo
        /\ call[a].phase = "hint" /\ call'[a].phase = "hint" /\ call'[a].command = d
        /\ call'[a].todo = call[a].todo \ {m} /\ call[a].command = d
    BY <1>7, EnqueueMoves DEF Same, Next3
  <2>2. x1 = x /\ s1 = s
    BY <1>7, CallsFrame
  <2>3. queue' = queue \cup {Hint(m, d)}
    BY <1>7 DEF EnqueueHint
  <2> HIDE DEF m, d
  <2>4. p1 + f1 <= p + f
    <3>1. CASE n = m /\ c = d
      <4>1. Pending(a, n, c) /\ ~(Pending(a, n, c)')
        BY <2>1, <3>1 DEF Pending
      <4>2. p = 1 /\ p1 = 0
        BY <4>1 DEF One
      <4> HIDE DEF p, p1, f, f1
      <4>3. p1 + f1 <= p + f
        BY <1>2, <4>2
      <4> QED BY <4>3 DEF p, p1, f, f1
    <3>2. CASE ~(n = m /\ c = d)
      <4>1. Pending(a, n, c)' => Pending(a, n, c)
        BY <2>1 DEF Pending
      <4>2. p1 <= p
        BY <4>1 DEF One
      <4>3. Hint(n, c) # Hint(m, d)
        BY <2>1, <3>2, HintParts
      <4>4. f1 <= f
        BY <1>4, <2>3, <4>3, FreshFalls
      <4> HIDE DEF p, p1, f, f1
      <4>5. p1 + f1 <= p + f
        BY <1>2, <4>2, <4>4
      <4> QED BY <4>5 DEF p, p1, f, f1
    <3> QED BY <3>1, <3>2
  <2> HIDE DEF x, x1, s, s1, p, p1, f, f1
  <2>5. x1 + p1 + f1 + s <= x + p + f + s1
    BY <1>1, <1>2, <2>2, <2>4
  <2> QED BY <2>5 DEF x, x1, s, s1, p, p1, f, f1
<1> QED BY <1>5, <1>6, <1>7 DEF Stops

\* Plus leaves the other counts alone.
LEMMA PlusElsewhere ==
    ASSUME NEW counts \in Counts, NEW m \in Nodes, NEW d \in Commands,
           NEW n \in Nodes, NEW c \in Commands, ~(n = m /\ c = d),
           NEW more, more = Plus(counts, {m}, d)
    PROVE  more[n][c] = counts[n][c]
<1> DEFINE S == {m}
<1>1. more = Plus(counts, S, d) /\ (n \in S <=> n = m)
  OBVIOUS
<1> HIDE DEF S
<1>2. ~(n \in S /\ c = d)
  BY <1>1
<1>3. Plus(counts, S, d)[n][c] = counts[n][c]
  BY <1>2, PlusOut
<1> QED BY <1>1, <1>3

\* A replay applies a fresh hint, or one that is excused.
LEMMA ReplayDue ==
    ASSUME Types, NEW w \in Workers, NEW n \in Nodes, NEW c \in Commands,
           BeginReplay(w) \/ Works(w) \/ Leaves(w) \/ Ends(w), Hint(n, c) \notin excused'
    PROVE  applied'[n][c] + Fresh(n, c)' <= applied[n][c] + Fresh(n, c)
<1> DEFINE x == applied[n][c]
           x1 == applied'[n][c]
           f == Fresh(n, c)
           f1 == Fresh(n, c)'
           h == Hint(n, c)
<1>1. x \in Nat
  BY CountsAreNumbers
<1>2. f \in {0, 1} /\ f1 \in {0, 1}
  BY DEF One, Fresh
<1>3. h \in Hints /\ Target(h) = n /\ h[3] = c
  BY HintParts
<1>4. \A v \in Workers \ {w} : Deletes(v, n, c)' <=> Deletes(v, n, c)
  <2>1. OtherReplays(w)
    BY BeginReplayMoves, WorkMoves, LeaveMoves, EndMoves
  <2> QED BY <2>1 DEF OtherReplays, Deletes, Held
<1>5. ASSUME h \in queue' => h \in queue, Deletes(w, n, c) => Deletes(w, n, c)', x1 = x
      PROVE  x1 + f1 <= x + f
  <2>1. f1 <= f
    BY <1>4, <1>5, FreshFalls
  <2> HIDE DEF x, x1, f, f1
  <2> QED BY <1>1, <1>2, <1>5, <2>1
<1>6. CASE BeginReplay(w)
  <2>1. worker[w].phase = "idle" /\ queue' = queue /\ x1 = x
    BY <1>6, BeginReplayMoves, ReplaysFrame
  <2>2. ~Deletes(w, n, c)
    BY <2>1 DEF Deletes
  <2> QED BY <1>5, <2>1, <2>2
<1>7. CASE Ends(w)
  <2>1. queue' = queue /\ x1 = x
    BY <1>7, ReplaysFrame
  <2>2. ~Deletes(w, n, c)
    BY <1>3, <1>7 DEF Ends, QueueFails, Shutdown, Deletes
  <2> QED BY <1>5, <2>1, <2>2
<1>8. CASE RetainRecord(w)
  <2>1. worker[w].phase = "retain" /\ x1 = x
    BY <1>8 DEF RetainRecord
  <2>2. h \in queue' => h \in queue
    BY <1>3, <1>8 DEF RetainRecord
  <2>3. ~Deletes(w, n, c)
    BY <2>1 DEF Deletes
  <2> QED BY <1>5, <2>1, <2>2, <2>3
<1>9. CASE DeleteRecord(w)
  <2>1. queue' = queue \ {Held(w)} /\ x1 = x /\ worker[w].phase = "delete"
    BY <1>9 DEF DeleteRecord
  <2>2. CASE Held(w) = h
    <3>1. f1 = 0
      BY <2>1, <2>2 DEF Fresh, One
    <3>2. x1 = x
      BY <2>1
    <3> HIDE DEF x, x1, f, f1
    <3>3. x1 + f1 <= x + f
      BY <1>1, <1>2, <3>1, <3>2
    <3> QED BY <3>3 DEF x, x1, f, f1
  <2>3. CASE Held(w) # h
    <3>1. ~Deletes(w, n, c)
      BY <2>3 DEF Deletes
    <3> QED BY <1>5, <2>1, <3>1
  <2> QED BY <2>2, <2>3
<1>10. CASE Works(w)
  <2>1. /\ queue' = queue /\ worker[w].phase = "replay" /\ worker'[w].batch = worker[w].batch
        /\ Held(w) \in worker[w].batch
    BY <1>10, ReplaysFrame, WorkMoves
  <2>2. ~Deletes(w, n, c)
    BY <2>1 DEF Deletes
  <2>3. CASE Held(w) # h
    <3>1. x1 = x
      <4>1. CASE applied' = applied
        BY <4>1
      <4>2. ASSUME NEW i \in Nodes, NEW j \in Commands, Held(w) = Hint(i, j),
                   applied' = Plus(applied, {i}, j)
            PROVE  x1 = x
        <5>1. ~(n = i /\ c = j)
          BY <2>3, <4>2
        <5>2. applied \in Counts
          BY DEF Types, CountTypes
        <5> HIDE CassandraAssumption
        <5> QED BY <4>2, <5>1, <5>2, PlusElsewhere
      <4>3. \/ applied' = applied
            \/ \E m \in Nodes, d \in Commands :
                  Held(w) = Hint(m, d) /\ applied' = Plus(applied, {m}, d)
        BY <1>10, WorksApply
      <4> QED BY <4>1, <4>2, <4>3
    <3> QED BY <1>5, <2>1, <2>2, <3>1
  <2>4. CASE Held(w) = h /\ ReplayFails(w)
    <3>1. x1 = x
      BY <2>4 DEF ReplayFails
    <3> QED BY <1>5, <2>1, <2>2, <3>1
  <2>5. CASE Held(w) = h /\ ~ReplayFails(w)
    <3>1. ReplaySucceeds(w) /\ ~Overlapped(w, h)
      BY <1>3, <1>10, <2>5 DEF Works, ReplaySucceeds, ReplayAnswerLost
    <3>2. h \in queue /\ \A v \in Workers \ {w} : h \notin worker[v].batch
      BY <3>1 DEF Overlapped
    <3>3. \A v \in Workers : ~Deletes(v, n, c)
      BY <2>2, <3>2, HeldIsInTheBatch DEF Deletes
    <3>4. f = 1
      BY <3>2, <3>3 DEF Fresh, One
    <3>5. Deletes(w, n, c)'
      BY <1>10, <2>1, <2>5, <3>1, WorkMoves DEF Deletes, Held
    <3>6. f1 = 0
      BY <3>5 DEF Fresh, One
    <3>7. applied' = Plus(applied, {n}, c) /\ applied \in Counts
      BY <1>3, <2>5, <3>1 DEF ReplaySucceeds, Types, CountTypes
    <3>8. Plus(applied, {n}, c)[n][c] = x + One(n = n /\ c = c)
      <4> HIDE CassandraAssumption
      <4> QED BY <3>7, PlusAt
    <3>9. x1 = x + 1
      BY <3>7, <3>8 DEF One
    <3> HIDE DEF x, x1, f, f1
    <3>10. x1 + f1 <= x + f
      BY <1>1, <3>4, <3>6, <3>9
    <3> QED BY <3>10 DEF x, x1, f, f1
  <2> QED BY <2>3, <2>4, <2>5
<1> QED BY <1>6, <1>7, <1>8, <1>9, <1>10 DEF Leaves

LEMMA ExcusedGrows ==
    ASSUME [Next]_vars
    PROVE  excused \subseteq excused'
<1>1. ASSUME NEW a \in Callers, Writes(a) PROVE excused \subseteq excused'
  BY <1>1 DEF Writes, ApplyReplica, ApplyReplicaFails, ApplyReplicaAnswerLost
<1>2. ASSUME NEW a \in Callers,
             \/ Begins(a) \/ EndCalls(a) \/ EndReads(a)
             \/ EnqueueHint(a) \/ EnqueueProbe(a) \/ Reads(a) \/ Stops(a)
      PROVE  excused' = excused
  BY <1>2, CallsFrame DEF Stops
<1>3. ASSUME NEW w \in Workers, BeginReplay(w) \/ Works(w) \/ Leaves(w) \/ Ends(w)
      PROVE  excused \subseteq excused'
  <2>1. CASE BeginReplay(w)
    BY <2>1, ReplaysFrame
  <2>2. CASE Works(w)
    BY <2>2 DEF Works, ReplaySucceeds, ReplayFails, ReplayAnswerLost, histories
  <2>3. CASE Leaves(w)
    BY <2>3 DEF Leaves, DeleteRecord, RetainRecord, histories
  <2>4. CASE Ends(w)
    BY <2>4 DEF Ends, QueueFails, Shutdown, histories
  <2> QED BY <1>3, <2>1, <2>2, <2>3, <2>4
<1> QED BY <1>1, <1>2, <1>3, StepKinds DEF vars, histories

LEMMA DueStep ==
    ASSUME Types, AllDue, [Next]_vars, NEW n \in Nodes, NEW c \in Commands
    PROVE  Due(n, c)'
<1> DEFINE x == applied[n][c]
           x1 == applied'[n][c]
           s == sent[n][c]
           s1 == sent'[n][c]
           f == Fresh(n, c)
           f1 == Fresh(n, c)'
           r == Cardinality(Pendings(n, c))
           r1 == Cardinality(Pendings(n, c))'
<1> SUFFICES ASSUME Hint(n, c) \notin excused' PROVE x1 + r1 + f1 <= s1
  BY DEF Due
<1>1. /\ x \in Nat /\ x1 \in Nat /\ s \in Nat /\ s1 \in Nat /\ f \in Nat /\ f1 \in Nat
      /\ r \in Nat
  <2>1. x \in Nat /\ s \in Nat
    BY CountsAreNumbers
  <2>2. applied' \in Counts /\ sent' \in Counts
    BY TypesNext DEF Types, CountTypes
  <2>3. x1 \in Nat /\ s1 \in Nat
    BY <2>2 DEF Counts
  <2>4. f \in Nat /\ f1 \in Nat
    BY DEF Fresh, One
  <2>5. Pendings(n, c) \subseteq Callers
    BY DEF Pendings
  <2>6. r \in Nat
    BY <2>5, FS_Subset, FS_CardinalityType
  <2> QED BY <2>1, <2>3, <2>4, <2>6
<1>2. x + r + f <= s
  <2>1. Hint(n, c) \notin excused
    BY ExcusedGrows
  <2> QED BY <2>1 DEF AllDue, Due
<1>3. CASE UNCHANGED <<applied, queue, call, worker, histories>>
  <2>1. r1 = r
    BY <1>3 DEF Pendings, Pending
  <2>2. f1 = f
    BY <1>3 DEF Fresh, Deletes, Held
  <2>3. x1 = x /\ s1 = s
    BY <1>3 DEF histories
  <2> QED BY <1>2, <2>1, <2>2, <2>3
<1>4. ASSUME NEW a \in Callers,
             \/ Begins(a) \/ Writes(a) \/ EndCalls(a) \/ EndReads(a)
             \/ EnqueueHint(a) \/ EnqueueProbe(a) \/ Reads(a) \/ Stops(a),
             worker' = worker
      PROVE  x1 + r1 + f1 <= s1
  <2> DEFINE p == One(Pending(a, n, c))
             p1 == One(Pending(a, n, c)')
  <2>1. x1 + p1 + f1 + s <= x + p + f + s1
    BY <1>4, CallDue
  <2>2. Others(a)
    BY <1>4, CallsProgress
  <2>3. r1 \in Nat /\ r1 + p = r + p1
    BY <2>2, PendingsChange
  <2>4. p \in Nat /\ p1 \in Nat
    BY DEF One
  <2> HIDE DEF x, x1, s, s1, f, f1, r, r1, p, p1
  <2> QED BY <1>1, <1>2, <2>1, <2>3, <2>4
<1>5. ASSUME NEW w \in Workers, BeginReplay(w) \/ Works(w) \/ Leaves(w) \/ Ends(w),
             UNCHANGED <<call, sent>>
      PROVE  x1 + r1 + f1 <= s1
  <2>1. x1 + f1 <= x + f
    BY <1>5, ReplayDue
  <2>2. r1 = r
    BY <1>5 DEF Pendings, Pending
  <2>3. s1 = s
    BY <1>5
  <2> HIDE DEF x, x1, s, s1, f, f1, r, r1
  <2> QED BY <1>1, <1>2, <2>1, <2>2, <2>3
<1>6. UNCHANGED vars => UNCHANGED <<applied, queue, call, worker, histories>>
  BY DEF vars, histories
<1> HIDE DEF x, x1, s, s1, f, f1, r, r1
<1> QED BY <1>3, <1>4, <1>5, <1>6, StepKinds

LEMMA InitiallyDue == Init => AllDue
<1> SUFFICES ASSUME Init, NEW n \in Nodes, NEW c \in Commands PROVE Due(n, c)
  BY DEF AllDue
<1>1. /\ applied[n][c] = 0 /\ sent[n][c] = 0
  BY DEF Init, NoCounts
<1>2. Pendings(n, c) = {}
  BY NoCallProgress DEF Init, Pendings, Pending
<1>3. Fresh(n, c) = 0
  BY DEF Init, Fresh, One
<1> QED BY <1>1, <1>2, <1>3, FS_EmptySet DEF Due

\* Replays apply what is due and nothing else: no command of refused writes
\* only, and none more often than writes of it were sent to the replica, but
\* where an answer was lost, two replays overlapped, or the record of a
\* successful replay could not be deleted.
THEOREM ReplaysAlwaysDue == Spec => []ReplaysAreDue
<1>1. Types /\ AllDue /\ RefusedWritesAreNotReplayed => ReplaysAreDue
  <2> SUFFICES ASSUME Types, AllDue, NEW n \in Nodes, NEW c \in Commands,
                      applied[n][c] > sent[n][c], Hint(n, c) \notin excused
               PROVE  FALSE
    BY DEF ReplaysAreDue
  <2> DEFINE x == applied[n][c]
             s == sent[n][c]
             f == Fresh(n, c)
             r == Cardinality(Pendings(n, c))
  <2>1. x + r + f <= s /\ x > s
    BY DEF AllDue, Due
  <2>2. x \in Nat /\ s \in Nat /\ f \in Nat
    BY CountsAreNumbers DEF Fresh, One
  <2>3. Pendings(n, c) \subseteq Callers
    BY DEF Pendings
  <2>4. r \in Nat
    BY <2>3, FS_Subset, FS_CardinalityType
  <2> HIDE DEF x, s, f, r
  <2> QED BY <2>1, <2>2, <2>4
<1>2. Types /\ AllDue /\ [Next]_vars => AllDue'
  BY DueStep DEF AllDue
<1> QED BY <1>1, <1>2, InitiallyDue, TypesAlways, RefusedNeverReplayed, PTL DEF Spec
=============================================================================
