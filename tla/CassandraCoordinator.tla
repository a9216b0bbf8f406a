------------------------ MODULE CassandraCoordinator ------------------------
(***************************************************************************)
(* The leaderless replication the engine builds for distributed Cypher:    *)
(* CassandraCoordinator (write and read one placement at a consistency     *)
(* level), the plans TopologyRegistry makes for it from the health of the  *)
(* participants, DurableRepairQueue, and the replays of its records by     *)
(* ScheduledRepairWorker and by replay_repairs.                            *)
(*                                                                         *)
(* One placement and one key.  A command is the mutation a write carries:  *)
(* two writes may carry the same one (the same query twice), and then it   *)
(* has to be applied twice.  The transport is external: a call to a        *)
(* replica fails, and may have been applied nevertheless.                  *)
(***************************************************************************)
EXTENDS Integers, FiniteSets, FiniteSetsExt

CONSTANTS
    Nodes,            \* the participants, numbered in the order of their ids
    Local,            \* those in the region of the requests
    Commands,         \* numbered in the order of their hashes
    Levels,           \* the consistency levels the callers ask for
    Callers,          \* clients of the coordinators
    Scheduled,        \* ScheduledRepairWorkers
    Manual,           \* callers of replay_repairs
    MaxRecords,       \* max_records_per_tick
    MaxCalls,         \* bound: writes and reads begun
    MaxFailures,      \* bound: failed or lost calls to a node that answers
    MaxFaults         \* bound: participants that stop answering, changes of
                      \*        registered health, failing queue operations

ASSUME CassandraAssumption ==
    /\ Nodes \subseteq Nat \ {0} /\ Nodes # {} /\ IsFiniteSet(Nodes)
    /\ Local \subseteq Nodes
    /\ Commands \subseteq Nat \ {0} /\ IsFiniteSet(Commands)
    /\ Levels \subseteq {"one", "quorum", "all", "local_quorum"}
    /\ Scheduled \cap Manual = {}
    /\ IsFiniteSet(Callers) /\ IsFiniteSet(Scheduled) /\ IsFiniteSet(Manual)
    /\ MaxRecords \in Nat \ {0}

VARIABLES
    health,     \* the registered health of each participant
    reachable,  \* the participants that answer calls at all
    applied,    \* how often each participant has applied each command
    queue,      \* the identities of the records in the repair queue
    call,       \* what each caller's coordinator is doing
    worker,     \* what each replay of the queue is doing
    budget,     \* what is left of each bound
    accepted,   \* history: acknowledged writes, by planned node and command
    sent,       \* history: attempts of a write at a node, by node and command
    coalesced,  \* history: records enqueued over an equal one
    quorumMet,  \* history: commands of a write that met its requirement
    covered,    \* history: plans of acknowledged writes at quorum or all
    excused     \* history: records whose command may reach its target twice

vars == <<health, reachable, applied, queue, call, worker, budget, accepted,
          sent, coalesced, quorumMet, covered, excused>>

Workers == Scheduled \cup Manual
Healths == {"healthy", "degraded", "unreachable"}

\* RepairRecord::id is a hash of the kind, the target and the command or key:
\* "hint:" sorts before "read:", then the target decides, then the hash.
Hint(n, c) == <<1, n, c>>
Probe(n) == <<2, n, 0>>
Hints == {Hint(n, c) : n \in Nodes, c \in Commands}
Records == Hints \cup {Probe(n) : n \in Nodes}
Target(r) == r[2]
Before(r, s) ==
    \/ r[1] < s[1]
    \/ r[1] = s[1] /\ r[2] < s[2]
    \/ r[1] = s[1] /\ r[2] = s[2] /\ r[3] < s[3]
FirstOf(S) == CHOOSE r \in S : \A s \in S \ {r} : Before(r, s)

NoCounts == [n \in Nodes |-> [c \in Commands |-> 0]]
Plus(counts, S, c) ==
    [n \in Nodes |-> [counts[n] EXCEPT ![c] = IF n \in S THEN @ + 1 ELSE @]]

NoCall ==
    [phase |-> "idle", command |-> 0, level |-> "one", plan |-> {}, todo |-> {},
     answered |-> {}, failed |-> {}, found |-> FALSE, covered |-> FALSE]

NoReplay == [phase |-> "idle", batch |-> {}]

Spend(what) == /\ budget[what] > 0
               /\ budget' = [budget EXCEPT ![what] = @ - 1]

Init ==
    /\ health = [n \in Nodes |-> "healthy"]
    /\ reachable = Nodes
    /\ applied = NoCounts
    /\ queue = {}
    /\ call = [a \in Callers |-> NoCall]
    /\ worker = [w \in Workers |-> NoReplay]
    /\ budget = [calls |-> MaxCalls, failures |-> MaxFailures, faults |-> MaxFaults]
    /\ accepted = NoCounts
    /\ sent = NoCounts
    /\ coalesced = NoCounts
    /\ quorumMet = {}
    /\ covered = {}
    /\ excused = {}

histories == <<accepted, sent, coalesced, quorumMet, covered, excused>>

(***************************************************************************)
(* Plans.                                                                  *)
(***************************************************************************)

\* Mutant: half of the replicas instead of a majority.
RequiredHalf(level, plan) ==
    IF level = "quorum" THEN (Cardinality(plan) + 1) \div 2
    ELSE IF level = "all" THEN Cardinality(plan) ELSE 1

\* ConsistencyLevel::required, of the planned replicas.  A local quorum is
\* computed from the planned replicas of the region.
Required(level, plan) ==
    CASE level = "one" -> 1
      [] level = "quorum" -> Cardinality(plan) \div 2 + 1
      [] level = "all" -> IF plan = {} THEN 1 ELSE Cardinality(plan)
      [] level = "local_quorum" ->
            (IF plan \cap Local = {} THEN 1 ELSE Cardinality(plan \cap Local))
                \div 2 + 1

\* The participants plan_write_with_consistency and plan_read choose: a
\* degraded peer serves reads and accepts no writes.
WritePlan == {n \in Nodes : health[n] = "healthy"}
ReadPlan == {n \in Nodes : health[n] \in {"healthy", "degraded"}}

\* Another operation of the engine registers a peer again, in another health.
RegisterPeer(n, h) ==
    /\ health[n] # h
    /\ Spend("faults")
    /\ health' = [health EXCEPT ![n] = h]
    /\ UNCHANGED <<reachable, applied, queue, call, worker, histories>>

\* A participant stops answering, whatever its registered health.
StopAnswering(n) ==
    /\ n \in reachable
    /\ Spend("faults")
    /\ reachable' = reachable \ {n}
    /\ UNCHANGED <<health, applied, queue, call, worker, histories>>

(***************************************************************************)
(* CassandraCoordinator::write.                                            *)
(***************************************************************************)
BeginWrite(a, c, level) ==
    /\ call[a].phase = "idle"
    /\ Cardinality(WritePlan) >= Required(level, WritePlan)
    /\ Spend("calls")
    /\ call' = [call EXCEPT ![a] = [NoCall EXCEPT !.phase = "write",
                    !.command = c, !.level = level, !.plan = WritePlan,
                    !.todo = WritePlan]]
    /\ UNCHANGED <<health, reachable, applied, queue, worker, histories>>

\* The replica answers: it has applied the command.
ApplyReplica(a) ==
    LET n == Min(call[a].todo)
    IN /\ call[a].phase = "write" /\ call[a].todo # {}
       /\ n \in reachable
       /\ applied' = Plus(applied, {n}, call[a].command)
       /\ sent' = Plus(sent, {n}, call[a].command)
       /\ call' = [call EXCEPT ![a].todo = @ \ {n}, ![a].answered = @ \cup {n}]
       /\ UNCHANGED <<health, reachable, queue, worker, budget, accepted,
                      coalesced, quorumMet, covered, excused>>

\* The call fails and the replica has not applied the command.
ApplyReplicaFails(a) ==
    LET n == Min(call[a].todo)
    IN /\ call[a].phase = "write" /\ call[a].todo # {}
       /\ IF n \in reachable THEN Spend("failures") ELSE UNCHANGED budget
       /\ sent' = Plus(sent, {n}, call[a].command)
       /\ call' = [call EXCEPT ![a].todo = @ \ {n}, ![a].failed = @ \cup {n}]
       /\ UNCHANGED <<health, reachable, applied, queue, worker, accepted,
                      coalesced, quorumMet, covered, excused>>

\* The call fails although the replica has applied the command.
ApplyReplicaAnswerLost(a) ==
    LET n == Min(call[a].todo)
    IN /\ call[a].phase = "write" /\ call[a].todo # {}
       /\ n \in reachable
       /\ Spend("failures")
       /\ applied' = Plus(applied, {n}, call[a].command)
       /\ sent' = Plus(sent, {n}, call[a].command)
       /\ excused' = excused \cup {Hint(n, call[a].command)}
       /\ call' = [call EXCEPT ![a].todo = @ \ {n}, ![a].failed = @ \cup {n}]
       /\ UNCHANGED <<health, reachable, queue, worker, accepted, coalesced,
                      quorumMet, covered>>

Met(a) == Cardinality(call[a].answered) >= Required(call[a].level, call[a].plan)

\* Mutant: hints before the count of the acknowledgements.
EndCallsHintsFirst(a) ==
    /\ call[a].phase = "write" /\ call[a].todo = {}
    /\ IF Met(a)
       THEN /\ call' = [call EXCEPT ![a].phase = "hint", ![a].todo = {}]
            /\ quorumMet' = quorumMet \cup {call[a].command}
       ELSE call' = [call EXCEPT ![a] = NoCall] /\ UNCHANGED quorumMet
    /\ queue' = queue \cup {Hint(n, call[a].command) : n \in call[a].failed}
    /\ UNCHANGED <<health, reachable, applied, worker, budget, accepted, sent,
                   coalesced, covered, excused>>

\* Every replica was called.  Too few acknowledgements end the write with
\* NoQuorum, and nothing is enqueued.
EndCalls(a) ==
    /\ call[a].phase = "write" /\ call[a].todo = {}
    /\ IF Met(a)
       THEN /\ call' = [call EXCEPT ![a].phase = "hint", ![a].todo = call[a].failed]
            /\ quorumMet' = quorumMet \cup {call[a].command}
       ELSE call' = [call EXCEPT ![a] = NoCall] /\ UNCHANGED quorumMet
    /\ UNCHANGED <<health, reachable, applied, queue, worker, budget, accepted,
                   sent, coalesced, covered, excused>>

\* DurableRepairQueue::enqueue of one hint: a record of the same identity is
\* overwritten, so an equal hint that waits already absorbs this one.
EnqueueHint(a) ==
    LET n == Min(call[a].todo)
        r == Hint(n, call[a].command)
    IN /\ call[a].phase = "hint" /\ call[a].todo # {}
       /\ queue' = queue \cup {r}
       /\ coalesced' = IF r \in queue THEN Plus(coalesced, {n}, call[a].command)
                       ELSE coalesced
       /\ call' = [call EXCEPT ![a].todo = @ \ {n}]
       /\ UNCHANGED <<health, reachable, applied, worker, budget, accepted,
                      sent, quorumMet, covered, excused>>

\* The queue cannot be opened or written: the write, which met its
\* requirement, returns the error, and the read after its answers does too.
EnqueueFails(a) ==
    /\ call[a].phase \in {"hint", "probe"} /\ call[a].todo # {}
    /\ Spend("faults")
    /\ call' = [call EXCEPT ![a] = NoCall]
    /\ UNCHANGED <<health, reachable, applied, queue, worker, histories>>

\* The write returns its outcome.
EndWrite(a) ==
    /\ call[a].phase = "hint" /\ call[a].todo = {}
    /\ accepted' = Plus(accepted, call[a].plan, call[a].command)
    /\ covered' = IF call[a].level \in {"quorum", "all"}
                  THEN covered \cup {call[a].plan} ELSE covered
    /\ call' = [call EXCEPT ![a] = NoCall]
    /\ UNCHANGED <<health, reachable, applied, queue, worker, budget, sent,
                   coalesced, quorumMet, excused>>

(***************************************************************************)
(* CassandraCoordinator::read.                                             *)
(***************************************************************************)
BeginRead(a, level) ==
    /\ call[a].phase = "idle"
    /\ Cardinality(ReadPlan) >= Required(level, ReadPlan)
    /\ Spend("calls")
    /\ call' = [call EXCEPT ![a] = [NoCall EXCEPT !.phase = "read",
                    !.level = level, !.plan = ReadPlan, !.todo = ReadPlan,
                    !.covered = ReadPlan \in covered]]
    /\ UNCHANGED <<health, reachable, applied, queue, worker, histories>>

\* The replicas are asked in the order of region and round-trip time, which is
\* any order.  The first value found is kept, and enough answers with a value
\* end the loop; answers without one do not.
ReadReplica(a, n) ==
    LET answered == call[a].answered \cup {n}
        found == call[a].found \/ \E c \in Commands : applied[n][c] > 0
        enough == Cardinality(answered) >= Required(call[a].level, call[a].plan)
    IN /\ call[a].phase = "read" /\ n \in call[a].todo
       /\ n \in reachable
       /\ call' = [call EXCEPT ![a].answered = answered, ![a].found = found,
                      ![a].todo = IF enough /\ found THEN {} ELSE @ \ {n}]
       /\ UNCHANGED <<health, reachable, applied, queue, worker, budget, histories>>

ReadReplicaFails(a, n) ==
    /\ call[a].phase = "read" /\ n \in call[a].todo
    /\ IF n \in reachable THEN Spend("failures") ELSE UNCHANGED budget
    /\ call' = [call EXCEPT ![a].todo = @ \ {n}, ![a].failed = @ \cup {n}]
    /\ UNCHANGED <<health, reachable, applied, queue, worker, histories>>

EndReads(a) ==
    /\ call[a].phase = "read" /\ call[a].todo = {}
    /\ call' = [call EXCEPT ![a] =
                  IF Met(a) THEN [@ EXCEPT !.phase = "probe", !.todo = call[a].failed]
                  ELSE NoCall]
    /\ UNCHANGED <<health, reachable, applied, queue, worker, budget, histories>>

EnqueueProbe(a) ==
    LET n == Min(call[a].todo)
    IN /\ call[a].phase = "probe" /\ call[a].todo # {}
       /\ queue' = queue \cup {Probe(n)}
       /\ call' = [call EXCEPT ![a].todo = @ \ {n}]
       /\ UNCHANGED <<health, reachable, applied, worker, budget, histories>>

EndRead(a) ==
    /\ call[a].phase = "probe" /\ call[a].todo = {}
    /\ call' = [call EXCEPT ![a] = NoCall]
    /\ UNCHANGED <<health, reachable, applied, queue, worker, budget, histories>>

(***************************************************************************)
(* DurableRepairQueue::replay_batch, run by a worker's tick and by         *)
(* replay_repairs.  An error of the queue ends the batch; it also ends a   *)
(* scheduled worker for good.                                              *)
(***************************************************************************)
Stopped(w) ==
    IF w \in Scheduled THEN [NoReplay EXCEPT !.phase = "ended"] ELSE NoReplay

\* Mutant: the batch takes every record.
FirstRecordsAll == queue

\* pending, sorted by the identities, and take(max_records).
FirstRecords ==
    {r \in queue : Cardinality({s \in queue : Before(s, r)}) < MaxRecords}

BeginReplay(w) ==
    /\ worker[w].phase = "idle"
    /\ queue # {}
    /\ worker' = [worker EXCEPT ![w] = [phase |-> "replay", batch |-> FirstRecords]]
    /\ UNCHANGED <<health, reachable, applied, queue, call, budget, histories>>

Held(w) == FirstOf(worker[w].batch)

\* What makes a second application of r possible: another replay holds it too,
\* or it has left the queue since this one read it.
Overlapped(w, r) == \/ r \notin queue
                    \/ \E v \in Workers \ {w} : r \in worker[v].batch

\* replay_record: a hint is applied again, a probe only reads.  The record as
\* it was read is used, whatever became of it in the queue.
ReplaySucceeds(w) ==
    LET r == Held(w)
    IN /\ worker[w].phase = "replay" /\ worker[w].batch # {}
       /\ Target(r) \in reachable
       /\ applied' = IF r \in Hints THEN Plus(applied, {Target(r)}, r[3]) ELSE applied
       /\ excused' = IF r \in Hints /\ Overlapped(w, r) THEN excused \cup {r}
                     ELSE excused
       /\ worker' = [worker EXCEPT ![w].phase = "delete"]
       /\ UNCHANGED <<health, reachable, queue, call, budget, accepted, sent,
                      coalesced, quorumMet, covered>>

\* The target does not apply the command, or does and its answer is lost.
ReplayFails(w) ==
    LET r == Held(w)
    IN /\ worker[w].phase = "replay" /\ worker[w].batch # {}
       /\ IF Target(r) \in reachable THEN Spend("failures") ELSE UNCHANGED budget
       /\ worker' = [worker EXCEPT ![w].phase = "retain"]
       /\ UNCHANGED <<health, reachable, applied, queue, call, histories>>

ReplayAnswerLost(w) ==
    LET r == Held(w)
    IN /\ worker[w].phase = "replay" /\ worker[w].batch # {}
       /\ r \in Hints /\ Target(r) \in reachable
       /\ Spend("failures")
       /\ applied' = Plus(applied, {Target(r)}, r[3])
       /\ excused' = excused \cup {r}
       /\ worker' = [worker EXCEPT ![w].phase = "retain"]
       /\ UNCHANGED <<health, reachable, queue, call, accepted, sent, coalesced,
                      quorumMet, covered>>

\* Mutant: a record that failed is tried again before the next.
AdvanceRetries(w) ==
    LET rest == worker[w].batch \ {Held(w)}
    IN worker' = [worker EXCEPT ![w] =
          IF worker[w].phase = "retain" THEN [@ EXCEPT !.phase = "replay"]
          ELSE IF rest = {} THEN NoReplay ELSE [phase |-> "replay", batch |-> rest]]

\* The loop goes on with the next record, whether this one was replayed or not.
Advance(w) ==
    LET rest == worker[w].batch \ {Held(w)}
    IN worker' = [worker EXCEPT ![w] =
          IF rest = {} THEN NoReplay ELSE [phase |-> "replay", batch |-> rest]]

\* Mutant: a replayed record stays.
DeleteRecordKeeps(w) ==
    /\ worker[w].phase = "delete"
    /\ queue' = queue
    /\ Advance(w)
    /\ UNCHANGED <<health, reachable, applied, call, budget, histories>>

\* The replayed record is deleted by its identity.
DeleteRecord(w) ==
    /\ worker[w].phase = "delete"
    /\ queue' = queue \ {Held(w)}
    /\ Advance(w)
    /\ UNCHANGED <<health, reachable, applied, call, budget, histories>>

\* Mutant: a record that failed is dropped.
RetainRecordDrops(w) ==
    /\ worker[w].phase = "retain"
    /\ queue' = queue \ {Held(w)}
    /\ Advance(w)
    /\ UNCHANGED <<health, reachable, applied, call, budget, histories>>

\* The record that failed is written again, with one attempt more, also when
\* another replay has deleted it meanwhile.
RetainRecord(w) ==
    /\ worker[w].phase = "retain"
    /\ queue' = queue \cup {Held(w)}
    /\ excused' = IF Held(w) \in Hints \ queue THEN excused \cup {Held(w)} ELSE excused
    /\ Advance(w)
    /\ UNCHANGED <<health, reachable, applied, call, budget, accepted, sent,
                   coalesced, quorumMet, covered>>

\* pending, delete or enqueue fails.
QueueFails(w) ==
    /\ worker[w].phase \in {"idle", "delete", "retain"}
    /\ Spend("faults")
    /\ excused' = IF worker[w].phase = "delete" /\ Held(w) \in Hints
                  THEN excused \cup {Held(w)} ELSE excused
    /\ worker' = [worker EXCEPT ![w] = Stopped(w)]
    /\ UNCHANGED <<health, reachable, applied, queue, call, accepted, sent,
                   coalesced, quorumMet, covered>>

\* RepairWorkerHandle::shutdown is noticed between two batches.
Shutdown(w) ==
    /\ worker[w].phase = "idle"
    /\ worker' = [worker EXCEPT ![w].phase = "ended"]
    /\ UNCHANGED <<health, reachable, applied, queue, call, budget, histories>>

Coordinate(a) ==
    \/ ApplyReplica(a) \/ ApplyReplicaFails(a) \/ ApplyReplicaAnswerLost(a)
    \/ EndCalls(a) \/ EnqueueHint(a) \/ EnqueueFails(a) \/ EndWrite(a)
    \/ EndReads(a) \/ EnqueueProbe(a) \/ EndRead(a)
    \/ \E n \in Nodes : ReadReplica(a, n) \/ ReadReplicaFails(a, n)

Replay(w) ==
    \/ ReplaySucceeds(w) \/ ReplayFails(w) \/ ReplayAnswerLost(w)
    \/ DeleteRecord(w) \/ RetainRecord(w)

Next ==
    \/ \E n \in Nodes, h \in Healths : RegisterPeer(n, h)
    \/ \E n \in Nodes : StopAnswering(n)
    \/ \E a \in Callers :
        \/ \E c \in Commands, level \in Levels : BeginWrite(a, c, level)
        \/ \E level \in Levels : BeginRead(a, level)
        \/ Coordinate(a)
    \/ \E w \in Workers : BeginReplay(w) \/ Replay(w) \/ QueueFails(w)
    \/ \E w \in Scheduled : Shutdown(w)

Spec == Init /\ [][Next]_vars

\* A worker's interval ticks and its calls return; a coordinator goes on with
\* what it began.  Nothing makes a client or an operator call again.
Fairness ==
    /\ \A a \in Callers : WF_vars(Coordinate(a))
    /\ \A w \in Scheduled : WF_vars(BeginReplay(w) \/ Replay(w))

FairSpec == Spec /\ Fairness

(***************************************************************************)
(* Properties.                                                             *)
(***************************************************************************)
Counts == [Nodes -> [Commands -> Nat]]

\* A coordinator's progress stays within its plan, a replay holds a batch
\* whenever it works on one, and the records are hints and probes.
TypeOK ==
    /\ health \in [Nodes -> Healths]
    /\ reachable \subseteq Nodes
    /\ {applied, accepted, sent, coalesced} \subseteq Counts
    /\ queue \subseteq Records /\ excused \subseteq Hints
    /\ quorumMet \subseteq Commands /\ covered \subseteq SUBSET Nodes
    /\ \A a \in Callers :
          /\ call[a].phase \in {"idle", "write", "hint", "read", "probe"}
          /\ call[a].plan \subseteq Nodes
          /\ call[a].todo \cup call[a].answered \cup call[a].failed \subseteq call[a].plan
          /\ call[a].answered \cap call[a].failed = {}
    /\ \A w \in Workers :
          /\ worker[w].phase \in {"idle", "replay", "delete", "retain", "ended"}
          /\ worker[w].batch \subseteq Records
          /\ Cardinality(worker[w].batch) <= MaxRecords
          /\ worker[w].batch = {} <=> worker[w].phase \in {"idle", "ended"}

\* Every replica an acknowledged write planned has applied its command, or
\* the command waits for it in the queue: as often as such writes were
\* acknowledged, but for the hints that were enqueued over an equal one, of
\* which the replica gets one application.  No replay, failing replay,
\* overlap of replays or error of the queue loses a hint.
AckedReachEveryReplica ==
    \A n \in Nodes, c \in Commands :
        accepted[n][c] <= applied[n][c] + coalesced[n][c]
                            + (IF Hint(n, c) \in queue THEN 1 ELSE 0)

\* A write refused with NoQuorum leaves nothing behind that would later apply
\* it: a hint in the queue or in a batch is of a command some write of which
\* met its requirement.
RefusedWritesAreNotReplayed ==
    \A r \in Hints :
        (r \in queue \/ \E w \in Workers : r \in worker[w].batch) => r[3] \in quorumMet

\* Replays apply what is due and nothing else: no command of refused writes
\* only, and none more often than writes of it were sent to the replica, but
\* where an answer was lost, two replays overlapped, or the record of a
\* successful replay could not be deleted.
ReplaysAreDue ==
    /\ RefusedWritesAreNotReplayed
    /\ \A n \in Nodes, c \in Commands :
          applied[n][c] > sent[n][c] => Hint(n, c) \in excused

\* A read at quorum or all that returns nothing found nothing acknowledged
\* before it began at quorum or all on the same replicas: the answers of the
\* two overlap, and a read goes on past enough answers that have no value.
EmptyReadsMissNothing ==
    \A a \in Callers :
        call[a].phase = "probe" /\ call[a].level \in {"quorum", "all"}
            /\ ~call[a].found => ~call[a].covered

\* A hint for a replica that answers leaves the queue, unless the batches are
\* full of records for replicas that do not answer and sort before it, which
\* every batch takes up again, or every scheduled worker has ended.
Starved(r) ==
    Cardinality({s \in queue : Before(s, r) /\ Target(s) \notin reachable})
        >= MaxRecords
HintsAreDelivered ==
    \A r \in Hints :
        r \in queue ~> \/ r \notin queue
                       \/ Target(r) \notin reachable
                       \/ Starved(r)
                       \/ \A w \in Scheduled : worker[w].phase = "ended"

=============================================================================
