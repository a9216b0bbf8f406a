----------------------------- MODULE AsyncEngine ----------------------------
(***************************************************************************)
(* The write-behind engine (storage/src/async_engine.rs): writes are kept  *)
(* in a pending overlay; a worker thread owns the storage engine, serves   *)
(* requests from one queue and flushes the overlay, by request or on its   *)
(* timer.  Readers hold the flush lock while they ask the worker.          *)
(*                                                                         *)
(* Simplified: nodes only (edges go the same way, with a pending map of    *)
(* their own); a record is the write that left it; the timer may fire      *)
(* whenever the worker looks.  The embedding queue, the deindex queue, and *)
(* snapshots and pruning, which only pass through the worker, are left     *)
(* out.                                                                    *)
(***************************************************************************)
EXTENDS Integers, Sequences, FiniteSets, Functions

CONSTANTS
    Keys,
    Clients,       \* threads that call the engine
    Nobody,
    Capacity,      \* max_node_cache_size; 0 is no limit
    AdaptiveFlush, \* adaptive_flush
    MaxWrites,     \* bound on writes
    MaxFailures    \* bound on flushes that fail

ASSUME BoundAssumption ==
    Capacity \in Nat /\ MaxWrites \in Nat /\ MaxFailures \in Nat
\* A process has finitely many threads.
ASSUME ClientsAssumption == IsFiniteSet(Clients)
ASSUME SentinelAssumption == Nobody \notin Clients /\ AdaptiveFlush \in BOOLEAN

\* A write by its place in the order of writes; number 0 is the empty store.
Writes == [n : 0..MaxWrites, put : BOOLEAN]
NoRecord == [n |-> 0, put |-> FALSE]

VARIABLES
    persisted,   \* what the storage engine holds
    pending,     \* PendingState::nodes
    inflight,    \* what take_ops took, until the flush is over
    queue,       \* the channel to the worker
    worker,      \* worker_loop
    client,      \* per caller: the call it is in
    open,        \* worker_tx is Some
    readers,     \* who holds flush_lock for reading
    pendingHeld, \* who holds the mutex of pending beyond one step
    newest,      \* history: the last write accepted of each key
    writes,      \* history: how many were accepted
    lost,        \* history: writes an older one was put back over
    failures     \* history: flushes that failed

vars == << persisted, pending, inflight, queue, worker, client, open, readers,
           pendingHeld, newest, writes, lost, failures >>
store == << persisted, pending, inflight >>
history == << newest, writes, lost, failures >>

Idle == [pc |-> "idle"]
NoOps == [k \in {} |-> NoRecord]

Init ==
    /\ persisted = [k \in Keys |-> NoRecord]
    /\ pending = NoOps /\ inflight = NoOps
    /\ queue = << >>
    /\ worker = Idle
    /\ client = [c \in Clients |-> Idle]
    /\ open = TRUE
    /\ readers = {} /\ pendingHeld = Nobody
    /\ newest = [k \in Keys |-> NoRecord]
    /\ writes = 0 /\ lost = {} /\ failures = 0

----------------------------------------------------------------------------
\* The operations over the records they replace.
Over(base, ops) == [k \in DOMAIN base |-> IF k \in DOMAIN ops THEN ops[k] ELSE base[k]]

\* The operations, and those of before on the other keys.
Merge(ops, before) ==
    [k \in DOMAIN ops \cup DOMAIN before |-> IF k \in DOMAIN ops THEN ops[k] ELSE before[k]]

\* What there is to read: pending over the flush under way over the store.
Effective == Over(Over(persisted, inflight), pending)

Live(records) == {k \in DOMAIN records : records[k].put}

\* parking_lot admits no reader past a writer that waits.
ReadLockFree == worker.pc \notin {"lock", "flush"}
PendingFree == pendingHeld = Nobody

Become(c, state) == client' = [client EXCEPT ![c] = state]

\* send_request, once it has a sender of its own: close may come between.
Ask(c, kind, key, op, data) ==
    Become(c, [pc |-> "send", op |-> op, data |-> data,
               request |-> [kind |-> kind, key |-> key, from |-> c]])

\* The request is in the channel, or the worker has ended.
Send(c) ==
    /\ client[c].pc = "send"
    /\ IF worker.pc = "stopped"
       THEN /\ Become(c, [pc |-> "closed", op |-> "closed"])
            /\ UNCHANGED queue
       ELSE /\ Become(c, [pc |-> "wait", op |-> client[c].op, data |-> client[c].data])
            /\ queue' = Append(queue, client[c].request)
    /\ UNCHANGED << store, worker, open, readers, pendingHeld, history >>

----------------------------------------------------------------------------
(* Writes.                                                                 *)

WritesUnderWay == {c \in Clients : client[c].pc # "idle" /\ client[c].op = "write"}

\* put_node_record and delete_node_record begin with the check of the cache.
\* (A full cache of a closed engine refuses the write.)
BeginWrite(c, k, put) ==
    LET write == [key |-> k, put |-> put]
        full == Capacity > 0 /\ Cardinality(DOMAIN pending) >= Capacity
    IN  /\ client[c].pc = "idle" /\ PendingFree
        /\ writes + Cardinality(WritesUnderWay) < MaxWrites
        /\ \/ /\ ~full
              /\ Become(c, [pc |-> "write", op |-> "write", data |-> write])
           \/ /\ full /\ open
              /\ Ask(c, "flush", k, "write", write)
        /\ UNCHANGED << store, queue, worker, open, readers, pendingHeld, history >>

\* A put takes the mutex of pending alone, a delete the flush lock too; where a
\* delete replaced a pending record it asks whether that was ever stored.
Write(c) ==
    LET k == client[c].data.key
        w == [n |-> writes + 1, put |-> client[c].data.put]
        asks == ~w.put /\ k \in Live(pending) /\ open
    IN  /\ client[c].pc = "write" /\ PendingFree
        /\ w.put \/ ReadLockFree
        /\ pending' = Merge([j \in {k} |-> w], pending)
        /\ writes' = writes + 1
        /\ newest' = [newest EXCEPT ![k] = w]
        /\ IF asks
           THEN /\ Ask(c, "get", k, "delete", k)
                /\ readers' = readers \cup {c}
           ELSE Become(c, Idle) /\ UNCHANGED readers
        /\ UNCHANGED << persisted, inflight, queue, worker, open, pendingHeld, lost, failures >>

----------------------------------------------------------------------------
(* Reads.                                                                  *)

\* get_node_record where pending holds nothing; else it answers at once.
BeginGet(c, k) ==
    /\ client[c].pc = "idle" /\ open
    /\ ReadLockFree /\ PendingFree /\ k \notin DOMAIN pending
    /\ Ask(c, "get", k, "get", k)
    /\ readers' = readers \cup {c}
    /\ UNCHANGED << store, queue, worker, open, pendingHeld, history >>

\* Mutant: the flush lock is not held until the reply is put together.
BeginReadUnlocked(c, op) ==
    /\ client[c].pc = "idle" /\ open /\ ReadLockFree
    /\ Ask(c, "all", Nobody, op, Nobody)
    /\ UNCHANGED << store, queue, worker, open, readers, pendingHeld, history >>

\* all_nodes and the streams over it, node_count_by_prefix.
BeginRead(c, op) ==
    /\ client[c].pc = "idle" /\ open /\ ReadLockFree
    /\ Ask(c, "all", Nobody, op, Nobody)
    /\ readers' = readers \cup {c}
    /\ UNCHANGED << store, queue, worker, open, pendingHeld, history >>

\* The end of a get, of a delete that asked, and of a scan, which puts what is
\* pending over the reply; the flush lock is released on the way out.
EndRead(c) ==
    /\ client[c].pc = "reply" /\ client[c].op \in {"get", "delete", "scan"}
    /\ client[c].op = "scan" => PendingFree
    /\ Become(c, Idle)
    /\ readers' = readers \ {c}
    /\ UNCHANGED << store, queue, worker, open, pendingHeld, history >>

\* The next pending record a count asks about, or its end.
CountOn(c, todo, total) ==
    IF todo = {}
    THEN /\ Become(c, Idle)
         /\ readers' = readers \ {c} /\ pendingHeld' = Nobody
    ELSE LET k == CHOOSE k \in todo : TRUE
         IN  /\ Ask(c, "get", k, "count loop",
                    [todo |-> todo \ {k}, key |-> k, total |-> total])
             /\ pendingHeld' = c
             /\ UNCHANGED readers

\* node_count_by_prefix: the guard of pending lives as long as its loop.
BeginCount(c) ==
    /\ client[c].pc = "reply" /\ client[c].op = "count" /\ PendingFree
    /\ CountOn(c, DOMAIN pending, Cardinality(Live(client[c].reply)))
    /\ UNCHANGED << store, queue, worker, open, history >>

\* The total with the record the reply is about.
Counted(c) ==
    LET stored == client[c].reply.put
        now == pending[client[c].data.key].put
    IN  client[c].data.total + (IF now /\ ~stored THEN 1 ELSE IF stored /\ ~now THEN -1 ELSE 0)

CountNext(c) ==
    /\ client[c].pc = "reply" /\ client[c].op = "count loop"
    /\ CountOn(c, client[c].data.todo, Counted(c))
    /\ UNCHANGED << store, queue, worker, open, history >>

----------------------------------------------------------------------------
(* Flushes as callers see them.                                            *)

\* flush and try_flush.
BeginFlush(c, kind) ==
    /\ client[c].pc = "idle" /\ open
    /\ Ask(c, kind, Nobody, "flush", newest)
    /\ UNCHANGED << store, queue, worker, open, readers, pendingHeld, history >>

\* close, and Drop.  (A second close returns at once.)
BeginClose(c) ==
    /\ client[c].pc = "idle" /\ open
    /\ open' = FALSE
    /\ Ask(c, "close", Nobody, "flush", newest)
    /\ UNCHANGED << store, queue, worker, readers, pendingHeld, history >>

\* A writer goes on after the flush it asked for; a failed one is its error.
EndFlush(c) ==
    /\ client[c].pc = "reply" /\ client[c].op \in {"flush", "write"}
    /\ Become(c, IF client[c].op = "write" /\ client[c].reply = "ok"
                 THEN [pc |-> "write", op |-> "write", data |-> client[c].data]
                 ELSE Idle)
    /\ UNCHANGED << store, queue, worker, open, readers, pendingHeld, history >>

\* hold_flush, and the drop of its guard.
HoldFlush(c) ==
    /\ client[c].pc = "idle" /\ ReadLockFree
    /\ Become(c, [pc |-> "hold", op |-> "hold"])
    /\ readers' = readers \cup {c}
    /\ UNCHANGED << store, queue, worker, open, pendingHeld, history >>

\* The end of a hold, of a call, and of one the worker left without an answer.
Return(c) ==
    /\ client[c].pc \in {"hold", "closed"}
    /\ Become(c, Idle)
    /\ readers' = readers \ {c}
    /\ pendingHeld' = IF pendingHeld = c THEN Nobody ELSE pendingHeld
    /\ UNCHANGED << store, queue, worker, open, history >>

----------------------------------------------------------------------------
(* The worker.                                                             *)

Answered(c, reply) ==
    [pc |-> "reply", op |-> client[c].op, data |-> client[c].data, reply |-> reply]

\* Mutant: whoever holds the flush lock is not waited for.
TakeOpsUnlocked(task) ==
    /\ inflight' = pending /\ pending' = NoOps
    /\ worker' = [pc |-> "flush", task |-> task]
    /\ UNCHANGED persisted

\* take_ops, with the flush lock held for writing.
TakeOps(task) ==
    /\ readers = {}
    /\ inflight' = pending /\ pending' = NoOps
    /\ worker' = [pc |-> "flush", task |-> task]
    /\ UNCHANGED persisted

\* handle_request: a flush waits for its lock, a try_flush does not.
Serve ==
    LET request == Head(queue)
    IN  /\ worker.pc = "idle" /\ queue # << >>
        /\ queue' = Tail(queue)
        /\ \/ /\ request.kind \in {"get", "all"}
              /\ Become(request.from, Answered(request.from,
                    IF request.kind = "get" THEN persisted[request.key] ELSE persisted))
              /\ UNCHANGED << store, worker >>
           \/ /\ request.kind \in {"flush", "close"}
              /\ worker' = [pc |-> "lock", task |-> request]
              /\ UNCHANGED << store, client >>
           \/ /\ request.kind = "try" /\ TakeOps(request)
              /\ UNCHANGED client
           \/ /\ request.kind = "try" /\ readers # {}
              /\ Become(request.from, Answered(request.from, "held"))
              /\ UNCHANGED << store, worker >>
        /\ UNCHANGED << open, readers, pendingHeld, history >>

LockFlush ==
    /\ worker.pc = "lock"
    /\ TakeOps(worker.task)
    /\ UNCHANGED << queue, client, open, readers, pendingHeld, history >>

\* recv_timeout expired; an adaptive flush then wants the mutex of pending.
Timer ==
    /\ worker.pc = "idle"
    /\ worker' = [pc |-> "timer"]
    /\ UNCHANGED << store, queue, client, open, readers, pendingHeld, history >>

\* maybe_auto_flush
AutoFlush ==
    /\ worker.pc = "timer"
    /\ AdaptiveFlush => PendingFree
    /\ \/ TakeOps([kind |-> "auto"])
       \/ /\ readers # {} \/ pending = NoOps
          /\ worker' = Idle
          /\ UNCHANGED store
    /\ UNCHANGED << queue, client, open, readers, pendingHeld, history >>

\* Mutant: what is left in the channel of a worker that ended is kept.
FinishKeepsQueue(reply) ==
    LET from == IF worker.task.kind = "auto" THEN {} ELSE {worker.task.from}
    IN  /\ client' = [c \in Clients |-> IF c \in from THEN Answered(c, reply) ELSE client[c]]
        /\ worker' = IF worker.task.kind = "close" THEN [pc |-> "stopped"] ELSE Idle
        /\ inflight' = NoOps
        /\ UNCHANGED << queue, open, readers, pendingHeld, newest, writes >>

\* The end of a flush.  The last one ends the worker: what is left in the
\* channel gets no answer.
Finish(reply) ==
    LET from == IF worker.task.kind = "auto" THEN {} ELSE {worker.task.from}
        unanswered == IF worker.task.kind = "close"
                      THEN {queue[i].from : i \in DOMAIN queue} ELSE {}
    IN  /\ client' = [c \in Clients |->
              IF c \in from THEN Answered(c, reply)
              ELSE IF c \in unanswered THEN [pc |-> "closed", op |-> "closed"]
              ELSE client[c]]
        /\ worker' = IF worker.task.kind = "close" THEN [pc |-> "stopped"] ELSE Idle
        /\ queue' = IF worker.task.kind = "close" THEN << >> ELSE queue
        /\ inflight' = NoOps
        /\ UNCHANGED << open, readers, pendingHeld, newest, writes >>

\* batch_write took the operations; the flush after it may fail.
FlushApplied ==
    /\ worker.pc = "flush"
    /\ persisted' = Over(persisted, inflight)
    /\ \/ /\ Finish("ok")
          /\ UNCHANGED failures
       \/ /\ failures < MaxFailures
          /\ Finish("error")
          /\ failures' = failures + 1
    /\ UNCHANGED << pending, lost >>

\* Mutant: the operations of a failed batch are forgotten.
FlushRefusedDrops ==
    /\ worker.pc = "flush" /\ failures < MaxFailures
    /\ failures' = failures + 1
    /\ Finish("error")
    /\ UNCHANGED << persisted, pending, lost >>

\* Mutant: the error is not passed on.
FlushRefusedSaysOk ==
    /\ worker.pc = "flush" /\ failures < MaxFailures
    /\ failures' = failures + 1
    /\ pending' = Merge(inflight, pending)
    /\ Finish("ok")
    /\ UNCHANGED << persisted, lost >>

\* batch_write failed, with its records in the store or not (lib.rs:9324): the
\* operations go back, over what was written meanwhile.
FlushRefused ==
    /\ worker.pc = "flush" /\ failures < MaxFailures
    /\ failures' = failures + 1
    /\ persisted' \in {persisted, Over(persisted, inflight)}
    /\ pending' = Merge(inflight, pending)
    /\ lost' = lost \cup UNION {{<< k, n >> : n \in inflight[k].n + 1..pending[k].n} :
                                k \in DOMAIN pending \cap DOMAIN inflight}
    /\ Finish("error")

----------------------------------------------------------------------------
\* The steps of a call under way.
CallStep(c) ==
    Send(c) \/ EndRead(c) \/ BeginCount(c) \/ CountNext(c) \/ EndFlush(c) \/ Return(c)

Call(c) ==
    \/ \E k \in Keys, put \in BOOLEAN : BeginWrite(c, k, put)
    \/ \E k \in Keys : BeginGet(c, k)
    \/ \E op \in {"scan", "count"} : BeginRead(c, op)
    \/ \E kind \in {"flush", "try"} : BeginFlush(c, kind)
    \/ BeginClose(c)
    \/ HoldFlush(c)
    \/ Write(c)
    \/ CallStep(c)

WorkerStep == LockFlush \/ AutoFlush \/ FlushApplied \/ FlushRefused

Next == (\E c \in Clients : Call(c)) \/ Serve \/ Timer \/ WorkerStep

Spec == Init /\ [][Next]_vars

\* Threads run.  recv_timeout returns a request that is there before it times
\* out, and parking_lot's locks are eventually fair.
FairSpec ==
    /\ Spec
    /\ WF_vars(WorkerStep) /\ SF_vars(Serve)
    /\ \A c \in Clients : SF_vars(Write(c)) /\ SF_vars(CallStep(c))

----------------------------------------------------------------------------
\* The types, and who may hold which lock together.
TypeOK ==
    /\ persisted \in [Keys -> Writes] /\ newest \in [Keys -> Writes]
    /\ \A ops \in {pending, inflight} :
          DOMAIN ops \subseteq Keys /\ Range(ops) \subseteq Writes
    /\ worker.pc \in {"idle", "lock", "flush", "timer", "stopped"}
    /\ \A i \in DOMAIN queue : queue[i].from \in Clients
    /\ readers \subseteq Clients /\ pendingHeld \in readers \cup {Nobody}
    /\ worker.pc = "flush" => readers = {}
    /\ lost \subseteq Keys \X (1..MaxWrites) /\ writes \in 0..MaxWrites /\ failures \in 0..MaxFailures

\* The newest write of a key is what there is to read, through every flush,
\* failed or not, except where a failed flush put an older one back over it
\* (requeue_node_ops).
NewestEffective == \A k \in Keys : << k, newest[k].n >> \notin lost => Effective[k] = newest[k]

\* A read answers what there is to read, though it asks the worker first and
\* looks at pending later, or the other way round: the flush lock keeps records
\* from moving between the two.
ReadsCurrent ==
    \A c \in Clients : client[c].pc = "reply" =>
        CASE client[c].op = "get" ->
                client[c].data \in DOMAIN pending \/ client[c].reply = Effective[client[c].data]
          [] client[c].op = "scan" -> Over(client[c].reply, pending) = Effective
          [] client[c].op = "count loop" /\ client[c].data.todo = {} ->
                Counted(c) = Cardinality(Live(Effective))
          [] OTHER -> TRUE

\* A flush, a try_flush or a close that succeeds has left no write of before
\* the call behind, but one an older write was put back over.
FlushedPersist ==
    \A c \in Clients :
        client[c].pc = "reply" /\ client[c].op = "flush" /\ client[c].reply = "ok" =>
            \A k \in Keys : \/ << k, client[c].data[k].n >> \in lost
                            \/ persisted[k].n >= client[c].data[k].n

\* The worker waits for a lock whose holder waits for the worker: flush_pending
\* for a reader that asks, pending_write_count for a count that asks.
Stuck ==
    \/ /\ worker.pc = "lock"
       /\ \E c \in readers : client[c].pc = "wait"
    \/ /\ worker.pc = "timer" /\ AdaptiveFlush
       /\ pendingHeld # Nobody /\ client[pendingHeld].pc = "wait"

\* Every call returns, or the worker waits for one that waits for it.
CallsReturn == \A c \in Clients : client[c].pc # "idle" ~> (client[c].pc = "idle" \/ Stuck)
=============================================================================
