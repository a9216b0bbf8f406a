----------------------------- MODULE AsyncProofs ----------------------------
(***************************************************************************)
(* Proofs about AsyncEngine, for every set of keys and threads and every   *)
(* bound.  The invariant says which caller waits for which answer, that a  *)
(* newer write of a key lies over an older one in pending, in flight and   *)
(* in the store, and that nothing leaves pending while a caller holds the  *)
(* flush lock: so a read made of two looks is a read of one moment.        *)
(***************************************************************************)
EXTENDS AsyncEngine, FiniteSetTheorems, SequenceTheorems, TLAPS

----------------------------------------------------------------------------
(* The invariant.  Calls and requests first: who waits for what answer.    *)

Asking == {"send", "wait", "reply"}
GetOps == {"get", "delete"}
ScanOps == {"scan", "count"}
Requests ==
    [kind : {"get", "all", "flush", "try", "close"}, key : Keys \cup {Nobody}, from : Clients]

ReadOps == GetOps \cup ScanOps \cup {"count loop"}

\* The request a call of this kind sends.
Matches(c, request) ==
    /\ request.from = c
    /\ client[c].op \in GetOps => request.kind = "get" /\ request.key = client[c].data
    /\ client[c].op \in ScanOps => request.kind = "all"
    /\ client[c].op = "count loop" => request.kind = "get" /\ request.key = client[c].data.key
    /\ client[c].op = "write" => request.kind = "flush"
    /\ client[c].op = "flush" => request.kind \in {"flush", "try", "close"}

\* What a call is, by its program counter and operation; a call that reads
\* holds the flush lock.
CallOK(c) ==
    /\ client[c].pc \in {"idle", "send", "wait", "closed", "write", "reply", "hold"}
    /\ client[c].pc \in Asking => client[c].op \in ReadOps \cup {"write", "flush"}
    /\ client[c].pc = "write" => client[c].op = "write"
    /\ client[c].pc = "hold" => client[c].op = "hold" /\ c \in readers
    /\ client[c].pc = "closed" => client[c].op = "closed"
    /\ client[c].pc \in Asking /\ client[c].op \in ReadOps => c \in readers
    /\ client[c].pc \in Asking \cup {"write"} /\ client[c].op = "write" =>
         client[c].data.key \in Keys /\ client[c].data.put \in BOOLEAN
    /\ client[c].pc \in Asking /\ client[c].op \in GetOps => client[c].data \in Keys
    /\ client[c].pc \in Asking /\ client[c].op = "count loop" =>
         client[c].data.key \in Keys /\ client[c].data.todo \subseteq Keys
    /\ client[c].pc = "send" => client[c].request \in Requests /\ Matches(c, client[c].request)

\* A request in the channel, or the worker's own task, has its caller waiting.
Awaited(request) ==
    /\ request.from \in Clients /\ client[request.from].pc = "wait"
    /\ Matches(request.from, request)

Busy == worker.pc \in {"lock", "flush"} /\ worker.task.kind # "auto"

CallsInOrder ==
    /\ DOMAIN client = Clients /\ queue \in Seq(Requests)
    /\ \A c \in Clients : CallOK(c)
    /\ \A i \in DOMAIN queue : Awaited(queue[i])
    /\ \A i, j \in DOMAIN queue : queue[i].from = queue[j].from => i = j
    /\ Busy => /\ worker.task.kind \in {"flush", "try", "close"} /\ Awaited(worker.task)
               /\ \A i \in DOMAIN queue : queue[i].from # worker.task.from

\* The flush lock and the mutex of pending.
LocksInOrder ==
    /\ readers \subseteq Clients
    /\ pendingHeld # Nobody =>
         /\ pendingHeld \in readers
         /\ client[pendingHeld].pc \in Asking \cup {"closed"}
         /\ client[pendingHeld].pc \in Asking => client[pendingHeld].op = "count loop"
    /\ \A c \in Clients : client[c].pc \in Asking /\ client[c].op = "count loop" => pendingHeld = c
    /\ worker.pc \in {"idle", "lock", "flush", "timer", "stopped"}
    /\ worker.pc = "flush" => readers = {}

Partial(S, V) == UNION {[ks -> V] : ks \in SUBSET S}

\* The records and the operations over them: a newer write lies over an older
\* one, and nothing is in flight but in a flush.
Ledger ==
    /\ persisted \in [Keys -> Writes] /\ newest \in [Keys -> Writes]
    /\ pending \in Partial(Keys, Writes) /\ inflight \in Partial(Keys, Writes)
    /\ writes \in Nat /\ failures \in 0..MaxFailures
    /\ lost \subseteq Keys \X (1..MaxWrites)
    /\ \A k \in Keys : persisted[k].n <= writes /\ newest[k].n <= writes
    /\ \A k \in DOMAIN pending : persisted[k].n <= pending[k].n /\ pending[k].n <= writes
    /\ \A k \in DOMAIN inflight : persisted[k].n <= inflight[k].n /\ inflight[k].n <= writes
    /\ \A k \in DOMAIN pending \cap DOMAIN inflight : inflight[k].n < pending[k].n
    /\ worker.pc # "flush" => inflight = NoOps

\* Every write under way has a number left.
WritesBounded == writes + Cardinality(WritesUnderWay) <= MaxWrites

Finite ==
    IsFiniteSet(Live(persisted)) /\ IsFiniteSet(DOMAIN pending) /\ IsFiniteSet(DOMAIN inflight)

\* The live records, with the pending operations of the keys counted so far.
LiveWith(done) ==
    {k \in Keys : IF k \in done THEN pending[k].put ELSE persisted[k].put}

\* An answer is what the store holds until the caller releases the flush lock;
\* a count stands still with the mutex of pending.
AnswersFresh ==
    \A c \in Clients :
        /\ client[c].pc = "reply" /\ client[c].op \in GetOps =>
             client[c].reply = persisted[client[c].data]
        /\ client[c].pc = "reply" /\ client[c].op \in ScanOps => client[c].reply = persisted
        /\ client[c].pc = "reply" /\ client[c].op = "count loop" =>
             client[c].reply = persisted[client[c].data.key]
        /\ client[c].pc \in Asking /\ client[c].op = "count loop" =>
             LET todo == client[c].data.todo
                 k == client[c].data.key
             IN  /\ todo \subseteq DOMAIN pending /\ k \in DOMAIN pending \ todo
                 /\ client[c].data.total =
                      Cardinality(LiveWith(DOMAIN pending \ (todo \cup {k})))

\* Write n of a key is lost, or nothing older is there to read.
KeptAt(record, k, n) == << k, n >> \in lost \/ record[k].n >= n

\* A flush that was asked for has the writes of before the call to read, then
\* in flight, then in the store.
FlushesKeep ==
    \A c \in Clients :
        client[c].pc \in Asking /\ client[c].op = "flush" =>
            \A k \in Keys :
                /\ client[c].data[k].n \in Nat /\ client[c].data[k].n <= writes
                /\ KeptAt(Effective, k, client[c].data[k].n)
                /\ worker.pc = "flush" /\ Busy /\ worker.task.from = c =>
                     KeptAt(Over(persisted, inflight), k, client[c].data[k].n)
                /\ client[c].pc = "reply" /\ client[c].reply = "ok" =>
                     KeptAt(persisted, k, client[c].data[k].n)

----------------------------------------------------------------------------
(* The steps of a caller.                                                  *)

ClientMoves(c) == DOMAIN client' = Clients /\ \A d \in Clients \ {c} : client'[d] = client[d]

LEMMA BecomeMoves ==
    ASSUME DOMAIN client = Clients, NEW c \in Clients, NEW state, Become(c, state)
    PROVE  ClientMoves(c) /\ client'[c] = state
BY DEF Become, ClientMoves

Sent(c, kind, key, op, data) ==
    /\ client'[c].pc = "send" /\ client'[c].op = op /\ client'[c].data = data
    /\ client'[c].request = [kind |-> kind, key |-> key, from |-> c]

LEMMA AskMoves ==
    ASSUME DOMAIN client = Clients, NEW c \in Clients,
           NEW kind, NEW key, NEW op, NEW data, Ask(c, kind, key, op, data)
    PROVE  ClientMoves(c) /\ Sent(c, kind, key, op, data)
<1> DEFINE s == [pc |-> "send", op |-> op, data |-> data,
                 request |-> [kind |-> kind, key |-> key, from |-> c]]
<1>1. Become(c, s)
  BY DEF Ask
<1>2. ClientMoves(c) /\ client'[c] = s
  <2> HIDE DEF s
  <2> QED BY <1>1, BecomeMoves
<1> QED BY <1>2 DEF Sent

\* A request that matches its operation makes a call in order.
LEMMA SentOK ==
    ASSUME NEW c \in Clients, NEW kind, NEW key, NEW op, NEW data,
           Sent(c, kind, key, op, data),
           kind \in {"get", "all", "flush", "try", "close"}, key \in Keys \cup {Nobody},
           op \in ReadOps \cup {"write", "flush"},
           op \in ReadOps => c \in readers',
           op \in GetOps => kind = "get" /\ key = data /\ data \in Keys,
           op \in ScanOps => kind = "all",
           op = "count loop" =>
             kind = "get" /\ key = data.key /\ data.key \in Keys /\ data.todo \subseteq Keys,
           op = "write" => kind = "flush" /\ data.key \in Keys /\ data.put \in BOOLEAN,
           op = "flush" => kind \in {"flush", "try", "close"}
    PROVE  CallOK(c)'
<1> DEFINE r == [kind |-> kind, key |-> key, from |-> c]
<1>2. client'[c].pc = "send" /\ client'[c].op = op /\ client'[c].data = data
      /\ client'[c].request = r
  BY DEF Sent
<1>3. r \in Requests /\ r.kind = kind /\ r.key = key /\ r.from = c
  BY DEF Requests
<1>1. client'[c].request \in Requests /\ Matches(c, client[c].request)'
  <2> HIDE DEF r
  <2> QED BY <1>2, <1>3 DEF Matches
<1> HIDE DEF r
<1> QED BY <1>1, <1>2 DEF CallOK, Asking

LEMMA IdleOK ==
    ASSUME NEW c \in Clients, client'[c].pc = "idle"
    PROVE  CallOK(c)'
BY DEF CallOK, Asking

\* A call that keeps its operation keeps its data in order.
LEMMA KeptOK ==
    ASSUME NEW c \in Clients, CallOK(c), client[c].pc \in Asking,
           client'[c].pc \in {"wait", "reply"}, client'[c].op = client[c].op,
           client'[c].data = client[c].data, c \in readers => c \in readers'
    PROVE  CallOK(c)'
BY DEF CallOK, Asking

\* What a step of a caller that sends nothing has to show.
LEMMA CallerKeepsOrder ==
    ASSUME CallsInOrder, NEW c \in Clients, ClientMoves(c), UNCHANGED << queue, worker >>,
           client[c].pc # "wait", CallOK(c)', readers \ {c} \subseteq readers'
    PROVE  CallsInOrder'
<1>1. ASSUME NEW d \in Clients PROVE CallOK(d)'
  <2>1. CASE d = c
    BY <2>1
  <2>2. CASE d # c
    <3>1. client'[d] = client[d] /\ CallOK(d) /\ (d \in readers => d \in readers')
      BY <2>2 DEF ClientMoves, CallsInOrder
    <3>2. \A r : Matches(d, r)' <=> Matches(d, r)
      BY <3>1 DEF Matches
    <3> QED BY <3>1, <3>2 DEF CallOK
  <2> QED BY <2>1, <2>2
<1>2. ASSUME NEW request, Awaited(request) PROVE Awaited(request)'
  BY <1>2 DEF Awaited, Matches, ClientMoves
<1> QED BY <1>1, <1>2 DEF CallsInOrder, ClientMoves, Busy

\* Each caller's step: what it finds, and what it makes of the call.
LEMMA SendMoves ==
    ASSUME CallsInOrder, NEW c \in Clients, Send(c)
    PROVE  /\ ClientMoves(c) /\ client[c].pc = "send"
           /\ UNCHANGED << worker, readers, pendingHeld >>
           /\ \/ client'[c].pc = "closed" /\ client'[c].op = "closed" /\ queue' = queue
              \/ /\ client'[c].pc = "wait" /\ client'[c].op = client[c].op
                 /\ client'[c].data = client[c].data
                 /\ queue' = Append(queue, client[c].request)
<1>1. DOMAIN client = Clients
  BY DEF CallsInOrder
<1>2. CASE worker.pc = "stopped"
  <2>1. Become(c, [pc |-> "closed", op |-> "closed"]) /\ queue' = queue
    BY <1>2 DEF Send
  <2> QED BY <1>1, <2>1, BecomeMoves DEF Send
<1>3. CASE worker.pc # "stopped"
  <2>1. Become(c, [pc |-> "wait", op |-> client[c].op, data |-> client[c].data])
    BY <1>3 DEF Send
  <2>2. ClientMoves(c)
        /\ client'[c] = [pc |-> "wait", op |-> client[c].op, data |-> client[c].data]
    BY <1>1, <2>1, BecomeMoves
  <2> QED BY <1>3, <2>2 DEF Send
<1> QED BY <1>2, <1>3

LEMMA BeginWriteMoves ==
    ASSUME CallsInOrder, NEW c \in Clients, NEW k \in Keys, NEW put \in BOOLEAN,
           BeginWrite(c, k, put)
    PROVE  /\ ClientMoves(c) /\ client[c].pc = "idle" /\ CallOK(c)'
           /\ client'[c].pc \in {"write", "send"} /\ client'[c].op = "write"
           /\ writes + Cardinality(WritesUnderWay) < MaxWrites
<1>1. DOMAIN client = Clients
  BY DEF CallsInOrder
<1> DEFINE w == [key |-> k, put |-> put]
<1>2. w.key \in Keys /\ w.put \in BOOLEAN
  OBVIOUS
<1>3. CASE Become(c, [pc |-> "write", op |-> "write", data |-> w])
  <2>1. ClientMoves(c) /\ client'[c] = [pc |-> "write", op |-> "write", data |-> w]
    BY <1>1, <1>3, BecomeMoves
  <2>2. client'[c].pc = "write" /\ client'[c].op = "write" /\ client'[c].data = w
    BY <2>1
  <2> HIDE DEF w
  <2>3. CallOK(c)'
    BY <1>2, <2>2 DEF CallOK, Asking, ReadOps, GetOps, ScanOps
  <2> QED BY <2>1, <2>2, <2>3 DEF BeginWrite
<1>4. CASE Ask(c, "flush", k, "write", w)
  <2> HIDE DEF w
  <2>1. ClientMoves(c) /\ Sent(c, "flush", k, "write", w)
    BY <1>1, <1>4, AskMoves
  <2>2. CallOK(c)'
    <3>1. "write" \notin ReadOps /\ "write" \notin GetOps /\ "write" \notin ScanOps
      BY DEF ReadOps, GetOps, ScanOps
    <3> QED BY <1>2, <2>1, <3>1, SentOK
  <2> QED BY <2>1, <2>2 DEF BeginWrite, Sent
<1> QED BY <1>3, <1>4 DEF BeginWrite

LEMMA WriteMoves ==
    ASSUME CallsInOrder, NEW c \in Clients, Write(c)
    PROVE  /\ ClientMoves(c) /\ client[c].pc = "write" /\ client[c].op = "write"
           /\ client[c].data.key \in Keys /\ client[c].data.put \in BOOLEAN
           /\ CallOK(c)' /\ readers \subseteq readers' /\ readers' \subseteq readers \cup {c}
           /\ readers' # readers => worker.pc \notin {"lock", "flush"}
           /\ \/ client'[c].pc = "idle" /\ readers' = readers
              \/ client'[c].pc = "send" /\ client'[c].op = "delete"
<1>1. DOMAIN client = Clients
  BY DEF CallsInOrder
<1>2. client[c].pc = "write" /\ client[c].op = "write"
      /\ client[c].data.key \in Keys /\ client[c].data.put \in BOOLEAN
  BY DEF CallsInOrder, CallOK, Write
<1> DEFINE k == client[c].data.key
<1>3. CASE Become(c, Idle) /\ UNCHANGED readers
  <2>1. ClientMoves(c) /\ client'[c].pc = "idle"
    BY <1>1, <1>3, BecomeMoves DEF Idle
  <2> QED BY <1>2, <1>3, <2>1, IdleOK
<1>4. CASE /\ Ask(c, "get", k, "delete", k) /\ ~client[c].data.put
           /\ readers' = readers \cup {c}
  <2>1. ClientMoves(c) /\ Sent(c, "get", k, "delete", k)
    BY <1>1, <1>4, AskMoves
  <2>2. CallOK(c)'
    <3>1. "delete" \in GetOps /\ "delete" \in ReadOps /\ "delete" \notin ScanOps
      BY DEF ReadOps, GetOps, ScanOps
    <3> QED BY <1>2, <1>4, <2>1, <3>1, SentOK
  <2>3. worker.pc \notin {"lock", "flush"}
    BY <1>4 DEF Write, ReadLockFree
  <2> QED BY <1>2, <1>4, <2>1, <2>2, <2>3 DEF Sent
<1> QED BY <1>3, <1>4 DEF Write

LEMMA BeginGetMoves ==
    ASSUME CallsInOrder, NEW c \in Clients, NEW k \in Keys, BeginGet(c, k)
    PROVE  /\ ClientMoves(c) /\ client[c].pc = "idle" /\ CallOK(c)'
           /\ client'[c].pc = "send" /\ client'[c].op = "get"
           /\ readers' = readers \cup {c} /\ worker.pc \notin {"lock", "flush"}
<1>1. DOMAIN client = Clients
  BY DEF CallsInOrder
<1>2. ClientMoves(c) /\ Sent(c, "get", k, "get", k)
  BY <1>1, AskMoves DEF BeginGet
<1>3. CallOK(c)'
  <2>1. "get" \in GetOps /\ "get" \in ReadOps /\ "get" \notin ScanOps
    BY DEF ReadOps, GetOps, ScanOps
  <2>2. c \in readers'
    BY DEF BeginGet
  <2> QED BY <1>2, <2>1, <2>2, SentOK
<1> QED BY <1>2, <1>3 DEF BeginGet, ReadLockFree, Sent

LEMMA BeginReadMoves ==
    ASSUME CallsInOrder, NEW c \in Clients, NEW op \in {"scan", "count"}, BeginRead(c, op)
    PROVE  /\ ClientMoves(c) /\ client[c].pc = "idle" /\ CallOK(c)'
           /\ client'[c].pc = "send" /\ client'[c].op = op
           /\ readers' = readers \cup {c} /\ worker.pc \notin {"lock", "flush"}
<1>1. DOMAIN client = Clients
  BY DEF CallsInOrder
<1>2. ClientMoves(c) /\ Sent(c, "all", Nobody, op, Nobody)
  BY <1>1, AskMoves DEF BeginRead
<1>3. CallOK(c)'
  <2>1. op \in ScanOps /\ op \in ReadOps /\ op \notin GetOps /\ op # "count loop"
        /\ op # "write" /\ op # "flush"
    BY DEF ReadOps, GetOps, ScanOps
  <2>2. c \in readers'
    BY DEF BeginRead
  <2> QED BY <1>2, <2>1, <2>2, SentOK
<1> QED BY <1>2, <1>3 DEF BeginRead, ReadLockFree, Sent

LEMMA EndReadMoves ==
    ASSUME CallsInOrder, NEW c \in Clients, EndRead(c)
    PROVE  /\ ClientMoves(c) /\ client[c].pc = "reply" /\ CallOK(c)'
           /\ client[c].op \in {"get", "delete", "scan"}
           /\ client'[c].pc = "idle" /\ readers' = readers \ {c}
<1>1. ClientMoves(c) /\ client'[c].pc = "idle"
  BY BecomeMoves DEF CallsInOrder, EndRead, Idle
<1> QED BY <1>1, IdleOK DEF EndRead

\* A count ends, or asks about one more pending record.
LEMMA CountOnMoves ==
    ASSUME CallsInOrder, NEW c \in Clients, c \in readers, NEW todo, NEW total, todo \subseteq Keys,
           CountOn(c, todo, total)
    PROVE  /\ ClientMoves(c) /\ CallOK(c)'
           /\ \/ /\ todo = {} /\ client'[c].pc = "idle"
                 /\ readers' = readers \ {c} /\ pendingHeld' = Nobody
              \/ /\ client'[c].pc = "send" /\ client'[c].op = "count loop"
                 /\ client'[c].data.key \in todo
                 /\ client'[c].data.todo = todo \ {client'[c].data.key}
                 /\ client'[c].data.total = total
                 /\ readers' = readers /\ pendingHeld' = c
<1>1. DOMAIN client = Clients
  BY DEF CallsInOrder
<1>2. CASE todo = {}
  <2>1. ClientMoves(c) /\ client'[c].pc = "idle"
    BY <1>1, <1>2, BecomeMoves DEF CountOn, Idle
  <2> QED BY <1>2, <2>1, IdleOK DEF CountOn
<1>3. CASE todo # {}
  <2> DEFINE k == CHOOSE k \in todo : TRUE
             data == [todo |-> todo \ {k}, key |-> k, total |-> total]
  <2>1. k \in todo
    BY <1>3
  <2>2. Ask(c, "get", k, "count loop", data) /\ pendingHeld' = c /\ readers' = readers
    BY <1>3 DEF CountOn
  <2> HIDE DEF k
  <2>3. data.key = k /\ data.todo = todo \ {k} /\ data.total = total
    OBVIOUS
  <2> HIDE DEF data
  <2>4. ClientMoves(c) /\ Sent(c, "get", k, "count loop", data)
    BY <1>1, <2>2, AskMoves
  <2>5. CallOK(c)'
    <3>1. "count loop" \in ReadOps /\ "count loop" \notin GetOps /\ "count loop" \notin ScanOps
      BY DEF ReadOps, GetOps, ScanOps
    <3>2. k \in Keys /\ data.key \in Keys /\ data.todo \subseteq Keys
      BY <2>1, <2>3
    <3> QED BY <2>2, <2>3, <2>4, <3>1, <3>2, SentOK
  <2> QED BY <2>1, <2>2, <2>3, <2>4, <2>5 DEF Sent
<1> QED BY <1>2, <1>3

LEMMA BeginCountMoves ==
    ASSUME CallsInOrder, Ledger, NEW c \in Clients, BeginCount(c)
    PROVE  /\ ClientMoves(c) /\ CallOK(c)' /\ client[c].pc = "reply" /\ client[c].op = "count"
           /\ c \in readers /\ pendingHeld = Nobody
           /\ \/ /\ DOMAIN pending = {} /\ client'[c].pc = "idle"
                 /\ readers' = readers \ {c} /\ pendingHeld' = Nobody
              \/ /\ client'[c].pc = "send" /\ client'[c].op = "count loop"
                 /\ client'[c].data.key \in DOMAIN pending
                 /\ client'[c].data.todo = DOMAIN pending \ {client'[c].data.key}
                 /\ client'[c].data.total = Cardinality(Live(client[c].reply))
                 /\ readers' = readers /\ pendingHeld' = c
<1>1. client[c].pc = "reply" /\ client[c].op = "count" /\ pendingHeld = Nobody
  BY DEF BeginCount, PendingFree
<1>2. c \in readers
  BY <1>1 DEF CallsInOrder, CallOK, Asking, ReadOps, ScanOps
<1>3. DOMAIN pending \subseteq Keys
  BY DEF Ledger, Partial
<1>4. CountOn(c, DOMAIN pending, Cardinality(Live(client[c].reply)))
  BY DEF BeginCount
<1> QED BY <1>1, <1>2, <1>3, <1>4, CountOnMoves

LEMMA CountNextMoves ==
    ASSUME CallsInOrder, NEW c \in Clients, CountNext(c)
    PROVE  /\ ClientMoves(c) /\ CallOK(c)'
           /\ client[c].pc = "reply" /\ client[c].op = "count loop" /\ c \in readers
           /\ \/ /\ client[c].data.todo = {} /\ client'[c].pc = "idle"
                 /\ readers' = readers \ {c} /\ pendingHeld' = Nobody
              \/ /\ client'[c].pc = "send" /\ client'[c].op = "count loop"
                 /\ client'[c].data.key \in client[c].data.todo
                 /\ client'[c].data.todo = client[c].data.todo \ {client'[c].data.key}
                 /\ client'[c].data.total = Counted(c)
                 /\ readers' = readers /\ pendingHeld' = c
<1>1. client[c].pc = "reply" /\ client[c].op = "count loop"
  BY DEF CountNext
<1>2. c \in readers /\ client[c].data.todo \subseteq Keys
  BY <1>1 DEF CallsInOrder, CallOK, Asking, ReadOps
<1>3. CountOn(c, client[c].data.todo, Counted(c))
  BY DEF CountNext
<1> QED BY <1>1, <1>2, <1>3, CountOnMoves

\* flush, try_flush and close.
LEMMA FlushCallMoves ==
    ASSUME CallsInOrder, NEW c \in Clients,
           (\E kind \in {"flush", "try"} : BeginFlush(c, kind)) \/ BeginClose(c)
    PROVE  /\ ClientMoves(c) /\ client[c].pc = "idle" /\ CallOK(c)'
           /\ client'[c].pc = "send" /\ client'[c].op = "flush" /\ client'[c].data = newest
           /\ UNCHANGED << store, queue, worker, readers, pendingHeld, history >>
<1>1. DOMAIN client = Clients
  BY DEF CallsInOrder
<1>2. PICK kind \in {"flush", "try", "close"} : Ask(c, kind, Nobody, "flush", newest)
  BY DEF BeginFlush, BeginClose
<1>3. ClientMoves(c) /\ Sent(c, kind, Nobody, "flush", newest)
  BY <1>1, <1>2, AskMoves
<1>4. CallOK(c)'
  <2>1. "flush" \notin ReadOps /\ "flush" \notin GetOps /\ "flush" \notin ScanOps
    BY DEF ReadOps, GetOps, ScanOps
  <2> QED BY <1>3, <2>1, SentOK
<1>5. client[c].pc = "idle" /\ UNCHANGED << store, queue, worker, readers, pendingHeld, history >>
  BY DEF BeginFlush, BeginClose
<1> QED BY <1>3, <1>4, <1>5 DEF Sent

LEMMA EndFlushMoves ==
    ASSUME CallsInOrder, NEW c \in Clients, EndFlush(c)
    PROVE  /\ ClientMoves(c) /\ client[c].pc = "reply" /\ client[c].op \in {"flush", "write"}
           /\ CallOK(c)'
           /\ \/ client'[c].pc = "idle"
              \/ client'[c].pc = "write" /\ client'[c].op = "write" /\ client[c].op = "write"
<1>1. DOMAIN client = Clients /\ CallOK(c)
  BY DEF CallsInOrder
<1>2. client[c].pc = "reply" /\ client[c].op \in {"flush", "write"}
  BY DEF EndFlush
<1>3. CASE Become(c, Idle)
  <2>1. ClientMoves(c) /\ client'[c].pc = "idle"
    BY <1>1, <1>3, BecomeMoves DEF Idle
  <2> QED BY <1>2, <2>1, IdleOK
<1>4. CASE /\ Become(c, [pc |-> "write", op |-> "write", data |-> client[c].data])
           /\ client[c].op = "write"
  <2>1. ClientMoves(c)
        /\ client'[c] = [pc |-> "write", op |-> "write", data |-> client[c].data]
    BY <1>1, <1>4, BecomeMoves
  <2>2. client'[c].pc = "write" /\ client'[c].op = "write" /\ client'[c].data = client[c].data
    BY <2>1
  <2>3. CallOK(c)'
    BY <1>1, <1>2, <1>4, <2>2 DEF CallOK, Asking, ReadOps, GetOps, ScanOps
  <2> QED BY <1>2, <1>4, <2>1, <2>2, <2>3
<1> QED BY <1>3, <1>4 DEF EndFlush

LEMMA HoldFlushMoves ==
    ASSUME CallsInOrder, NEW c \in Clients, HoldFlush(c)
    PROVE  /\ ClientMoves(c) /\ client[c].pc = "idle" /\ CallOK(c)'
           /\ client'[c].pc = "hold" /\ client'[c].op = "hold"
           /\ readers' = readers \cup {c} /\ worker.pc \notin {"lock", "flush"}
<1>1. DOMAIN client = Clients
  BY DEF CallsInOrder
<1>2. ClientMoves(c) /\ client'[c].pc = "hold" /\ client'[c].op = "hold"
  BY <1>1, BecomeMoves DEF HoldFlush
<1>3. CallOK(c)'
  BY <1>2 DEF HoldFlush, CallOK, Asking
<1> QED BY <1>2, <1>3 DEF HoldFlush, ReadLockFree

LEMMA ReturnMoves ==
    ASSUME CallsInOrder, NEW c \in Clients, Return(c)
    PROVE  /\ ClientMoves(c) /\ client[c].pc \in {"hold", "closed"} /\ CallOK(c)'
           /\ client'[c].pc = "idle" /\ readers' = readers \ {c}
           /\ pendingHeld' = IF pendingHeld = c THEN Nobody ELSE pendingHeld
<1>1. ClientMoves(c) /\ client'[c].pc = "idle"
  BY BecomeMoves DEF CallsInOrder, Return, Idle
<1> QED BY <1>1, IdleOK DEF Return

----------------------------------------------------------------------------
(* The steps of the worker.                                                *)

\* The head of the channel, and what is left behind it.
LEMMA HeadOfQueue ==
    ASSUME CallsInOrder, queue # << >>
    PROVE  /\ Head(queue) \in Requests /\ Awaited(Head(queue))
           /\ Tail(queue) \in Seq(Requests)
           /\ \A i \in DOMAIN Tail(queue) :
                /\ i + 1 \in DOMAIN queue /\ Tail(queue)[i] = queue[i + 1]
                /\ Tail(queue)[i].from # Head(queue).from
<1>1. queue \in Seq(Requests)
  BY DEF CallsInOrder
<1>2. /\ Head(queue) \in Requests /\ Tail(queue) \in Seq(Requests) /\ Len(queue) \in Nat \ {0}
      /\ DOMAIN queue = 1..Len(queue) /\ Head(queue) = queue[1]
      /\ Len(Tail(queue)) = Len(queue) - 1
  BY <1>1, HeadTailProperties, EmptySeq, LenProperties
<1>3. \A i \in 1..Len(Tail(queue)) : Tail(queue)[i] = queue[i + 1]
  BY <1>1, <1>2, HeadTailProperties
<1>4. DOMAIN Tail(queue) = 1..(Len(queue) - 1)
  BY <1>2, LenProperties
<1>5. 1 \in DOMAIN queue /\ Awaited(Head(queue))
  BY <1>2 DEF CallsInOrder
<1>6. ASSUME NEW i \in DOMAIN Tail(queue)
      PROVE  /\ i + 1 \in DOMAIN queue /\ Tail(queue)[i] = queue[i + 1]
             /\ Tail(queue)[i].from # Head(queue).from
  <2>1. i + 1 \in DOMAIN queue /\ Tail(queue)[i] = queue[i + 1] /\ i + 1 # 1
    BY <1>2, <1>3, <1>4
  <2> QED BY <1>2, <1>5, <2>1 DEF CallsInOrder
<1> QED BY <1>2, <1>5, <1>6

\* The worker answers one caller.
Answers(c) ==
    /\ ClientMoves(c) /\ client[c].pc = "wait" /\ client'[c].pc = "reply"
    /\ client'[c].op = client[c].op /\ client'[c].data = client[c].data

\* What the worker does with the head of the channel.
LEMMA ServeMoves ==
    ASSUME CallsInOrder, Serve
    PROVE  LET r == Head(queue)
           IN  /\ queue # << >> /\ queue' = Tail(queue) /\ worker.pc = "idle"
               /\ UNCHANGED << open, readers, pendingHeld, history, persisted >>
               /\ \/ /\ r.kind = "get" /\ Answers(r.from)
                     /\ client'[r.from].reply = persisted[r.key] /\ UNCHANGED << store, worker >>
                  \/ /\ r.kind = "all" /\ Answers(r.from)
                     /\ client'[r.from].reply = persisted /\ UNCHANGED << store, worker >>
                  \/ /\ r.kind \in {"flush", "close"} /\ UNCHANGED << store, client >>
                     /\ worker' = [pc |-> "lock", task |-> r]
                  \/ r.kind = "try" /\ TakeOps(r) /\ client' = client
                  \/ /\ r.kind = "try" /\ Answers(r.from)
                     /\ client'[r.from].reply = "held" /\ UNCHANGED << store, worker >>
<1> DEFINE r == Head(queue)
<1>1. queue # << >> /\ queue' = Tail(queue) /\ worker.pc = "idle"
      /\ UNCHANGED << open, readers, pendingHeld, history >>
  BY DEF Serve
<1>2. r.from \in Clients /\ client[r.from].pc = "wait" /\ DOMAIN client = Clients
  BY <1>1, HeadOfQueue DEF Awaited, CallsInOrder
<1>3. ASSUME NEW reply, Become(r.from, Answered(r.from, reply))
      PROVE  Answers(r.from) /\ client'[r.from].reply = reply
  <2> HIDE DEF r
  <2>1. ClientMoves(r.from) /\ client'[r.from] = Answered(r.from, reply)
    BY <1>2, <1>3, BecomeMoves
  <2> QED BY <1>2, <2>1 DEF Answered, Answers
<1>4. CASE r.kind \in {"get", "all"} /\ UNCHANGED << store, worker >>
           /\ Become(r.from, Answered(r.from, IF r.kind = "get" THEN persisted[r.key] ELSE persisted))
  <2>1. Answers(r.from)
        /\ client'[r.from].reply = IF r.kind = "get" THEN persisted[r.key] ELSE persisted
    <3> HIDE DEF r
    <3> QED BY <1>3, <1>4
  <2> QED BY <1>1, <1>4, <2>1 DEF store
<1>5. CASE /\ r.kind \in {"flush", "close"} /\ UNCHANGED << store, client >>
           /\ worker' = [pc |-> "lock", task |-> r]
  BY <1>1, <1>5 DEF store
<1>6. CASE r.kind = "try" /\ TakeOps(r) /\ UNCHANGED client
  BY <1>1, <1>6 DEF TakeOps
<1>7. CASE r.kind = "try" /\ UNCHANGED << store, worker >>
           /\ Become(r.from, Answered(r.from, "held"))
  BY <1>1, <1>3, <1>7 DEF store
<1> QED BY <1>4, <1>5, <1>6, <1>7 DEF Serve

\* Who hears of the end of a flush: its caller gets the reply, and at the end
\* of the worker whoever is left in the channel finds it closed.
LEMMA FinishMoves ==
    ASSUME CallsInOrder, worker.pc = "flush", NEW reply, Finish(reply)
    PROVE  /\ DOMAIN client' = Clients /\ inflight' = NoOps
           /\ UNCHANGED << open, readers, pendingHeld, newest, writes >>
           /\ worker'.pc \in {"idle", "stopped"}
           /\ queue' = IF worker.task.kind = "close" THEN << >> ELSE queue
           /\ \A d \in Clients :
                \/ /\ Busy /\ d = worker.task.from /\ client[d].pc = "wait"
                   /\ client'[d].pc = "reply" /\ client'[d].op = client[d].op
                   /\ client'[d].data = client[d].data /\ client'[d].reply = reply
                \/ /\ ~(Busy /\ d = worker.task.from) /\ worker.task.kind = "close"
                   /\ client[d].pc = "wait"
                   /\ client'[d].pc = "closed" /\ client'[d].op = "closed"
                \/ ~(Busy /\ d = worker.task.from) /\ client'[d] = client[d]
<1>1. Busy <=> worker.task.kind # "auto"
  BY DEF Busy
<1> DEFINE from == IF worker.task.kind = "auto" THEN {} ELSE {worker.task.from}
           left == IF worker.task.kind = "close" THEN {queue[i].from : i \in DOMAIN queue} ELSE {}
<1>2. client' = [c \in Clients |-> IF c \in from THEN Answered(c, reply)
                                   ELSE IF c \in left THEN [pc |-> "closed", op |-> "closed"]
                                   ELSE client[c]]
  BY DEF Finish
<1>3. \A d \in Clients : d \in from <=> Busy /\ d = worker.task.from
  BY <1>1
<1>4. \A d \in left : worker.task.kind = "close" /\ client[d].pc = "wait"
  BY DEF CallsInOrder, Awaited
<1>5. Busy => client[worker.task.from].pc = "wait"
  BY DEF CallsInOrder, Awaited
<1> HIDE DEF from, left
<1>6. ASSUME NEW d \in Clients
      PROVE  \/ /\ Busy /\ d = worker.task.from /\ client[d].pc = "wait"
                /\ client'[d].pc = "reply" /\ client'[d].op = client[d].op
                /\ client'[d].data = client[d].data /\ client'[d].reply = reply
             \/ /\ ~(Busy /\ d = worker.task.from) /\ worker.task.kind = "close"
                /\ client[d].pc = "wait"
                /\ client'[d].pc = "closed" /\ client'[d].op = "closed"
             \/ ~(Busy /\ d = worker.task.from) /\ client'[d] = client[d]
  <2>1. CASE d \in from
    <3>1. client'[d] = Answered(d, reply)
      BY <1>2, <2>1
    <3> QED BY <1>3, <1>5, <2>1, <3>1 DEF Answered
  <2>2. CASE d \notin from /\ d \in left
    <3>1. client'[d] = [pc |-> "closed", op |-> "closed"]
      BY <1>2, <2>2
    <3> QED BY <1>3, <1>4, <2>2, <3>1
  <2>3. CASE d \notin from /\ d \notin left
    BY <1>2, <1>3, <2>3
  <2> QED BY <2>1, <2>2, <2>3
<1>7. worker'.pc \in {"idle", "stopped"}
  BY DEF Finish, Idle
<1> QED BY <1>2, <1>6, <1>7 DEF Finish

\* The steps of the worker, by what they may change.
TakesOps == inflight' = pending /\ pending' = NoOps /\ persisted' = persisted /\ readers = {}

LEMMA WorkerMoves ==
    ASSUME CallsInOrder, LockFlush \/ Timer \/ AutoFlush
    PROVE  /\ UNCHANGED << queue, client, open, readers, pendingHeld, history, persisted >>
           /\ \/ /\ TakesOps /\ worker'.pc = "flush" /\ worker.pc # "flush"
                 /\ \/ worker.pc = "lock" /\ worker'.task = worker.task
                    \/ worker.pc = "timer" /\ worker'.task.kind = "auto"
              \/ /\ UNCHANGED store
                 /\ \/ worker.pc = "idle" /\ worker'.pc = "timer"
                    \/ worker.pc = "timer" /\ worker'.pc = "idle"
<1>1. CASE LockFlush
  BY <1>1 DEF LockFlush, TakeOps, TakesOps
<1>2. CASE Timer
  BY <1>2 DEF Timer, store
<1>3. CASE AutoFlush
  BY <1>3 DEF AutoFlush, TakeOps, TakesOps, Idle, store
<1> QED BY <1>1, <1>2, <1>3

\* Both ends of a flush.
EndsFlush(reply) == worker.pc = "flush" /\ Finish(reply)

LEMMA FlushEnds ==
    ASSUME FlushApplied \/ FlushRefused
    PROVE  EndsFlush("ok") \/ EndsFlush("error")
BY DEF FlushApplied, FlushRefused, EndsFlush

\* What a send has to show: the request at the end of the channel is awaited.
LEMMA SendKeepsOrder ==
    ASSUME CallsInOrder, NEW c \in Clients, ClientMoves(c), client[c].pc = "send",
           UNCHANGED << worker, readers >>,
           client'[c].pc = "wait", client'[c].op = client[c].op, client'[c].data = client[c].data,
           queue' = Append(queue, client[c].request)
    PROVE  CallsInOrder'
<1>1. CallOK(c)
  BY DEF CallsInOrder
<1>2. ASSUME NEW d \in Clients PROVE CallOK(d)'
  <2>1. CASE d = c
    BY <1>1, <2>1, KeptOK DEF CallOK, Asking
  <2>2. CASE d # c
    <3>1. client'[d] = client[d] /\ CallOK(d) /\ readers' = readers
      BY <2>2 DEF ClientMoves, CallsInOrder
    <3>2. \A r : Matches(d, r)' <=> Matches(d, r)
      BY <3>1 DEF Matches
    <3> QED BY <3>1, <3>2 DEF CallOK
  <2> QED BY <2>1, <2>2
<1>3. PICK r \in Requests : r = client[c].request /\ Matches(c, r)
  BY <1>1 DEF CallOK
<1>4. ASSUME NEW request, Awaited(request) PROVE Awaited(request)' /\ request.from # c
  BY <1>4 DEF Awaited, Matches, ClientMoves
<1>5. r.from = c /\ Awaited(r)'
  BY <1>3 DEF Awaited, Matches
<1>6. queue \in Seq(Requests) /\ queue' = Append(queue, r)
  BY <1>3 DEF CallsInOrder
<1>7. queue' \in Seq(Requests) /\ DOMAIN queue' = 1..(Len(queue) + 1) /\ Len(queue) \in Nat
      /\ queue'[Len(queue) + 1] = r /\ DOMAIN queue = 1..Len(queue)
      /\ \A i \in 1..Len(queue) : queue'[i] = queue[i]
  BY <1>6, AppendProperties, LenProperties
<1>8. \A i \in DOMAIN queue' :
        \/ i \in DOMAIN queue /\ queue'[i] = queue[i]
        \/ i = Len(queue) + 1 /\ queue'[i] = r
  BY <1>7
<1>9. ASSUME NEW i \in DOMAIN queue' PROVE Awaited(queue[i])'
  <2>1. CASE i \in DOMAIN queue /\ queue'[i] = queue[i]
    <3>1. PICK request : request = queue[i]
      OBVIOUS
    <3>2. Awaited(request)
      BY <2>1, <3>1 DEF CallsInOrder
    <3>3. Awaited(request)' /\ request = queue'[i]
      BY <1>4, <2>1, <3>1, <3>2
    <3> QED BY <3>3 DEF Awaited, Matches
  <2>2. CASE queue'[i] = r
    BY <1>5, <2>2 DEF Awaited, Matches
  <2> QED BY <1>8, <2>1, <2>2
<1>10. \A i \in DOMAIN queue : queue[i].from # c
  BY <1>4 DEF CallsInOrder
<1>11. \A i, j \in DOMAIN queue' : queue'[i].from = queue'[j].from => i = j
  BY <1>5, <1>8, <1>10 DEF CallsInOrder
<1>12. ASSUME Busy'
       PROVE  /\ worker'.task.kind \in {"flush", "try", "close"} /\ Awaited(worker.task)'
              /\ \A i \in DOMAIN queue' : queue'[i].from # worker'.task.from
  <2>1. worker' = worker /\ worker.task.kind \in {"flush", "try", "close"}
        /\ Awaited(worker.task) /\ \A i \in DOMAIN queue : queue[i].from # worker.task.from
    BY <1>12 DEF Busy, CallsInOrder
  <2>2. PICK task : task = worker.task
    OBVIOUS
  <2>3. Awaited(task)' /\ task.from # c /\ task = worker'.task
    BY <1>4, <2>1, <2>2
  <2> QED BY <1>5, <1>8, <2>1, <2>3 DEF Awaited, Matches
<1>13. DOMAIN client' = Clients
  BY DEF ClientMoves
<1> QED BY <1>2, <1>7, <1>9, <1>11, <1>12, <1>13 DEF CallsInOrder

\* A step of a caller that sends nothing.
CallerLeaves(c) ==
    /\ ClientMoves(c) /\ UNCHANGED << queue, worker >> /\ CallOK(c)'
    /\ client[c].pc # "wait" /\ readers \ {c} \subseteq readers'

LEMMA CallerOrder ==
    ASSUME CallsInOrder, Ledger, NEW c \in Clients, Call(c)
    PROVE  CallsInOrder'
<1>1. CASE Send(c)
  <2>1. /\ ClientMoves(c) /\ client[c].pc = "send" /\ UNCHANGED << worker, readers >>
        /\ \/ client'[c].pc = "closed" /\ client'[c].op = "closed" /\ queue' = queue
           \/ /\ client'[c].pc = "wait" /\ client'[c].op = client[c].op
              /\ client'[c].data = client[c].data
              /\ queue' = Append(queue, client[c].request)
    BY <1>1, SendMoves
  <2>2. CASE client'[c].pc = "closed" /\ client'[c].op = "closed" /\ queue' = queue
    <3>1. CallOK(c)'
      BY <2>2 DEF CallOK, Asking
    <3> QED BY <2>1, <2>2, <3>1, CallerKeepsOrder
  <2>3. CASE /\ client'[c].pc = "wait" /\ client'[c].op = client[c].op
             /\ client'[c].data = client[c].data
             /\ queue' = Append(queue, client[c].request)
    BY <2>1, <2>3, SendKeepsOrder
  <2> QED BY <2>1, <2>2, <2>3
<1>2. CASE ~Send(c)
  <2>1. ASSUME NEW k \in Keys, NEW put \in BOOLEAN, BeginWrite(c, k, put) PROVE CallerLeaves(c)
    BY <2>1, BeginWriteMoves DEF BeginWrite, CallerLeaves
  <2>2. ASSUME NEW k \in Keys, BeginGet(c, k) PROVE CallerLeaves(c)
    BY <2>2, BeginGetMoves DEF BeginGet, CallerLeaves
  <2>3. ASSUME NEW op \in {"scan", "count"}, BeginRead(c, op) PROVE CallerLeaves(c)
    BY <2>3, BeginReadMoves DEF BeginRead, CallerLeaves
  <2>4. ASSUME (\E kind \in {"flush", "try"} : BeginFlush(c, kind)) \/ BeginClose(c)
        PROVE  CallerLeaves(c)
    BY <2>4, FlushCallMoves DEF CallerLeaves
  <2>5. ASSUME HoldFlush(c) PROVE CallerLeaves(c)
    BY <2>5, HoldFlushMoves DEF HoldFlush, CallerLeaves
  <2>6. ASSUME Write(c) PROVE CallerLeaves(c)
    BY <2>6, WriteMoves DEF Write, CallerLeaves
  <2>7. ASSUME EndRead(c) PROVE CallerLeaves(c)
    BY <2>7, EndReadMoves DEF EndRead, CallerLeaves
  <2>8. ASSUME BeginCount(c) PROVE CallerLeaves(c)
    BY <2>8, BeginCountMoves DEF BeginCount, CallerLeaves
  <2>9. ASSUME CountNext(c) PROVE CallerLeaves(c)
    BY <2>9, CountNextMoves DEF CountNext, CallerLeaves
  <2>10. ASSUME EndFlush(c) PROVE CallerLeaves(c)
    BY <2>10, EndFlushMoves DEF EndFlush, CallerLeaves
  <2>11. ASSUME Return(c) PROVE CallerLeaves(c)
    BY <2>11, ReturnMoves DEF Return, CallerLeaves
  <2>12. CallerLeaves(c)
    BY <1>2, <2>1, <2>2, <2>3, <2>4, <2>5, <2>6, <2>7, <2>8, <2>9, <2>10, <2>11
       DEF Call, CallStep
  <2> QED BY <2>12, CallerKeepsOrder DEF CallerLeaves
<1> QED BY <1>1, <1>2

----------------------------------------------------------------------------
(* Calls stay in order through the steps of the worker.                    *)

LEMMA CallUntouched ==
    ASSUME NEW d \in Clients, CallOK(d), client'[d] = client[d],
           d \in readers => d \in readers'
    PROVE  CallOK(d)'
BY DEF CallOK, Matches

LEMMA AwaitedUntouched ==
    ASSUME NEW request, Awaited(request), client'[request.from] = client[request.from]
    PROVE  Awaited(request)'
BY DEF Awaited, Matches

\* The channel without its head, when only the head's caller hears of it.
LEMMA TailInOrder ==
    ASSUME CallsInOrder, queue # << >>, queue' = Tail(queue),
           \A d \in Clients : d # Head(queue).from => client'[d] = client[d]
    PROVE  /\ queue' \in Seq(Requests)
           /\ \A i \in DOMAIN queue' : Awaited(queue[i])'
           /\ \A i, j \in DOMAIN queue' : queue'[i].from = queue'[j].from => i = j
           /\ \A i \in DOMAIN queue' : queue'[i].from # Head(queue).from
<1>1. queue' \in Seq(Requests)
  BY HeadOfQueue
<1>2. \A i \in DOMAIN queue' :
        /\ i + 1 \in DOMAIN queue /\ queue'[i] = queue[i + 1]
        /\ queue'[i].from # Head(queue).from
  BY HeadOfQueue
<1>3. \A i \in DOMAIN queue' : i \in Nat
  BY <1>1, LenProperties
<1>4. ASSUME NEW i \in DOMAIN queue' PROVE Awaited(queue[i])'
  <2>1. PICK request : request = queue'[i]
    OBVIOUS
  <2>2. Awaited(request) /\ request.from # Head(queue).from
    BY <1>2, <2>1 DEF CallsInOrder
  <2>3. Awaited(request)'
    BY <2>2, AwaitedUntouched DEF Awaited
  <2> QED BY <2>1, <2>3 DEF Awaited, Matches
<1>5. \A i, j \in DOMAIN queue' : queue'[i].from = queue'[j].from => i = j
  <2> SUFFICES ASSUME NEW i \in DOMAIN queue', NEW j \in DOMAIN queue',
                      queue'[i].from = queue'[j].from
               PROVE  i = j
    OBVIOUS
  <2>1. i + 1 = j + 1
    BY <1>2 DEF CallsInOrder
  <2> QED BY <1>3, <2>1
<1> QED BY <1>1, <1>2, <1>4, <1>5

LEMMA ServeOrder ==
    ASSUME CallsInOrder, Serve
    PROVE  CallsInOrder'
<1>1. PICK r : r = Head(queue)
  OBVIOUS
<1>2. /\ queue # << >> /\ queue' = Tail(queue) /\ worker.pc = "idle"
      /\ readers' = readers
      /\ \/ Answers(r.from) /\ worker' = worker
         \/ client' = client /\ r.kind \in {"flush", "close"} /\ worker' = [pc |-> "lock", task |-> r]
         \/ client' = client /\ r.kind = "try" /\ worker' = [pc |-> "flush", task |-> r]
  BY <1>1, ServeMoves DEF TakeOps
<1>3. r \in Requests /\ Awaited(r)
  BY <1>1, <1>2, HeadOfQueue
<1>4. DOMAIN client' = Clients /\ \A d \in Clients : d # r.from => client'[d] = client[d]
  BY <1>2 DEF Answers, ClientMoves, CallsInOrder
<1>5. /\ queue' \in Seq(Requests)
      /\ \A i \in DOMAIN queue' : Awaited(queue[i])'
      /\ \A i, j \in DOMAIN queue' : queue'[i].from = queue'[j].from => i = j
      /\ \A i \in DOMAIN queue' : queue'[i].from # r.from
  BY <1>1, <1>2, <1>4, TailInOrder
<1>6. ASSUME NEW d \in Clients PROVE CallOK(d)'
  <2>1. CallOK(d)
    BY DEF CallsInOrder
  <2>2. CASE client'[d] = client[d]
    BY <1>2, <2>1, <2>2, CallUntouched
  <2>3. CASE client'[d] # client[d]
    <3>1. d = r.from /\ Answers(d)
      BY <1>2, <1>4, <2>3
    <3> QED BY <1>2, <2>1, <3>1, KeptOK DEF Answers, Asking
  <2> QED BY <2>2, <2>3
<1>7. ASSUME Busy'
      PROVE  /\ worker'.task.kind \in {"flush", "try", "close"} /\ Awaited(worker.task)'
             /\ \A i \in DOMAIN queue' : queue'[i].from # worker'.task.from
  <2>1. worker'.task = r /\ client' = client /\ r.kind \in {"flush", "try", "close"}
    BY <1>2, <1>7 DEF Busy
  <2>2. Awaited(r)'
    BY <1>3, <2>1, AwaitedUntouched
  <2> QED BY <1>5, <2>1, <2>2 DEF Awaited, Matches
<1> QED BY <1>4, <1>5, <1>6, <1>7 DEF CallsInOrder

LEMMA LockOrder ==
    ASSUME CallsInOrder, LockFlush \/ Timer \/ AutoFlush
    PROVE  CallsInOrder'
<1>1. UNCHANGED << queue, client, readers >>
  BY WorkerMoves
<1>2. ASSUME Busy' PROVE Busy /\ worker'.task = worker.task
  <2>1. worker.pc = "lock" /\ worker'.task = worker.task
    BY <1>2, WorkerMoves DEF Busy
  <2> QED BY <1>2, <2>1 DEF Busy
<1>3. ASSUME Busy'
      PROVE  /\ worker'.task.kind \in {"flush", "try", "close"} /\ Awaited(worker.task)'
             /\ \A i \in DOMAIN queue' : queue'[i].from # worker'.task.from
  <2>1. /\ worker.task.kind \in {"flush", "try", "close"} /\ Awaited(worker.task)
        /\ \A i \in DOMAIN queue : queue[i].from # worker.task.from
    BY <1>2, <1>3 DEF CallsInOrder
  <2> QED BY <1>1, <1>2, <1>3, <2>1 DEF Awaited, Matches
<1>4. \A d \in Clients : CallOK(d)'
  BY <1>1, CallUntouched DEF CallsInOrder
<1>5. ASSUME NEW i \in DOMAIN queue' PROVE Awaited(queue[i])'
  <2>1. Awaited(queue[i])
    BY <1>1 DEF CallsInOrder
  <2> QED BY <1>1, <2>1 DEF Awaited, Matches
<1> QED BY <1>1, <1>3, <1>4, <1>5 DEF CallsInOrder

LEMMA EndOrder ==
    ASSUME CallsInOrder, NEW reply, EndsFlush(reply)
    PROVE  CallsInOrder'
<1>1. worker.pc = "flush" /\ Finish(reply)
  BY DEF EndsFlush
<1>2. /\ DOMAIN client' = Clients /\ readers' = readers
      /\ worker'.pc \in {"idle", "stopped"}
      /\ queue' = IF worker.task.kind = "close" THEN << >> ELSE queue
  BY <1>1, FinishMoves
<1>3. ASSUME NEW d \in Clients PROVE CallOK(d)'
  <2>1. CallOK(d)
    BY DEF CallsInOrder
  <2>2. CASE client'[d] = client[d]
    BY <1>2, <2>1, <2>2, CallUntouched
  <2>3. CASE client[d].pc = "wait" /\ client'[d].pc = "reply" /\ client'[d].op = client[d].op
             /\ client'[d].data = client[d].data
    BY <1>2, <2>1, <2>3, KeptOK DEF Asking
  <2>4. CASE client'[d].pc = "closed" /\ client'[d].op = "closed"
    BY <2>4 DEF CallOK, Asking
  <2> QED BY <1>1, <2>2, <2>3, <2>4, FinishMoves
<1>4. ASSUME NEW i \in DOMAIN queue' PROVE Awaited(queue[i])'
  <2>1. worker.task.kind # "close" /\ queue' = queue
    BY <1>2
  <2>2. Awaited(queue[i]) /\ queue[i].from \in Clients
    BY <2>1 DEF CallsInOrder, Awaited
  <2>3. ~(Busy /\ queue[i].from = worker.task.from)
    BY <2>1 DEF CallsInOrder
  <2>4. client'[queue[i].from] = client[queue[i].from]
    BY <1>1, <2>1, <2>2, <2>3, FinishMoves
  <2> QED BY <2>1, <2>2, <2>4 DEF Awaited, Matches
<1>5. queue' \in Seq(Requests)
      /\ \A i, j \in DOMAIN queue' : queue'[i].from = queue'[j].from => i = j
  BY <1>2, EmptySeq DEF CallsInOrder
<1>6. ~Busy'
  BY <1>2 DEF Busy
<1> QED BY <1>2, <1>3, <1>4, <1>5, <1>6 DEF CallsInOrder

LEMMA OrderStep ==
    ASSUME CallsInOrder, Ledger, Next
    PROVE  CallsInOrder'
<1>1. CASE \E c \in Clients : Call(c)
  BY <1>1, CallerOrder
<1>2. CASE Serve
  BY <1>2, ServeOrder
<1>3. CASE LockFlush \/ Timer \/ AutoFlush
  BY <1>3, LockOrder
<1>4. CASE FlushApplied \/ FlushRefused
  BY <1>4, FlushEnds, EndOrder
<1> QED BY <1>1, <1>2, <1>3, <1>4 DEF Next, WorkerStep

----------------------------------------------------------------------------
(* The flush lock and the mutex of pending.                                *)

\* What a caller's step does to the locks: nothing, or it takes, keeps or drops
\* the mutex of pending; it takes the flush lock only when no flush has it.
Counting(c) == client[c].pc \in Asking /\ client[c].op = "count loop"

CallerLocks(c) ==
    /\ ClientMoves(c) /\ worker' = worker
    /\ readers \ {c} \subseteq readers' /\ readers' \subseteq readers \cup {c}
    /\ readers' \subseteq readers \/ worker.pc # "flush"
    /\ \/ pendingHeld' = pendingHeld /\ pendingHeld # c /\ ~Counting(c)'
       \/ /\ pendingHeld' = pendingHeld /\ client[c].pc = "send" /\ readers' = readers
          /\ client'[c].pc \in {"wait", "closed"}
          /\ client'[c].pc = "wait" => client'[c].op = client[c].op
       \/ pendingHeld' = c /\ pendingHeld \in {c, Nobody} /\ c \in readers' /\ Counting(c)'
       \/ pendingHeld' = Nobody /\ pendingHeld \in {c, Nobody} /\ ~Counting(c)'

LEMMA CallerLocksStep ==
    ASSUME CallsInOrder, Ledger, LocksInOrder, NEW c \in Clients, Call(c)
    PROVE  CallerLocks(c)
<1>1. pendingHeld = c => client[c].pc = "closed" \/ Counting(c)
  BY SentinelAssumption DEF LocksInOrder, Counting
<1>2. \A d \in Clients : Counting(d) => pendingHeld = d
  BY DEF LocksInOrder, Counting
<1>3. ASSUME NEW k \in Keys, NEW put \in BOOLEAN, BeginWrite(c, k, put) PROVE CallerLocks(c)
  BY <1>1, <1>3, BeginWriteMoves DEF BeginWrite, CallerLocks, Counting, Asking
<1>4. ASSUME NEW k \in Keys, BeginGet(c, k) PROVE CallerLocks(c)
  BY <1>1, <1>4, BeginGetMoves DEF BeginGet, CallerLocks, Counting, Asking
<1>5. ASSUME NEW op \in {"scan", "count"}, BeginRead(c, op) PROVE CallerLocks(c)
  BY <1>1, <1>5, BeginReadMoves DEF BeginRead, CallerLocks, Counting, Asking
<1>6. ASSUME (\E kind \in {"flush", "try"} : BeginFlush(c, kind)) \/ BeginClose(c)
      PROVE  CallerLocks(c)
  BY <1>1, <1>6, FlushCallMoves DEF CallerLocks, Counting, Asking
<1>7. ASSUME HoldFlush(c) PROVE CallerLocks(c)
  BY <1>1, <1>7, HoldFlushMoves DEF HoldFlush, CallerLocks, Counting, Asking
<1>8. ASSUME Write(c) PROVE CallerLocks(c)
  <2>1. pendingHeld' = pendingHeld /\ worker' = worker
    BY <1>8 DEF Write
  <2> QED BY <1>1, <1>8, <2>1, WriteMoves DEF CallerLocks, Counting, Asking
<1>9. ASSUME EndRead(c) PROVE CallerLocks(c)
  BY <1>1, <1>9, EndReadMoves DEF EndRead, CallerLocks, Counting, Asking
<1>10. ASSUME BeginCount(c) PROVE CallerLocks(c)
  BY <1>1, <1>10, BeginCountMoves DEF BeginCount, CallerLocks, Counting, Asking
<1>11. ASSUME CountNext(c) PROVE CallerLocks(c)
  <2>1. pendingHeld = c /\ worker' = worker
    BY <1>2, <1>11 DEF CountNext, Counting, Asking
  <2> QED BY <1>11, <2>1, CountNextMoves DEF CallerLocks, Counting, Asking
<1>12. ASSUME EndFlush(c) PROVE CallerLocks(c)
  BY <1>1, <1>12, EndFlushMoves DEF EndFlush, CallerLocks, Counting, Asking
<1>13. ASSUME Return(c) PROVE CallerLocks(c)
  BY <1>1, <1>13, ReturnMoves DEF Return, CallerLocks, Counting, Asking
<1>14. ASSUME Send(c) PROVE CallerLocks(c)
  BY <1>14, SendMoves DEF CallerLocks
<1> QED BY <1>3, <1>4, <1>5, <1>6, <1>7, <1>8, <1>9, <1>10, <1>11, <1>12, <1>13, <1>14
        DEF Call, CallStep

LEMMA LocksByCaller ==
    ASSUME CallsInOrder, LocksInOrder, NEW c \in Clients, CallerLocks(c)
    PROVE  LocksInOrder'
<1>1. \A d \in Clients : d # c => client'[d] = client[d]
  BY DEF CallerLocks, ClientMoves
<1>2. readers' \subseteq Clients
  BY DEF CallerLocks, LocksInOrder
<1>3. worker'.pc \in {"idle", "lock", "flush", "timer", "stopped"}
      /\ (worker'.pc = "flush" => readers' = {})
  BY DEF CallerLocks, LocksInOrder
<1>4. ASSUME pendingHeld' # Nobody
      PROVE  /\ pendingHeld' \in readers'
             /\ client'[pendingHeld'].pc \in Asking \cup {"closed"}
             /\ client'[pendingHeld'].pc \in Asking => client'[pendingHeld'].op = "count loop"
  <2>1. CASE pendingHeld' = pendingHeld /\ pendingHeld # c
    BY <1>1, <1>4, <2>1 DEF CallerLocks, LocksInOrder
  <2>2. CASE pendingHeld' = c /\ c \in readers' /\ Counting(c)'
    BY <2>2 DEF Counting
  <2>3. CASE /\ pendingHeld' = pendingHeld /\ pendingHeld = c
             /\ client[c].pc = "send" /\ readers' = readers
             /\ client'[c].pc \in {"wait", "closed"}
             /\ client'[c].pc = "wait" => client'[c].op = client[c].op
    BY <1>4, <2>3 DEF LocksInOrder, Asking
  <2> QED BY <1>4, <2>1, <2>2, <2>3 DEF CallerLocks
<1>5. ASSUME NEW d \in Clients, Counting(d)' PROVE pendingHeld' = d
  <2>1. CASE d # c
    <3>1. pendingHeld = d /\ d # Nobody
      BY <1>1, <1>5, <2>1, SentinelAssumption DEF Counting, LocksInOrder
    <3> QED BY <2>1, <3>1 DEF CallerLocks
  <2>2. CASE d = c
    <3>1. CASE pendingHeld' = c
      BY <2>2, <3>1
    <3>2. CASE pendingHeld' = pendingHeld /\ client[c].pc = "send"
               /\ (client'[c].pc = "wait" => client'[c].op = client[c].op)
               /\ client'[c].pc \in {"wait", "closed"}
      BY <1>5, <2>2, <3>2 DEF Counting, LocksInOrder, Asking
    <3> QED BY <1>5, <2>2, <3>1, <3>2 DEF CallerLocks
  <2> QED BY <2>1, <2>2
<1> QED BY <1>2, <1>3, <1>4, <1>5 DEF LocksInOrder, Counting

\* What a step of the worker does to the locks and the calls.
WorkerLocks ==
    /\ UNCHANGED << readers, pendingHeld >>
    /\ worker'.pc \in {"idle", "lock", "flush", "timer", "stopped"}
    /\ worker'.pc = "flush" => readers = {}
    /\ \A d \in Clients :
         \/ client'[d] = client[d]
         \/ /\ client[d].pc = "wait" /\ client'[d].pc = "reply"
            /\ client'[d].op = client[d].op /\ client'[d].data = client[d].data
         \/ client[d].pc = "wait" /\ client'[d].pc = "closed"

LEMMA WorkerLocksStep ==
    ASSUME CallsInOrder, Serve \/ Timer \/ WorkerStep
    PROVE  WorkerLocks
<1>1. CASE Serve
  <2>1. PICK r : r = Head(queue)
    OBVIOUS
  <2>2. /\ UNCHANGED << readers, pendingHeld >> /\ worker.pc = "idle"
        /\ \/ Answers(r.from) /\ worker' = worker
           \/ client' = client /\ worker' = [pc |-> "lock", task |-> r]
           \/ client' = client /\ worker' = [pc |-> "flush", task |-> r] /\ readers = {}
    BY <1>1, <2>1, ServeMoves DEF TakeOps
  <2> QED BY <2>2 DEF WorkerLocks, Answers, ClientMoves
<1>2. CASE LockFlush \/ Timer \/ AutoFlush
  <2>1. UNCHANGED << client, readers, pendingHeld >>
        /\ worker'.pc \in {"idle", "flush", "timer"}
        /\ (worker'.pc = "flush" => readers = {})
    BY <1>2, WorkerMoves DEF TakesOps
  <2> QED BY <2>1 DEF WorkerLocks
<1>3. CASE FlushApplied \/ FlushRefused
  <2>1. PICK reply : EndsFlush(reply)
    BY <1>3, FlushEnds
  <2>2. worker.pc = "flush" /\ Finish(reply)
    BY <2>1 DEF EndsFlush
  <2>3. UNCHANGED << readers, pendingHeld >> /\ worker'.pc \in {"idle", "stopped"}
    BY <2>2, FinishMoves
  <2>4. ASSUME NEW d \in Clients
        PROVE  \/ client'[d] = client[d]
               \/ /\ client[d].pc = "wait" /\ client'[d].pc = "reply"
                  /\ client'[d].op = client[d].op /\ client'[d].data = client[d].data
               \/ client[d].pc = "wait" /\ client'[d].pc = "closed"
    BY <2>2, FinishMoves
  <2> QED BY <2>3, <2>4 DEF WorkerLocks
<1> QED BY <1>1, <1>2, <1>3 DEF WorkerStep

LEMMA LocksByWorker ==
    ASSUME LocksInOrder, WorkerLocks
    PROVE  LocksInOrder'
<1>1. \A d \in Clients :
        /\ Counting(d)' => Counting(d)
        /\ client[d].pc \in Asking \cup {"closed"} => client'[d].pc \in Asking \cup {"closed"}
        /\ client[d].pc = "closed" => client'[d].pc = "closed"
        /\ client'[d].pc \in Asking => client'[d].pc \in Asking /\ client'[d].op = client[d].op
  BY DEF WorkerLocks, Counting, Asking
<1>2. pendingHeld # Nobody => pendingHeld \in Clients
  BY DEF LocksInOrder
<1> QED BY <1>1, <1>2 DEF WorkerLocks, LocksInOrder, Counting, Asking

LEMMA LocksStep ==
    ASSUME CallsInOrder, Ledger, LocksInOrder, Next
    PROVE  LocksInOrder'
<1>1. CASE \E c \in Clients : Call(c)
  BY <1>1, CallerLocksStep, LocksByCaller
<1>2. CASE Serve \/ Timer \/ WorkerStep
  BY <1>2, WorkerLocksStep, LocksByWorker
<1> QED BY <1>1, <1>2 DEF Next

----------------------------------------------------------------------------
(* The records and the operations over them.                               *)

LEMMA OverAt ==
    ASSUME NEW base, NEW ops
    PROVE  /\ DOMAIN Over(base, ops) = DOMAIN base
           /\ \A k \in DOMAIN base :
                Over(base, ops)[k] = IF k \in DOMAIN ops THEN ops[k] ELSE base[k]
BY DEF Over

LEMMA EffectiveAt ==
    ASSUME NEW stored, NEW taken, NEW ops, NEW k \in DOMAIN stored
    PROVE  Over(Over(stored, taken), ops)[k] =
             IF k \in DOMAIN ops THEN ops[k]
             ELSE IF k \in DOMAIN taken THEN taken[k] ELSE stored[k]
<1> DEFINE base == Over(stored, taken)
<1>1. DOMAIN base = DOMAIN stored
      /\ base[k] = IF k \in DOMAIN taken THEN taken[k] ELSE stored[k]
  BY OverAt
<1> HIDE DEF base
<1>2. Over(base, ops)[k] = IF k \in DOMAIN ops THEN ops[k] ELSE base[k]
  BY <1>1, OverAt
<1> QED BY <1>1, <1>2 DEF base

LEMMA PartialAt ==
    ASSUME NEW f \in Partial(Keys, Writes)
    PROVE  DOMAIN f \subseteq Keys /\ \A k \in DOMAIN f : f[k] \in Writes
BY DEF Partial

LEMMA PartialFrom ==
    ASSUME NEW f, NEW ks \in SUBSET Keys, f \in [ks -> Writes]
    PROVE  f \in Partial(Keys, Writes)
BY DEF Partial

LEMMA NoOpsPartial ==
    NoOps \in Partial(Keys, Writes) /\ DOMAIN NoOps = {}
<1>1. NoOps \in [{} -> Writes] /\ DOMAIN NoOps = {}
  BY DEF NoOps
<1> QED BY <1>1, PartialFrom

LEMMA MergePartial ==
    ASSUME NEW f \in Partial(Keys, Writes), NEW g \in Partial(Keys, Writes)
    PROVE  Merge(f, g) \in Partial(Keys, Writes)
<1>1. DOMAIN f \cup DOMAIN g \in SUBSET Keys
      /\ (\A k \in DOMAIN f : f[k] \in Writes) /\ (\A k \in DOMAIN g : g[k] \in Writes)
  BY PartialAt
<1>2. Merge(f, g) \in [DOMAIN f \cup DOMAIN g -> Writes]
  BY <1>1 DEF Merge
<1> QED BY <1>1, <1>2, PartialFrom

LEMMA OverRecords ==
    ASSUME NEW f \in [Keys -> Writes], NEW g \in Partial(Keys, Writes)
    PROVE  Over(f, g) \in [Keys -> Writes]
<1>1. \A k \in DOMAIN g : g[k] \in Writes
  BY PartialAt
<1> QED BY <1>1 DEF Over

LEMMA WriteNumber ==
    ASSUME NEW w \in Writes
    PROVE  w.n \in 0..MaxWrites /\ w.n \in Nat /\ w.n <= MaxWrites /\ w.put \in BOOLEAN
BY BoundAssumption DEF Writes

\* The newest writes are still there to read, and whatever was before the step
\* is there after it, or lost.
Readable == \A k \in Keys, n \in Nat : KeptAt(Effective, k, n) => KeptAt(Effective, k, n)'

Keeping ==
    /\ Ledger' /\ NewestEffective'
    /\ lost \subseteq lost' /\ writes <= writes' /\ Readable

LEMMA StoreUntouched ==
    ASSUME Ledger, NewestEffective, UNCHANGED << store, history >>,
           worker'.pc # "flush" => worker.pc # "flush"
    PROVE  Keeping
<1>1. UNCHANGED << persisted, pending, inflight, newest, writes, lost, failures >>
  BY DEF store, history
<1>2. Effective' = Effective
  BY <1>1 DEF Effective, Over
<1>3. Ledger'
  BY <1>1 DEF Ledger
<1>4. NewestEffective'
  BY <1>1, <1>2 DEF NewestEffective
<1>5. Readable
  BY <1>1, <1>2 DEF Readable, KeptAt
<1>6. writes <= writes'
  BY <1>1 DEF Ledger
<1> QED BY <1>1, <1>3, <1>4, <1>5, <1>6 DEF Keeping

LEMMA StoreTaken ==
    ASSUME Ledger, NewestEffective, UNCHANGED << persisted, history >>,
           inflight' = pending, pending' = NoOps, worker.pc # "flush", worker'.pc = "flush"
    PROVE  Keeping
<1>1. UNCHANGED << persisted, newest, writes, lost, failures >>
  BY DEF history
<1>2. inflight = NoOps /\ DOMAIN NoOps = {} /\ DOMAIN pending' = {} /\ DOMAIN inflight = {}
  BY NoOpsPartial DEF Ledger
<1>3. DOMAIN persisted = Keys /\ DOMAIN persisted' = Keys
  BY <1>1 DEF Ledger
<1>4. \A k \in Keys : Effective'[k] = Effective[k]
  BY <1>1, <1>2, <1>3, EffectiveAt DEF Effective
<1>5. Ledger'
  <2>1. pending' \in Partial(Keys, Writes) /\ inflight' \in Partial(Keys, Writes)
    BY NoOpsPartial DEF Ledger
  <2>2. \A k \in DOMAIN inflight' : persisted'[k].n <= inflight'[k].n /\ inflight'[k].n <= writes'
    BY <1>1 DEF Ledger
  <2> QED BY <1>1, <1>2, <2>1, <2>2 DEF Ledger
<1>6. NewestEffective'
  BY <1>1, <1>4 DEF NewestEffective
<1>7. Readable
  BY <1>1, <1>4 DEF Readable, KeptAt
<1>8. writes <= writes'
  BY <1>1 DEF Ledger
<1> QED BY <1>1, <1>5, <1>6, <1>7, <1>8 DEF Keeping

LEMMA StoreApplied ==
    ASSUME Ledger, NewestEffective, persisted' = Over(persisted, inflight), inflight' = NoOps,
           UNCHANGED << pending, newest, writes, lost >>, failures' \in 0..MaxFailures
    PROVE  Keeping
<1>1. DOMAIN persisted = Keys /\ DOMAIN inflight' = {}
      /\ pending \in Partial(Keys, Writes) /\ inflight \in Partial(Keys, Writes)
  BY NoOpsPartial DEF Ledger
<1>2. persisted' \in [Keys -> Writes]
  BY <1>1, OverRecords DEF Ledger
<1>3. \A k \in Keys : persisted'[k] = IF k \in DOMAIN inflight THEN inflight[k] ELSE persisted[k]
  BY <1>1, OverAt
<1>4. DOMAIN persisted' = Keys
  BY <1>2
<1>5. \A k \in Keys : Effective'[k] = Effective[k]
  <2> SUFFICES ASSUME NEW k \in Keys PROVE Effective'[k] = Effective[k]
    OBVIOUS
  <2>1. Effective'[k] = IF k \in DOMAIN pending THEN pending[k] ELSE persisted'[k]
    BY <1>1, <1>4, EffectiveAt DEF Effective
  <2>2. Effective[k] = IF k \in DOMAIN pending THEN pending[k]
                       ELSE IF k \in DOMAIN inflight THEN inflight[k] ELSE persisted[k]
    BY <1>1, EffectiveAt DEF Effective
  <2> QED BY <1>3, <2>1, <2>2
<1>6. Ledger'
  <2>1. \A k \in Keys : persisted'[k].n <= writes
    BY <1>3 DEF Ledger
  <2>2. \A k \in DOMAIN pending : persisted'[k].n <= pending[k].n
    <3> SUFFICES ASSUME NEW k \in DOMAIN pending PROVE persisted'[k].n <= pending[k].n
      OBVIOUS
    <3>1. k \in Keys /\ pending[k].n \in Nat
      BY <1>1, PartialAt, WriteNumber
    <3>2. CASE k \in DOMAIN inflight
      <4>1. inflight[k].n \in Nat /\ inflight[k].n < pending[k].n
        BY <1>1, <3>2, PartialAt, WriteNumber DEF Ledger
      <4> QED BY <1>3, <3>1, <3>2, <4>1
    <3>3. CASE k \notin DOMAIN inflight
      BY <1>3, <3>1, <3>3 DEF Ledger
    <3> QED BY <3>2, <3>3
  <2>3. inflight' \in Partial(Keys, Writes)
    BY NoOpsPartial
  <2> QED BY <1>1, <1>2, <2>1, <2>2, <2>3 DEF Ledger
<1>7. NewestEffective'
  BY <1>5 DEF NewestEffective
<1>8. Readable
  BY <1>5 DEF Readable, KeptAt
<1>9. writes <= writes'
  BY DEF Ledger
<1> QED BY <1>6, <1>7, <1>8, <1>9 DEF Keeping

\* A batch that failed: its operations go back over what was written meanwhile,
\* and what they hide is lost.
LEMMA StoreRefused ==
    ASSUME Ledger, NewestEffective, FlushRefused
    PROVE  Keeping
<1>1. /\ DOMAIN persisted = Keys
      /\ pending \in Partial(Keys, Writes) /\ inflight \in Partial(Keys, Writes)
      /\ DOMAIN pending \subseteq Keys /\ DOMAIN inflight \subseteq Keys
  BY PartialAt DEF Ledger
<1>2. /\ failures < MaxFailures /\ failures' = failures + 1
      /\ persisted' = persisted \/ persisted' = Over(persisted, inflight)
      /\ pending' = Merge(inflight, pending) /\ inflight' = NoOps
      /\ UNCHANGED << newest, writes >>
      /\ lost' = lost \cup UNION {{<< k, n >> : n \in inflight[k].n + 1..pending[k].n} :
                                  k \in DOMAIN pending \cap DOMAIN inflight}
  BY DEF FlushRefused, Finish
<1>3. persisted' \in [Keys -> Writes] /\ pending' \in Partial(Keys, Writes)
  BY <1>1, <1>2, OverRecords, MergePartial DEF Ledger
<1>4. /\ DOMAIN pending' = DOMAIN inflight \cup DOMAIN pending
      /\ \A k \in DOMAIN inflight : pending'[k] = inflight[k]
      /\ \A k \in DOMAIN pending \ DOMAIN inflight : pending'[k] = pending[k]
  <2>1. pending' = Merge(inflight, pending)
    BY <1>2
  <2> QED BY <2>1 DEF Merge
<1>5. \A k \in Keys : \/ persisted'[k] = persisted[k]
                      \/ k \in DOMAIN inflight /\ persisted'[k] = inflight[k]
  BY <1>1, <1>2, OverAt
<1>6. /\ \A k \in Keys : persisted[k].n \in Nat
      /\ \A k \in DOMAIN inflight : inflight[k].n \in Nat /\ inflight[k].n <= MaxWrites
      /\ \A k \in DOMAIN pending : pending[k].n \in Nat /\ pending[k].n <= MaxWrites
  BY <1>1, PartialAt, WriteNumber DEF Ledger
<1>7. DOMAIN persisted' = Keys /\ DOMAIN inflight' = {} /\ inflight' \in Partial(Keys, Writes)
  BY <1>2, <1>3, NoOpsPartial
<1>8. ASSUME NEW k \in Keys
      PROVE  Effective'[k] = IF k \in DOMAIN inflight THEN inflight[k] ELSE Effective[k]
  <2>1. Effective'[k] = IF k \in DOMAIN pending' THEN pending'[k] ELSE persisted'[k]
    BY <1>7, EffectiveAt DEF Effective
  <2>2. Effective[k] = IF k \in DOMAIN pending THEN pending[k]
                       ELSE IF k \in DOMAIN inflight THEN inflight[k] ELSE persisted[k]
    BY <1>1, EffectiveAt DEF Effective
  <2> QED BY <1>4, <1>5, <2>1, <2>2
<1>9. ASSUME NEW k \in DOMAIN pending \cap DOMAIN inflight,
             NEW n \in Nat, inflight[k].n < n, n <= pending[k].n
      PROVE  << k, n >> \in lost'
  <2>1. n \in inflight[k].n + 1..pending[k].n
    BY <1>6, <1>9
  <2> QED BY <1>2, <2>1
<1>10. lost' \subseteq Keys \X (1..MaxWrites)
  <2>1. \A k \in DOMAIN pending \cap DOMAIN inflight :
          inflight[k].n + 1..pending[k].n \subseteq 1..MaxWrites
    BY <1>6, BoundAssumption
  <2>2. \A k \in DOMAIN pending \cap DOMAIN inflight :
          {<< k, n >> : n \in inflight[k].n + 1..pending[k].n} \subseteq Keys \X (1..MaxWrites)
    BY <1>1, <2>1
  <2> QED BY <1>2, <2>2 DEF Ledger
<1>11. Ledger'
  <2>1. \A k \in Keys : persisted'[k].n <= writes
    BY <1>5 DEF Ledger
  <2>2. \A k \in DOMAIN pending' : persisted'[k].n <= pending'[k].n /\ pending'[k].n <= writes
    <3> SUFFICES ASSUME NEW k \in DOMAIN pending'
                 PROVE  persisted'[k].n <= pending'[k].n /\ pending'[k].n <= writes
      OBVIOUS
    <3>1. CASE k \in DOMAIN inflight
      BY <1>1, <1>4, <1>5, <1>6, <3>1 DEF Ledger
    <3>2. CASE k \notin DOMAIN inflight
      BY <1>1, <1>4, <1>5, <3>2 DEF Ledger
    <3> QED BY <3>1, <3>2
  <2>3. failures' \in 0..MaxFailures
    BY <1>2, BoundAssumption DEF Ledger
  <2>4. newest' \in [Keys -> Writes] /\ writes' \in Nat /\ \A k \in Keys : newest'[k].n <= writes'
    BY <1>2 DEF Ledger
  <2> QED BY <1>2, <1>3, <1>7, <1>10, <2>1, <2>2, <2>3, <2>4 DEF Ledger
<1>12. ASSUME NEW k \in Keys, << k, newest[k].n >> \notin lost'
       PROVE  Effective'[k] = newest'[k]
  <2>1. Effective[k] = newest[k]
    BY <1>2, <1>12 DEF NewestEffective
  <2>2. CASE k \in DOMAIN inflight /\ k \in DOMAIN pending
    <3>1. Effective[k] = pending[k]
      BY <1>1, <2>2, EffectiveAt DEF Effective
    <3>2. inflight[k].n < newest[k].n /\ newest[k].n <= pending[k].n /\ newest[k].n \in Nat
      BY <1>6, <2>1, <2>2, <3>1 DEF Ledger
    <3> QED BY <1>9, <1>12, <2>2, <3>2
  <2>3. CASE k \in DOMAIN inflight /\ k \notin DOMAIN pending
    <3>1. Effective[k] = inflight[k]
      BY <1>1, <2>3, EffectiveAt DEF Effective
    <3> QED BY <1>2, <1>8, <2>1, <2>3, <3>1
  <2>4. CASE k \notin DOMAIN inflight
    BY <1>2, <1>8, <2>1, <2>4
  <2> QED BY <2>2, <2>3, <2>4
<1>13. NewestEffective'
  BY <1>2, <1>12 DEF NewestEffective
<1>14. ASSUME NEW k \in Keys, NEW n \in Nat, KeptAt(Effective, k, n)
       PROVE  KeptAt(Effective, k, n)'
  <2>1. CASE << k, n >> \in lost
    BY <1>2, <2>1 DEF KeptAt
  <2>2. CASE Effective[k].n >= n /\ k \in DOMAIN inflight /\ k \in DOMAIN pending
    <3>1. Effective[k] = pending[k]
      BY <1>1, <2>2, EffectiveAt DEF Effective
    <3>2. CASE inflight[k].n >= n
      BY <1>8, <2>2, <3>2 DEF KeptAt
    <3>3. CASE ~(inflight[k].n >= n)
      <4>1. inflight[k].n < n /\ n <= pending[k].n
        BY <1>6, <2>2, <3>1, <3>3
      <4> QED BY <1>9, <2>2, <4>1 DEF KeptAt
    <3> QED BY <3>2, <3>3
  <2>3. CASE Effective[k].n >= n /\ k \in DOMAIN inflight /\ k \notin DOMAIN pending
    <3>1. Effective[k] = inflight[k]
      BY <1>1, <2>3, EffectiveAt DEF Effective
    <3> QED BY <1>8, <2>3, <3>1 DEF KeptAt
  <2>4. CASE Effective[k].n >= n /\ k \notin DOMAIN inflight
    BY <1>8, <2>4 DEF KeptAt
  <2> QED BY <1>14, <2>1, <2>2, <2>3, <2>4 DEF KeptAt
<1>15. Readable
  BY <1>14 DEF Readable
<1>16. lost \subseteq lost' /\ writes <= writes'
  BY <1>2 DEF Ledger
<1> QED BY <1>11, <1>13, <1>15, <1>16 DEF Keeping

\* A write, where one more is within the bound.
LEMMA StoreWritten ==
    ASSUME Ledger, NewestEffective, CallsInOrder, NEW c \in Clients, Write(c),
           writes + 1 <= MaxWrites
    PROVE  Keeping
<1> DEFINE k == client[c].data.key
           w == [n |-> writes + 1, put |-> client[c].data.put]
           one == [j \in {k} |-> w]
<1>1. k \in Keys /\ client[c].data.put \in BOOLEAN
  BY WriteMoves
<1>2. writes \in Nat
  BY DEF Ledger
<1>3. w \in Writes /\ w.n = writes + 1
  BY <1>1, <1>2 DEF Writes
<1>4. /\ pending' = Merge(one, pending) /\ writes' = writes + 1
      /\ newest' = [newest EXCEPT ![k] = w]
      /\ UNCHANGED << persisted, inflight, worker, lost, failures >>
  BY DEF Write
<1> HIDE DEF k, w
<1>5. DOMAIN one = {k} /\ one[k] = w /\ one \in [{k} -> Writes]
  BY <1>3
<1>6. one \in Partial(Keys, Writes)
  BY <1>1, <1>5, PartialFrom
<1>7. pending' \in Partial(Keys, Writes)
  BY <1>4, <1>6, MergePartial DEF Ledger
<1> HIDE DEF one
<1>8. /\ DOMAIN pending' = {k} \cup DOMAIN pending /\ pending'[k] = w
      /\ \A j \in DOMAIN pending : j # k => pending'[j] = pending[j]
  <2>1. pending' = Merge(one, pending)
    BY <1>4
  <2> QED BY <1>5, <2>1 DEF Merge
<1>9. DOMAIN persisted = Keys /\ DOMAIN persisted' = Keys
      /\ DOMAIN pending \subseteq Keys /\ DOMAIN inflight \subseteq Keys
  BY <1>4, PartialAt DEF Ledger
<1>10. ASSUME NEW j \in Keys
       PROVE  Effective'[j] = IF j = k THEN w ELSE Effective[j]
  <2>1. Effective'[j] = IF j \in DOMAIN pending' THEN pending'[j]
                        ELSE IF j \in DOMAIN inflight' THEN inflight'[j] ELSE persisted'[j]
    BY <1>9, EffectiveAt DEF Effective
  <2>2. Effective[j] = IF j \in DOMAIN pending THEN pending[j]
                       ELSE IF j \in DOMAIN inflight THEN inflight[j] ELSE persisted[j]
    BY <1>9, EffectiveAt DEF Effective
  <2> QED BY <1>4, <1>8, <2>1, <2>2
<1>11. newest' \in [Keys -> Writes] /\ newest'[k] = w
       /\ \A j \in Keys : j # k => newest'[j] = newest[j]
  BY <1>1, <1>3, <1>4 DEF Ledger
<1>12. \A j \in Keys : persisted[j].n \in Nat /\ newest[j].n \in Nat
  BY WriteNumber DEF Ledger
<1>13. /\ \A j \in DOMAIN inflight : inflight[j].n \in Nat
       /\ \A j \in DOMAIN pending : pending[j].n \in Nat
  BY PartialAt, WriteNumber DEF Ledger
<1>14. Ledger'
  <2>1. \A j \in Keys : persisted[j].n <= writes + 1 /\ newest'[j].n <= writes + 1
    <3> TAKE j \in Keys
    <3>1. persisted[j].n <= writes /\ newest[j].n <= writes
      BY DEF Ledger
    <3>2. newest'[j] = w \/ newest'[j] = newest[j]
      BY <1>11
    <3> QED BY <1>2, <1>3, <1>12, <3>1, <3>2
  <2>2. \A j \in DOMAIN pending' : persisted[j].n <= pending'[j].n /\ pending'[j].n <= writes + 1
    <3> TAKE j \in DOMAIN pending'
    <3>1. CASE j = k
      <4>1. persisted[j].n <= writes + 1
        BY <1>1, <2>1, <3>1
      <4> QED BY <1>2, <1>3, <1>8, <3>1, <4>1
    <3>2. CASE j # k
      <4>1. j \in DOMAIN pending /\ pending'[j] = pending[j]
        BY <1>8, <3>2
      <4>2. persisted[j].n <= pending[j].n /\ pending[j].n <= writes
        BY <4>1 DEF Ledger
      <4> QED BY <1>2, <1>13, <4>1, <4>2
    <3> QED BY <3>1, <3>2
  <2>3. \A j \in DOMAIN inflight : persisted[j].n <= inflight[j].n /\ inflight[j].n <= writes + 1
    <3> TAKE j \in DOMAIN inflight
    <3>1. persisted[j].n <= inflight[j].n /\ inflight[j].n <= writes
      BY DEF Ledger
    <3> QED BY <1>2, <1>13, <3>1
  <2>4. \A j \in DOMAIN pending' \cap DOMAIN inflight : inflight[j].n < pending'[j].n
    <3> TAKE j \in DOMAIN pending' \cap DOMAIN inflight
    <3>1. CASE j = k
      <4>1. inflight[j].n <= writes
        BY DEF Ledger
      <4> QED BY <1>2, <1>3, <1>8, <1>13, <3>1, <4>1
    <3>2. CASE j # k
      BY <1>8, <3>2 DEF Ledger
    <3> QED BY <3>1, <3>2
  <2> QED BY <1>2, <1>4, <1>7, <1>11, <2>1, <2>2, <2>3, <2>4 DEF Ledger
<1>15. NewestEffective'
  BY <1>4, <1>10, <1>11 DEF NewestEffective
<1>16. ASSUME NEW j \in Keys, NEW n \in Nat, KeptAt(Effective, j, n)
       PROVE  KeptAt(Effective, j, n)'
  <2>1. CASE j # k
    BY <1>4, <1>10, <1>16, <2>1 DEF KeptAt
  <2>2. CASE j = k /\ << j, n >> \notin lost
    <3>1. Effective[j].n >= n
      BY <1>16, <2>2 DEF KeptAt
    <3>2. Effective[j] = IF j \in DOMAIN pending THEN pending[j]
                         ELSE IF j \in DOMAIN inflight THEN inflight[j] ELSE persisted[j]
      BY <1>9, EffectiveAt DEF Effective
    <3>3. Effective[j].n \in Nat /\ Effective[j].n <= writes
      BY <1>12, <1>13, <3>2 DEF Ledger
    <3>4. Effective'[j].n >= n
      BY <1>2, <1>3, <1>10, <2>2, <3>1, <3>3
    <3> QED BY <3>4 DEF KeptAt
  <2>3. CASE << j, n >> \in lost
    BY <1>4, <2>3 DEF KeptAt
  <2> QED BY <2>1, <2>2, <2>3
<1>17. Readable
  BY <1>16 DEF Readable
<1> QED BY <1>2, <1>4, <1>14, <1>15, <1>17 DEF Keeping

----------------------------------------------------------------------------
(* Every write under way has a number left; what is counted is finite.     *)

LEMMA UnderWayFinite ==
    IsFiniteSet(WritesUnderWay) /\ Cardinality(WritesUnderWay) \in Nat
<1>1. WritesUnderWay \subseteq Clients
  BY DEF WritesUnderWay
<1> QED BY <1>1, ClientsAssumption, FS_Subset, FS_CardinalityType

LEMMA FewerWrites ==
    ASSUME WritesBounded, writes \in Nat, writes' = writes,
           NEW after \in SUBSET WritesUnderWay, WritesUnderWay' = after
    PROVE  WritesBounded'
<1> DEFINE m == Cardinality(WritesUnderWay)
           n == Cardinality(after)
<1>1. m \in Nat /\ n \in Nat /\ n <= m
  BY UnderWayFinite, FS_Subset, FS_CardinalityType
<1>2. writes + m <= MaxWrites /\ Cardinality(WritesUnderWay)' = n
  BY DEF WritesBounded
<1> HIDE DEF m, n
<1>3. writes + n <= MaxWrites
  BY <1>1, <1>2, BoundAssumption
<1> QED BY <1>2, <1>3 DEF WritesBounded

\* The steps that neither begin a write nor number one.
LEMMA NoWriteBegins ==
    ASSUME WritesBounded, writes \in Nat, writes' = writes,
           \A d \in Clients : \/ client'[d].pc = "idle"
                              \/ client'[d].op = "write" => client[d].pc # "idle" /\ client[d].op = "write"
    PROVE  WritesBounded'
<1>1. WritesUnderWay' \subseteq WritesUnderWay
  BY DEF WritesUnderWay
<1>2. PICK after : after = WritesUnderWay'
  OBVIOUS
<1> QED BY <1>1, <1>2, FewerWrites

LEMMA BoundBeginWrite ==
    ASSUME CallsInOrder, WritesBounded, writes \in Nat,
           NEW c \in Clients, NEW k \in Keys, NEW put \in BOOLEAN, BeginWrite(c, k, put)
    PROVE  WritesBounded'
<1>1. /\ ClientMoves(c) /\ client[c].pc = "idle"
      /\ client'[c].pc \in {"write", "send"} /\ client'[c].op = "write"
      /\ writes + Cardinality(WritesUnderWay) < MaxWrites /\ writes' = writes
  BY BeginWriteMoves DEF BeginWrite, history
<1>2. WritesUnderWay' = WritesUnderWay \cup {c} /\ c \notin WritesUnderWay
  BY <1>1 DEF WritesUnderWay, ClientMoves
<1> DEFINE m == Cardinality(WritesUnderWay)
<1>3. Cardinality(WritesUnderWay') = m + 1 /\ m \in Nat
  BY <1>2, UnderWayFinite, FS_AddElement
<1>4. writes + m < MaxWrites
  BY <1>1
<1> HIDE DEF m
<1>5. writes + (m + 1) <= MaxWrites
  BY <1>3, <1>4, BoundAssumption
<1> QED BY <1>1, <1>3, <1>5 DEF WritesBounded

\* A write under way may be numbered.
LEMMA WriteHasNumber ==
    ASSUME CallsInOrder, WritesBounded, writes \in Nat, NEW c \in Clients, Write(c)
    PROVE  writes + 1 <= MaxWrites /\ WritesBounded'
<1>1. /\ ClientMoves(c) /\ client[c].pc = "write" /\ client[c].op = "write"
      /\ client'[c].pc = "idle" \/ client'[c].op = "delete"
      /\ writes' = writes + 1
  BY WriteMoves DEF Write
<1>2. c \in WritesUnderWay /\ WritesUnderWay' = WritesUnderWay \ {c}
  BY <1>1 DEF WritesUnderWay, ClientMoves
<1> DEFINE m == Cardinality(WritesUnderWay)
           n == Cardinality(WritesUnderWay \ {c})
<1>3. n = m - 1 /\ m \in Nat /\ n \in Nat
  <2>1. IsFiniteSet(WritesUnderWay \ {c})
    BY UnderWayFinite, FS_Subset
  <2> QED BY <1>2, <2>1, UnderWayFinite, FS_RemoveElement, FS_CardinalityType
<1>4. writes + m <= MaxWrites /\ Cardinality(WritesUnderWay)' = n
  BY <1>2 DEF WritesBounded
<1> HIDE DEF m, n
<1>5. writes + 1 <= MaxWrites /\ (writes + 1) + n <= MaxWrites
  BY <1>3, <1>4, BoundAssumption
<1> QED BY <1>1, <1>4, <1>5 DEF WritesBounded

LEMMA OthersKeepBound ==
    ASSUME CallsInOrder, Ledger, WritesBounded, Next,
           ~\E c \in Clients : Write(c) \/ \E k \in Keys, put \in BOOLEAN : BeginWrite(c, k, put)
    PROVE  WritesBounded'
<1> DEFINE Same(d) == \/ client'[d].pc = "idle"
                      \/ client'[d].op = "write" => client[d].pc # "idle" /\ client[d].op = "write"
<1>1. writes \in Nat
  BY DEF Ledger
<1>2. \A d \in Clients : client[d].pc = "closed" => client[d].op = "closed"
  BY DEF CallsInOrder, CallOK
<1>3. ASSUME NEW c \in Clients, Call(c)
      PROVE  writes' = writes /\ Same(c) /\ ClientMoves(c)
  <2> DEFINE Goal == writes' = writes /\ Same(c) /\ ClientMoves(c)
  <2>1. ASSUME NEW k \in Keys, BeginGet(c, k) PROVE Goal
    BY <2>1, BeginGetMoves DEF BeginGet, history
  <2>2. ASSUME NEW op \in {"scan", "count"}, BeginRead(c, op) PROVE Goal
    BY <2>2, BeginReadMoves DEF BeginRead, history
  <2>3. ASSUME (\E kind \in {"flush", "try"} : BeginFlush(c, kind)) \/ BeginClose(c) PROVE Goal
    BY <2>3, FlushCallMoves DEF history
  <2>4. ASSUME HoldFlush(c) PROVE Goal
    BY <2>4, HoldFlushMoves DEF HoldFlush, history
  <2>5. ASSUME EndRead(c) PROVE Goal
    BY <2>5, EndReadMoves DEF EndRead, history
  <2>6. ASSUME BeginCount(c) PROVE Goal
    BY <2>6, BeginCountMoves DEF BeginCount, history
  <2>7. ASSUME CountNext(c) PROVE Goal
    BY <2>7, CountNextMoves DEF CountNext, history
  <2>8. ASSUME EndFlush(c) PROVE Goal
    BY <2>8, EndFlushMoves DEF EndFlush, history
  <2>9. ASSUME Return(c) PROVE Goal
    BY <2>9, ReturnMoves DEF Return, history
  <2>10. ASSUME Send(c) PROVE Goal
    BY <2>10, SendMoves DEF Send, history
  <2> HIDE DEF Goal
  <2>11. Goal
    BY <1>3, <2>1, <2>2, <2>3, <2>4, <2>5, <2>6, <2>7, <2>8, <2>9, <2>10 DEF Call, CallStep
  <2> QED BY <2>11 DEF Goal
<1>4. ASSUME Serve \/ Timer \/ WorkerStep
      PROVE  writes' = writes /\ \A d \in Clients : Same(d)
  <2>1. writes' = writes
    <3>1. CASE Serve
      BY <3>1 DEF Serve, history
    <3>2. CASE LockFlush \/ Timer \/ AutoFlush
      BY <3>2 DEF LockFlush, Timer, AutoFlush, history
    <3>3. CASE FlushApplied \/ FlushRefused
      BY <3>3 DEF FlushApplied, FlushRefused, Finish
    <3> QED BY <1>4, <3>1, <3>2, <3>3 DEF WorkerStep
  <2>2. CallsInOrder'
    BY <1>4, OrderStep DEF Next
  <2>3. \A d \in Clients : client'[d].pc = "closed" => client'[d].op = "closed"
    BY <2>2 DEF CallsInOrder, CallOK
  <2>4. WorkerLocks
    BY <1>4, WorkerLocksStep
  <2> QED BY <2>1, <2>3, <2>4 DEF WorkerLocks
<1>5. CASE \E c \in Clients : Call(c)
  <2>1. PICK c \in Clients : Call(c)
    BY <1>5
  <2>2. writes' = writes /\ Same(c) /\ ClientMoves(c)
    BY <1>3, <2>1
  <2>3. \A d \in Clients : Same(d)
    BY <2>2 DEF ClientMoves
  <2> QED BY <1>1, <2>2, <2>3, NoWriteBegins
<1>6. CASE Serve \/ Timer \/ WorkerStep
  BY <1>1, <1>4, <1>6, NoWriteBegins
<1> QED BY <1>5, <1>6 DEF Next

LEMMA BoundStep ==
    ASSUME CallsInOrder, Ledger, WritesBounded, Next
    PROVE  WritesBounded'
<1>1. writes \in Nat
  BY DEF Ledger
<1>2. CASE \E c \in Clients : Write(c)
  BY <1>1, <1>2, WriteHasNumber
<1>3. CASE \E c \in Clients, k \in Keys, put \in BOOLEAN : BeginWrite(c, k, put)
  BY <1>1, <1>3, BoundBeginWrite
<1> QED BY <1>2, <1>3, OthersKeepBound

----------------------------------------------------------------------------
(* What a step does to the records, by its kind.                           *)

StoreSame == UNCHANGED << store, history >> /\ (worker'.pc = "flush" <=> worker.pc = "flush")

StoreStep ==
    \/ StoreSame
    \/ \E c \in Clients : Write(c)
    \/ /\ UNCHANGED << persisted, history >> /\ inflight' = pending /\ pending' = NoOps
       /\ worker.pc # "flush" /\ worker'.pc = "flush" /\ readers = {}
    \/ FlushApplied
    \/ FlushRefused

LEMMA StoreStepOf ==
    ASSUME CallsInOrder, Ledger, LocksInOrder, Next
    PROVE  StoreStep
<1>1. ASSUME NEW c \in Clients, Call(c), ~Write(c)
      PROVE  StoreSame
  <2>1. worker' = worker
    BY <1>1, CallerLocksStep DEF CallerLocks
  <2>2. UNCHANGED << store, history >>
    <3>1. CASE CallStep(c)
      BY <3>1 DEF CallStep, Send, EndRead, BeginCount, CountNext, EndFlush, Return
    <3>2. CASE ~CallStep(c)
      BY <1>1, <3>2 DEF Call, BeginWrite, BeginGet, BeginRead, BeginFlush, BeginClose, HoldFlush
    <3> QED BY <3>1, <3>2
  <2> QED BY <2>1, <2>2 DEF StoreSame
<1>2. CASE Serve
  <2>1. PICK r : r = Head(queue)
    OBVIOUS
  <2>2. worker.pc = "idle" /\ UNCHANGED << history, persisted >>
        /\ \/ UNCHANGED << store, worker >>
           \/ UNCHANGED store /\ worker' = [pc |-> "lock", task |-> r]
           \/ TakeOps(r)
    BY <1>2, <2>1, ServeMoves
  <2> QED BY <2>2 DEF TakeOps, StoreSame, StoreStep
<1>3. CASE LockFlush \/ Timer \/ AutoFlush
  <2>1. UNCHANGED << history, persisted >>
        /\ \/ TakesOps /\ worker'.pc = "flush" /\ worker.pc # "flush"
           \/ /\ UNCHANGED store
              /\ worker.pc \in {"idle", "timer"} /\ worker'.pc \in {"idle", "timer"}
    BY <1>3, WorkerMoves
  <2> QED BY <2>1 DEF TakesOps, StoreSame, StoreStep
<1> QED BY <1>1, <1>2, <1>3 DEF Next, WorkerStep, StoreStep

LEMMA StoreKeeps ==
    ASSUME CallsInOrder, Ledger, LocksInOrder, WritesBounded, NewestEffective, Next
    PROVE  Keeping
<1>1. StoreStep
  BY StoreStepOf
<1>2. CASE StoreSame
  BY <1>2, StoreUntouched DEF StoreSame
<1>3. CASE \E c \in Clients : Write(c)
  <2>1. PICK c \in Clients : Write(c)
    BY <1>3
  <2>2. writes + 1 <= MaxWrites
    BY <2>1, WriteHasNumber DEF Ledger
  <2> QED BY <2>1, <2>2, StoreWritten
<1>4. CASE /\ UNCHANGED << persisted, history >> /\ inflight' = pending /\ pending' = NoOps
           /\ worker.pc # "flush" /\ worker'.pc = "flush"
  BY <1>4, StoreTaken
<1>5. CASE FlushApplied
  <2>1. failures' \in 0..MaxFailures
    BY <1>5, BoundAssumption DEF FlushApplied, Ledger
  <2>2. persisted' = Over(persisted, inflight) /\ inflight' = NoOps
        /\ UNCHANGED << pending, newest, writes, lost >>
    BY <1>5 DEF FlushApplied, Finish
  <2> QED BY <2>1, <2>2, StoreApplied
<1>6. CASE FlushRefused
  BY <1>6, StoreRefused
<1> QED BY <1>1, <1>2, <1>3, <1>4, <1>5, <1>6 DEF StoreStep

----------------------------------------------------------------------------
(* Answers and flushes.                                                    *)

\* No caller that reads is between two looks while nobody has the flush lock.
LEMMA NoReadsUnderWay ==
    ASSUME CallsInOrder', readers' = {}
    PROVE  \A c \in Clients : ~(client'[c].pc \in Asking /\ client'[c].op \in ReadOps)
BY DEF CallsInOrder, CallOK

LEMMA NothingToKeepFresh ==
    ASSUME CallsInOrder', readers' = {}
    PROVE  AnswersFresh'
<1>1. \A c \in Clients : ~(client'[c].pc \in Asking /\ client'[c].op \in ReadOps)
  BY NoReadsUnderWay
<1>2. "reply" \in Asking
  BY DEF Asking
<1> QED BY <1>1, <1>2 DEF AnswersFresh, ReadOps

LEMMA AddNothing == \A t \in Nat : t + 0 = t
OBVIOUS

\* One key more is counted.
LEMMA CountedOne ==
    ASSUME Ledger, Finite, CallsInOrder, AnswersFresh, NEW c \in Clients,
           client[c].pc = "reply", client[c].op = "count loop"
    PROVE  Counted(c) = Cardinality(LiveWith(DOMAIN pending \ client[c].data.todo))
<1> DEFINE todo == client[c].data.todo
           k == client[c].data.key
           total == client[c].data.total
           before == LiveWith(DOMAIN pending \ (todo \cup {k}))
           after == LiveWith(DOMAIN pending \ todo)
           m == Cardinality(before)
           n == Cardinality(after)
<1>1. /\ client[c].reply = persisted[k] /\ total = m
      /\ k \in DOMAIN pending /\ k \notin todo /\ k \in Keys
  BY DEF AnswersFresh, Asking, Ledger, Partial
<1>2. pending[k].put \in BOOLEAN /\ persisted[k].put \in BOOLEAN
  BY <1>1, PartialAt, WriteNumber DEF Ledger
<1>3. IsFiniteSet(before) /\ IsFiniteSet(after)
  <2>1. before \subseteq Live(persisted) \cup DOMAIN pending
        /\ after \subseteq Live(persisted) \cup DOMAIN pending
    BY DEF LiveWith, Live, Ledger
  <2>2. IsFiniteSet(Live(persisted) \cup DOMAIN pending)
    BY FS_Union DEF Finite
  <2> QED BY <2>1, <2>2, FS_Subset
<1>4. Counted(c) = total + (IF pending[k].put /\ ~persisted[k].put THEN 1
                            ELSE IF persisted[k].put /\ ~pending[k].put THEN -1 ELSE 0)
  BY <1>1 DEF Counted
<1>5. /\ k \in after <=> pending[k].put
      /\ k \in before <=> persisted[k].put
      /\ \A j : j # k => (j \in after <=> j \in before)
  BY <1>1 DEF LiveWith
<1>6. m \in Nat /\ n \in Nat
  BY <1>3, FS_CardinalityType
<1> HIDE DEF before, after, k, total
<1>7. Counted(c) = n
  <2>1. CASE pending[k].put /\ ~persisted[k].put
    <3>1. after = before \cup {k} /\ k \notin before
      BY <1>5, <2>1
    <3>2. n = m + 1
      BY <1>3, <3>1, FS_AddElement
    <3> HIDE DEF m, n
    <3> QED BY <1>1, <1>4, <2>1, <3>2
  <2>2. CASE persisted[k].put /\ ~pending[k].put
    <3>1. after = before \ {k} /\ k \in before
      BY <1>5, <2>2
    <3>2. n = m - 1
      BY <1>3, <3>1, FS_RemoveElement
    <3> HIDE DEF m, n
    <3> QED BY <1>1, <1>4, <1>6, <2>2, <3>2
  <2>3. CASE pending[k].put /\ persisted[k].put
    <3>1. after = before
      BY <1>1, <2>3 DEF after, before, LiveWith
    <3>2. Counted(c) = total + 0
      BY <1>4, <2>3
    <3>3. n = m
      BY <3>1
    <3> HIDE DEF m, n
    <3>4. total = n
      BY <1>1, <3>3
    <3>5. total \in Nat
      BY <1>1, <1>6
    <3>6. total + 0 = total
      BY <3>5, AddNothing
    <3> QED BY <3>2, <3>4, <3>6
  <2>4. CASE ~pending[k].put /\ ~persisted[k].put
    <3>1. after = before
      BY <1>1, <2>4 DEF after, before, LiveWith
    <3>2. Counted(c) = total + 0
      BY <1>4, <2>4
    <3>3. n = m
      BY <3>1
    <3> HIDE DEF m, n
    <3>4. total = n
      BY <1>1, <3>3
    <3>5. total \in Nat
      BY <1>1, <1>6
    <3>6. total + 0 = total
      BY <3>5, AddNothing
    <3> QED BY <3>2, <3>4, <3>6
  <2> QED BY <1>2, <2>1, <2>2, <2>3, <2>4
<1> QED BY <1>7 DEF after

LEMMA FiniteStep ==
    ASSUME Ledger, CallsInOrder, LocksInOrder, Finite, Next
    PROVE  Finite'
<1>1. StoreStep
  BY StoreStepOf
<1>2. DOMAIN NoOps = {} /\ IsFiniteSet(DOMAIN NoOps)
  BY NoOpsPartial, FS_EmptySet
<1>3. IsFiniteSet(DOMAIN inflight \cup DOMAIN pending)
      /\ IsFiniteSet(Live(persisted) \cup DOMAIN inflight)
  BY FS_Union DEF Finite
<1>4. ASSUME \/ persisted' = persisted
             \/ persisted' = Over(persisted, inflight)
      PROVE  IsFiniteSet(Live(persisted)')
  <2>1. Live(persisted)' \subseteq Live(persisted) \cup DOMAIN inflight
    BY <1>4 DEF Live, Over
  <2> QED BY <1>3, <2>1, FS_Subset
<1>5. CASE StoreSame
  BY <1>5 DEF StoreSame, store, Finite, Live
<1>6. CASE \E c \in Clients : Write(c)
  <2>1. PICK c \in Clients : Write(c)
    BY <1>6
  <2> DEFINE k == client[c].data.key
             one == [j \in {k} |-> [n |-> writes + 1, put |-> client[c].data.put]]
  <2>2. pending' = Merge(one, pending) /\ UNCHANGED << persisted, inflight >>
    BY <2>1 DEF Write
  <2>3. DOMAIN pending' = DOMAIN pending \cup {k}
    BY <2>2 DEF Merge
  <2>4. IsFiniteSet(DOMAIN pending')
    BY <2>3, FS_AddElement DEF Finite
  <2> QED BY <1>4, <2>2, <2>4 DEF Finite
<1>7. CASE UNCHANGED persisted /\ inflight' = pending /\ pending' = NoOps
  BY <1>2, <1>4, <1>7 DEF Finite
<1>8. CASE FlushApplied
  <2>1. persisted' = Over(persisted, inflight) /\ inflight' = NoOps /\ pending' = pending
    BY <1>8 DEF FlushApplied, Finish
  <2> QED BY <1>2, <1>4, <2>1 DEF Finite
<1>9. CASE FlushRefused
  <2>1. /\ persisted' = persisted \/ persisted' = Over(persisted, inflight)
        /\ inflight' = NoOps /\ pending' = Merge(inflight, pending)
    BY <1>9 DEF FlushRefused, Finish
  <2>2. DOMAIN pending' = DOMAIN inflight \cup DOMAIN pending
    BY <2>1 DEF Merge
  <2> QED BY <1>2, <1>3, <1>4, <2>1, <2>2 DEF Finite
<1> QED BY <1>1, <1>5, <1>6, <1>7, <1>8, <1>9 DEF StoreStep

\* The answer a call has and the count it keeps.
AnswerFresh(c) ==
    /\ client[c].pc = "reply" /\ client[c].op \in GetOps =>
         client[c].reply = persisted[client[c].data]
    /\ client[c].pc = "reply" /\ client[c].op \in ScanOps => client[c].reply = persisted
    /\ client[c].pc = "reply" /\ client[c].op = "count loop" =>
         client[c].reply = persisted[client[c].data.key]
    /\ Counting(c) =>
         LET todo == client[c].data.todo
             k == client[c].data.key
         IN  /\ todo \subseteq DOMAIN pending /\ k \in DOMAIN pending \ todo
             /\ client[c].data.total =
                  Cardinality(LiveWith(DOMAIN pending \ (todo \cup {k})))

LEMMA FreshByCall == AnswersFresh <=> \A c \in Clients : AnswerFresh(c)
BY DEF AnswersFresh, AnswerFresh, Counting

LEMMA FreshUntouched ==
    ASSUME NEW d \in Clients, AnswerFresh(d), client'[d] = client[d],
           persisted' = persisted, pending' = pending \/ ~Counting(d)
    PROVE  AnswerFresh(d)'
<1>1. CASE pending' = pending
  BY <1>1 DEF AnswerFresh, Counting, LiveWith
<1>2. CASE ~Counting(d)
  BY <1>2 DEF AnswerFresh, Counting
<1> QED BY <1>1, <1>2

\* A caller's own step leaves it no answer, and a count that goes on is right.
LEMMA FreshByOwnStep ==
    ASSUME CallsInOrder, Ledger, LocksInOrder, Finite, AnswersFresh,
           NEW c \in Clients, Call(c)
    PROVE  AnswerFresh(c)'
<1> DEFINE Quiet == client'[c].pc # "reply" /\ ~Counting(c)'
<1>1. ASSUME Quiet PROVE AnswerFresh(c)'
  BY <1>1 DEF AnswerFresh
<1>2. ASSUME NEW todo, NEW k \in todo, todo \subseteq DOMAIN pending,
             UNCHANGED << persisted, pending >>,
             client'[c].pc = "send", client'[c].op = "count loop",
             client'[c].data.key = k, client'[c].data.todo = todo \ {k},
             client'[c].data.total = Cardinality(LiveWith(DOMAIN pending \ todo))
      PROVE  AnswerFresh(c)'
  <2>1. DOMAIN pending \ ((todo \ {k}) \cup {k}) = DOMAIN pending \ todo
    BY <1>2
  <2>2. client'[c].data.total = Cardinality(LiveWith(DOMAIN pending \ ((todo \ {k}) \cup {k})))'
    BY <1>2, <2>1 DEF LiveWith
  <2> QED BY <1>2, <2>2 DEF AnswerFresh, GetOps, ScanOps
<1>3. ASSUME NEW k \in Keys, NEW put \in BOOLEAN, BeginWrite(c, k, put) PROVE Quiet
  BY <1>3, BeginWriteMoves DEF Counting
<1>4. ASSUME NEW k \in Keys, BeginGet(c, k) PROVE Quiet
  BY <1>4, BeginGetMoves DEF Counting
<1>5. ASSUME NEW op \in {"scan", "count"}, BeginRead(c, op) PROVE Quiet
  BY <1>5, BeginReadMoves DEF Counting
<1>6. ASSUME (\E kind \in {"flush", "try"} : BeginFlush(c, kind)) \/ BeginClose(c) PROVE Quiet
  BY <1>6, FlushCallMoves DEF Counting
<1>7. ASSUME HoldFlush(c) PROVE Quiet
  BY <1>7, HoldFlushMoves DEF Counting
<1>8. ASSUME Write(c) PROVE Quiet
  BY <1>8, WriteMoves DEF Counting, Asking
<1>9. ASSUME EndRead(c) PROVE Quiet
  BY <1>9, EndReadMoves DEF Counting, Asking
<1>10. ASSUME EndFlush(c) PROVE Quiet
  BY <1>10, EndFlushMoves DEF Counting, Asking
<1>11. ASSUME Return(c) PROVE Quiet
  BY <1>11, ReturnMoves DEF Counting, Asking
<1>12. ASSUME BeginCount(c) PROVE AnswerFresh(c)'
  <2>1. UNCHANGED << persisted, pending >>
    BY <1>12 DEF BeginCount, store
  <2>2. CASE client'[c].pc = "idle"
    BY <1>1, <2>2 DEF Counting, Asking
  <2>3. CASE client'[c].pc # "idle"
    <3>1. /\ client'[c].pc = "send" /\ client'[c].op = "count loop"
          /\ client'[c].data.key \in DOMAIN pending
          /\ client'[c].data.todo = DOMAIN pending \ {client'[c].data.key}
          /\ client'[c].data.total = Cardinality(Live(client[c].reply))
      BY <1>12, <2>3, BeginCountMoves
    <3>2. client[c].reply = persisted
      BY <1>12, BeginCountMoves DEF AnswersFresh, ScanOps
    <3>3. LiveWith(DOMAIN pending \ DOMAIN pending) = Live(persisted)
      BY DEF LiveWith, Live, Ledger
    <3> QED BY <1>2, <2>1, <3>1, <3>2, <3>3
  <2> QED BY <2>2, <2>3
<1>13. ASSUME CountNext(c) PROVE AnswerFresh(c)'
  <2>1. UNCHANGED << persisted, pending >>
    BY <1>13 DEF CountNext, store
  <2>2. CASE client'[c].pc = "idle"
    BY <1>1, <2>2 DEF Counting, Asking
  <2>3. CASE client'[c].pc # "idle"
    <3>1. /\ client[c].pc = "reply" /\ client[c].op = "count loop"
          /\ client'[c].pc = "send" /\ client'[c].op = "count loop"
          /\ client'[c].data.key \in client[c].data.todo
          /\ client'[c].data.todo = client[c].data.todo \ {client'[c].data.key}
          /\ client'[c].data.total = Counted(c)
      BY <1>13, <2>3, CountNextMoves
    <3>2. client[c].data.todo \subseteq DOMAIN pending
      BY <3>1 DEF AnswersFresh, Asking
    <3>3. Counted(c) = Cardinality(LiveWith(DOMAIN pending \ client[c].data.todo))
      BY <3>1, CountedOne
    <3> QED BY <1>2, <2>1, <3>1, <3>2, <3>3
  <2> QED BY <2>2, <2>3
<1>14. ASSUME Send(c) PROVE AnswerFresh(c)'
  <2>1. UNCHANGED << persisted, pending >>
    BY <1>14 DEF Send, store
  <2>2. /\ client[c].pc = "send"
        /\ \/ client'[c].pc = "closed"
           \/ /\ client'[c].pc = "wait" /\ client'[c].op = client[c].op
              /\ client'[c].data = client[c].data
    BY <1>14, SendMoves
  <2>3. AnswerFresh(c)
    BY FreshByCall
  <2> QED BY <2>1, <2>2, <2>3 DEF AnswerFresh, Counting, Asking, LiveWith
<1> HIDE DEF Quiet
<1> QED BY <1>1, <1>3, <1>4, <1>5, <1>6, <1>7, <1>8, <1>9, <1>10, <1>11, <1>12, <1>13, <1>14
        DEF Call, CallStep

LEMMA FreshByCaller ==
    ASSUME CallsInOrder, Ledger, LocksInOrder, Finite, AnswersFresh,
           NEW c \in Clients, Call(c)
    PROVE  AnswersFresh'
<1>1. ASSUME NEW d \in Clients PROVE AnswerFresh(d)'
  <2>1. CASE d = c
    BY <2>1, FreshByOwnStep
  <2>2. CASE d # c
    <3>1. client'[d] = client[d] /\ AnswerFresh(d)
      BY <2>2, CallerLocksStep, FreshByCall DEF CallerLocks, ClientMoves
    <3>2. CASE Write(c)
      <4>1. pendingHeld = Nobody /\ persisted' = persisted
        BY <3>2 DEF Write, PendingFree
      <4>2. ~Counting(d)
        BY <4>1, SentinelAssumption DEF LocksInOrder, Counting
      <4> QED BY <3>1, <4>1, <4>2, FreshUntouched
    <3>3. CASE ~Write(c)
      <4>1. UNCHANGED << persisted, pending >>
        <5>1. CASE CallStep(c)
          BY <5>1 DEF CallStep, Send, EndRead, BeginCount, CountNext, EndFlush, Return, store
        <5>2. CASE ~CallStep(c)
          BY <3>3, <5>2 DEF Call, BeginWrite, BeginGet, BeginRead, BeginFlush, BeginClose,
                            HoldFlush, store
        <5> QED BY <5>1, <5>2
      <4> QED BY <3>1, <4>1, FreshUntouched
    <3> QED BY <3>2, <3>3
  <2> QED BY <2>1, <2>2
<1>2. AnswersFresh' <=> \A d \in Clients : AnswerFresh(d)'
  BY DEF AnswersFresh, AnswerFresh, Counting
<1> QED BY <1>1, <1>2

\* The worker answers with what the store holds, and moves nothing while a
\* caller reads.
LEMMA FreshByServe ==
    ASSUME CallsInOrder, Ledger, LocksInOrder, AnswersFresh, Serve
    PROVE  AnswersFresh'
<1>1. PICK r : r = Head(queue)
  OBVIOUS
<1>2. /\ queue # << >> /\ UNCHANGED << readers, persisted >>
      /\ \/ r.kind = "get" /\ Answers(r.from) /\ UNCHANGED store
            /\ client'[r.from].reply = persisted[r.key]
         \/ r.kind = "all" /\ Answers(r.from) /\ UNCHANGED store
            /\ client'[r.from].reply = persisted
         \/ client' = client /\ UNCHANGED store
         \/ r.kind = "try" /\ Answers(r.from) /\ UNCHANGED store
         \/ readers = {}
  BY <1>1, ServeMoves DEF TakeOps
<1>3. Awaited(r)
  BY <1>1, <1>2, HeadOfQueue
<1>4. CASE readers = {}
  <2>1. CallsInOrder' /\ readers' = {}
    BY <1>2, <1>4, ServeOrder
  <2> QED BY <2>1, NothingToKeepFresh
<1>5. CASE readers # {}
  <2>1. UNCHANGED store /\ persisted' = persisted /\ pending' = pending
    BY <1>2, <1>5 DEF store
  <2>2. \A d \in Clients : d # r.from => client'[d] = client[d]
    BY <1>2, <1>5 DEF Answers, ClientMoves
  <2>3. ASSUME NEW d \in Clients PROVE AnswerFresh(d)'
    <3>1. AnswerFresh(d)
      BY FreshByCall
    <3>2. CASE client'[d] = client[d]
      BY <2>1, <3>1, <3>2, FreshUntouched
    <3>3. CASE client'[d] # client[d]
      <4>1. d = r.from /\ Answers(d) /\ Matches(d, r)
        BY <1>2, <1>3, <1>5, <2>2, <3>3 DEF Awaited
      <4>2. /\ client[d].pc = "wait" /\ client'[d].pc = "reply"
            /\ client'[d].op = client[d].op /\ client'[d].data = client[d].data
        BY <4>1 DEF Answers
      <4>3. \/ r.kind = "get" /\ client'[d].reply = persisted[r.key]
            \/ r.kind = "all" /\ client'[d].reply = persisted
            \/ r.kind = "try"
        BY <1>2, <1>5, <3>3, <4>1
      <4>4. client[d].op \in GetOps => client'[d].reply = persisted[client[d].data]
        <5> SUFFICES ASSUME client[d].op \in GetOps
                     PROVE  client'[d].reply = persisted[client[d].data]
          OBVIOUS
        <5>1. r.kind = "get" /\ r.key = client[d].data
          BY <4>1 DEF Matches
        <5>2. client'[d].reply = persisted[r.key]
          BY <4>3, <5>1
        <5> QED BY <5>1, <5>2
      <4>5. client[d].op \in ScanOps => client'[d].reply = persisted
        BY <4>1, <4>3 DEF Matches
      <4>6. client[d].op = "count loop" => client'[d].reply = persisted[client[d].data.key]
        BY <4>1, <4>3 DEF Matches
      <4>7. /\ client'[d].op \in GetOps => client'[d].reply = persisted'[client'[d].data]
            /\ client'[d].op \in ScanOps => client'[d].reply = persisted'
            /\ client'[d].op = "count loop" => client'[d].reply = persisted'[client'[d].data.key]
        BY <2>1, <4>2, <4>4, <4>5, <4>6
      <4>8. Counting(d)' => Counting(d)
        BY <4>2 DEF Counting, Asking
      <4>9. ASSUME Counting(d)'
            PROVE  LET todo == client'[d].data.todo
                       k == client'[d].data.key
                   IN  /\ todo \subseteq DOMAIN pending' /\ k \in DOMAIN pending' \ todo
                       /\ client'[d].data.total =
                            Cardinality(LiveWith(DOMAIN pending \ (client[d].data.todo
                                                                  \cup {client[d].data.key})))'
        BY <2>1, <3>1, <4>2, <4>8, <4>9 DEF AnswerFresh, LiveWith
      <4> QED BY <4>7, <4>9 DEF AnswerFresh
    <3> QED BY <3>2, <3>3
  <2>4. AnswersFresh' <=> \A d \in Clients : AnswerFresh(d)'
    BY DEF AnswersFresh, AnswerFresh, Counting
  <2> QED BY <2>3, <2>4
<1> QED BY <1>4, <1>5

LEMMA FreshStep ==
    ASSUME CallsInOrder, Ledger, LocksInOrder, Finite, AnswersFresh, Next
    PROVE  AnswersFresh'
<1>1. CASE \E c \in Clients : Call(c)
  BY <1>1, FreshByCaller
<1>2. CASE Serve
  BY <1>2, FreshByServe
<1>3. CASE LockFlush \/ Timer \/ AutoFlush
  <2>1. /\ UNCHANGED << client, readers >>
        /\ \/ readers = {}
           \/ UNCHANGED store
    BY <1>3, WorkerMoves DEF TakesOps
  <2>2. CASE readers = {}
    BY <1>3, <2>1, <2>2, LockOrder, NothingToKeepFresh
  <2>3. CASE UNCHANGED store
    BY <2>1, <2>3 DEF AnswersFresh, LiveWith, store
  <2> QED BY <2>1, <2>2, <2>3
<1>4. CASE FlushApplied \/ FlushRefused
  <2>1. CallsInOrder'
    BY <1>4, FlushEnds, EndOrder
  <2>2. readers' = {}
    BY <1>4 DEF FlushApplied, FlushRefused, Finish, LocksInOrder
  <2> QED BY <2>1, <2>2, NothingToKeepFresh
<1> QED BY <1>1, <1>2, <1>3, <1>4 DEF Next, WorkerStep

\* Nothing in the store gets older.
LEMMA PersistedKept ==
    ASSUME CallsInOrder, Ledger, LocksInOrder, Next, lost \subseteq lost',
           NEW k \in Keys, NEW n \in Nat, KeptAt(persisted, k, n)
    PROVE  KeptAt(persisted, k, n)'
<1>1. persisted'[k] = persisted[k] \/ persisted'[k] = Over(persisted, inflight)[k]
  <2>1. StoreStep
    BY StoreStepOf
  <2>2. persisted' = persisted \/ persisted' = Over(persisted, inflight)
    BY <2>1 DEF StoreStep, StoreSame, store, Write, FlushApplied, FlushRefused
  <2> QED BY <2>2
<1>2. Over(persisted, inflight)[k] = IF k \in DOMAIN inflight THEN inflight[k] ELSE persisted[k]
  BY OverAt DEF Ledger
<1>3. /\ persisted[k].n \in Nat
      /\ k \in DOMAIN inflight => inflight[k].n \in Nat /\ persisted[k].n <= inflight[k].n
  BY PartialAt, WriteNumber DEF Ledger
<1>4. persisted'[k].n \in Nat /\ persisted[k].n <= persisted'[k].n
  BY <1>1, <1>2, <1>3
<1>5. CASE << k, n >> \in lost
  BY <1>5 DEF KeptAt
<1>6. CASE persisted[k].n >= n
  <2>1. persisted'[k].n >= n
    BY <1>3, <1>4, <1>6
  <2> QED BY <2>1 DEF KeptAt
<1> QED BY <1>5, <1>6 DEF KeptAt

\* A flush under way is the one of before, or what was pending is now in flight.
LEMMA InFlight ==
    ASSUME CallsInOrder, Ledger, LocksInOrder, Next, worker'.pc = "flush"
    PROVE  /\ persisted' = persisted
           /\ \/ worker' = worker /\ inflight' = inflight
              \/ inflight' = pending /\ inflight = NoOps
<1>1. CASE \E c \in Clients : Call(c)
  <2>1. PICK c \in Clients : Call(c)
    BY <1>1
  <2>2. worker' = worker
    BY <2>1, CallerLocksStep DEF CallerLocks
  <2>3. CASE Write(c)
    BY <2>2, <2>3 DEF Write
  <2>4. CASE ~Write(c)
    <3>1. CASE CallStep(c)
      BY <2>2, <3>1 DEF CallStep, Send, EndRead, BeginCount, CountNext, EndFlush, Return, store
    <3>2. CASE ~CallStep(c)
      BY <2>1, <2>2, <2>4, <3>2 DEF Call, BeginWrite, BeginGet, BeginRead, BeginFlush, BeginClose,
                              HoldFlush, store
    <3> QED BY <3>1, <3>2
  <2> QED BY <2>3, <2>4
<1>2. CASE Serve
  <2>1. PICK r : r = Head(queue)
    OBVIOUS
  <2>2. worker.pc = "idle" /\ (TakeOps(r) \/ worker' = worker \/ worker' = [pc |-> "lock", task |-> r])
    BY <1>2, <2>1, ServeMoves
  <2> QED BY <2>2 DEF TakeOps, Ledger
<1>3. CASE LockFlush \/ Timer \/ AutoFlush
  <2>1. \/ TakesOps /\ worker.pc # "flush"
        \/ worker'.pc \in {"timer", "idle"}
    BY <1>3, WorkerMoves
  <2> QED BY <2>1 DEF TakesOps, Ledger
<1>4. CASE FlushApplied \/ FlushRefused
  <2>1. worker'.pc # "flush"
    BY <1>4 DEF FlushApplied, FlushRefused, Finish, Idle
  <2> QED BY <2>1
<1> QED BY <1>1, <1>2, <1>3, <1>4 DEF Next, WorkerStep

\* Where a call of a flush comes from: the step before, or it begins.
FlushGoesOn(d) ==
    /\ client[d].pc \in Asking /\ client[d].op = "flush" /\ client'[d].data = client[d].data
    /\ client'[d].pc = "reply" =>
         \/ client[d].pc = "reply" /\ client'[d].reply = client[d].reply
         \/ client'[d].reply \in {"held", "error"}
         \/ /\ worker.pc = "flush" /\ Busy /\ worker.task.from = d
            /\ persisted' = Over(persisted, inflight) /\ lost' = lost

FlushBegins(d) ==
    /\ client[d].pc = "idle" /\ client'[d].pc = "send" /\ client'[d].data = newest
    /\ worker' = worker /\ UNCHANGED << store, history >>

LEMMA FlushByCaller ==
    ASSUME CallsInOrder, Ledger, NEW c \in Clients, Call(c),
           client'[c].pc \in Asking, client'[c].op = "flush"
    PROVE  FlushGoesOn(c) \/ FlushBegins(c)
<1> DEFINE Else == client'[c].pc \notin Asking \/ client'[c].op # "flush"
<1>1. ASSUME NEW k \in Keys, NEW put \in BOOLEAN, BeginWrite(c, k, put) PROVE Else
  BY <1>1, BeginWriteMoves
<1>2. ASSUME NEW k \in Keys, BeginGet(c, k) PROVE Else
  BY <1>2, BeginGetMoves
<1>3. ASSUME NEW op \in {"scan", "count"}, BeginRead(c, op) PROVE Else
  BY <1>3, BeginReadMoves
<1>4. ASSUME HoldFlush(c) PROVE Else
  BY <1>4, HoldFlushMoves
<1>5. ASSUME Write(c) PROVE Else
  BY <1>5, WriteMoves DEF Asking
<1>6. ASSUME EndRead(c) PROVE Else
  BY <1>6, EndReadMoves DEF Asking
<1>7. ASSUME EndFlush(c) PROVE Else
  BY <1>7, EndFlushMoves DEF Asking
<1>8. ASSUME Return(c) PROVE Else
  BY <1>8, ReturnMoves DEF Asking
<1>9. ASSUME BeginCount(c) PROVE Else
  BY <1>9, BeginCountMoves DEF Asking
<1>10. ASSUME CountNext(c) PROVE Else
  BY <1>10, CountNextMoves DEF Asking
<1>11. ASSUME (\E kind \in {"flush", "try"} : BeginFlush(c, kind)) \/ BeginClose(c)
       PROVE  FlushBegins(c)
  BY <1>11, FlushCallMoves DEF FlushBegins, store, history
<1>12. ASSUME Send(c) PROVE FlushGoesOn(c)
  BY <1>12, SendMoves DEF FlushGoesOn, Asking
<1>13. ~Else
  OBVIOUS
<1> HIDE DEF Else
<1> QED BY <1>1, <1>2, <1>3, <1>4, <1>5, <1>6, <1>7, <1>8, <1>9, <1>10, <1>11, <1>12, <1>13
        DEF Call, CallStep

LEMMA FlushByWorker ==
    ASSUME CallsInOrder, Ledger, Serve \/ Timer \/ WorkerStep, NEW d \in Clients,
           client'[d].pc \in Asking, client'[d].op = "flush"
    PROVE  FlushGoesOn(d)
<1>1. CASE client'[d] = client[d]
  BY <1>1 DEF FlushGoesOn
<1>2. CASE client'[d] # client[d] /\ Serve
  <2>1. PICK r : r = Head(queue)
    OBVIOUS
  <2>2. /\ queue # << >>
        /\ \/ r.kind \in {"get", "all"} /\ Answers(r.from)
           \/ r.kind = "try" /\ Answers(r.from) /\ client'[r.from].reply = "held"
           \/ client' = client
    BY <1>2, <2>1, ServeMoves
  <2>3. Awaited(r)
    BY <2>1, <2>2, HeadOfQueue
  <2>4. d = r.from
    BY <1>2, <2>2 DEF Answers, ClientMoves
  <2>5. client[d].op = client'[d].op /\ client[d].pc = "wait" /\ client'[d].data = client[d].data
    BY <1>2, <2>2, <2>4 DEF Answers
  <2>6. r.kind \notin {"get", "all"}
    BY <2>3, <2>4, <2>5 DEF Awaited, Matches
  <2> QED BY <1>2, <2>2, <2>4, <2>5, <2>6 DEF FlushGoesOn, Asking
<1>3. CASE LockFlush \/ Timer \/ AutoFlush
  BY <1>1, <1>3, WorkerMoves
<1>4. ASSUME client'[d] # client[d], NEW reply, worker.pc = "flush", Finish(reply),
             reply # "ok" => reply = "error",
             reply = "ok" => persisted' = Over(persisted, inflight) /\ lost' = lost
      PROVE  FlushGoesOn(d)
  <2>1. \/ /\ Busy /\ d = worker.task.from /\ client[d].pc = "wait"
           /\ client'[d].pc = "reply" /\ client'[d].op = client[d].op
           /\ client'[d].data = client[d].data /\ client'[d].reply = reply
        \/ client'[d].pc = "closed"
    BY <1>4, FinishMoves
  <2> QED BY <1>4, <2>1 DEF FlushGoesOn, Asking
<1>5. CASE FlushApplied
  BY <1>1, <1>4, <1>5 DEF FlushApplied
<1>6. CASE FlushRefused
  BY <1>1, <1>4, <1>6 DEF FlushRefused
<1> QED BY <1>1, <1>2, <1>3, <1>5, <1>6 DEF WorkerStep

LEMMA FlushSource ==
    ASSUME CallsInOrder, Ledger, LocksInOrder, Next, NEW d \in Clients,
           client'[d].pc \in Asking, client'[d].op = "flush"
    PROVE  FlushGoesOn(d) \/ FlushBegins(d)
<1>1. CASE \E c \in Clients : Call(c)
  <2>1. PICK c \in Clients : Call(c)
    BY <1>1
  <2>2. CASE c = d
    BY <2>1, <2>2, FlushByCaller
  <2>3. CASE c # d
    <3>1. client'[d] = client[d]
      BY <2>1, <2>3, CallerLocksStep DEF CallerLocks, ClientMoves
    <3> QED BY <3>1 DEF FlushGoesOn
  <2> QED BY <2>2, <2>3
<1>2. CASE Serve \/ Timer \/ WorkerStep
  BY <1>2, FlushByWorker
<1> QED BY <1>1, <1>2 DEF Next

LEMMA FlushStep ==
    ASSUME CallsInOrder, Ledger, LocksInOrder, NewestEffective, FlushesKeep, Keeping, Next
    PROVE  FlushesKeep'
<1> SUFFICES ASSUME NEW d \in Clients, client'[d].pc \in Asking, client'[d].op = "flush",
                    NEW k \in Keys
             PROVE  /\ client'[d].data[k].n \in Nat /\ client'[d].data[k].n <= writes'
                    /\ KeptAt(Effective, k, client[d].data[k].n)'
                    /\ worker'.pc = "flush" /\ Busy' /\ worker'.task.from = d =>
                         KeptAt(Over(persisted, inflight), k, client[d].data[k].n)'
                    /\ client'[d].pc = "reply" /\ client'[d].reply = "ok" =>
                         KeptAt(persisted, k, client[d].data[k].n)'
  BY DEF FlushesKeep
<1>1. PICK n : n = client'[d].data[k].n
  OBVIOUS
<1>2. lost \subseteq lost' /\ writes <= writes' /\ writes \in Nat /\ writes' \in Nat
  BY DEF Keeping, Ledger
<1>3. n \in Nat /\ n <= writes /\ KeptAt(Effective, k, n)
  <2>1. CASE FlushGoesOn(d)
    BY <1>1, <2>1 DEF FlushGoesOn, FlushesKeep
  <2>2. CASE FlushBegins(d)
    <3>1. n = newest[k].n /\ n \in Nat /\ n <= writes
      BY <1>1, <2>2, WriteNumber DEF FlushBegins, Ledger
    <3>2. << k, n >> \in lost \/ Effective[k] = newest[k]
      BY <3>1 DEF NewestEffective
    <3> QED BY <3>1, <3>2 DEF KeptAt
  <2> QED BY <2>1, <2>2, FlushSource
<1>4. KeptAt(Effective, k, n)'
  BY <1>3 DEF Keeping, Readable
<1>5. ASSUME worker'.pc = "flush", Busy', worker'.task.from = d
      PROVE  KeptAt(Over(persisted, inflight), k, n)'
  <2>1. CASE worker' = worker /\ inflight' = inflight /\ persisted' = persisted
    <3>1. Busy /\ worker.task.from = d /\ worker.pc = "flush"
      BY <1>5, <2>1 DEF Busy
    <3>2. client[d].pc = "wait"
      BY <3>1 DEF CallsInOrder, Awaited
    <3>3. FlushGoesOn(d)
      BY <3>2, FlushSource DEF FlushBegins
    <3>4. KeptAt(Over(persisted, inflight), k, n)
      BY <1>1, <3>1, <3>3 DEF FlushGoesOn, FlushesKeep
    <3> QED BY <1>2, <2>1, <3>4 DEF KeptAt
  <2>2. CASE persisted' = persisted /\ inflight' = pending /\ inflight = NoOps
    <3>1. DOMAIN persisted = Keys /\ DOMAIN inflight = {}
      BY <2>2, NoOpsPartial DEF Ledger
    <3>2. Effective[k] = IF k \in DOMAIN pending THEN pending[k] ELSE persisted[k]
      BY <3>1, EffectiveAt DEF Effective
    <3>3. Over(persisted', inflight')[k] = Effective[k]
      BY <2>2, <3>1, <3>2, OverAt
    <3>4. << k, n >> \in lost \/ Effective[k].n >= n
      BY <1>3 DEF KeptAt
    <3> QED BY <1>2, <3>3, <3>4 DEF KeptAt
  <2> QED BY <1>5, <2>1, <2>2, InFlight
<1>6. ASSUME client'[d].pc = "reply", client'[d].reply = "ok"
      PROVE  KeptAt(persisted, k, n)'
  <2>1. FlushGoesOn(d)
    BY <1>6, FlushSource DEF FlushBegins
  <2>2. CASE client[d].pc = "reply" /\ client'[d].reply = client[d].reply
    <3>1. KeptAt(persisted, k, n)
      BY <1>1, <1>6, <2>1, <2>2 DEF FlushGoesOn, FlushesKeep
    <3> QED BY <1>2, <1>3, <3>1, PersistedKept
  <2>3. CASE /\ worker.pc = "flush" /\ Busy /\ worker.task.from = d
             /\ persisted' = Over(persisted, inflight) /\ lost' = lost
    <3>1. KeptAt(Over(persisted, inflight), k, n)
      BY <1>1, <2>1, <2>3 DEF FlushGoesOn, FlushesKeep
    <3> QED BY <2>3, <3>1 DEF KeptAt
  <2> QED BY <1>6, <2>1, <2>2, <2>3 DEF FlushGoesOn
<1> QED BY <1>1, <1>2, <1>3, <1>4, <1>5, <1>6 DEF KeptAt

----------------------------------------------------------------------------
(* The invariant holds throughout, and what it gives.                      *)

Coherent ==
    /\ CallsInOrder /\ LocksInOrder /\ Ledger /\ WritesBounded /\ Finite
    /\ NewestEffective /\ AnswersFresh /\ FlushesKeep

LEMMA CoherentInit == Init => Coherent
<1> SUFFICES ASSUME Init PROVE Coherent
  OBVIOUS
<1>1. /\ client = [c \in Clients |-> Idle] /\ worker = Idle /\ queue = << >>
      /\ readers = {} /\ pendingHeld = Nobody
      /\ persisted = [k \in Keys |-> NoRecord] /\ newest = [k \in Keys |-> NoRecord]
      /\ pending = NoOps /\ inflight = NoOps /\ writes = 0 /\ lost = {} /\ failures = 0
  BY DEF Init
<1>2. \A c \in Clients : client[c].pc = "idle"
  BY <1>1 DEF Idle
<1>3. worker.pc = "idle"
  BY <1>1 DEF Idle
<1>4. NoRecord \in Writes /\ NoRecord.n = 0 /\ NoRecord.put = FALSE
  BY BoundAssumption DEF Writes, NoRecord
<1>5. NoOps \in Partial(Keys, Writes) /\ DOMAIN NoOps = {}
  BY NoOpsPartial
<1>6. CallsInOrder
  <2>1. queue \in Seq(Requests) /\ DOMAIN queue = {}
    BY <1>1, EmptySeq
  <2>2. \A c \in Clients : CallOK(c)
    BY <1>2 DEF CallOK, Asking
  <2> QED BY <1>1, <1>3, <2>1, <2>2 DEF CallsInOrder, Busy
<1>7. LocksInOrder
  BY <1>1, <1>2, <1>3 DEF LocksInOrder, Asking
<1>8. Ledger
  <2>1. persisted \in [Keys -> Writes] /\ newest \in [Keys -> Writes]
        /\ \A k \in Keys : persisted[k].n = 0 /\ newest[k].n = 0
    BY <1>1, <1>4
  <2> QED BY <1>1, <1>3, <1>5, <2>1, BoundAssumption DEF Ledger
<1>9. WritesBounded
  <2>1. WritesUnderWay = {}
    BY <1>2 DEF WritesUnderWay
  <2>2. Cardinality(WritesUnderWay) = 0
    BY <2>1, FS_EmptySet
  <2> QED BY <1>1, <2>2, BoundAssumption DEF WritesBounded
<1>10. Finite
  <2>1. Live(persisted) = {}
    BY <1>1, <1>4 DEF Live
  <2> QED BY <1>1, <1>5, <2>1, FS_EmptySet DEF Finite
<1>11. NewestEffective
  <2>1. DOMAIN persisted = Keys /\ DOMAIN pending = {} /\ DOMAIN inflight = {}
    BY <1>1, <1>5
  <2>2. \A k \in Keys : Effective[k] = persisted[k]
    BY <2>1, EffectiveAt DEF Effective
  <2> QED BY <1>1, <2>2 DEF NewestEffective
<1>12. AnswersFresh /\ FlushesKeep
  BY <1>2 DEF AnswersFresh, FlushesKeep, Asking
<1> QED BY <1>6, <1>7, <1>8, <1>9, <1>10, <1>11, <1>12 DEF Coherent

LEMMA CoherentStep == Coherent /\ [Next]_vars => Coherent'
<1> SUFFICES ASSUME Coherent, [Next]_vars PROVE Coherent'
  OBVIOUS
<1>1. CASE Next
  <2>1. CallsInOrder' /\ LocksInOrder'
    BY <1>1, OrderStep, LocksStep DEF Coherent
  <2>2. Keeping
    BY <1>1, StoreKeeps DEF Coherent
  <2>3. WritesBounded' /\ Finite'
    BY <1>1, BoundStep, FiniteStep DEF Coherent
  <2>4. AnswersFresh'
    BY <1>1, FreshStep DEF Coherent
  <2>5. FlushesKeep'
    BY <1>1, <2>2, FlushStep DEF Coherent
  <2> QED BY <2>1, <2>2, <2>3, <2>4, <2>5 DEF Coherent, Keeping
<1>2. CASE UNCHANGED vars
  <2>1. UNCHANGED << persisted, pending, inflight, queue, worker, client, open, readers,
                     pendingHeld, newest, writes, lost, failures >>
    BY <1>2 DEF vars
  <2>2. CallsInOrder' /\ LocksInOrder'
    <3>1. \A c \in Clients : CallOK(c)'
      BY <2>1, CallUntouched DEF Coherent, CallsInOrder
    <3>2. \A i \in DOMAIN queue : Awaited(queue[i])'
      BY <2>1 DEF Coherent, CallsInOrder, Awaited, Matches
    <3>3. Busy' => Busy /\ Awaited(worker.task)'
      BY <2>1 DEF Coherent, CallsInOrder, Awaited, Matches, Busy
    <3>4. CallsInOrder'
      BY <2>1, <3>1, <3>2, <3>3 DEF Coherent, CallsInOrder
    <3>5. LocksInOrder'
      BY <2>1 DEF Coherent, LocksInOrder
    <3> QED BY <3>4, <3>5
  <2>3. Ledger'
    BY <2>1 DEF Coherent, Ledger
  <2>4. WritesBounded' /\ Finite'
    BY <2>1 DEF Coherent, WritesBounded, WritesUnderWay, Finite, Live
  <2>5. Effective' = Effective
    BY <2>1 DEF Effective, Over
  <2>6. NewestEffective' /\ AnswersFresh'
    BY <2>1, <2>5 DEF Coherent, NewestEffective, AnswersFresh, LiveWith
  <2>7. FlushesKeep'
    BY <2>1, <2>5 DEF Coherent, FlushesKeep, KeptAt, Busy, Over
  <2> QED BY <2>2, <2>3, <2>4, <2>6, <2>7 DEF Coherent
<1> QED BY <1>1, <1>2

LEMMA CoherentAlways == Spec => []Coherent
BY CoherentInit, CoherentStep, PTL DEF Spec

LEMMA TypesFollow == Coherent => TypeOK
<1> SUFFICES ASSUME Coherent PROVE TypeOK
  OBVIOUS
<1>1. Ledger /\ LocksInOrder /\ CallsInOrder /\ WritesBounded
  BY DEF Coherent
<1>2. \A ops \in {pending, inflight} : DOMAIN ops \subseteq Keys /\ Range(ops) \subseteq Writes
  <2>1. \A ops \in {pending, inflight} :
          DOMAIN ops \subseteq Keys /\ \A k \in DOMAIN ops : ops[k] \in Writes
    BY <1>1, PartialAt DEF Ledger
  <2> QED BY <2>1 DEF Range
<1>3. \A i \in DOMAIN queue : queue[i].from \in Clients
  BY <1>1 DEF CallsInOrder, Awaited
<1>4. writes \in 0..MaxWrites
  <2> DEFINE m == Cardinality(WritesUnderWay)
  <2>1. m \in Nat /\ writes \in Nat /\ writes + m <= MaxWrites
    BY <1>1, UnderWayFinite DEF Ledger, WritesBounded
  <2> HIDE DEF m
  <2> QED BY <2>1, BoundAssumption
<1>5. persisted \in [Keys -> Writes] /\ newest \in [Keys -> Writes]
      /\ lost \subseteq Keys \X (1..MaxWrites) /\ failures \in 0..MaxFailures
  BY <1>1 DEF Ledger
<1>6. /\ readers \subseteq Clients /\ pendingHeld \in readers \cup {Nobody}
      /\ worker.pc \in {"idle", "lock", "flush", "timer", "stopped"}
      /\ worker.pc = "flush" => readers = {}
  BY <1>1 DEF LocksInOrder
<1> QED BY <1>2, <1>3, <1>4, <1>5, <1>6 DEF TypeOK

\* The types, and no caller holds the flush lock through a flush.
THEOREM TypeCorrect == Spec => []TypeOK
BY CoherentAlways, TypesFollow, PTL

\* The newest write of a key is what there is to read, through every flush,
\* failed or not, except where a failed flush put an older one back over it.
THEOREM NewestStaysEffective == Spec => []NewestEffective
<1>1. Coherent => NewestEffective
  BY DEF Coherent
<1> QED BY <1>1, CoherentAlways, PTL

LEMMA ReadsFollow == Coherent => ReadsCurrent
<1> SUFFICES ASSUME Coherent, NEW c \in Clients, client[c].pc = "reply"
             PROVE  CASE client[c].op = "get" ->
                           client[c].data \in DOMAIN pending
                           \/ client[c].reply = Effective[client[c].data]
                      [] client[c].op = "scan" -> Over(client[c].reply, pending) = Effective
                      [] client[c].op = "count loop" /\ client[c].data.todo = {} ->
                           Counted(c) = Cardinality(Live(Effective))
                      [] OTHER -> TRUE
  BY DEF ReadsCurrent
<1>1. Ledger /\ LocksInOrder /\ CallsInOrder /\ Finite /\ AnswersFresh /\ CallOK(c)
  BY DEF Coherent, CallsInOrder
<1>2. DOMAIN persisted = Keys
  BY <1>1 DEF Ledger
<1>3. ASSUME client[c].op \in {"get", "scan", "count loop"}
      PROVE  /\ DOMAIN inflight = {}
             /\ \A k \in Keys : Effective[k] = IF k \in DOMAIN pending THEN pending[k] ELSE persisted[k]
  <2>1. c \in readers
    BY <1>1, <1>3 DEF CallOK, Asking, ReadOps, GetOps, ScanOps
  <2>2. inflight = NoOps
    BY <1>1, <2>1 DEF LocksInOrder, Ledger
  <2>3. DOMAIN inflight = {}
    BY <2>2, NoOpsPartial
  <2> QED BY <1>2, <2>3, EffectiveAt DEF Effective
<1>4. CASE client[c].op = "get"
  <2>1. client[c].reply = persisted[client[c].data] /\ client[c].data \in Keys
    BY <1>1, <1>4 DEF AnswersFresh, CallOK, Asking, GetOps
  <2> QED BY <1>3, <1>4, <2>1
<1>5. CASE client[c].op = "scan"
  <2>1. client[c].reply = persisted
    BY <1>1, <1>5 DEF AnswersFresh, ScanOps
  <2>2. DOMAIN Over(persisted, inflight) = Keys
        /\ \A k \in Keys : Over(persisted, inflight)[k] = persisted[k]
    BY <1>2, <1>3, <1>5, OverAt
  <2>3. Effective = Over(persisted, pending)
    BY <1>2, <2>2 DEF Effective, Over
  <2> QED BY <1>5, <2>1, <2>3
<1>6. CASE client[c].op = "count loop" /\ client[c].data.todo = {}
  <2>1. Counted(c) = Cardinality(LiveWith(DOMAIN pending \ client[c].data.todo))
    BY <1>1, <1>6, CountedOne
  <2>2. DOMAIN pending \ client[c].data.todo = DOMAIN pending
    BY <1>6
  <2>3. DOMAIN Effective = Keys
    BY <1>2 DEF Effective, Over
  <2>4. Live(Effective) = LiveWith(DOMAIN pending)
    BY <1>3, <1>6, <2>3 DEF Live, LiveWith
  <2> QED BY <1>6, <2>1, <2>2, <2>4
<1> QED BY <1>4, <1>5, <1>6

\* A read answers what there is to read, though it looks at the store and at
\* pending at two moments, and a count at as many as there are pending records.
THEOREM ReadsStayCurrent == Spec => []ReadsCurrent
BY CoherentAlways, ReadsFollow, PTL

\* A flush, a try_flush or a close that succeeds has left no write of before
\* the call behind, but one an older write was put back over.
THEOREM FlushedStaysPersisted == Spec => []FlushedPersist
<1>1. Coherent => FlushedPersist
  <2> SUFFICES ASSUME Coherent, NEW c \in Clients,
                      client[c].pc = "reply", client[c].op = "flush", client[c].reply = "ok",
                      NEW k \in Keys
               PROVE  \/ << k, client[c].data[k].n >> \in lost
                      \/ persisted[k].n >= client[c].data[k].n
    BY DEF FlushedPersist
  <2>1. KeptAt(persisted, k, client[c].data[k].n)
    BY DEF Coherent, FlushesKeep, Asking
  <2> QED BY <2>1 DEF KeptAt
<1> QED BY <1>1, CoherentAlways, PTL
=============================================================================
