----------------------------- MODULE TxSession -----------------------------
(***************************************************************************)
(* Client transactions above the storage: DistributedTransactionClock (the *)
(* logical time of begins, commits and bookmarks), TransactionManager and  *)
(* SessionManager, whose maps are locked one entry at a time.              *)
(*                                                                         *)
(* A call is a sequence of steps, one for each atomic operation and each   *)
(* access to a map; a step of another call may come between any two.  Open *)
(* makes one transaction and one session, and both get the same number.    *)
(* An id is <<epoch, counter>>: the ordinal of the node, which is the same *)
(* in all of them, is left out.                                            *)
(***************************************************************************)
EXTENDS Integers, FiniteSets

CONSTANTS
    Callers,      \* threads that call the managers or the clock
    Remote,       \* bookmarks that clients bring from other nodes
    MaxEpoch,     \* bound: epochs advanced to
    MaxSessions,  \* bound: sessions opened
    MaxCalls,     \* bound: calls begun
    MaxRestarts   \* bound: restarts of the process

ASSUME TxSessionAssumption ==
    /\ MaxEpoch \in Nat \ {0} /\ MaxSessions \in Nat /\ MaxCalls \in Nat
    /\ Remote \subseteq (1 .. MaxEpoch) \X Nat

VARIABLES
    epoch, counter, \* DistributedTransactionClock, two atomics
    active,         \* TransactionManager::active, the keys
    late,           \* transactions past their timeout
    sessions,       \* SessionManager::sessions, the keys
    stale,          \* sessions past expires_at
    failed,         \* sessions with a terminal error
    caller,         \* where each call stands
    opened, calls, restarts, \* what the bounds count
    granted,        \* history: the ids this process gave out
    bookmarks,      \* history: bookmarks clients hold
    outcome         \* history: how each transaction ended, as it was told

clock == <<epoch, counter>>
table == <<sessions, stale, failed>>
bounds == <<opened, calls, restarts>>
histories == <<granted, bookmarks, outcome>>
vars == <<clock, active, late, table, caller, bounds, histories>>

Numbers == 1 .. MaxSessions
Zero == <<0, 0>>
Less(x, y) == x[1] < y[1] \/ (x[1] = y[1] /\ x[2] < y[2])
AtMost(x, y) == x = y \/ Less(x, y)
Latest(S) == IF S = {} THEN Zero ELSE CHOOSE x \in S : \A y \in S : AtMost(y, x)
Larger(m, n) == IF m < n THEN n ELSE m

Idle == [pc |-> "idle", task |-> "none", n |-> 0, fence |-> Zero, len |-> 1,
         first |-> Zero, count |-> 0, floor |-> Zero, rest |-> {}]

Init ==
    /\ epoch = 1 /\ counter = 0
    /\ active = {} /\ late = {}
    /\ sessions = {} /\ stale = {} /\ failed = {}
    /\ caller = [p \in Callers |-> Idle]
    /\ opened = 0 /\ calls = 0 /\ restarts = 0
    /\ granted = {} /\ bookmarks = {}
    /\ outcome = [n \in Numbers |-> {}]

Goto(p, pc) == caller' = [caller EXCEPT ![p].pc = pc]
Return(p) == caller' = [caller EXCEPT ![p] = Idle]

\* A call begins: nothing of it has been done yet.
Begin(p, frame) ==
    /\ caller[p].pc = "idle"
    /\ calls < MaxCalls
    /\ calls' = calls + 1
    /\ caller' = [caller EXCEPT ![p] = frame]

GrantedSoFar == Latest({g.last : g \in granted})

(***************************************************************************)
(* The clock: issue, reserve, observe and advance_epoch.                   *)
(***************************************************************************)
\* A call of reserve. issue is the same with a length of one, and is what an
\* open and a commit do.
CallReserve(p, len) ==
    /\ Begin(p, [Idle EXCEPT !.pc = "count", !.task = "reserve", !.len = len,
                   !.floor = GrantedSoFar])
    /\ UNCHANGED <<clock, active, late, table, opened, restarts, histories>>

\* advance_atomic_at_least never lowers the value; its loop of compare and
\* exchange takes effect at once.
AdvanceEpoch(p, e) ==
    /\ e > epoch
    /\ Begin(p, Idle)
    /\ epoch' = e
    /\ UNCHANGED <<counter, active, late, table, opened, restarts, histories>>

\* Mutant: only the counter is observed.
ObserveEpochKeeps(p) ==
    /\ caller[p].pc = "observe_epoch"
    /\ UNCHANGED epoch
    /\ Goto(p, "observe_counter")
    /\ UNCHANGED <<counter, active, late, table, bounds, histories>>

ObserveEpoch(p) ==
    /\ caller[p].pc = "observe_epoch"
    /\ epoch' = Larger(epoch, caller[p].fence[1])
    /\ Goto(p, "observe_counter")
    /\ UNCHANGED <<counter, active, late, table, bounds, histories>>

ObserveCounter(p) ==
    /\ caller[p].pc = "observe_counter"
    /\ counter' = Larger(counter, caller[p].fence[2])
    /\ Goto(p, "count")
    /\ UNCHANGED <<epoch, active, late, table, bounds, histories>>

\* Mutant: the end of a range is counted instead of its length.
CountRangeShort(p) ==
    /\ caller[p].pc = "count"
    /\ counter' = counter + Larger(1, caller[p].len - 1)
    /\ caller' = [caller EXCEPT ![p].pc = "stamp", ![p].count = counter + 1]
    /\ UNCHANGED <<epoch, active, late, table, bounds, histories>>

\* fetch_add: len is 1 but for reserve.
CountRange(p) ==
    /\ caller[p].pc = "count"
    /\ counter' = counter + caller[p].len
    /\ caller' = [caller EXCEPT ![p].pc = "stamp", ![p].count = counter + 1]
    /\ UNCHANGED <<epoch, active, late, table, bounds, histories>>

Grant(p, first, last) ==
    granted' = granted \cup {[first |-> first, last |-> last,
                              floor |-> caller[p].floor, call |-> <<p, calls>>]}

\* The epoch is loaded after the counter: issue, for an open or a commit.
StampBegin(p) ==
    /\ caller[p].pc = "stamp" /\ caller[p].task = "open"
    /\ LET ts == <<epoch, caller[p].count>>
       IN /\ Grant(p, ts, ts)
          /\ Goto(p, "insert")
    /\ UNCHANGED <<clock, active, late, table, bounds, bookmarks, outcome>>

\* reserve loads the epoch again for the last id of the range, and another
\* call may have advanced it in between.
StampFirst(p) ==
    /\ caller[p].pc = "stamp" /\ caller[p].task = "reserve"
    /\ caller' = [caller EXCEPT ![p].first = <<epoch, caller[p].count>>,
                                ![p].pc = "stamp_last"]
    /\ UNCHANGED <<clock, active, late, table, bounds, histories>>

StampLast(p) ==
    /\ caller[p].pc = "stamp_last"
    /\ Grant(p, caller[p].first, <<epoch, caller[p].count + caller[p].len - 1>>)
    /\ Return(p)
    /\ UNCHANGED <<clock, active, late, table, bounds, bookmarks, outcome>>

(***************************************************************************)
(* SessionManager::open_for_owner and TransactionManager::begin.           *)
(***************************************************************************)
CallOpen(p, b) ==
    /\ opened < MaxSessions
    /\ b \in bookmarks \cup Remote \cup {Zero}
    /\ Begin(p, [Idle EXCEPT !.pc = IF b = Zero THEN "count" ELSE "observe_epoch",
                   !.task = "open", !.n = opened + 1, !.fence = b,
                   !.floor = Latest({GrantedSoFar, b})])
    /\ opened' = opened + 1
    /\ UNCHANGED <<clock, active, late, table, restarts, histories>>

InsertTransaction(p) ==
    LET n == caller[p].n
    IN /\ caller[p].pc = "insert"
       /\ active' = active \cup {n}
       /\ Goto(p, "session")
       /\ UNCHANGED <<clock, late, table, bounds, histories>>

\* The transaction is looked up again, and may have been cleaned up already.
OpenSession(p) ==
    LET n == caller[p].n
    IN /\ caller[p].pc = "session"
       /\ sessions' = IF n \in active THEN sessions \cup {n} ELSE sessions
       /\ Return(p)
       /\ UNCHANGED <<clock, active, late, stale, failed, bounds, histories>>

(***************************************************************************)
(* What a request does to a session that stays.                            *)
(***************************************************************************)
Touch(p, n) ==
    /\ n \in sessions
    /\ Begin(p, Idle)
    /\ stale' = stale \ {n}
    /\ UNCHANGED <<clock, active, late, sessions, failed, opened, restarts,
                   histories>>

RecordTerminalError(p, n) ==
    /\ n \in sessions
    /\ Begin(p, Idle)
    /\ failed' = failed \cup {n}
    /\ UNCHANGED <<clock, active, late, sessions, stale, opened, restarts,
                   histories>>

(***************************************************************************)
(* The ends of a session: the session is removed first, and whoever        *)
(* removed it goes on to the transaction.                                  *)
(***************************************************************************)
\* A session with a terminal error, and one that is deleted, lose their
\* transaction whatever was asked.
TakeSession(p, n, task) ==
    /\ n \in sessions
    /\ Begin(p, [Idle EXCEPT !.n = n, !.task = task,
                   !.pc = IF n \in failed \/ task = "delete" THEN "discard" ELSE task])
    /\ sessions' = sessions \ {n}
    /\ UNCHANGED <<clock, active, late, stale, failed, opened, restarts,
                   histories>>

\* Mutant: the transaction is looked at and stays.
TakeTransactionReads(p) ==
    LET n == caller[p].n
    IN /\ caller[p].pc = "commit"
       /\ UNCHANGED active
       /\ caller' = [caller EXCEPT ![p] =
            IF n \in active THEN [@ EXCEPT !.pc = "count", !.floor = GrantedSoFar]
            ELSE Idle]
       /\ UNCHANGED <<clock, late, table, bounds, histories>>

\* commit_with_bookmark removes the transaction before it takes the commit
\* timestamp; a transaction that is gone is NoActiveTransaction.
TakeTransaction(p) ==
    LET n == caller[p].n
    IN /\ caller[p].pc = "commit"
       /\ active' = active \ {n}
       /\ caller' = [caller EXCEPT ![p] =
            IF n \in active THEN [@ EXCEPT !.pc = "count", !.floor = GrantedSoFar]
            ELSE Idle]
       /\ UNCHANGED <<clock, late, table, bounds, histories>>

\* The commit timestamp is stamped, and commit_at follows: a transaction past
\* its timeout fails, and is not put back.
EndCommit(p) ==
    LET n == caller[p].n
        ts == <<epoch, caller[p].count>>
    IN /\ caller[p].pc = "stamp" /\ caller[p].task = "commit"
       /\ IF n \in late
          THEN outcome' = [outcome EXCEPT ![n] = @ \cup {"timed out"}] /\ UNCHANGED bookmarks
          ELSE /\ outcome' = [outcome EXCEPT ![n] = @ \cup {"committed"}]
               /\ bookmarks' = bookmarks \cup {ts}
       /\ Grant(p, ts, ts)
       /\ Return(p)
       /\ UNCHANGED <<clock, active, late, table, bounds>>

Remove(n, how) ==
    /\ active' = active \ {n}
    /\ outcome' = IF n \in active THEN [outcome EXCEPT ![n] = @ \cup {how}] ELSE outcome

\* TransactionManager::rollback, and remove.
EndRollback(p) ==
    /\ caller[p].pc = "rollback"
    /\ Remove(caller[p].n, "rolled back")
    /\ Return(p)
    /\ UNCHANGED <<clock, late, table, bounds, granted, bookmarks>>

\* Mutant: the transaction of a deleted session stays.
DiscardKeeps(p) ==
    /\ caller[p].pc = "discard"
    /\ UNCHANGED <<active, outcome>>
    /\ Return(p)
    /\ UNCHANGED <<clock, late, table, bounds, granted, bookmarks>>

Discard(p) ==
    /\ caller[p].pc = "discard"
    /\ Remove(caller[p].n, "discarded")
    /\ Return(p)
    /\ UNCHANGED <<clock, late, table, bounds, granted, bookmarks>>

(***************************************************************************)
(* SessionManager::cleanup_expired collects the expired sessions and then  *)
(* removes them and their transactions, touched meanwhile or not.          *)
(***************************************************************************)
CollectExpired(p) ==
    /\ sessions \cap stale # {}
    /\ Begin(p, [Idle EXCEPT !.pc = "clean", !.task = "clean", !.rest = sessions \cap stale])
    /\ UNCHANGED <<clock, active, late, table, opened, restarts, histories>>

CleanSession(p, n) ==
    /\ caller[p].pc = "clean" /\ n \in caller[p].rest
    /\ sessions' = sessions \ {n}
    /\ caller' = [caller EXCEPT ![p].pc = "clean_tx", ![p].n = n, ![p].rest = @ \ {n}]
    /\ UNCHANGED <<clock, active, late, stale, failed, bounds, histories>>

\* Mutant: the loop ends one session too late.
CleanTransactionLoops(p) ==
    /\ caller[p].pc = "clean_tx"
    /\ Remove(caller[p].n, "discarded")
    /\ Goto(p, "clean")
    /\ UNCHANGED <<clock, late, table, bounds, granted, bookmarks>>

CleanTransaction(p) ==
    /\ caller[p].pc = "clean_tx"
    /\ Remove(caller[p].n, "discarded")
    /\ IF caller[p].rest = {} THEN Return(p) ELSE Goto(p, "clean")
    /\ UNCHANGED <<clock, late, table, bounds, granted, bookmarks>>

\* TransactionManager::cleanup_expired: their sessions stay.
CleanLateTransactions(p) ==
    /\ active \cap late # {}
    /\ Begin(p, Idle)
    /\ active' = active \ late
    /\ outcome' = [n \in Numbers |->
          IF n \in active \cap late THEN outcome[n] \cup {"discarded"} ELSE outcome[n]]
    /\ UNCHANGED <<clock, late, table, opened, restarts, granted, bookmarks>>

(***************************************************************************)
(* Time, and a restart: nothing of this is stored, and the clock starts    *)
(* again at epoch 1; clients keep their bookmarks.                         *)
(***************************************************************************)
\* The transactions that exist: those of the table, and those a commit took out of
\* it and has not ended.
Existing ==
    active \cup {caller[p].n : p \in {q \in Callers :
                    caller[q].task = "commit" /\ caller[q].pc \in {"count", "stamp"}}}

TransactionTimesOut(n) ==
    /\ n \in Existing \ late
    /\ late' = late \cup {n}
    /\ UNCHANGED <<clock, active, table, caller, bounds, histories>>

SessionExpires(n) ==
    /\ n \in sessions \ stale
    /\ stale' = stale \cup {n}
    /\ UNCHANGED <<clock, active, late, sessions, failed, caller, bounds, histories>>

Restart ==
    /\ restarts < MaxRestarts
    /\ restarts' = restarts + 1
    /\ epoch' = 1 /\ counter' = 0
    /\ active' = {} /\ sessions' = {} /\ stale' = {}
    /\ caller' = [p \in Callers |-> Idle]
    /\ granted' = {}
    /\ UNCHANGED <<late, failed, opened, calls, bookmarks, outcome>>

Clock(p) ==
    \/ ObserveEpoch(p) \/ ObserveCounter(p) \/ CountRange(p)
    \/ StampBegin(p) \/ StampFirst(p) \/ StampLast(p)

Continue(p) ==
    \/ InsertTransaction(p) \/ OpenSession(p)
    \/ TakeTransaction(p) \/ EndCommit(p) \/ EndRollback(p) \/ Discard(p)
    \/ CleanTransaction(p)
    \/ \E n \in Numbers : CleanSession(p, n)

Start(p) ==
    \/ CallReserve(p, 2)
    \/ \E b \in bookmarks \cup Remote \cup {Zero} : CallOpen(p, b)
    \/ \E n \in Numbers : Touch(p, n) \/ RecordTerminalError(p, n)
    \/ \E n \in Numbers, task \in {"commit", "rollback", "delete"} : TakeSession(p, n, task)
    \/ \E e \in 1 .. MaxEpoch : AdvanceEpoch(p, e)
    \/ CollectExpired(p) \/ CleanLateTransactions(p)

Next ==
    \/ \E p \in Callers : Start(p) \/ Continue(p) \/ Clock(p)
    \/ \E n \in Numbers : TransactionTimesOut(n) \/ SessionExpires(n)
    \/ Restart

Spec == Init /\ [][Next]_vars

(***************************************************************************)
(* Properties.                                                             *)
(***************************************************************************)
Ids == (0 .. MaxEpoch) \X Nat

\* A call is at one of its steps, a session was opened before it is listed, and
\* only listed sessions expire.
TypeOK ==
    /\ epoch \in 1 .. MaxEpoch /\ counter \in Nat
    /\ opened \in 0 .. MaxSessions /\ calls \in 0 .. MaxCalls
    /\ active \cup sessions \cup late \cup failed \subseteq 1 .. opened
    /\ stale \subseteq 1 .. opened
    /\ bookmarks \subseteq Ids
    /\ \A p \in Callers :
          /\ caller[p].pc \in {"idle", "observe_epoch", "observe_counter", "count",
                "stamp", "stamp_last", "insert", "session", "commit",
                "rollback", "discard", "clean", "clean_tx"}
          /\ caller[p].rest \subseteq Numbers /\ caller[p].n \in 0 .. opened
          /\ caller[p].pc = "clean" => caller[p].rest # {}
    /\ \A g \in granted : {g.first, g.last, g.floor} \subseteq Ids

\* No id is given out twice in the life of a process, and no id given out lies
\* in a range given to another call, but for a range whose first and last id
\* were stamped in two epochs: in the order of ids it holds almost all of the
\* first one.
Overlap(g, h) == AtMost(g.first, h.last) /\ AtMost(h.first, g.last)
IdsExclusive ==
    \A g, h \in granted :
        g # h /\ Overlap(g, h) =>
            g.first[1] # g.last[1] \/ h.first[1] # h.last[1]

\* An id of an open or a reserve is larger than every id given out before the call
\* began, one of a commit larger than every id given out before it took its
\* transaction from the table, also while other calls advance the epoch: the
\* commit timestamp of a transaction is above its begin timestamp.  And a
\* transaction opened with a bookmark reads above it, whether this node or
\* another gave the bookmark out, before a restart or after it.
IdsInOrder == \A g \in granted : Less(g.floor, g.first)

\* The two tables agree: an active transaction has its session, or the call
\* that opens or ends it is between the two tables; and a session has its
\* transaction unless it timed out.  No interleaving of commits, rollbacks and
\* cleanups leaks a transaction.
TablesAgree ==
    /\ \A n \in active \ sessions : \E p \in Callers :
          /\ caller[p].n = n
          /\ caller[p].pc \in {"session", "commit", "rollback", "discard", "clean_tx"}
    /\ \A n \in sessions \ active : n \in late

\* A transaction ends once: a client that was told it is committed is never
\* told it was rolled back, and no cleanup removes what a commit took.  And a
\* session whose terminal error was recorded never commits, however the commit
\* and the recording race.
OneOutcome ==
    /\ \A n \in Numbers : Cardinality(outcome[n]) <= 1
    /\ \A n \in failed : "committed" \notin outcome[n]

=============================================================================
