--------------------------- MODULE AtomicCommits ---------------------------
(***************************************************************************)
(* What the storage engine promises its transactions, without a word on    *)
(* locks, caches or publication order.  A commit writes its records, which *)
(* reads without a snapshot see, and then enters the history, which        *)
(* snapshots are views of; each as a whole.  A session opens on a prefix   *)
(* of the history that holds every commit answered so far; it is told of a *)
(* conflict only when the history has one; it leaves nothing when it is    *)
(* refused before its write.                                               *)
(*                                                                         *)
(* Two errors come too late for that.  A commit that breaks after its      *)
(* write leaves all its records and never enters the history; one that     *)
(* entered it may be answered an error all the same.  And first committer  *)
(* wins is not promised: see NoLostUpdate in StorageTransaction.           *)
(***************************************************************************)
EXTENDS Integers, Sequences

CONSTANTS
    Records,   \* nodes and edges
    Contents,  \* what a commit may write to a record
    Nothing,   \* the content of a record that is deleted
    Sessions

VARIABLES
    records,   \* the content of each record
    history,   \* the commits, in order, each a function on some records
    acked,     \* commits up to here have been answered
    session    \* per session: its state, and its snapshot, writes or commit

vars == << records, history, acked, session >>

Ended(state) == [state |-> state, at |-> 0]
Closed == Ended("closed")

\* The writes of a commit; none when every write was a no-op.
CommitWrites == UNION {[ks -> Contents] : ks \in SUBSET Records}

WrittenSince(k, snapshot) ==
    \E v \in (snapshot + 1)..Len(history) : k \in DOMAIN history[v]

\* What of a commit enters the history: all but the deletion of records that are
\* not in it.
Entering(writes) ==
    {k \in DOMAIN writes : writes[k] # Nothing \/ WrittenSince(k, 0)}

Init ==
    /\ records = [k \in Records |-> Nothing]
    /\ history = << >>
    /\ acked = 0
    /\ session = [s \in Sessions |-> Closed]

Open(s) ==
    /\ session[s].state = "closed"
    /\ \E v \in acked..Len(history) :
          session' = [session EXCEPT ![s] = [state |-> "open", at |-> v]]
    /\ UNCHANGED << records, history, acked >>

\* One session writes at a time.  A batch does without a snapshot of its own, so
\* from closed too.
Write(s) ==
    /\ session[s].state \in {"closed", "open"}
    /\ \A r \in Sessions : session[r].state # "written"
    /\ \E writes \in CommitWrites :
          /\ records' = [k \in Records |-> IF k \in DOMAIN writes THEN writes[k] ELSE records[k]]
          /\ session' = [session EXCEPT ![s] = [state |-> "written", writes |-> writes]]
    /\ UNCHANGED << history, acked >>

Enter(s) ==
    /\ session[s].state = "written"
    /\ LET writes == session[s].writes
           entering == Entering(writes)
       IN  history' = IF entering = {} THEN history
                      ELSE Append(history, [k \in entering |-> writes[k]])
    /\ session' = [session EXCEPT ![s] = [state |-> "applied", at |-> Len(history')]]
    /\ UNCHANGED << records, acked >>

Answer(s, outcome) ==
    /\ session[s].state = "applied"
    /\ acked' = IF session[s].at > acked THEN session[s].at ELSE acked
    /\ session' = [session EXCEPT ![s] = Ended(outcome)]
    /\ UNCHANGED << records, history >>

\* The records that were written stay.
Break(s) ==
    /\ session[s].state = "written"
    /\ session' = [session EXCEPT ![s] = Ended("failed")]
    /\ UNCHANGED << records, history, acked >>

Conflict(s) ==
    /\ session[s].state = "open"
    /\ \E k \in Records : WrittenSince(k, session[s].at)
    /\ session' = [session EXCEPT ![s] = Ended("conflict")]
    /\ UNCHANGED << records, history, acked >>

\* An I/O error or a stale catalog, before the write.
Fail(s) ==
    /\ session[s].state \in {"closed", "open"}
    /\ session' = [session EXCEPT ![s] = Ended("failed")]
    /\ UNCHANGED << records, history, acked >>

Close(s) ==
    /\ session[s].state \notin {"closed", "written", "applied"}
    /\ session' = [session EXCEPT ![s] = Closed]
    /\ UNCHANGED << records, history, acked >>

Next ==
    \E s \in Sessions :
        \/ Open(s) \/ Write(s) \/ Enter(s) \/ Break(s) \/ Conflict(s) \/ Fail(s) \/ Close(s)
        \/ \E outcome \in {"committed", "failed"} : Answer(s, outcome)

Spec == Init /\ [][Next]_vars
=============================================================================
