---------------------------- MODULE DurableProofs ---------------------------
(***************************************************************************)
(* Proofs about DurableCommit, for every set of records and modes and      *)
(* every bound.                                                            *)
(*                                                                         *)
(* Shape: types, and what the phase allows.  Barrier: what was synced is   *)
(* in every state the backend can fall back to.  Calm, of a store without  *)
(* audit records: the log is in the order of the commits, and from every   *)
(* such state the frames past its marker are newer than all it holds.      *)
(* Kept, while the log also lost nothing: every logged commit is in every  *)
(* such state or waits past its marker, and no number is given out twice.  *)
(* Seen, again without audit records: the records show only calls that     *)
(* write them, and an acknowledged call that is not in effect is nowhere   *)
(* left to come back from.  From these the refinement of DurableHistory.   *)
(***************************************************************************)
EXTENDS DurableCommit, OrderLemmas, SequenceTheorems

USE ModesAssumption, DurableBoundAssumption

----------------------------------------------------------------------------
(* The invariant.                                                          *)

FramesTo(m) == [seq : Nat \ {0}, tx : 1..m]

Logs(m) == [made : BOOLEAN, torn : BOOLEAN, frames : Seq(FramesTo(m)), next : Nat,
            compacted : Nat, synced : Nat, headSynced : BOOLEAN]

States(m) == [data : [Keys -> {0} \cup 1..m], marker : Nat, done : SUBSET (1..m)]

Points == {"idle", "numbered", "logged", "applied", "synced"}

Calls == [audit : BOOLEAN, keys : SUBSET Keys, answer : {"none", "ok", "error"},
          logged : BOOLEAN]

LogShape(w, m) ==
    /\ w \in Logs(m)
    /\ w.synced <= Len(w.frames)
    /\ ~w.made => w.frames = << >> /\ w.headSynced

BackendShape(d, m) == d \in Seq(States(m)) /\ d # << >>

OpShape(o, m, n, p) ==
    /\ o \in [Writers -> [pc : Points, tx : {0} \cup 1..m, seq : Nat]]
    /\ \A w \in Writers : o[w].pc # "idle" =>
          p = "open" /\ o[w].tx \in 1..m /\ o[w].seq \in 1..n

KeeperShape(r, p) ==
    /\ r \in [pc : {"idle", "ticking", "flushed", "covering", "compacting"}, upto : Nat]
    /\ r.pc # "idle" => p = "open"

ReplayShape(q, w, p) ==
    /\ q \subseteq DOMAIN w.frames
    /\ p \in {"down", "recovering", "open"}
    /\ p = "recovering" <=> q # {}

Shape ==
    /\ mode \in Modes /\ auditing \in BOOLEAN /\ logCut \in BOOLEAN
    /\ txs \in Seq(Calls)
    /\ nextSeq \in Nat
    /\ LogShape(wal, Len(txs))
    /\ BackendShape(db, Len(txs))
    /\ OpShape(op, Len(txs), nextSeq, phase)
    /\ KeeperShape(keeper, phase)
    /\ ReplayShape(replay, wal, phase)
    /\ promised \subseteq 1..Len(txs)

\* What a barrier covered, and what a call past its batch has done, no state of
\* the backend since its flush misses.
DoneGrows(d) == \A i, j \in DOMAIN d : i <= j => d[i].done \subseteq d[j].done

Barrier ==
    /\ DoneGrows(db)
    /\ promised \subseteq db[1].done
    /\ \A w \in Writers : op[w].pc \in {"applied", "synced"} => op[w].tx \in db[Len(db)].done

\* The frames are in the order of their numbers and of their calls.
InOrder(fs) ==
    \A i, j \in DOMAIN fs : i < j => fs[i].seq < fs[j].seq /\ fs[i].tx < fs[j].tx

\* A state shows each commit it holds, or something newer; what it has still to
\* replay is newer than all of it.
Shows(s, ts) ==
    /\ \A k \in Keys : s.data[k] # 0 => s.data[k] \in s.done
    /\ \A i \in s.done : \A k \in ts[i].keys : s.data[k] >= i

Behind(s, fs) == \A n \in DOMAIN fs : fs[n].seq > s.marker => \A i \in s.done : i < fs[n].tx

Agreed(fs, d, ts) ==
    InOrder(fs) /\ \A j \in DOMAIN d : Shows(d[j], ts) /\ Behind(d[j], fs)

\* The commit under way is the newest call and has the newest number.
Newest(o, m, n, ts, d, fs) ==
    /\ o.pc # "idle" => o.tx = m /\ o.seq = n /\ ts[m].answer = "none"
    /\ o.pc = "numbered" => \A i \in DOMAIN fs : fs[i].seq < n /\ fs[i].tx < m
    /\ o.pc \in {"numbered", "logged"} => \A j \in DOMAIN d : m \notin d[j].done

Calm ==
    /\ op["audit"].pc = "idle"
    /\ Agreed(wal.frames, db, txs)
    /\ phase # "down" => \A i \in DOMAIN wal.frames : wal.frames[i].seq <= nextSeq
    /\ Newest(op["commit"], Len(txs), nextSeq, txs, db, wal.frames)
    /\ phase = "recovering" =>
          replay = {n \in DOMAIN wal.frames : wal.frames[n].seq > db[Len(db)].marker}

\* FileNext of a log.
NextOf(w) == Max({w.next, w.compacted}
                 \cup (IF w.frames = << >> THEN {} ELSE {w.frames[Len(w.frames)].seq}))

Logged(ts) == {i \in DOMAIN ts : ts[i].logged /\ ts[i].answer # "error"}

\* The commit i is in the state s or in the log past its marker.
Held(i, s, fs) == i \in s.done \/ \E n \in DOMAIN fs : fs[n].tx = i /\ fs[n].seq > s.marker

\* Markers are numbers of frames the log had; a number under way is above them.
Numbered(o, d, w, n) ==
    /\ \A j \in DOMAIN d : d[j].marker <= NextOf(w)
    /\ o.pc = "numbered" => \A j \in DOMAIN d : d[j].marker < n
    /\ o.pc = "logged" => n <= NextOf(w)

Kept ==
    /\ phase # "down" => NextOf(wal) <= nextSeq
    /\ Numbered(op["commit"], db, wal, nextSeq)
    /\ \A i \in Logged(txs) : \A j \in DOMAIN db : Held(i, db[j], wal.frames)
    /\ phase = "open" => \A i \in Logged(txs) :
          i \in db[Len(db)].done \/ (op["commit"].pc = "logged" /\ i = op["commit"].tx)
    /\ keeper.pc \in {"flushed", "covering"} => op["commit"].pc = "idle" /\ Len(db) = 1
    /\ keeper.pc = "covering" => keeper.upto = db[1].marker

Inv ==
    /\ Shape
    /\ Barrier
    /\ ~auditing => Calm
    /\ ~auditing /\ ~logCut => Kept

----------------------------------------------------------------------------
(* Logs, states and answers.                                               *)

LEMMA MaxOfPair ==
    ASSUME NEW a \in Nat, NEW b \in Nat
    PROVE  Max({a, b}) \in {a, b} /\ a <= Max({a, b}) /\ b <= Max({a, b})
<1>1. CASE a <= b
  BY <1>1, MaxIsUnique
<1>2. CASE b <= a
  BY <1>2, MaxIsUnique
<1> QED BY <1>1, <1>2

LEMMA MinOfPair ==
    ASSUME NEW a \in Nat, NEW b \in Nat
    PROVE  Min({a, b}) \in {a, b} /\ Min({a, b}) <= a /\ Min({a, b}) <= b
<1>1. {a, b} \in SUBSET Nat /\ {a, b} # {}
  OBVIOUS
<1> QED BY <1>1, MinOfNaturals

\* What is beneath FileNext, and when FileNext is beneath a bound.
LEMMA NextOfLog ==
    ASSUME NEW m \in Nat, NEW w \in Logs(m)
    PROVE  /\ NextOf(w) \in Nat
           /\ w.next <= NextOf(w) /\ w.compacted <= NextOf(w)
           /\ w.frames # << >> => w.frames[Len(w.frames)].seq <= NextOf(w)
           /\ \A b \in Nat :
                 /\ w.next <= b /\ w.compacted <= b
                 /\ w.frames # << >> => w.frames[Len(w.frames)].seq <= b
                 => NextOf(w) <= b
<1> DEFINE last == IF w.frames = << >> THEN {} ELSE {w.frames[Len(w.frames)].seq}
           all == {w.next, w.compacted} \cup last
<1>1. w.next \in Nat /\ w.compacted \in Nat
  BY DEF Logs
<1>2. w.frames # << >> => w.frames[Len(w.frames)].seq \in Nat
  <2>1. w.frames \in Seq(FramesTo(m))
    BY DEF Logs
  <2>2. w.frames # << >> => w.frames[Len(w.frames)] \in FramesTo(m)
    BY <2>1
  <2> QED BY <2>2 DEF FramesTo
<1>3. all \in SUBSET Nat /\ all # {}
  BY <1>1, <1>2
<1>4. NextOf(w) = Max(all)
  BY DEF NextOf
<1>5. \E b \in Nat : \A x \in all : x <= b
  <2>1. CASE w.frames = << >>
    BY <1>1, <2>1
  <2>2. CASE w.frames # << >>
    <3>1. PICK z \in Nat : z = w.frames[Len(w.frames)].seq
      BY <1>2, <2>2
    <3>2. PICK x \in Nat, y \in Nat : x = w.next /\ y = w.compacted
      BY <1>1
    <3>3. all = {x, y, z}
      BY <2>2, <3>1, <3>2
    <3>4. x + y + z \in Nat /\ x <= x + y + z /\ y <= x + y + z /\ z <= x + y + z
      OBVIOUS
    <3> HIDE DEF all
    <3> QED BY <3>3, <3>4
  <2> QED BY <2>1, <2>2
<1>6. Max(all) \in all /\ \A x \in all : x <= Max(all)
  <2> HIDE DEF all
  <2> QED BY <1>3, <1>5, MaxOfNaturals
<1> HIDE DEF NextOf
<1> QED BY <1>1, <1>2, <1>3, <1>4, <1>6

\* AppendFrame's log.
LEMMA LogExtended ==
    ASSUME NEW m \in Nat, LogShape(wal, m), nextSeq \in Nat, NEW f \in FramesTo(m)
    PROVE  /\ LogShape(Extended(f), m)
           /\ Extended(f).frames = Append(wal.frames, f)
           /\ wal.made => Extended(f).next = wal.next
           /\ ~wal.made => Extended(f).next = nextSeq
           /\ Extended(f).compacted = wal.compacted
<1> DEFINE x == Extended(f)
<1>1. /\ wal \in Logs(m) /\ wal.frames \in Seq(FramesTo(m)) /\ wal.synced \in Nat
      /\ wal.synced <= Len(wal.frames) /\ wal.compacted \in Nat
      /\ Len(wal.frames) \in Nat
  BY DEF LogShape, Logs
<1>2. CASE ~wal.made
  <2>1. x = Rewritten(<< f >>, nextSeq, wal.compacted, Immediate)
    BY <1>2 DEF Extended
  <2>2. wal.frames = << >>
    BY <1>2 DEF LogShape
  <2>3. Append(wal.frames, f) = << f >> /\ << f >> \in Seq(FramesTo(m)) /\ Len(<< f >>) = 1
    BY <2>2
  <2>4. Immediate \in BOOLEAN
    BY DEF Immediate
  <2> QED BY <1>1, <1>2, <2>1, <2>3, <2>4 DEF Rewritten, LogShape, Logs
<1>3. CASE wal.made
  <2> DEFINE s == IF Immediate THEN Len(wal.frames) + 1 ELSE wal.synced
             h == wal.headSynced \/ Immediate
  <2>1. x = [wal EXCEPT !.frames = Append(wal.frames, f), !.synced = s, !.headSynced = h]
    BY <1>3 DEF Extended
  <2>2. Append(wal.frames, f) \in Seq(FramesTo(m)) /\ Len(Append(wal.frames, f)) = Len(wal.frames) + 1
    BY <1>1
  <2>3. s \in Nat /\ s <= Len(wal.frames) + 1
    BY <1>1
  <2>4. h \in BOOLEAN
    BY DEF Immediate
  <2> HIDE DEF s, h
  <2>5. x.frames = Append(wal.frames, f) /\ x.next = wal.next /\ x.compacted = wal.compacted
        /\ x.synced = s /\ x.made = wal.made
    BY <1>1, <2>1 DEF Logs
  <2>6. x \in Logs(m)
    BY <1>1, <2>1, <2>2, <2>3, <2>4 DEF Logs
  <2> QED BY <1>3, <2>2, <2>3, <2>5, <2>6 DEF LogShape
<1> QED BY <1>2, <1>3

\* sync_persistent_file keeps the frames and the header.
LEMMA LogSynced ==
    ASSUME NEW m \in Nat, NEW w, LogShape(w, m)
    PROVE  /\ LogShape(Synced(w), m)
           /\ Synced(w).frames = w.frames /\ NextOf(Synced(w)) = NextOf(w)
<1>1. w \in Logs(m) /\ Len(w.frames) \in Nat
  BY DEF LogShape, Logs
<1>2. /\ Synced(w).frames = w.frames /\ Synced(w).next = w.next
      /\ Synced(w).compacted = w.compacted /\ Synced(w).made = w.made
      /\ Synced(w).synced = Len(w.frames) /\ Synced(w).headSynced = TRUE
  BY <1>1 DEF Synced, Logs
<1>3. Synced(w) \in Logs(m)
  BY <1>1 DEF Synced, Logs
<1> QED BY <1>1, <1>2, <1>3 DEF LogShape, NextOf

\* Half a frame at the end changes neither.
LEMMA LogTorn ==
    ASSUME NEW m \in Nat, NEW w, LogShape(w, m), NEW t \in BOOLEAN
    PROVE  /\ LogShape([w EXCEPT !.torn = t], m)
           /\ [w EXCEPT !.torn = t].frames = w.frames
           /\ NextOf([w EXCEPT !.torn = t]) = NextOf(w)
<1> DEFINE x == [w EXCEPT !.torn = t]
<1>1. w \in Logs(m)
  BY DEF LogShape
<1>2. /\ x.frames = w.frames /\ x.next = w.next /\ x.compacted = w.compacted
      /\ x.made = w.made /\ x.synced = w.synced /\ x.headSynced = w.headSynced
  BY <1>1 DEF Logs
<1>3. x \in Logs(m)
  BY <1>1 DEF Logs
<1> HIDE DEF x
<1>4. LogShape(x, m) /\ NextOf(x) = NextOf(w)
  BY <1>2, <1>3 DEF LogShape, NextOf
<1> QED BY <1>2, <1>4 DEF x

\* compact_up_to drops frames from the front, the last of them at or below the mark.
LEMMA LogCompacted ==
    ASSUME NEW m \in Nat, LogShape(wal, m), NEW n \in Nat, NEW u \in Nat,
           NEW b \in BOOLEAN, NEW w \in Compactions(n, u, b)
    PROVE  /\ LogShape(w, m) /\ w.made /\ w.next = n
           /\ w.compacted <= n \/ w.compacted = wal.compacted
           /\ \E e \in 0..Len(wal.frames) :
                 /\ w.frames = SubSeq(wal.frames, e + 1, Len(wal.frames))
                 /\ e = 0 \/ wal.frames[e].seq <= u
<1> DEFINE last == Min({u, n})
           top == Max({wal.compacted, last})
<1>1. wal \in Logs(m) /\ wal.frames \in Seq(FramesTo(m)) /\ wal.compacted \in Nat /\ Len(wal.frames) \in Nat
  BY DEF LogShape, Logs
<1>2. last \in Nat /\ last <= u /\ last <= n
  BY MinOfPair
<1>3. top \in Nat /\ top \in {wal.compacted, last}
  <2> HIDE DEF last
  <2> QED BY <1>1, <1>2, MaxOfPair
<1> HIDE DEF top
<1>4. PICK e \in 0..Len(wal.frames) :
         /\ w = Rewritten(SubSeq(wal.frames, e + 1, Len(wal.frames)), n, top, b)
         /\ e = 0 \/ wal.frames[e].seq <= last
  BY DEF Compactions, top
<1>5. e = 0 \/ wal.frames[e].seq <= u
  <2> SUFFICES ASSUME e # 0
               PROVE  wal.frames[e].seq <= u
    OBVIOUS
  <2>1. wal.frames[e] \in FramesTo(m)
    BY <1>1
  <2>2. wal.frames[e].seq \in Nat
    BY <2>1 DEF FramesTo
  <2>3. wal.frames[e].seq <= last /\ last \in Nat /\ last <= u
    BY <1>2, <1>4
  <2> HIDE DEF last
  <2> QED BY <2>2, <2>3
<1> DEFINE fs == SubSeq(wal.frames, e + 1, Len(wal.frames))
<1>6. fs \in Seq(FramesTo(m)) /\ Len(fs) \in Nat
  <2>1. \A i \in (e + 1)..Len(wal.frames) : wal.frames[i] \in FramesTo(m)
    BY <1>1
  <2>2. e + 1 \in Int /\ Len(wal.frames) \in Int
    BY <1>1
  <2>3. fs \in Seq(FramesTo(m))
    BY <2>1, <2>2, SubSeqProperties
  <2> HIDE DEF fs
  <2> QED BY <2>3
<1>7. w = Rewritten(fs, n, top, b)
  BY <1>4
<1> HIDE DEF fs, last
<1>8. w.frames = fs /\ w.made /\ w.next = n /\ w.compacted = top /\ LogShape(w, m)
  BY <1>3, <1>6, <1>7 DEF Rewritten, LogShape, Logs
<1> QED BY <1>1, <1>2, <1>3, <1>4, <1>5, <1>8 DEF fs

----------------------------------------------------------------------------
(* The backend, the calls under way and the history.                       *)

\* The batch of a call.
LEMMA StateApplied ==
    ASSUME NEW m \in Nat, NEW s \in States(m), NEW t \in 1..m, NEW n \in Nat
    PROVE  /\ Applied(s, t, n) \in States(m)
           /\ Applied(s, t, n).marker = n
           /\ Applied(s, t, n).done = s.done \cup {t}
           /\ \A k \in Keys : Applied(s, t, n).data[k] = IF k \in txs[t].keys THEN t ELSE s.data[k]
BY DEF Applied, States

LEMMA LastState ==
    ASSUME NEW m \in Nat, NEW d, BackendShape(d, m)
    PROVE  /\ Len(d) \in Nat \ {0} /\ Len(d) \in DOMAIN d /\ 1 \in DOMAIN d
           /\ DOMAIN d = 1..Len(d)
           /\ d[Len(d)] \in States(m) /\ \A j \in DOMAIN d : d[j] \in States(m)
BY DEF BackendShape

LEMMA BackendApplied ==
    ASSUME NEW m \in Nat, NEW d, BackendShape(d, m), NEW s \in States(m)
    PROVE  /\ BackendShape(Append(d, s), m)
           /\ Len(Append(d, s)) = Len(d) + 1 /\ Append(d, s)[Len(d) + 1] = s
           /\ \A j \in 1..Len(d) : Append(d, s)[j] = d[j]
BY DEF BackendShape

LEMMA BackendFlushed ==
    ASSUME NEW m \in Nat, NEW s \in States(m)
    PROVE  BackendShape(<< s >>, m) /\ Len(<< s >>) = 1 /\ << s >>[1] = s
BY DEF BackendShape

\* The steps of a call, as values.
EndedIn(o, w) == [o EXCEPT ![w] = Idle]
MovedIn(o, w, c) == [o EXCEPT ![w].pc = c]

LEMMA OpEnds ==
    ASSUME NEW m \in Nat, NEW n \in Nat, NEW p, NEW o, OpShape(o, m, n, p), NEW w \in Writers
    PROVE  /\ OpShape(EndedIn(o, w), m, n, p)
           /\ EndedIn(o, w)[w] = Idle
           /\ \A v \in Writers \ {w} : EndedIn(o, w)[v] = o[v]
BY DEF OpShape, Idle, Points, EndedIn

LEMMA OpMoves ==
    ASSUME NEW m \in Nat, NEW n \in Nat, NEW p, NEW o, OpShape(o, m, n, p), NEW w \in Writers,
           o[w].pc # "idle", NEW c \in Points
    PROVE  /\ OpShape(MovedIn(o, w, c), m, n, p)
           /\ MovedIn(o, w, c)[w].pc = c /\ MovedIn(o, w, c)[w].tx = o[w].tx
           /\ MovedIn(o, w, c)[w].seq = o[w].seq
           /\ \A v \in Writers \ {w} : MovedIn(o, w, c)[v] = o[v]
BY DEF OpShape, Points, MovedIn

\* What the shape says of a call under way.
LEMMA OpUnderWay ==
    ASSUME Shape, NEW w \in Writers, op[w].pc # "idle"
    PROVE  /\ phase = "open" /\ op[w].tx \in 1..Len(txs) /\ op[w].seq \in 1..nextSeq
           /\ op[w].tx \in DOMAIN txs /\ op[w].seq \in Nat \ {0}
           /\ replay = {}
BY DEF Shape, OpShape, ReplayShape

\* The history after an answer, and after a frame.
AnsweredIn(ts, t, a) == [ts EXCEPT ![t].answer = a]
LoggedIn(ts, t) == [ts EXCEPT ![t].logged = TRUE]

LEMMA TxsAnswered ==
    ASSUME NEW ts \in Seq(Calls), NEW t \in DOMAIN ts, NEW a \in {"ok", "error"}
    PROVE  /\ AnsweredIn(ts, t, a) \in Seq(Calls)
           /\ Len(AnsweredIn(ts, t, a)) = Len(ts) /\ DOMAIN AnsweredIn(ts, t, a) = DOMAIN ts
           /\ AnsweredIn(ts, t, a)[t].answer = a
<1> DEFINE c == [ts[t] EXCEPT !.answer = a]
<1>1. c \in Calls /\ c.answer = a
  <2>1. ts[t] \in Calls
    OBVIOUS
  <2> QED BY <2>1 DEF Calls
<1>2. AnsweredIn(ts, t, a) = [ts EXCEPT ![t] = c]
  BY DEF AnsweredIn
<1> HIDE DEF c
<1> QED BY <1>1, <1>2

LEMMA TxAnswered ==
    ASSUME NEW ts \in Seq(Calls), NEW t \in DOMAIN ts, NEW a, NEW i \in DOMAIN ts
    PROVE  /\ AnsweredIn(ts, t, a)[i].keys = ts[i].keys
           /\ AnsweredIn(ts, t, a)[i].logged = ts[i].logged
           /\ i # t => AnsweredIn(ts, t, a)[i] = ts[i]
<1>1. ts[t] \in Calls
  OBVIOUS
<1> QED BY <1>1 DEF AnsweredIn, Calls

LEMMA TxsLogged ==
    ASSUME NEW ts \in Seq(Calls), NEW t \in DOMAIN ts
    PROVE  /\ LoggedIn(ts, t) \in Seq(Calls)
           /\ Len(LoggedIn(ts, t)) = Len(ts) /\ DOMAIN LoggedIn(ts, t) = DOMAIN ts
           /\ LoggedIn(ts, t)[t].logged
<1> DEFINE c == [ts[t] EXCEPT !.logged = TRUE]
<1>1. c \in Calls /\ c.logged
  <2>1. ts[t] \in Calls
    OBVIOUS
  <2> QED BY <2>1 DEF Calls
<1>2. LoggedIn(ts, t) = [ts EXCEPT ![t] = c]
  BY DEF LoggedIn
<1> HIDE DEF c
<1> QED BY <1>1, <1>2

LEMMA TxLogged ==
    ASSUME NEW ts \in Seq(Calls), NEW t \in DOMAIN ts, NEW i \in DOMAIN ts
    PROVE  /\ LoggedIn(ts, t)[i].keys = ts[i].keys
           /\ LoggedIn(ts, t)[i].answer = ts[i].answer
           /\ i # t => LoggedIn(ts, t)[i] = ts[i]
<1>1. ts[t] \in Calls
  OBVIOUS
<1> QED BY <1>1 DEF LoggedIn, Calls

\* What is typed for m calls is typed for one more.
LEMMA MoreCalls ==
    ASSUME NEW m \in Nat
    PROVE  /\ Logs(m) \subseteq Logs(m + 1) /\ States(m) \subseteq States(m + 1)
           /\ \A w : LogShape(w, m) => LogShape(w, m + 1)
           /\ \A d : BackendShape(d, m) => BackendShape(d, m + 1)
           /\ \A o, n, p : n \in Nat /\ OpShape(o, m, n, p) => OpShape(o, m + 1, n + 1, p)
<1>1. FramesTo(m) \subseteq FramesTo(m + 1)
  BY DEF FramesTo
<1>2. Seq(FramesTo(m)) \subseteq Seq(FramesTo(m + 1))
  BY <1>1
<1>3. Logs(m) \subseteq Logs(m + 1)
  BY <1>2 DEF Logs
<1>4. States(m) \subseteq States(m + 1)
  BY DEF States
<1>5. ASSUME NEW d, BackendShape(d, m)
      PROVE  BackendShape(d, m + 1)
  <2>1. Seq(States(m)) \subseteq Seq(States(m + 1))
    BY <1>4
  <2> QED BY <1>5, <2>1 DEF BackendShape
<1>6. ASSUME NEW o, NEW n \in Nat, NEW p, OpShape(o, m, n, p)
      PROVE  OpShape(o, m + 1, n + 1, p)
  BY <1>6 DEF OpShape
<1> QED BY <1>3, <1>4, <1>5, <1>6 DEF LogShape

\* What a barrier adds are calls the flushed state holds.
LEMMA CoveredAreDone ==
    ASSUME Shape, Barrier
    PROVE  /\ Covered \subseteq db[Len(db)].done /\ Covered \subseteq 1..Len(txs)
           /\ Stored = db[Len(db)] /\ Stored \in States(Len(txs))
<1>1. Stored = db[Len(db)]
  BY DEF Stored, Last
<1>2. /\ Len(db) \in Nat \ {0} /\ Len(db) \in DOMAIN db /\ 1 \in DOMAIN db
      /\ db[Len(db)] \in States(Len(txs))
  <2>1. BackendShape(db, Len(txs)) /\ Len(txs) \in Nat
    BY DEF Shape
  <2> QED BY <2>1, LastState
<1>3. db[1].done \subseteq db[Len(db)].done
  BY <1>2 DEF Barrier, DoneGrows
<1>4. db[Len(db)].done \subseteq 1..Len(txs)
  BY <1>2 DEF States
<1> QED BY <1>1, <1>2, <1>3, <1>4 DEF Covered, Barrier

----------------------------------------------------------------------------
(* Shape and Barrier, one lemma per action.                                *)

LEMMA InitSound == Init => Shape /\ Barrier
<1> SUFFICES ASSUME Init PROVE Shape /\ Barrier
  OBVIOUS
<1> USE DEF Init
<1>1. Len(txs) = 0 /\ txs \in Seq(Calls)
  OBVIOUS
<1>2. LogShape(wal, 0)
  BY DEF LogShape, Logs, NoFile
<1>3. BackendShape(db, 0) /\ Len(db) = 1 /\ db[1].done = {}
  BY DEF BackendShape, States
<1>4. OpShape(op, 0, 0, "open") /\ KeeperShape(keeper, "open") /\ ReplayShape(replay, wal, "open")
  BY DEF OpShape, KeeperShape, ReplayShape, Idle, Resting, Points
<1>5. Shape
  BY <1>1, <1>2, <1>3, <1>4 DEF Shape
<1>6. Barrier
  <2>1. DoneGrows(db)
    BY <1>3 DEF DoneGrows
  <2> QED BY <1>3, <2>1 DEF Barrier, Idle
<1> QED BY <1>5, <1>6

\* A call that starts takes the next number and the next place in the history.
LEMMA BeginGrows ==
    ASSUME Shape, NEW w \in Writers, NEW keys \in SUBSET Keys, Begin(w, keys)
    PROVE  /\ Len(txs') = Len(txs) + 1 /\ txs' \in Seq(Calls)
           /\ \A i \in DOMAIN txs : txs'[i] = txs[i]
           /\ DOMAIN txs' = 1..(Len(txs) + 1)
           /\ txs'[Len(txs) + 1].answer = "none" /\ ~txs'[Len(txs) + 1].logged
           /\ op'[w] = [pc |-> "numbered", tx |-> Len(txs) + 1, seq |-> nextSeq + 1]
           /\ \A v \in Writers \ {w} : op'[v] = op[v]
           /\ OpShape(op', Len(txs) + 1, nextSeq + 1, phase)
<1> DEFINE c == [audit |-> w = "audit", keys |-> keys, answer |-> "none", logged |-> FALSE]
<1>1. c \in Calls /\ c.answer = "none" /\ ~c.logged
  BY DEF Calls
<1>2. txs' = Append(txs, c) /\ txs \in Seq(Calls)
  BY DEF Begin, Shape
<1> HIDE DEF c
<1>3. /\ Len(txs') = Len(txs) + 1 /\ txs' \in Seq(Calls) /\ txs'[Len(txs) + 1] = c
      /\ \A i \in DOMAIN txs : txs'[i] = txs[i]
      /\ DOMAIN txs' = 1..(Len(txs) + 1) /\ Len(txs) \in Nat
  BY <1>1, <1>2
<1> DEFINE r == [pc |-> "numbered", tx |-> Len(txs) + 1, seq |-> nextSeq + 1]
<1>4. nextSeq \in Nat /\ OpShape(op, Len(txs) + 1, nextSeq + 1, phase) /\ phase = "open"
  BY <1>3, MoreCalls DEF Shape, Begin
<1>5. op' = [op EXCEPT ![w] = r]
  BY DEF Begin
<1>6. /\ r.pc = "numbered" /\ r.tx \in 1..(Len(txs) + 1) /\ r.seq \in 1..(nextSeq + 1)
      /\ r \in [pc : Points, tx : {0} \cup 1..(Len(txs) + 1), seq : Nat]
  BY <1>3, <1>4 DEF Points
<1> HIDE DEF r
<1>7. op'[w] = r /\ \A v \in Writers \ {w} : op'[v] = op[v]
  BY <1>4, <1>5 DEF OpShape
<1>8. OpShape(op', Len(txs) + 1, nextSeq + 1, phase)
  BY <1>4, <1>5, <1>6, <1>7 DEF OpShape
<1> QED BY <1>1, <1>3, <1>7, <1>8 DEF r

LEMMA BeginKeepsShape ==
    ASSUME Shape, Barrier, NEW w \in Writers, NEW keys \in SUBSET Keys, Begin(w, keys)
    PROVE  Shape' /\ Barrier'
<1>1. /\ Len(txs') = Len(txs) + 1 /\ txs' \in Seq(Calls) /\ Len(txs) \in Nat
      /\ op'[w].pc = "numbered" /\ \A v \in Writers \ {w} : op'[v] = op[v]
      /\ OpShape(op', Len(txs) + 1, nextSeq + 1, phase)
  BY BeginGrows DEF Shape
<1>2. LogShape(wal, Len(txs) + 1) /\ BackendShape(db, Len(txs) + 1)
  BY <1>1, MoreCalls DEF Shape
<1>3. Shape'
  BY <1>1, <1>2 DEF Shape, Begin, config, bounds
<1>4. Barrier'
  BY <1>1 DEF Barrier, DoneGrows, Begin
<1> QED BY <1>3, <1>4

LEMMA AppendFrameKeepsShape ==
    ASSUME Shape, Barrier, NEW w \in Writers, AppendFrame(w)
    PROVE  Shape' /\ Barrier'
<1> DEFINE f == [seq |-> op[w].seq, tx |-> op[w].tx]
<1>1. /\ op[w].pc # "idle" /\ Len(txs) \in Nat /\ nextSeq \in Nat
      /\ OpShape(op, Len(txs), nextSeq, phase)
  BY DEF AppendFrame, Shape
<1>2. /\ op[w].tx \in DOMAIN txs /\ replay = {} /\ phase = "open"
      /\ f \in FramesTo(Len(txs))
  BY <1>1, OpUnderWay DEF FramesTo
<1>3. LogShape(Extended(f), Len(txs)) /\ wal' = Extended(f)
  <2> HIDE DEF f
  <2> QED BY <1>1, <1>2, LogExtended DEF Shape, AppendFrame, f
<1>4. txs' \in Seq(Calls) /\ Len(txs') = Len(txs)
  <2>1. txs' = LoggedIn(txs, op[w].tx) /\ txs \in Seq(Calls)
    BY DEF AppendFrame, LoggedIn, Shape
  <2> QED BY <1>2, <2>1, TxsLogged
<1>5. op' = MovedIn(op, w, "logged") /\ "logged" \in Points
  BY DEF AppendFrame, Points, MovedIn
<1>6. /\ OpShape(op', Len(txs), nextSeq, phase) /\ op'[w].pc = "logged"
      /\ \A v \in Writers \ {w} : op'[v] = op[v]
  BY <1>1, <1>5, OpMoves
<1>7. ReplayShape({}, wal', phase)
  BY <1>2 DEF ReplayShape
<1>8. Shape'
  BY <1>2, <1>3, <1>4, <1>6, <1>7 DEF Shape, AppendFrame, config, bounds
<1>9. Barrier'
  BY <1>6 DEF Barrier, DoneGrows, AppendFrame
<1> QED BY <1>8, <1>9

\* A state that holds what the last one held goes on growing.
LEMMA DoneStillGrows ==
    ASSUME NEW m \in Nat, NEW d, BackendShape(d, m), NEW s \in States(m),
           DoneGrows(d), d[Len(d)].done \subseteq s.done
    PROVE  /\ DoneGrows(Append(d, s)) /\ DoneGrows(<< s >>)
           /\ d[1].done \subseteq Append(d, s)[1].done /\ d[1].done \subseteq << s >>[1].done
<1>1. /\ Len(d) \in Nat \ {0} /\ Len(Append(d, s)) = Len(d) + 1 /\ Append(d, s)[Len(d) + 1] = s
      /\ \A j \in 1..Len(d) : Append(d, s)[j] = d[j]
      /\ Len(<< s >>) = 1 /\ << s >>[1] = s
      /\ DOMAIN d = 1..Len(d) /\ DOMAIN Append(d, s) = 1..(Len(d) + 1)
      /\ DOMAIN << s >> = 1..1
  BY LastState, BackendApplied, BackendFlushed DEF BackendShape
<1>2. \A j \in 1..Len(d) : d[j].done \subseteq s.done
  BY <1>1 DEF DoneGrows
<1> DEFINE a == Append(d, s)
<1> HIDE DEF a
<1>3. ASSUME NEW i \in DOMAIN a, NEW j \in DOMAIN a, i <= j
      PROVE  a[i].done \subseteq a[j].done
  <2>1. CASE j = Len(d) + 1
    BY <1>1, <1>2, <1>3, <2>1 DEF a
  <2>2. CASE j # Len(d) + 1
    <3>1. i \in 1..Len(d) /\ j \in 1..Len(d)
      BY <1>1, <1>3, <2>2 DEF a
    <3> QED BY <1>1, <1>3, <3>1 DEF DoneGrows, a
  <2> QED BY <2>1, <2>2
<1>4. DoneGrows(a)
  BY <1>3 DEF DoneGrows
<1>5. DoneGrows(<< s >>)
  BY <1>1 DEF DoneGrows
<1> QED BY <1>1, <1>2, <1>4, <1>5 DEF a

LEMMA ApplyBatchKeepsShape ==
    ASSUME Shape, Barrier, NEW w \in Writers, ApplyBatch(w)
    PROVE  Shape' /\ Barrier'
<1> DEFINE m == Len(txs)
           s == Applied(Stored, op[w].tx, op[w].seq)
<1>1. /\ op[w].pc # "idle" /\ m \in Nat /\ nextSeq \in Nat /\ BackendShape(db, m)
      /\ OpShape(op, m, nextSeq, phase)
  BY DEF ApplyBatch, Shape
<1>2. /\ op[w].tx \in 1..m /\ op[w].seq \in Nat
      /\ Stored = db[Len(db)] /\ Stored \in States(m)
  BY <1>1, OpUnderWay, CoveredAreDone
<1>3. s \in States(m) /\ s.done = Stored.done \cup {op[w].tx}
  BY <1>1, <1>2 DEF Applied, States
<1>4. db' = Append(db, s)
  BY DEF ApplyBatch
<1> HIDE DEF s, m
<1>5. /\ BackendShape(db', m) /\ Len(db') = Len(db) + 1 /\ db'[Len(db) + 1] = s
  BY <1>1, <1>3, <1>4, BackendApplied
<1>6. DoneGrows(db') /\ db[1].done \subseteq db'[1].done
  BY <1>1, <1>2, <1>3, <1>4, DoneStillGrows DEF Barrier
<1>7. /\ OpShape(op', m, nextSeq, phase)
      /\ op'[w].pc = "applied" /\ op'[w].tx = op[w].tx
      /\ \A v \in Writers \ {w} : op'[v] = op[v]
  <2>1. op' = MovedIn(op, w, "applied") /\ "applied" \in Points
    BY DEF ApplyBatch, Points, MovedIn
  <2> QED BY <1>1, <2>1, OpMoves
<1>8. Shape'
  BY <1>5, <1>7 DEF Shape, ApplyBatch, config, bounds, m
<1>9. \A v \in Writers : op'[v].pc \in {"applied", "synced"} => op'[v].tx \in s.done
  BY <1>2, <1>3, <1>7 DEF Barrier
<1>10. Barrier'
  BY <1>5, <1>6, <1>9 DEF Barrier, ApplyBatch
<1> QED BY <1>8, <1>10

\* The end of a call, with an answer.
LEMMA AnswerEnds ==
    ASSUME Shape, NEW w \in Writers, op[w].pc # "idle", NEW a \in {"ok", "error"},
           txs' = AnsweredIn(txs, op[w].tx, a), op' = EndedIn(op, w)
    PROVE  /\ txs' \in Seq(Calls) /\ Len(txs') = Len(txs) /\ DOMAIN txs' = DOMAIN txs
           /\ OpShape(op', Len(txs), nextSeq, phase)
           /\ op'[w] = Idle /\ \A v \in Writers \ {w} : op'[v] = op[v]
           /\ \A i \in DOMAIN txs : /\ txs'[i].keys = txs[i].keys /\ txs'[i].logged = txs[i].logged
                                    /\ i # op[w].tx => txs'[i] = txs[i]
           /\ txs'[op[w].tx].answer = a
<1>1. /\ op[w].tx \in DOMAIN txs /\ txs \in Seq(Calls) /\ Len(txs) \in Nat /\ nextSeq \in Nat
      /\ OpShape(op, Len(txs), nextSeq, phase)
  BY OpUnderWay DEF Shape
<1>2. /\ OpShape(op', Len(txs), nextSeq, phase)
      /\ op'[w] = Idle /\ \A v \in Writers \ {w} : op'[v] = op[v]
  BY <1>1, OpEnds
<1>3. /\ AnsweredIn(txs, op[w].tx, a) \in Seq(Calls)
      /\ Len(AnsweredIn(txs, op[w].tx, a)) = Len(txs)
      /\ DOMAIN AnsweredIn(txs, op[w].tx, a) = DOMAIN txs
      /\ AnsweredIn(txs, op[w].tx, a)[op[w].tx].answer = a
  BY <1>1, TxsAnswered
<1>4. ASSUME NEW i \in DOMAIN txs
      PROVE  /\ txs'[i].keys = txs[i].keys /\ txs'[i].logged = txs[i].logged
             /\ i # op[w].tx => txs'[i] = txs[i]
  BY <1>1, TxAnswered
<1> QED BY <1>2, <1>3, <1>4

LEMMA AnswerBufferedKeepsShape ==
    ASSUME Shape, Barrier, NEW w \in Writers, AnswerBuffered(w)
    PROVE  Shape' /\ Barrier'
<1>1. /\ txs' \in Seq(Calls) /\ Len(txs') = Len(txs)
      /\ OpShape(op', Len(txs), nextSeq, phase)
      /\ op'[w] = Idle /\ \A v \in Writers \ {w} : op'[v] = op[v]
  BY AnswerEnds DEF AnswerBuffered, Answered, AnsweredIn, EndedIn
<1>2. Shape'
  BY <1>1 DEF Shape, AnswerBuffered, config, bounds
<1>3. Barrier'
  BY <1>1 DEF Barrier, DoneGrows, AnswerBuffered, Idle
<1> QED BY <1>2, <1>3

LEMMA SyncLogKeepsShape ==
    ASSUME Shape, Barrier, NEW w \in Writers, SyncLog(w)
    PROVE  Shape' /\ Barrier'
<1>1. op[w].pc = "applied" /\ Len(txs) \in Nat /\ nextSeq \in Nat /\ "synced" \in Points
      /\ wal' = Synced(wal) /\ LogShape(wal, Len(txs))
      /\ OpShape(op, Len(txs), nextSeq, phase) /\ op[w].pc # "idle"
  BY DEF SyncLog, Shape, Points
<1>2. LogShape(wal', Len(txs)) /\ wal'.frames = wal.frames
  BY <1>1, LogSynced
<1>3. /\ OpShape(op', Len(txs), nextSeq, phase)
      /\ op'[w].pc = "synced" /\ op'[w].tx = op[w].tx
      /\ \A v \in Writers \ {w} : op'[v] = op[v]
  <2>1. op' = MovedIn(op, w, "synced")
    BY DEF SyncLog, MovedIn
  <2> QED BY <1>1, <2>1, OpMoves
<1>4. Shape'
  BY <1>2, <1>3 DEF Shape, SyncLog, config, bounds, ReplayShape
<1>5. Barrier'
  BY <1>1, <1>3 DEF Barrier, DoneGrows, SyncLog
<1> QED BY <1>4, <1>5

\* A flush keeps the last state only.
LEMMA Flushed ==
    ASSUME Shape, Barrier, db' = << Stored >>
    PROVE  /\ BackendShape(db', Len(txs)) /\ DoneGrows(db')
           /\ Len(db') = 1 /\ db'[1] = db[Len(db)]
           /\ Covered \subseteq db'[1].done /\ Covered \subseteq 1..Len(txs)
<1>1. /\ Stored = db[Len(db)] /\ Stored \in States(Len(txs)) /\ Len(txs) \in Nat
      /\ Covered \subseteq db[Len(db)].done /\ Covered \subseteq 1..Len(txs)
      /\ BackendShape(db, Len(txs))
  BY CoveredAreDone DEF Shape
<1>2. BackendShape(<< Stored >>, Len(txs)) /\ Len(<< Stored >>) = 1 /\ << Stored >>[1] = Stored
  BY <1>1, BackendFlushed
<1>3. DoneGrows(<< Stored >>)
  BY <1>1, DoneStillGrows DEF Barrier
<1> QED BY <1>1, <1>2, <1>3

LEMMA AnswerFlushedKeepsShape ==
    ASSUME Shape, Barrier, NEW w \in Writers, AnswerFlushed(w)
    PROVE  Shape' /\ Barrier'
<1>1. op[w].pc \in {"applied", "synced"} /\ op[w].pc # "idle"
  BY DEF AnswerFlushed
<1>2. /\ txs' \in Seq(Calls) /\ Len(txs') = Len(txs)
      /\ OpShape(op', Len(txs), nextSeq, phase)
      /\ op'[w] = Idle /\ \A v \in Writers \ {w} : op'[v] = op[v]
  BY <1>1, AnswerEnds DEF AnswerFlushed, Answered, AnsweredIn, EndedIn
<1>3. /\ BackendShape(db', Len(txs)) /\ DoneGrows(db')
      /\ Len(db') = 1 /\ db'[1] = db[Len(db)]
      /\ Covered \subseteq db'[1].done /\ Covered \subseteq 1..Len(txs)
  BY Flushed DEF AnswerFlushed
<1>4. op[w].tx \in db'[1].done /\ op[w].tx \in 1..Len(txs)
  BY <1>1, <1>3, OpUnderWay DEF Barrier
<1>5. promised' = Covered \cup {op[w].tx}
  BY DEF AnswerFlushed
<1>6. Shape'
  BY <1>2, <1>3, <1>4, <1>5 DEF Shape, AnswerFlushed, config, bounds
<1>7. \A v \in Writers : op'[v].pc \in {"applied", "synced"} => op'[v].tx \in db'[1].done
  BY <1>2, <1>3 DEF Barrier, Idle
<1>8. Barrier'
  BY <1>3, <1>4, <1>5, <1>7 DEF Barrier
<1> QED BY <1>6, <1>8

\* Half a frame is left, or not.
LEMMA TornKeeps ==
    ASSUME Shape, NEW ws, NEW t \in TornBy(ws), NEW w, w = [wal EXCEPT !.torn = t]
    PROVE  /\ LogShape(w, Len(txs)) /\ w.frames = wal.frames /\ NextOf(w) = NextOf(wal)
           /\ w.made = wal.made
<1>1. Len(txs) \in Nat /\ LogShape(wal, Len(txs)) /\ wal \in Logs(Len(txs))
  BY DEF Shape, LogShape
<1>2. wal.torn \in BOOLEAN /\ wal.made \in BOOLEAN
  BY <1>1 DEF Logs
<1>3. t \in BOOLEAN
  BY <1>2 DEF TornBy
<1>4. /\ LogShape([wal EXCEPT !.torn = t], Len(txs))
      /\ [wal EXCEPT !.torn = t].frames = wal.frames
      /\ NextOf([wal EXCEPT !.torn = t]) = NextOf(wal)
  BY <1>1, <1>3, LogTorn
<1>5. [wal EXCEPT !.torn = t].made = wal.made
  BY <1>1 DEF Logs
<1> QED BY <1>4, <1>5

LEMMA FailKeepsShape ==
    ASSUME Shape, Barrier, NEW w \in Writers, Fail(w)
    PROVE  Shape' /\ Barrier'
<1>1. /\ txs' \in Seq(Calls) /\ Len(txs') = Len(txs)
      /\ OpShape(op', Len(txs), nextSeq, phase)
      /\ op'[w] = Idle /\ \A v \in Writers \ {w} : op'[v] = op[v]
  BY AnswerEnds DEF Fail, Answered, AnsweredIn, EndedIn
<1>2. PICK t \in TornBy({w}) : wal' = [wal EXCEPT !.torn = t]
  BY DEF Fail
<1>3. LogShape(wal', Len(txs)) /\ wal'.frames = wal.frames
  BY <1>2, TornKeeps
<1>4. /\ UNCHANGED << mode, auditing, nextSeq, db, phase, replay, keeper, promised, logCut >>
  BY DEF Fail, config
<1>5. Shape'
  BY <1>1, <1>3, <1>4 DEF Shape, ReplayShape
<1>6. Barrier'
  BY <1>1, <1>4 DEF Barrier, DoneGrows, Idle
<1> QED BY <1>5, <1>6

\* Maintenance that leaves the backend and the log's frames to what they were,
\* or flushes.
LEMMA MaintainKeepsShape ==
    ASSUME Shape, Barrier, NEW r, Maintain(r), KeeperShape(r, phase), LogShape(wal', Len(txs)),
           wal'.frames = wal.frames \/ phase = "open", logCut' \in BOOLEAN,
           \/ UNCHANGED << db, promised >>
           \/ db' = << Stored >> /\ promised' = Covered
    PROVE  Shape' /\ Barrier'
<1>1. ReplayShape(replay, wal', phase)
  BY DEF ReplayShape, Shape
<1>2. CASE UNCHANGED << db, promised >>
  <2>1. Shape'
    BY <1>1, <1>2 DEF Shape, Maintain, config, bounds
  <2>2. Barrier'
    BY <1>2 DEF Barrier, DoneGrows, Maintain
  <2> QED BY <2>1, <2>2
<1>3. CASE db' = << Stored >> /\ promised' = Covered
  <2>1. /\ BackendShape(db', Len(txs)) /\ DoneGrows(db')
        /\ Len(db') = 1 /\ db'[1] = db[Len(db)]
        /\ Covered \subseteq db'[1].done /\ Covered \subseteq 1..Len(txs)
    BY <1>3, Flushed
  <2>2. promised' = Covered
    BY <1>3
  <2>3. Shape'
    BY <1>1, <2>1, <2>2 DEF Shape, Maintain, config, bounds
  <2>4. \A w \in Writers : op'[w].pc \in {"applied", "synced"} => op'[w].tx \in db'[1].done
    BY <2>1 DEF Barrier, Maintain
  <2>5. Barrier'
    BY <2>1, <2>2, <2>4 DEF Barrier
  <2> QED BY <2>3, <2>5
<1> QED BY <1>2, <1>3

Maintenance ==
    \/ TickSync \/ TickFlush
    \/ CheckpointFlush \/ CheckpointMark \/ CompactAppliedMark \/ Compact

LEMMA MaintenanceKeepsShape ==
    ASSUME Shape, Barrier, Maintenance
    PROVE  Shape' /\ Barrier'
<1>1. /\ LogShape(wal, Len(txs)) /\ Len(txs) \in Nat /\ nextSeq \in Nat /\ logCut \in BOOLEAN
      /\ KeeperShape(keeper, phase) /\ KeeperShape(Resting, phase) /\ Resting.upto = 0
  BY DEF Shape, KeeperShape, Resting
<1>2. Stored.marker \in Nat
  BY CoveredAreDone DEF States
<1>3. CASE TickSync
  <2>1. LogShape(wal', Len(txs)) /\ wal'.frames = wal.frames
    BY <1>1, <1>3, LogSynced DEF TickSync
  <2>2. KeeperShape([Resting EXCEPT !.pc = "ticking"], phase)
    BY <1>3 DEF TickSync, KeeperShape, Resting
  <2> QED BY <1>1, <1>3, <2>1, <2>2, MaintainKeepsShape DEF TickSync
<1>4. CASE TickFlush
  BY <1>1, <1>4, MaintainKeepsShape DEF TickFlush
<1>5. CASE CheckpointFlush
  <2>1. KeeperShape([Resting EXCEPT !.pc = "flushed"], phase)
    BY <1>5 DEF CheckpointFlush, KeeperShape, Resting
  <2> QED BY <1>1, <1>5, <2>1, MaintainKeepsShape DEF CheckpointFlush
<1>6. CASE CheckpointMark
  <2>1. KeeperShape([pc |-> "covering", upto |-> Stored.marker], phase)
    BY <1>1, <1>2, <1>6 DEF CheckpointMark, KeeperShape
  <2> QED BY <1>1, <1>6, <2>1, MaintainKeepsShape DEF CheckpointMark
<1>7. CASE CompactAppliedMark
  <2>1. KeeperShape([pc |-> "compacting", upto |-> Stored.marker], phase)
    BY <1>2, <1>7 DEF CompactAppliedMark, KeeperShape
  <2> QED BY <1>1, <1>7, <2>1, MaintainKeepsShape DEF CompactAppliedMark
<1>8. CASE Compact
  <2>1. keeper.upto \in Nat /\ Immediate \in BOOLEAN /\ phase = "open"
    BY <1>1, <1>8 DEF KeeperShape, Immediate, Compact
  <2>2. LogShape(wal', Len(txs))
    BY <1>1, <1>8, <2>1, LogCompacted DEF Compact
  <2>3. logCut' \in BOOLEAN
    BY <1>1, <1>8 DEF Compact, DropsNeeded
  <2>4. Maintain(Resting) /\ UNCHANGED << db, promised >>
    BY <1>8 DEF Compact
  <2> QED BY <1>1, <2>1, <2>2, <2>3, <2>4, MaintainKeepsShape
<1> QED BY <1>3, <1>4, <1>5, <1>6, <1>7, <1>8 DEF Maintenance

LEMMA MaintenanceFailsKeepsShape ==
    ASSUME Shape, Barrier, MaintenanceFails
    PROVE  Shape' /\ Barrier'
<1>1. KeeperShape(Resting, phase)
  BY DEF KeeperShape, Resting
<1>2. Shape'
  BY <1>1 DEF Shape, MaintenanceFails, config
<1>3. Barrier'
  BY DEF Barrier, DoneGrows, MaintenanceFails
<1> QED BY <1>2, <1>3

\* A crash forgets what was under way; the backend falls back to one of its states.
LEMMA CrashKeepsShape ==
    ASSUME Shape, Barrier, Stop, LogShape(wal', Len(txs)), logCut' \in BOOLEAN,
           db' = db \/ \E i \in DOMAIN db : db' = << db[i] >>
    PROVE  Shape' /\ Barrier'
<1>1. /\ BackendShape(db, Len(txs)) /\ Len(txs) \in Nat
  BY DEF Shape
<1>2. BackendShape(db', Len(txs)) /\ DoneGrows(db') /\ db[1].done \subseteq db'[1].done
  <2>1. CASE db' = db
    BY <1>1, <2>1 DEF Barrier
  <2>2. CASE \E i \in DOMAIN db : db' = << db[i] >>
    <3>1. PICK i \in DOMAIN db : db' = << db[i] >>
      BY <2>2
    <3>2. db[i] \in States(Len(txs)) /\ 1 \in DOMAIN db /\ i >= 1
      BY <1>1, LastState
    <3>3. BackendShape(<< db[i] >>, Len(txs)) /\ Len(<< db[i] >>) = 1 /\ << db[i] >>[1] = db[i]
      BY <1>1, <3>2, BackendFlushed
    <3>4. db[1].done \subseteq db[i].done
      BY <3>2 DEF Barrier, DoneGrows
    <3>5. DoneGrows(<< db[i] >>)
      BY DEF DoneGrows
    <3> QED BY <3>1, <3>3, <3>4, <3>5
  <2> QED BY <2>1, <2>2
<1>3. \A w \in Writers : op'[w] = Idle
  BY DEF Stop
<1>4. OpShape(op', Len(txs), 0, "down")
  BY DEF Stop, OpShape, Idle, Points
<1>5. KeeperShape(Resting, "down") /\ ReplayShape({}, wal', "down")
  BY DEF KeeperShape, Resting, ReplayShape
<1>6. UNCHANGED << mode, auditing, txs, promised >> /\ phase' = "down" /\ replay' = {} /\ keeper' = Resting /\ nextSeq' = 0
  BY DEF Stop, config
<1>7. Shape'
  BY <1>2, <1>4, <1>5, <1>6 DEF Shape
<1>8. Barrier'
  BY <1>2, <1>3, <1>6 DEF Barrier, Idle
<1> QED BY <1>7, <1>8

\* What a power loss leaves of the log.
LEMMA PowerLossLog ==
    ASSUME Shape, PowerLoss
    PROVE  /\ LogShape(wal', Len(txs))
           /\ \/ /\ \E n \in 0..Len(wal.frames) : wal'.frames = SubSeq(wal.frames, 1, n)
                 /\ wal'.next = wal.next /\ wal'.compacted = wal.compacted /\ wal'.made = wal.made
              \/ wal' = NoFile /\ wal.made
<1>1. /\ wal \in Logs(Len(txs)) /\ LogShape(wal, Len(txs)) /\ Len(txs) \in Nat
      /\ wal.frames \in Seq(FramesTo(Len(txs))) /\ wal.synced \in Nat /\ wal.torn \in BOOLEAN
      /\ Len(wal.frames) \in Nat /\ wal.made \in BOOLEAN
  BY DEF Shape, LogShape, Logs
<1>2. CASE ~wal.headSynced /\ wal' = NoFile
  <2>1. LogShape(NoFile, Len(txs))
    BY <1>1 DEF LogShape, Logs, NoFile
  <2> QED BY <1>1, <1>2, <2>1 DEF LogShape
<1>3. ASSUME NEW n \in wal.synced..Len(wal.frames), NEW t \in BOOLEAN,
             wal' = [wal EXCEPT !.frames = SubSeq(@, 1, n), !.synced = n,
                                !.headSynced = TRUE, !.torn = t]
      PROVE  /\ LogShape(wal', Len(txs)) /\ n \in 0..Len(wal.frames)
             /\ wal'.frames = SubSeq(wal.frames, 1, n)
             /\ wal'.next = wal.next /\ wal'.compacted = wal.compacted /\ wal'.made = wal.made
  <2> DEFINE fs == SubSeq(wal.frames, 1, n)
  <2>1. fs \in Seq(FramesTo(Len(txs))) /\ Len(fs) = n /\ n \in 0..Len(wal.frames) /\ n \in Nat
    BY <1>1
  <2>2. wal.frames = << >> => fs = << >>
    BY <1>1, <2>1
  <2>3. wal' = [wal EXCEPT !.frames = fs, !.synced = n, !.headSynced = TRUE, !.torn = t]
    BY <1>3
  <2> HIDE DEF fs
  <2>4. /\ wal' \in Logs(Len(txs)) /\ wal'.frames = fs /\ wal'.synced = n /\ wal'.headSynced
        /\ wal'.next = wal.next /\ wal'.compacted = wal.compacted /\ wal'.made = wal.made
    BY <1>1, <2>1, <2>3 DEF Logs
  <2>5. LogShape(wal', Len(txs))
    BY <1>1, <2>1, <2>2, <2>4 DEF LogShape
  <2> QED BY <2>1, <2>4, <2>5 DEF fs
<1>4. CASE \E n \in wal.synced..Len(wal.frames), t \in BOOLEAN :
              wal' = [wal EXCEPT !.frames = SubSeq(@, 1, n), !.synced = n,
                                 !.headSynced = TRUE, !.torn = t]
  BY <1>3, <1>4
<1>5. \/ ~wal.headSynced /\ wal' = NoFile
      \/ \E n \in wal.synced..Len(wal.frames), t \in BOOLEAN :
              wal' = [wal EXCEPT !.frames = SubSeq(@, 1, n), !.synced = n,
                                 !.headSynced = TRUE, !.torn = t]
  BY DEF PowerLoss
<1> QED BY <1>2, <1>4, <1>5

LEMMA PowerLossKeepsShape ==
    ASSUME Shape, Barrier, PowerLoss
    PROVE  Shape' /\ Barrier'
<1>1. logCut' \in BOOLEAN
  BY DEF PowerLoss, Shape
<1>2. Stop /\ \E i \in DOMAIN db : db' = << db[i] >>
  BY DEF PowerLoss
<1> QED BY <1>1, <1>2, PowerLossLog, CrashKeepsShape

LEMMA ProcessCrashKeepsShape ==
    ASSUME Shape, Barrier, ProcessCrash
    PROVE  Shape' /\ Barrier'
<1>1. LogShape(wal', Len(txs))
  BY TornKeeps DEF ProcessCrash
<1>2. logCut' \in BOOLEAN /\ Stop /\ db' = db
  BY DEF ProcessCrash, Shape
<1> QED BY <1>1, <1>2, CrashKeepsShape

\* Recovery: nothing is under way while the store is not open.
LEMMA NothingUnderWay ==
    ASSUME Shape, phase # "open"
    PROVE  /\ \A w \in Writers : op[w].pc = "idle"
           /\ \A n \in Nat : \A p : OpShape(op, Len(txs), n, p)
           /\ keeper.pc = "idle" /\ \A p : KeeperShape(keeper, p)
BY DEF Shape, OpShape, KeeperShape

LEMMA OpenKeepsShape ==
    ASSUME Shape, Barrier, Open
    PROVE  Shape' /\ Barrier'
<1>1. phase # "open" /\ wal \in Logs(Len(txs)) /\ Len(txs) \in Nat /\ FileNext = NextOf(wal)
  BY DEF Open, Shape, LogShape, FileNext, NextOf, Last
<1>2. nextSeq' \in Nat
  BY <1>1, NextOfLog DEF Open
<1>3. OpShape(op, Len(txs), nextSeq', phase') /\ KeeperShape(keeper, phase')
  BY <1>1, <1>2, NothingUnderWay
<1>4. ReplayShape(replay', wal, phase')
  BY DEF ReplayShape, Open
<1>5. Shape'
  BY <1>2, <1>3, <1>4 DEF Shape, Open, config, bounds
<1>6. Barrier'
  BY DEF Barrier, DoneGrows, Open
<1> QED BY <1>5, <1>6

\* The next frame of a recovery, and the state its batch makes.
NextFrame == wal.frames[Min(replay)]
Replayed == Applied(Stored, NextFrame.tx, NextFrame.seq)

LEMMA ReplayTakes ==
    ASSUME Shape, Barrier, Replay
    PROVE  /\ Min(replay) \in replay /\ Min(replay) \in DOMAIN wal.frames
           /\ \A n \in replay : Min(replay) <= n
           /\ NextFrame \in FramesTo(Len(txs)) /\ NextFrame.tx \in 1..Len(txs)
           /\ NextFrame.seq \in Nat \ {0}
           /\ Replayed \in States(Len(txs)) /\ Replayed.done = Stored.done \cup {NextFrame.tx}
           /\ Replayed.marker = NextFrame.seq
           /\ \A k \in Keys : Replayed.data[k] = IF k \in txs[NextFrame.tx].keys
                                                 THEN NextFrame.tx ELSE Stored.data[k]
           /\ Stored = db[Len(db)] /\ Stored \in States(Len(txs))
<1>1. /\ replay \subseteq DOMAIN wal.frames /\ replay # {} /\ Len(txs) \in Nat
      /\ wal.frames \in Seq(FramesTo(Len(txs)))
  BY DEF Shape, ReplayShape, Replay, LogShape, Logs
<1>2. replay \in SUBSET Nat
  BY <1>1
<1>3. Min(replay) \in replay /\ \A n \in replay : Min(replay) <= n
  BY <1>1, <1>2, MinOfNaturals
<1>4. NextFrame \in FramesTo(Len(txs))
  BY <1>1, <1>3 DEF NextFrame
<1>5. Stored = db[Len(db)] /\ Stored \in States(Len(txs))
  BY CoveredAreDone
<1>6. NextFrame.tx \in 1..Len(txs) /\ NextFrame.seq \in Nat \ {0}
  BY <1>4 DEF FramesTo
<1>7. /\ Replayed \in States(Len(txs)) /\ Replayed.done = Stored.done \cup {NextFrame.tx}
      /\ Replayed.marker = NextFrame.seq
      /\ \A k \in Keys : Replayed.data[k] = IF k \in txs[NextFrame.tx].keys
                                            THEN NextFrame.tx ELSE Stored.data[k]
  BY <1>1, <1>5, <1>6 DEF Replayed, Applied, States
<1> QED BY <1>1, <1>3, <1>4, <1>5, <1>6, <1>7

LEMMA ReplayMoves ==
    ASSUME Shape, Replay
    PROVE  /\ db' = Append(db, Replayed) \/ db' = << Replayed >>
           /\ wal' = wal \/ wal' = Synced(wal)
           /\ replay' = replay \ {Min(replay)}
           /\ phase' = IF replay' = {} THEN "open" ELSE "recovering"
           /\ UNCHANGED << mode, auditing, nextSeq, op, keeper, txs, promised, logCut, bounds >>
           /\ phase = "recovering"
BY DEF Replay, Replayed, NextFrame, config

LEMMA ReplayKeepsShape ==
    ASSUME Shape, Barrier, Replay
    PROVE  Shape' /\ Barrier'
<1>1. /\ Replayed \in States(Len(txs)) /\ Stored = db[Len(db)] /\ Stored.done \subseteq Replayed.done
      /\ BackendShape(db, Len(txs)) /\ Len(txs) \in Nat /\ nextSeq \in Nat
  <2>1. /\ Replayed \in States(Len(txs)) /\ Stored = db[Len(db)]
        /\ Replayed.done = Stored.done \cup {NextFrame.tx}
    BY ReplayTakes
  <2>2. BackendShape(db, Len(txs)) /\ Len(txs) \in Nat /\ nextSeq \in Nat
    BY DEF Shape
  <2> QED BY <2>1, <2>2
<1>2. BackendShape(Append(db, Replayed), Len(txs)) /\ BackendShape(<< Replayed >>, Len(txs))
  BY <1>1, BackendApplied, BackendFlushed
<1>3. /\ DoneGrows(Append(db, Replayed)) /\ DoneGrows(<< Replayed >>)
      /\ db[1].done \subseteq Append(db, Replayed)[1].done
      /\ db[1].done \subseteq << Replayed >>[1].done
  BY <1>1, DoneStillGrows DEF Barrier
<1>4. LogShape(wal', Len(txs)) /\ wal'.frames = wal.frames
  BY <1>1, ReplayMoves, LogSynced DEF Shape
<1>5. OpShape(op, Len(txs), nextSeq, phase') /\ KeeperShape(keeper, phase') /\ \A w \in Writers : op[w].pc = "idle"
  BY <1>1, ReplayMoves, NothingUnderWay
<1>6. ReplayShape(replay', wal', phase')
  BY <1>4, ReplayMoves DEF ReplayShape, Shape
<1>7. BackendShape(db', Len(txs)) /\ DoneGrows(db') /\ db[1].done \subseteq db'[1].done
  <2>1. CASE db' = Append(db, Replayed)
    BY <1>2, <1>3, <2>1
  <2>2. CASE db' = << Replayed >>
    BY <1>2, <1>3, <2>2
  <2> QED BY <2>1, <2>2, ReplayMoves
<1>8. Shape'
  BY <1>4, <1>5, <1>6, <1>7, ReplayMoves DEF Shape
<1>9. Barrier'
  BY <1>5, <1>7, ReplayMoves DEF Barrier
<1> QED BY <1>8, <1>9

LEMMA RepairKeepsShape ==
    ASSUME Shape, Barrier, Repair
    PROVE  Shape' /\ Barrier'
<1>1. wal \in Logs(Len(txs)) /\ Len(txs) \in Nat /\ FileNext = NextOf(wal) /\ LogShape(wal, Len(txs))
  BY DEF Repair, Shape, LogShape, FileNext, NextOf, Last
<1>2. FileNext \in Nat /\ Stored.marker \in Nat
  BY <1>1, NextOfLog, CoveredAreDone DEF States
<1>3. LogShape(wal', Len(txs))
  BY <1>1, <1>2, LogCompacted DEF Repair
<1>4. ReplayShape(replay, wal', phase)
  BY DEF ReplayShape, Repair, Shape
<1>5. logCut' \in BOOLEAN
  BY DEF Shape, Repair
<1>6. UNCHANGED << mode, auditing, nextSeq, db, phase, replay, op, keeper, txs, promised >>
  BY DEF Repair, config
<1>7. Shape'
  BY <1>3, <1>4, <1>5, <1>6 DEF Shape
<1>8. Barrier'
  BY <1>6 DEF Barrier, DoneGrows
<1> QED BY <1>7, <1>8

----------------------------------------------------------------------------
(* Calm: what is left of a log and of a backend still agrees.              *)

\* The frames of g are some consecutive ones of f.
Slice(g, f) == \E a \in Nat : \A i \in DOMAIN g : i + a \in DOMAIN f /\ g[i] = f[i + a]

\* The states of e are some of d.
Among(e, d) == \A j \in DOMAIN e : \E i \in DOMAIN d : e[j] = d[i]

LEMMA SubSeqIsSlice ==
    ASSUME NEW S, NEW f \in Seq(S), NEW a \in 0..Len(f), NEW b \in 0..Len(f)
    PROVE  /\ Slice(SubSeq(f, a + 1, b), f)
           /\ DOMAIN SubSeq(f, a + 1, b) = 1..Len(SubSeq(f, a + 1, b))
           /\ a <= b => Len(SubSeq(f, a + 1, b)) = b - a
           /\ \A i \in DOMAIN SubSeq(f, a + 1, b) : SubSeq(f, a + 1, b)[i] = f[i + a]
<1>1. Len(f) \in Nat /\ a \in Nat /\ b \in Nat /\ DOMAIN f = 1..Len(f)
  OBVIOUS
<1>2. SubSeq(f, a + 1, b) \in Seq(S)
  BY <1>1
<1>3. CASE a <= b
  <2>1. /\ DOMAIN SubSeq(f, a + 1, b) = 1..(b - a) /\ Len(SubSeq(f, a + 1, b)) = b - a
        /\ \A i \in 1..(b - a) : SubSeq(f, a + 1, b)[i] = f[i + a]
    BY <1>1, <1>2, <1>3
  <2>2. \A i \in 1..(b - a) : i + a \in 1..Len(f)
    BY <1>1, <1>3
  <2> QED BY <1>1, <1>2, <2>1, <2>2 DEF Slice
<1>4. CASE ~(a <= b)
  <2>1. SubSeq(f, a + 1, b) = << >>
    BY <1>1, <1>4
  <2>2. Len(SubSeq(f, a + 1, b)) = 0
    BY <2>1
  <2>3. DOMAIN SubSeq(f, a + 1, b) = 1..0
    BY <1>2, <2>2
  <2>4. \A i \in 1..0 : FALSE
    OBVIOUS
  <2> QED BY <1>1, <1>4, <2>2, <2>3, <2>4 DEF Slice
<1> QED BY <1>3, <1>4

LEMMA SliceOfItself == \A f : Slice(f, f) \/ ~(\A i \in DOMAIN f : i \in Nat)
<1> TAKE f
<1> SUFFICES ASSUME \A i \in DOMAIN f : i \in Nat
             PROVE  Slice(f, f)
  OBVIOUS
<1>1. \A i \in DOMAIN f : i + 0 = i
  OBVIOUS
<1> QED BY <1>1 DEF Slice

LEMMA SliceInOrder ==
    ASSUME NEW m, NEW f \in Seq(FramesTo(m)), NEW g \in Seq(FramesTo(m)), Slice(g, f), InOrder(f)
    PROVE  InOrder(g)
<1>1. PICK a \in Nat : \A i \in DOMAIN g : i + a \in DOMAIN f /\ g[i] = f[i + a]
  BY DEF Slice
<1>2. ASSUME NEW i \in DOMAIN g, NEW j \in DOMAIN g, i < j
      PROVE  g[i].seq < g[j].seq /\ g[i].tx < g[j].tx
  <2>1. i \in Nat /\ j \in Nat
    OBVIOUS
  <2>2. i + a < j + a
    BY <1>2, <2>1
  <2>3. i + a \in DOMAIN f /\ g[i] = f[i + a] /\ j + a \in DOMAIN f /\ g[j] = f[j + a]
    BY <1>1
  <2> QED BY <2>2, <2>3 DEF InOrder
<1> QED BY <1>2 DEF InOrder

LEMMA SliceBehind ==
    ASSUME NEW s, NEW f, NEW g, Slice(g, f), Behind(s, f)
    PROVE  Behind(s, g)
BY DEF Slice, Behind

LEMMA StillAgreed ==
    ASSUME NEW m, NEW f \in Seq(FramesTo(m)), NEW g \in Seq(FramesTo(m)), Slice(g, f),
           NEW d, NEW e, Among(e, d), NEW ts, Agreed(f, d, ts)
    PROVE  Agreed(g, e, ts)
<1>1. InOrder(g)
  BY SliceInOrder DEF Agreed
<1>2. ASSUME NEW j \in DOMAIN e
      PROVE  Shows(e[j], ts) /\ Behind(e[j], g)
  <2>1. PICK i \in DOMAIN d : e[j] = d[i]
    BY DEF Among
  <2>2. Shows(d[i], ts) /\ Behind(d[i], f)
    BY DEF Agreed
  <2>3. Behind(d[i], g)
    BY <2>2, SliceBehind
  <2> QED BY <2>1, <2>2, <2>3
<1> QED BY <1>1, <1>2 DEF Agreed

\* Calls that keep their records change nothing.
LEMMA SameKeysAgreed ==
    ASSUME NEW m, NEW f, NEW d, BackendShape(d, m), NEW ts, NEW us, Agreed(f, d, ts),
           \A i \in 1..m : us[i].keys = ts[i].keys
    PROVE  Agreed(f, d, us)
<1>1. ASSUME NEW j \in DOMAIN d
      PROVE  Shows(d[j], us)
  <2>1. d[j] \in States(m)
    BY DEF BackendShape
  <2>2. d[j].done \subseteq 1..m
    BY <2>1 DEF States
  <2> QED BY <2>2 DEF Agreed, Shows
<1> QED BY <1>1 DEF Agreed

\* One more state.
LEMMA OneMoreAgreed ==
    ASSUME NEW m \in Nat, NEW f, NEW d, BackendShape(d, m), NEW s \in States(m), NEW ts,
           Agreed(f, d, ts), Shows(s, ts), Behind(s, f)
    PROVE  Agreed(f, Append(d, s), ts) /\ Agreed(f, << s >>, ts)
<1>1. /\ Len(d) \in Nat \ {0} /\ Len(Append(d, s)) = Len(d) + 1 /\ Append(d, s)[Len(d) + 1] = s
      /\ \A j \in 1..Len(d) : Append(d, s)[j] = d[j]
      /\ DOMAIN d = 1..Len(d) /\ DOMAIN Append(d, s) = 1..(Len(d) + 1)
  BY LastState, BackendApplied DEF BackendShape
<1> DEFINE a == Append(d, s)
<1> HIDE DEF a
<1>2. ASSUME NEW j \in DOMAIN a
      PROVE  Shows(a[j], ts) /\ Behind(a[j], f)
  <2>1. CASE j = Len(d) + 1
    BY <1>1, <2>1 DEF a
  <2>2. CASE j # Len(d) + 1
    <3>1. j \in DOMAIN d /\ a[j] = d[j]
      BY <1>1, <2>2 DEF a
    <3> QED BY <3>1 DEF Agreed
  <2> QED BY <2>1, <2>2
<1>3. Agreed(f, a, ts)
  BY <1>2 DEF Agreed
<1>4. Agreed(f, << s >>, ts)
  BY DEF Agreed
<1> QED BY <1>3, <1>4 DEF a

\* A batch newer than all a state holds keeps what the state shows.
LEMMA AppliedShows ==
    ASSUME NEW m \in Nat, NEW s \in States(m), NEW r \in States(m), NEW t \in 1..m, NEW ts,
           Shows(s, ts), \A i \in s.done : i < t, r.done = s.done \cup {t},
           \A k \in Keys : r.data[k] = IF k \in ts[t].keys THEN t ELSE s.data[k],
           \A i \in 1..m : ts[i].keys \subseteq Keys
    PROVE  Shows(r, ts)
<1>1. s.done \subseteq 1..m /\ \A k \in Keys : s.data[k] \in Nat
  BY DEF States
<1>2. ASSUME NEW k \in Keys, r.data[k] # 0
      PROVE  r.data[k] \in r.done
  BY <1>2 DEF Shows
<1>3. ASSUME NEW i \in r.done, NEW k \in ts[i].keys
      PROVE  r.data[k] >= i
  <2>1. i \in 1..m /\ k \in Keys
    BY <1>1, <1>3
  <2>2. CASE k \in ts[t].keys
    BY <1>1, <1>3, <2>1, <2>2
  <2>3. CASE k \notin ts[t].keys
    <3>1. i \in s.done
      BY <1>3, <2>3
    <3> QED BY <2>1, <2>3, <3>1 DEF Shows
  <2> QED BY <2>2, <2>3
<1> QED BY <1>2, <1>3 DEF Shows

LEMMA KeysOfCalls ==
    ASSUME Shape
    PROVE  \A i \in 1..Len(txs) : txs[i].keys \subseteq Keys
<1>1. txs \in Seq(Calls)
  BY DEF Shape
<1>2. \A i \in 1..Len(txs) : txs[i] \in Calls
  BY <1>1
<1> QED BY <1>2 DEF Calls

LEMMA InitCalm == Init => Calm
<1> SUFFICES ASSUME Init PROVE Calm
  OBVIOUS
<1> USE DEF Init
<1>1. wal.frames = << >> /\ phase = "open" /\ \A w \in Writers : op[w].pc = "idle"
  BY DEF NoFile, Idle
<1>2. DOMAIN db = {1} /\ \A k \in Keys : db[1].data[k] = 0
  OBVIOUS
<1>3. db[1].done = {}
  OBVIOUS
<1>4. \A j \in DOMAIN db : Shows(db[j], txs) /\ Behind(db[j], wal.frames)
  <2>1. Shows(db[1], txs) /\ Behind(db[1], wal.frames)
    BY <1>1, <1>2, <1>3 DEF Shows, Behind
  <2> QED BY <1>2, <2>1
<1>5. Agreed(wal.frames, db, txs)
  <2>1. \A i \in DOMAIN wal.frames : FALSE
    BY <1>1
  <2> QED BY <1>4, <2>1 DEF Agreed, InOrder
<1>6. \A i \in DOMAIN wal.frames : FALSE
  BY <1>1
<1> QED BY <1>1, <1>5, <1>6 DEF Calm, Newest, Writers

\* Without audit records only commits write, one at a time.
LEMMA CommitOnly ==
    ASSUME Calm, NEW w \in Writers, op[w].pc # "idle"
    PROVE  /\ w = "commit" /\ op[w].tx = Len(txs) /\ op[w].seq = nextSeq
           /\ txs[Len(txs)].answer = "none"
BY DEF Calm, Newest, Writers

\* The log and the backend, typed.
LEMMA Typed ==
    ASSUME Shape
    PROVE  /\ Len(txs) \in Nat /\ nextSeq \in Nat /\ DOMAIN txs = 1..Len(txs)
           /\ LogShape(wal, Len(txs)) /\ BackendShape(db, Len(txs))
           /\ wal.frames \in Seq(FramesTo(Len(txs))) /\ Len(wal.frames) \in Nat
           /\ DOMAIN wal.frames = 1..Len(wal.frames)
           /\ \A n \in DOMAIN wal.frames : /\ wal.frames[n].seq \in Nat \ {0}
                                           /\ wal.frames[n].tx \in 1..Len(txs)
           /\ \A j \in DOMAIN db : db[j].done \subseteq 1..Len(txs) /\ db[j].marker \in Nat
           /\ db[Len(db)].done \subseteq 1..Len(txs) /\ db[Len(db)].marker \in Nat
           /\ Stored = db[Len(db)] /\ Len(db) \in DOMAIN db
<1>1. /\ Len(txs) \in Nat /\ nextSeq \in Nat /\ DOMAIN txs = 1..Len(txs)
      /\ LogShape(wal, Len(txs)) /\ BackendShape(db, Len(txs))
      /\ wal.frames \in Seq(FramesTo(Len(txs)))
  BY DEF Shape, LogShape, Logs
<1>2. \A n \in DOMAIN wal.frames : wal.frames[n] \in FramesTo(Len(txs))
  BY <1>1
<1>3. \A n \in DOMAIN wal.frames : wal.frames[n].seq \in Nat \ {0} /\ wal.frames[n].tx \in 1..Len(txs)
  BY <1>2 DEF FramesTo
<1>4. /\ Len(db) \in DOMAIN db /\ \A j \in DOMAIN db : db[j] \in States(Len(txs))
  BY <1>1, LastState
<1>5. \A j \in DOMAIN db : db[j].done \subseteq 1..Len(txs) /\ db[j].marker \in Nat
  BY <1>4 DEF States
<1> QED BY <1>1, <1>3, <1>4, <1>5 DEF Stored, Last

LEMMA BeginKeepsCalm ==
    ASSUME Shape, Calm, NEW keys \in SUBSET Keys, Begin("commit", keys)
    PROVE  Calm'
<1> DEFINE m == Len(txs)
<1>1. "commit" \in Writers /\ "audit" \in Writers
  BY DEF Writers
<1>2. /\ Len(txs') = m + 1 /\ \A i \in DOMAIN txs : txs'[i] = txs[i]
      /\ txs'[m + 1].answer = "none"
      /\ op'["commit"] = [pc |-> "numbered", tx |-> m + 1, seq |-> nextSeq + 1]
      /\ op'["audit"] = op["audit"]
  BY <1>1, BeginGrows
<1>3. /\ nextSeq' = nextSeq + 1 /\ phase = "open"
      /\ UNCHANGED << auditing, wal, db, phase, replay >>
  BY DEF Begin, config
<1>4. Agreed(wal.frames, db, txs')
  <2>1. \A i \in 1..m : txs'[i].keys = txs[i].keys
    BY <1>2, Typed
  <2> QED BY <2>1, Typed, SameKeysAgreed DEF Calm
<1>5. \A n \in DOMAIN wal.frames : wal.frames[n].seq < nextSeq + 1 /\ wal.frames[n].tx < m + 1
  <2>1. \A n \in DOMAIN wal.frames : /\ wal.frames[n].seq <= nextSeq /\ wal.frames[n].seq \in Nat
                                    /\ wal.frames[n].tx \in 1..m
    BY <1>3, Typed DEF Calm
  <2>2. m \in Nat /\ nextSeq \in Nat
    BY Typed
  <2> HIDE DEF m
  <2> QED BY <2>1, <2>2
<1>6. \A j \in DOMAIN db : m + 1 \notin db[j].done
  <2>1. m \in Nat /\ \A j \in DOMAIN db : db[j].done \subseteq 1..m
    BY Typed
  <2> HIDE DEF m
  <2> QED BY <2>1
<1>7. Newest(op'["commit"], Len(txs'), nextSeq', txs', db', wal'.frames)
  <2>1. /\ op'["commit"].pc = "numbered" /\ op'["commit"].tx = Len(txs')
        /\ op'["commit"].seq = nextSeq' /\ txs'[Len(txs')].answer = "none"
    BY <1>2, <1>3
  <2> QED BY <1>2, <1>3, <1>5, <1>6, <2>1 DEF Newest
<1>8. \A n \in DOMAIN wal.frames : wal.frames[n].seq <= nextSeq + 1
  BY <1>5, Typed
<1> HIDE DEF m
<1> QED BY <1>2, <1>3, <1>4, <1>7, <1>8 DEF Calm

LEMMA AppendFrameKeepsCalm ==
    ASSUME Shape, Calm, NEW w \in Writers, AppendFrame(w)
    PROVE  Calm'
<1> DEFINE m == Len(txs)
           f == [seq |-> op[w].seq, tx |-> op[w].tx]
           fs == wal.frames
<1>1. op[w].pc = "numbered" /\ w = "commit" /\ op[w].tx = m /\ op[w].seq = nextSeq
  BY CommitOnly DEF AppendFrame
<1>2. /\ op[w].tx \in DOMAIN txs /\ phase = "open" /\ f \in FramesTo(m)
  BY <1>1, OpUnderWay DEF FramesTo
<1>3. f.seq = nextSeq /\ f.tx = m
  BY <1>1
<1>4. wal'.frames = Append(fs, f)
  <2>1. wal' = Extended(f)
    BY DEF AppendFrame
  <2> HIDE DEF f
  <2> QED BY <1>2, <2>1, Typed, LogExtended
<1> HIDE DEF f
<1>5. fs \in Seq(FramesTo(m)) /\ Len(fs) \in Nat /\ DOMAIN fs = 1..Len(fs)
  BY Typed
<1>6. /\ DOMAIN wal'.frames = 1..(Len(fs) + 1) /\ wal'.frames[Len(fs) + 1] = f
      /\ \A n \in DOMAIN fs : wal'.frames[n] = fs[n]
  BY <1>2, <1>4, <1>5
<1>7. /\ \A n \in DOMAIN fs : fs[n].seq < nextSeq /\ fs[n].tx < m
      /\ \A j \in DOMAIN db : m \notin db[j].done
      /\ Agreed(fs, db, txs)
  BY <1>1 DEF Calm, Newest
<1>8. InOrder(wal'.frames)
  <2>1. ASSUME NEW i \in 1..(Len(fs) + 1), NEW j \in 1..(Len(fs) + 1), i < j
        PROVE  wal'.frames[i].seq < wal'.frames[j].seq /\ wal'.frames[i].tx < wal'.frames[j].tx
    <3>1. i \in DOMAIN fs
      BY <1>5, <2>1
    <3>2. CASE j = Len(fs) + 1
      BY <1>3, <1>6, <1>7, <3>1, <3>2
    <3>3. CASE j \in DOMAIN fs
      BY <1>6, <1>7, <2>1, <3>1, <3>3 DEF Agreed, InOrder
    <3> QED BY <1>5, <3>2, <3>3
  <2> QED BY <1>6, <2>1 DEF InOrder
<1>9. LoggedIn(txs, op[w].tx) = txs' /\ txs \in Seq(Calls)
  BY DEF AppendFrame, LoggedIn, Shape
<1>10. Len(LoggedIn(txs, op[w].tx)) = Len(txs)
  BY <1>2, <1>9, TxsLogged
<1>11. ASSUME NEW i \in 1..m
       PROVE  /\ LoggedIn(txs, op[w].tx)[i].keys = txs[i].keys
              /\ LoggedIn(txs, op[w].tx)[i].answer = txs[i].answer
  <2>1. i \in DOMAIN txs
    BY Typed
  <2> QED BY <1>2, <1>9, <2>1, TxLogged
<1>12. Agreed(fs, db, txs')
  BY <1>7, <1>9, <1>11, Typed, SameKeysAgreed
<1>13. Agreed(wal'.frames, db, txs')
  <2>1. ASSUME NEW j \in DOMAIN db
        PROVE  Behind(db[j], wal'.frames)
    <3>1. Behind(db[j], fs)
      BY <1>7 DEF Agreed
    <3>2. \A i \in db[j].done : i < m
      BY <1>7, Typed
    <3>3. ASSUME NEW n \in 1..(Len(fs) + 1), wal'.frames[n].seq > db[j].marker
          PROVE  \A i \in db[j].done : i < wal'.frames[n].tx
      <4>1. CASE n = Len(fs) + 1
        BY <1>3, <1>6, <3>2, <4>1
      <4>2. CASE n \in DOMAIN fs
        BY <1>6, <3>1, <3>3, <4>2 DEF Behind
      <4> QED BY <1>5, <4>1, <4>2
    <3> QED BY <1>6, <3>3 DEF Behind
  <2> QED BY <1>8, <1>12, <2>1 DEF Agreed
<1>14. \A n \in DOMAIN wal'.frames : wal'.frames[n].seq <= nextSeq
  <2>1. \A n \in DOMAIN fs : fs[n].seq <= nextSeq
    BY <1>2 DEF Calm
  <2>2. nextSeq <= nextSeq
    BY Typed
  <2>3. \A n \in 1..(Len(fs) + 1) : n \in DOMAIN fs \/ n = Len(fs) + 1
    <3> HIDE DEF fs
    <3> QED BY <1>5
  <2> HIDE DEF fs
  <2> QED BY <1>3, <1>6, <2>1, <2>2, <2>3
<1>15. /\ op'["commit"].pc = "logged" /\ op'["commit"].tx = m /\ op'["commit"].seq = nextSeq
       /\ op'["audit"] = op["audit"]
  <2>1. op' = MovedIn(op, w, "logged") /\ "logged" \in Points /\ "audit" \in Writers
    BY DEF AppendFrame, Points, MovedIn, Writers
  <2>2. OpShape(op, Len(txs), nextSeq, phase)
    BY DEF Shape
  <2> QED BY <1>1, <2>1, <2>2, Typed, OpMoves
<1>16. UNCHANGED << auditing, nextSeq, db, phase, replay >>
  BY DEF AppendFrame, config
<1>17. txs'[m].answer = "none"
  <2>1. txs[m].answer = "none" /\ m \in 1..m
    BY <1>1, <1>2, CommitOnly, Typed
  <2> QED BY <1>9, <1>11, <2>1
<1>18. Newest(op'["commit"], Len(txs'), nextSeq', txs', db', wal'.frames)
  BY <1>7, <1>9, <1>10, <1>15, <1>16, <1>17 DEF Newest
<1>19. phase' # "recovering"
  BY <1>2, <1>16
<1> HIDE DEF m, fs
<1> QED BY <1>13, <1>14, <1>15, <1>16, <1>18, <1>19 DEF Calm

LEMMA ApplyBatchKeepsCalm ==
    ASSUME Shape, Calm, Barrier, NEW w \in Writers, ApplyBatch(w)
    PROVE  Calm'
<1> DEFINE m == Len(txs)
           s == Applied(Stored, op[w].tx, op[w].seq)
<1>1. op[w].pc = "logged" /\ w = "commit" /\ op[w].tx = m /\ op[w].seq = nextSeq
  BY CommitOnly DEF ApplyBatch
<1>2. m \in 1..m /\ phase = "open" /\ nextSeq \in Nat /\ m \in Nat
  BY <1>1, OpUnderWay, Typed
<1>3. Stored \in States(m) /\ Stored = db[Len(db)] /\ Len(db) \in DOMAIN db
  BY Typed, CoveredAreDone
<1>4. /\ s \in States(m) /\ s.done = Stored.done \cup {m} /\ s.marker = nextSeq
      /\ \A k \in Keys : s.data[k] = IF k \in txs[m].keys THEN m ELSE Stored.data[k]
  BY <1>1, <1>2, <1>3 DEF Applied, States
<1>5. \A i \in Stored.done : i < m
  BY <1>1, <1>3, Typed DEF Calm, Newest
<1>6. db' = Append(db, s)
  BY DEF ApplyBatch
<1>7. Shows(Stored, txs) /\ Agreed(wal.frames, db, txs)
  BY <1>3 DEF Calm, Agreed
<1> HIDE DEF s
<1>8. Shows(s, txs)
  BY <1>2, <1>3, <1>4, <1>5, <1>7, AppliedShows, KeysOfCalls
<1>9. Behind(s, wal.frames)
  <2>1. \A n \in DOMAIN wal.frames : wal.frames[n].seq <= nextSeq
    BY <1>2 DEF Calm
  <2>2. \A n \in DOMAIN wal.frames : ~(wal.frames[n].seq > s.marker)
    BY <1>4, <2>1, Typed
  <2> QED BY <2>2 DEF Behind
<1>10. Agreed(wal.frames, db', txs)
  BY <1>2, <1>4, <1>6, <1>7, <1>8, <1>9, OneMoreAgreed, Typed
<1>11. /\ op'["commit"].pc = "applied" /\ op'["commit"].tx = m /\ op'["commit"].seq = nextSeq
       /\ op'["audit"] = op["audit"]
  <2>1. op' = MovedIn(op, w, "applied") /\ "applied" \in Points /\ "audit" \in Writers
    BY DEF ApplyBatch, Points, MovedIn, Writers
  <2>2. OpShape(op, Len(txs), nextSeq, phase)
    BY DEF Shape
  <2> QED BY <1>1, <2>1, <2>2, Typed, OpMoves
<1>12. UNCHANGED << auditing, nextSeq, wal, phase, replay, txs >>
  BY DEF ApplyBatch, config
<1>13. Newest(op'["commit"], Len(txs'), nextSeq', txs', db', wal'.frames)
  <2>1. txs[m].answer = "none"
    BY <1>1, CommitOnly
  <2> QED BY <1>11, <1>12, <2>1 DEF Newest
<1> HIDE DEF m
<1> QED BY <1>2, <1>10, <1>11, <1>12, <1>13 DEF Calm

\* A call that ends.
LEMMA EndKeepsCalm ==
    ASSUME Shape, Calm, NEW w \in Writers, op[w].pc # "idle", NEW a \in {"ok", "error"},
           txs' = AnsweredIn(txs, op[w].tx, a), op' = EndedIn(op, w),
           wal'.frames = wal.frames, db' = db \/ db' = << Stored >>,
           UNCHANGED << auditing, nextSeq, phase, replay >>
    PROVE  Calm'
<1>1. w = "commit" /\ phase = "open"
  BY CommitOnly, OpUnderWay
<1>2. /\ Len(txs') = Len(txs) /\ DOMAIN txs' = DOMAIN txs
      /\ \A i \in DOMAIN txs : txs'[i].keys = txs[i].keys
      /\ op'[w] = Idle /\ \A v \in Writers \ {w} : op'[v] = op[v]
  BY AnswerEnds
<1>3. Agreed(wal.frames, db, txs')
  BY <1>2, Typed, SameKeysAgreed DEF Calm
<1>4. Among(db', db)
  <2>1. Len(db) \in DOMAIN db /\ Stored = db[Len(db)]
    BY Typed
  <2>2. CASE db' = db
    BY <2>2 DEF Among
  <2>3. CASE db' = << Stored >>
    <3>1. DOMAIN << Stored >> = 1..1 /\ << Stored >>[1] = Stored
      OBVIOUS
    <3> QED BY <2>1, <2>3, <3>1 DEF Among
  <2> QED BY <2>2, <2>3
<1>5. Slice(wal.frames, wal.frames)
  BY Typed, SliceOfItself
<1>6. Agreed(wal.frames, db', txs')
  BY <1>3, <1>4, <1>5, Typed, StillAgreed
<1>7. op'["commit"].pc = "idle" /\ op'["audit"] = op["audit"]
  BY <1>1, <1>2 DEF Idle, Writers
<1>8. Newest(op'["commit"], Len(txs'), nextSeq', txs', db', wal'.frames)
  BY <1>7 DEF Newest
<1>9. \A n \in DOMAIN wal.frames : wal.frames[n].seq <= nextSeq
  BY <1>1 DEF Calm
<1> QED BY <1>1, <1>6, <1>7, <1>8, <1>9 DEF Calm

LEMMA AnswersKeepCalm ==
    ASSUME Shape, Calm, NEW w \in Writers, AnswerBuffered(w) \/ AnswerFlushed(w) \/ Fail(w)
    PROVE  Calm'
<1>1. CASE AnswerBuffered(w)
  BY <1>1, EndKeepsCalm DEF AnswerBuffered, Answered, AnsweredIn, EndedIn, config
<1>2. CASE AnswerFlushed(w)
  <2>1. op[w].pc # "idle"
    BY <1>2 DEF AnswerFlushed
  <2> QED BY <1>2, <2>1, EndKeepsCalm DEF AnswerFlushed, Answered, AnsweredIn, EndedIn, config
<1>3. CASE Fail(w)
  <2>1. wal'.frames = wal.frames
    BY <1>3, TornKeeps DEF Fail
  <2> QED BY <1>3, <2>1, EndKeepsCalm DEF Fail, Answered, AnsweredIn, EndedIn, config
<1> QED BY <1>1, <1>2, <1>3

LEMMA SyncLogKeepsCalm ==
    ASSUME Shape, Calm, NEW w \in Writers, SyncLog(w)
    PROVE  Calm'
<1>1. op[w].pc = "applied" /\ w = "commit"
  BY CommitOnly DEF SyncLog
<1>2. wal'.frames = wal.frames
  BY Typed, LogSynced DEF SyncLog
<1>3. /\ op'["commit"].pc = "synced" /\ op'["commit"].tx = op["commit"].tx
      /\ op'["commit"].seq = op["commit"].seq /\ op'["audit"] = op["audit"]
  <2>1. op' = MovedIn(op, w, "synced") /\ "synced" \in Points /\ "audit" \in Writers
    BY DEF SyncLog, Points, MovedIn, Writers
  <2>2. OpShape(op, Len(txs), nextSeq, phase)
    BY DEF Shape
  <2> QED BY <1>1, <2>1, <2>2, Typed, OpMoves
<1>4. UNCHANGED << auditing, nextSeq, db, phase, replay, txs >>
  BY DEF SyncLog, config
<1>5. Newest(op'["commit"], Len(txs'), nextSeq', txs', db', wal'.frames)
  BY <1>1, <1>3, <1>4 DEF Calm, Newest
<1> QED BY <1>2, <1>3, <1>4, <1>5 DEF Calm

\* A log compacted, in whatever way, is a slice of what it was.
LEMMA CompactedSlice ==
    ASSUME Shape, NEW n \in Nat, NEW u \in Nat, NEW b \in BOOLEAN, wal' \in Compactions(n, u, b)
    PROVE  /\ Slice(wal'.frames, wal.frames) /\ wal'.frames \in Seq(FramesTo(Len(txs)))
           /\ \A i \in DOMAIN wal'.frames : \E j \in DOMAIN wal.frames : wal'.frames[i] = wal.frames[j]
<1>1. wal.frames \in Seq(FramesTo(Len(txs))) /\ Len(wal.frames) \in 0..Len(wal.frames)
      /\ LogShape(wal, Len(txs)) /\ Len(txs) \in Nat
  BY Typed
<1>2. PICK e \in 0..Len(wal.frames) : wal'.frames = SubSeq(wal.frames, e + 1, Len(wal.frames))
  BY <1>1, LogCompacted
<1>3. Slice(wal'.frames, wal.frames)
  BY <1>1, <1>2, SubSeqIsSlice
<1>4. wal'.frames \in Seq(FramesTo(Len(txs)))
  BY <1>1, LogCompacted DEF LogShape, Logs
<1> QED BY <1>3, <1>4 DEF Slice

\* Steps that only shorten the log and the backend, and leave the calls alone.
LEMMA LessKeepsCalm ==
    ASSUME Shape, Calm, Slice(wal'.frames, wal.frames), wal'.frames \in Seq(FramesTo(Len(txs))),
           Among(db', db),
           UNCHANGED << auditing, txs >>,
           op'["audit"].pc = "idle",
           op'["commit"].pc = "idle" \/ UNCHANGED << op, nextSeq >>,
           phase' = "down" \/ (UNCHANGED << phase, nextSeq >> /\ phase # "recovering")
    PROVE  Calm'
<1>1. Agreed(wal'.frames, db', txs)
  BY Typed, StillAgreed DEF Calm
<1>2. \A i \in DOMAIN wal'.frames : \E j \in DOMAIN wal.frames : wal'.frames[i] = wal.frames[j]
  BY DEF Slice
<1>3. phase' # "down" => \A i \in DOMAIN wal'.frames : wal'.frames[i].seq <= nextSeq'
  BY <1>2 DEF Calm
<1>4. Newest(op'["commit"], Len(txs'), nextSeq', txs', db', wal'.frames)
  <2>1. CASE op'["commit"].pc = "idle"
    BY <2>1 DEF Newest
  <2>2. CASE UNCHANGED << op, nextSeq >>
    <3>1. Newest(op["commit"], Len(txs), nextSeq, txs, db, wal.frames)
      BY DEF Calm
    <3>2. \A j \in DOMAIN db' : \E i \in DOMAIN db : db'[j] = db[i]
      BY DEF Among
    <3> QED BY <1>2, <2>2, <3>1, <3>2 DEF Newest
  <2> QED BY <2>1, <2>2
<1>5. phase' # "recovering"
  OBVIOUS
<1> QED BY <1>1, <1>3, <1>4, <1>5 DEF Calm

LEMMA AmongItself ==
    ASSUME Shape
    PROVE  /\ Among(db, db) /\ Among(<< Stored >>, db)
           /\ \A i \in DOMAIN db : Among(<< db[i] >>, db)
           /\ Slice(wal.frames, wal.frames)
<1>1. Len(db) \in DOMAIN db /\ Stored = db[Len(db)]
  BY Typed
<1>2. \A i \in DOMAIN db : Among(<< db[i] >>, db)
  <2> TAKE i \in DOMAIN db
  <2>1. DOMAIN << db[i] >> = 1..1 /\ << db[i] >>[1] = db[i]
    OBVIOUS
  <2> QED BY <2>1 DEF Among
<1>3. Slice(wal.frames, wal.frames)
  BY Typed, SliceOfItself
<1> QED BY <1>1, <1>2, <1>3 DEF Among

LEMMA MaintenanceKeepsCalm ==
    ASSUME Shape, Calm, Maintenance
    PROVE  Calm'
<1>1. /\ UNCHANGED << auditing, txs, op, nextSeq, phase, replay >>
      /\ db' = db \/ db' = << Stored >>
  BY DEF Maintenance, Maintain, TickSync, TickFlush, CheckpointFlush, CheckpointMark,
         CompactAppliedMark, Compact, config
<1>2. phase = "open"
  BY DEF Maintenance, TickSync, TickFlush, CheckpointFlush, CheckpointMark,
         CompactAppliedMark, Compact, Shape, KeeperShape
<1>3. Among(db', db)
  BY <1>1, AmongItself
<1>4. Slice(wal'.frames, wal.frames) /\ wal'.frames \in Seq(FramesTo(Len(txs)))
  <2>1. CASE wal' = wal
    BY <2>1, AmongItself, Typed
  <2>2. CASE TickSync
    <3>1. wal'.frames = wal.frames
      BY <2>2, Typed, LogSynced DEF TickSync
    <3> QED BY <3>1, AmongItself, Typed
  <2>3. CASE Compact
    <3>1. keeper.upto \in Nat /\ Immediate \in BOOLEAN
      BY DEF Shape, KeeperShape, Immediate
    <3> QED BY <2>3, <3>1, CompactedSlice, Typed DEF Compact
  <2>4. wal' = wal \/ TickSync \/ Compact
    BY DEF Maintenance, TickFlush, CheckpointFlush, CheckpointMark, CompactAppliedMark
  <2> QED BY <2>1, <2>2, <2>3, <2>4
<1>5. op'["audit"].pc = "idle"
  BY <1>1 DEF Calm
<1> QED BY <1>1, <1>2, <1>3, <1>4, <1>5, LessKeepsCalm

LEMMA MaintenanceFailsKeepsCalm ==
    ASSUME Shape, Calm, MaintenanceFails
    PROVE  Calm'
BY DEF Calm, MaintenanceFails, config

LEMMA CrashesKeepCalm ==
    ASSUME Shape, Calm, ProcessCrash \/ PowerLoss
    PROVE  Calm'
<1>1. Stop
  BY DEF ProcessCrash, PowerLoss
<1>2. \A w \in Writers : op'[w].pc = "idle"
  BY <1>1 DEF Stop, Idle
<1>3. UNCHANGED << auditing, txs >> /\ phase' = "down"
  BY <1>1 DEF Stop, config
<1>4. Among(db', db)
  BY AmongItself DEF ProcessCrash, PowerLoss
<1>5. Slice(wal'.frames, wal.frames) /\ wal'.frames \in Seq(FramesTo(Len(txs)))
  <2>1. CASE ProcessCrash
    <3>1. wal'.frames = wal.frames
      BY <2>1, TornKeeps DEF ProcessCrash
    <3> QED BY <3>1, AmongItself, Typed
  <2>2. CASE PowerLoss
    <3>1. wal'.frames \in Seq(FramesTo(Len(txs)))
      BY <2>2, PowerLossLog DEF LogShape, Logs
    <3>2. CASE \E n \in 0..Len(wal.frames) : wal'.frames = SubSeq(wal.frames, 1, n)
      <4>1. PICK n \in 0..Len(wal.frames) : wal'.frames = SubSeq(wal.frames, 0 + 1, n)
        BY <3>2
      <4>2. 0 \in 0..Len(wal.frames)
        BY Typed
      <4>3. Slice(SubSeq(wal.frames, 0 + 1, n), wal.frames)
        BY <4>2, Typed, SubSeqIsSlice
      <4> QED BY <3>1, <4>1, <4>3
    <3>3. CASE wal' = NoFile
      <4>1. wal'.frames = << >>
        BY <3>3 DEF NoFile
      <4>2. \A i \in DOMAIN wal'.frames : FALSE
        BY <4>1
      <4> QED BY <3>1, <4>2 DEF Slice
    <3> QED BY <2>2, <3>2, <3>3, PowerLossLog
  <2> QED BY <2>1, <2>2
<1> QED BY <1>2, <1>3, <1>4, <1>5, LessKeepsCalm DEF Writers

LEMMA RepairKeepsCalm ==
    ASSUME Shape, Calm, Repair
    PROVE  Calm'
<1>1. FileNext \in Nat /\ Stored.marker \in Nat
  <2>1. wal \in Logs(Len(txs)) /\ FileNext = NextOf(wal)
    BY Typed DEF LogShape, FileNext, NextOf, Last
  <2> QED BY <2>1, NextOfLog, Typed
<1>2. Slice(wal'.frames, wal.frames) /\ wal'.frames \in Seq(FramesTo(Len(txs)))
  BY <1>1, CompactedSlice DEF Repair
<1>3. /\ UNCHANGED << auditing, nextSeq, db, phase, replay, op, txs >> /\ phase = "down"
  BY DEF Repair, config
<1>4. Among(db', db)
  BY <1>3, AmongItself
<1>5. op'["audit"].pc = "idle"
  BY <1>3 DEF Calm
<1> QED BY <1>2, <1>3, <1>4, <1>5, LessKeepsCalm

\* The file's next number is at or above every frame of an ordered log.
LEMMA NextCoversFrames ==
    ASSUME Shape, InOrder(wal.frames)
    PROVE  /\ FileNext = NextOf(wal) /\ FileNext \in Nat
           /\ \A n \in DOMAIN wal.frames : wal.frames[n].seq <= FileNext
<1>1. wal \in Logs(Len(txs)) /\ FileNext = NextOf(wal)
  BY Typed DEF LogShape, FileNext, NextOf, Last
<1>2. FileNext \in Nat /\ (wal.frames # << >> => wal.frames[Len(wal.frames)].seq <= FileNext)
  BY <1>1, NextOfLog, Typed
<1>3. ASSUME NEW n \in DOMAIN wal.frames
      PROVE  wal.frames[n].seq <= FileNext
  <2>1. Len(wal.frames) \in DOMAIN wal.frames /\ n \in 1..Len(wal.frames) /\ wal.frames # << >>
    BY Typed
  <2>2. n = Len(wal.frames) \/ n < Len(wal.frames)
    BY <2>1, Typed
  <2>3. wal.frames[n].seq <= wal.frames[Len(wal.frames)].seq
    BY <2>1, <2>2, Typed DEF InOrder
  <2>4. wal.frames[n].seq \in Nat /\ wal.frames[Len(wal.frames)].seq \in Nat
    BY <2>1, Typed
  <2> QED BY <1>2, <2>1, <2>3, <2>4
<1> QED BY <1>1, <1>2, <1>3

LEMMA OpenKeepsCalm ==
    ASSUME Shape, Calm, Open
    PROVE  Calm'
<1>1. \A n \in DOMAIN wal.frames : wal.frames[n].seq <= FileNext
  BY NextCoversFrames DEF Calm, Agreed
<1>2. /\ UNCHANGED << auditing, wal, db, op, txs >> /\ nextSeq' = FileNext /\ phase = "down"
      /\ replay' = {n \in DOMAIN wal.frames : wal.frames[n].seq > db[Len(db)].marker}
  BY Typed DEF Open, config
<1>3. op["commit"].pc = "idle"
  BY <1>2, NothingUnderWay DEF Writers
<1>4. Newest(op'["commit"], Len(txs'), nextSeq', txs', db', wal'.frames)
  BY <1>2, <1>3 DEF Newest
<1> QED BY <1>1, <1>2, <1>4 DEF Calm

\* A replayed frame is newer than everything the state holds.
LEMMA ReplaysNew ==
    ASSUME Shape, Barrier, Calm, Replay
    PROVE  /\ \A i \in Stored.done : i < NextFrame.tx
           /\ NextFrame.seq > Stored.marker
<1>1. Min(replay) \in replay /\ Min(replay) \in DOMAIN wal.frames
  BY ReplayTakes
<1>2. NextFrame.seq > Stored.marker
  BY <1>1, Typed DEF Calm, NextFrame, Replay
<1>3. Behind(Stored, wal.frames)
  BY Typed DEF Calm, Agreed
<1> QED BY <1>1, <1>2, <1>3 DEF Behind, NextFrame

LEMMA ReplayKeepsCalm ==
    ASSUME Shape, Barrier, Calm, Replay
    PROVE  Calm'
<1> DEFINE m == Len(txs)
           fs == wal.frames
           n0 == Min(replay)
<1>1. /\ n0 \in replay /\ n0 \in DOMAIN fs /\ \A n \in replay : n0 <= n
      /\ NextFrame.tx \in 1..m /\ NextFrame.seq \in Nat
      /\ Replayed \in States(m) /\ Replayed.done = Stored.done \cup {NextFrame.tx}
      /\ Replayed.marker = NextFrame.seq
      /\ Stored = db[Len(db)] /\ Stored \in States(m)
  BY ReplayTakes
<1>2. \A k \in Keys : Replayed.data[k] = IF k \in txs[NextFrame.tx].keys
                                         THEN NextFrame.tx ELSE Stored.data[k]
  BY ReplayTakes
<1>3. /\ \A i \in Stored.done : i < NextFrame.tx
      /\ Agreed(fs, db, txs) /\ Shows(Stored, txs)
  <2>1. \A i \in Stored.done : i < NextFrame.tx
    BY ReplaysNew
  <2>2. Stored = db[Len(db)] /\ Len(db) \in DOMAIN db
    BY Typed
  <2> QED BY <2>1, <2>2 DEF Calm, Agreed
<1>4. Shows(Replayed, txs)
  <2>1. \A i \in 1..m : txs[i].keys \subseteq Keys
    BY KeysOfCalls
  <2>2. /\ m \in Nat /\ NextFrame.tx \in 1..m /\ Replayed \in States(m) /\ Stored \in States(m)
        /\ Replayed.done = Stored.done \cup {NextFrame.tx}
        /\ Shows(Stored, txs) /\ \A i \in Stored.done : i < NextFrame.tx
    BY <1>1, <1>3, Typed
  <2> HIDE DEF m
  <2> QED BY <1>2, <2>1, <2>2, AppliedShows
<1>5. Behind(Replayed, fs)
  <2>1. ASSUME NEW n \in DOMAIN fs, fs[n].seq > fs[n0].seq
        PROVE  fs[n0].tx < fs[n].tx
    <3>1. n \in Nat /\ n0 \in Nat
      <4>1. DOMAIN fs \subseteq Nat /\ n0 \in DOMAIN fs
        BY <1>1, Typed
      <4> HIDE DEF n0, fs
      <4> QED BY <4>1
    <3>2. n < n0 => fs[n].seq < fs[n0].seq
      BY <1>1, <1>3 DEF Agreed, InOrder
    <3>3. fs[n].seq \in Nat /\ fs[n0].seq \in Nat
      BY <1>1, Typed
    <3>4. ~(n < n0) /\ n # n0
      <4> HIDE DEF fs
      <4> QED BY <2>1, <3>2, <3>3
    <3>5. n0 < n
      <4> HIDE DEF n0, fs
      <4> QED BY <3>1, <3>4
    <3> QED BY <1>1, <1>3, <3>5 DEF Agreed, InOrder
  <2>2. NextFrame = fs[n0]
    BY DEF NextFrame
  <2>3. ASSUME NEW n \in DOMAIN fs, fs[n].seq > Replayed.marker, NEW i \in Replayed.done
        PROVE  i < fs[n].tx
    <3>1. NextFrame.tx < fs[n].tx
      BY <1>1, <2>1, <2>2, <2>3
    <3>2. i = NextFrame.tx \/ i < NextFrame.tx
      BY <1>1, <1>3, <2>3
    <3>3. Replayed.done \subseteq 1..m
      BY <1>1 DEF States
    <3>4. i \in Nat /\ NextFrame.tx \in Nat
      BY <1>1, <2>3, <3>3
    <3>5. fs[n].tx \in Nat
      BY <2>3, Typed
    <3> QED BY <3>1, <3>2, <3>4, <3>5
  <2> QED BY <2>3 DEF Behind
<1>6. Agreed(fs, Append(db, Replayed), txs) /\ Agreed(fs, << Replayed >>, txs)
  BY <1>1, <1>3, <1>4, <1>5, Typed, OneMoreAgreed
<1>7. Agreed(fs, db', txs) /\ db'[Len(db')] = Replayed
  <2>1. CASE db' = Append(db, Replayed)
    <3>1. Len(db') = Len(db) + 1 /\ db'[Len(db) + 1] = Replayed
      BY <1>1, <2>1, Typed, BackendApplied
    <3> QED BY <1>6, <2>1, <3>1
  <2>2. CASE db' = << Replayed >>
    <3>1. Len(<< Replayed >>) = 1 /\ << Replayed >>[1] = Replayed
      OBVIOUS
    <3> QED BY <1>6, <2>2, <3>1
  <2> QED BY <2>1, <2>2, ReplayMoves
<1>8. wal'.frames = fs
  BY ReplayMoves, Typed, LogSynced
<1>9. replay' = {n \in DOMAIN fs : fs[n].seq > NextFrame.seq}
  <2>1. replay = {n \in DOMAIN fs : fs[n].seq > Stored.marker}
    BY <1>1 DEF Calm, Replay
  <2>2. replay' = replay \ {n0}
    BY ReplayMoves
  <2>3. ASSUME NEW n \in replay, n # n0
        PROVE  fs[n].seq > NextFrame.seq
    <3>1. n \in DOMAIN fs /\ n0 < n
      <4>1. n \in DOMAIN fs /\ n0 <= n
        BY <1>1, <2>1, <2>3
      <4>2. n \in Nat /\ n0 \in Nat
        <5>1. DOMAIN fs \subseteq Nat /\ n0 \in DOMAIN fs
          BY <1>1, Typed
        <5> HIDE DEF n0, fs
        <5> QED BY <4>1, <5>1
      <4> QED BY <2>3, <4>1, <4>2
    <3>2. fs[n0].seq < fs[n].seq
      BY <1>1, <1>3, <3>1 DEF Agreed, InOrder
    <3> QED BY <1>1, <3>1, <3>2, Typed DEF NextFrame
  <2>4. ASSUME NEW n \in DOMAIN fs, fs[n].seq > NextFrame.seq
        PROVE  n \in replay /\ n # n0
    <3>1. NextFrame.seq > Stored.marker
      BY ReplaysNew
    <3>2. Stored.marker \in Nat /\ fs[n].seq \in Nat
      BY <2>4, Typed
    <3>3. fs[n].seq > Stored.marker
      BY <1>1, <2>4, <3>1, <3>2
    <3>4. n # n0
      BY <1>1, <2>4 DEF NextFrame
    <3> QED BY <2>1, <3>3, <3>4
  <2> HIDE DEF fs, n0
  <2> QED BY <2>1, <2>2, <2>3, <2>4
<1>10. /\ UNCHANGED << auditing, nextSeq, op, txs >> /\ phase = "recovering"
  BY ReplayMoves
<1>11. op["commit"].pc = "idle"
  BY <1>10, NothingUnderWay DEF Writers
<1>12. Newest(op'["commit"], Len(txs'), nextSeq', txs', db', wal'.frames)
  BY <1>10, <1>11 DEF Newest
<1>13. \A n \in DOMAIN fs : fs[n].seq <= nextSeq
  BY <1>10 DEF Calm
<1>14. replay' = {n \in DOMAIN wal'.frames : wal'.frames[n].seq > db'[Len(db')].marker}
  BY <1>1, <1>7, <1>8, <1>9
<1> QED BY <1>7, <1>8, <1>10, <1>12, <1>13, <1>14 DEF Calm

----------------------------------------------------------------------------
(* Kept: nothing that was logged is hidden from recovery.                  *)

\* What every state among d holds, with the same frames.
LEMMA AmongHeld ==
    ASSUME NEW d, NEW e, Among(e, d), NEW fs, NEW I, NEW J, J \subseteq I,
           \A i \in I : \A j \in DOMAIN d : Held(i, d[j], fs)
    PROVE  \A i \in J : \A j \in DOMAIN e : Held(i, e[j], fs)
BY DEF Among

LEMMA AmongNumbered ==
    ASSUME NEW o, NEW n, NEW d, NEW e, Among(e, d), NEW w, NEW x, NextOf(x) = NextOf(w),
           Numbered(o, d, w, n)
    PROVE  Numbered(o, e, x, n)
BY DEF Among, Numbered

LEMMA IdleNumbered ==
    ASSUME NEW o, NEW n, NEW q, NEW m, NEW d, NEW e, Among(e, d), NEW w, NEW x,
           NextOf(x) = NextOf(w), Numbered(o, d, w, n), q.pc = "idle"
    PROVE  Numbered(q, e, x, m)
BY DEF Among, Numbered

LEMMA NextOfWal ==
    ASSUME Shape
    PROVE  /\ NextOf(wal) \in Nat /\ wal.next <= NextOf(wal) /\ wal.compacted <= NextOf(wal)
           /\ wal.next \in Nat /\ wal.compacted \in Nat
           /\ FileNext = NextOf(wal)
<1>1. wal \in Logs(Len(txs))
  BY Typed DEF LogShape
<1>2. wal.next \in Nat /\ wal.compacted \in Nat
  BY <1>1 DEF Logs
<1> QED BY <1>1, <1>2, NextOfLog, Typed DEF FileNext, NextOf, Last

LEMMA InitKept == Init => Kept
<1> SUFFICES ASSUME Init PROVE Kept
  OBVIOUS
<1>1. Shape
  BY InitSound
<1>2. /\ phase = "open" /\ nextSeq = 0 /\ op["commit"].pc = "idle" /\ keeper.pc = "idle"
      /\ wal = NoFile
  BY DEF Init, Idle, Resting, Writers
<1>3. NextOf(wal) <= 0 /\ NextOf(wal) \in Nat
  <2>1. wal.next = 0 /\ wal.compacted = 0 /\ wal.frames = << >>
    BY <1>2 DEF NoFile
  <2>2. wal \in Logs(Len(txs)) /\ Len(txs) \in Nat
    BY <1>1, Typed DEF LogShape
  <2>3. 0 \in Nat /\ 0 <= 0
    OBVIOUS
  <2> QED BY <2>1, <2>2, <2>3, NextOfLog
<1>4. \A j \in DOMAIN db : db[j].marker = 0
  BY DEF Init
<1>5. \A i \in Logged(txs) : FALSE
  <2>1. DOMAIN txs = 1..0
    BY <1>1, Typed DEF Init
  <2>2. \A i \in 1..0 : FALSE
    OBVIOUS
  <2> QED BY <2>1, <2>2 DEF Logged
<1>6. Numbered(op["commit"], db, wal, nextSeq)
  BY <1>2, <1>3, <1>4 DEF Numbered
<1> QED BY <1>2, <1>3, <1>5, <1>6 DEF Kept

LEMMA BeginKeepsKept ==
    ASSUME Shape, Calm, Kept, NEW keys \in SUBSET Keys, CommitLockFree, Begin("commit", keys)
    PROVE  Kept'
<1> DEFINE m == Len(txs)
<1>1. "commit" \in Writers
  BY DEF Writers
<1>2. /\ Len(txs') = m + 1 /\ \A i \in DOMAIN txs : txs'[i] = txs[i]
      /\ DOMAIN txs' = 1..(m + 1) /\ ~txs'[m + 1].logged
      /\ op'["commit"] = [pc |-> "numbered", tx |-> m + 1, seq |-> nextSeq + 1]
  BY <1>1, BeginGrows
<1>3. /\ nextSeq' = nextSeq + 1 /\ phase = "open" /\ op["commit"].pc = "idle"
      /\ keeper.pc \notin {"flushed", "covering"}
      /\ UNCHANGED << wal, db, phase, keeper >>
  BY DEF Begin, CommitLockFree
<1>4. Logged(txs') \subseteq Logged(txs)
  <2>1. DOMAIN txs = 1..m /\ m \in Nat
    BY Typed
  <2>2. \A i \in 1..(m + 1) : i # m + 1 => i \in 1..m
    BY <2>1
  <2> QED BY <1>2, <2>1, <2>2 DEF Logged
<1>5. NextOf(wal) <= nextSeq /\ NextOf(wal) \in Nat /\ nextSeq \in Nat
  BY <1>3, NextOfWal, Typed DEF Kept
<1>6. \A j \in DOMAIN db : db[j].marker <= NextOf(wal) /\ db[j].marker < nextSeq + 1
  <2>1. \A j \in DOMAIN db : db[j].marker <= NextOf(wal) /\ db[j].marker \in Nat
    BY Typed DEF Kept, Numbered
  <2> QED BY <1>5, <2>1
<1>7. Numbered(op'["commit"], db', wal', nextSeq')
  <2>1. op'["commit"].pc = "numbered"
    BY <1>2
  <2> QED BY <1>3, <1>6, <2>1 DEF Numbered
<1>8. NextOf(wal) <= nextSeq + 1
  BY <1>5
<1>9. \A i \in Logged(txs) : i \in db[Len(db)].done
  BY <1>3 DEF Kept
<1>10. \A i \in Logged(txs) : \A j \in DOMAIN db : Held(i, db[j], wal.frames)
  BY DEF Kept
<1> HIDE DEF m
<1> QED BY <1>3, <1>4, <1>7, <1>8, <1>9, <1>10 DEF Kept

\* While a commit is under way no checkpoint is.
LEMMA NoCheckpoint ==
    ASSUME Kept, op["commit"].pc # "idle"
    PROVE  keeper.pc \notin {"flushed", "covering"}
BY DEF Kept

LEMMA AppendFrameKeepsKept ==
    ASSUME Shape, Calm, Kept, NEW w \in Writers, AppendFrame(w)
    PROVE  Kept'
<1> DEFINE m == Len(txs)
           f == [seq |-> op[w].seq, tx |-> op[w].tx]
           fs == wal.frames
<1>1. op[w].pc = "numbered" /\ w = "commit" /\ op[w].tx = m /\ op[w].seq = nextSeq
  BY CommitOnly DEF AppendFrame
<1>2. /\ op[w].tx \in DOMAIN txs /\ phase = "open" /\ f \in FramesTo(m) /\ nextSeq \in Nat /\ m \in Nat
  BY <1>1, OpUnderWay, Typed DEF FramesTo
<1>3. f.seq = nextSeq /\ f.tx = m
  BY <1>1
<1>4. wal' = Extended(f)
  BY DEF AppendFrame
<1> HIDE DEF f
<1>5. /\ LogShape(wal', m) /\ wal'.frames = Append(fs, f)
      /\ wal.made => wal'.next = wal.next
      /\ ~wal.made => wal'.next = nextSeq
      /\ wal'.compacted = wal.compacted
  BY <1>2, <1>4, Typed, LogExtended
<1>6. /\ DOMAIN wal'.frames = 1..(Len(fs) + 1) /\ wal'.frames[Len(fs) + 1] = f
      /\ \A n \in DOMAIN fs : wal'.frames[n] = fs[n] /\ n \in DOMAIN wal'.frames
      /\ Len(wal'.frames) = Len(fs) + 1 /\ Len(fs) \in Nat
  <2>1. fs \in Seq(FramesTo(m)) /\ Len(fs) \in Nat /\ DOMAIN fs = 1..Len(fs)
    BY Typed
  <2> QED BY <1>2, <1>5, <2>1
<1>7. NextOf(wal') <= nextSeq /\ nextSeq <= NextOf(wal') /\ NextOf(wal') \in Nat
  <2>1. wal.next <= nextSeq /\ wal.compacted <= nextSeq
    <3>1. NextOf(wal) <= nextSeq
      BY <1>2 DEF Kept
    <3> QED BY <1>2, <3>1, NextOfWal
  <2>2. wal'.next <= nextSeq /\ wal'.compacted <= nextSeq
    BY <1>2, <1>5, <2>1
  <2>3. wal'.frames[Len(wal'.frames)].seq = nextSeq /\ wal'.frames # << >>
    BY <1>3, <1>6
  <2>4. wal' \in Logs(m)
    BY <1>5 DEF LogShape
  <2>5. nextSeq <= nextSeq
    BY <1>2
  <2> QED BY <1>2, <2>2, <2>3, <2>4, <2>5, NextOfLog
<1>8. \A j \in DOMAIN db : db[j].marker < nextSeq /\ db[j].marker \in Nat
  BY <1>1, Typed DEF Kept, Numbered
<1>9. op'["commit"].pc = "logged" /\ op'["commit"].tx = m
  <2>1. op' = MovedIn(op, w, "logged") /\ "logged" \in Points
    BY DEF AppendFrame, Points, MovedIn
  <2>2. OpShape(op, Len(txs), nextSeq, phase)
    BY DEF Shape
  <2> QED BY <1>1, <2>1, <2>2, Typed, OpMoves
<1>10. UNCHANGED << nextSeq, db, phase, keeper >>
  BY DEF AppendFrame
<1>11. Numbered(op'["commit"], db', wal', nextSeq')
  <2>1. \A j \in DOMAIN db : db[j].marker <= NextOf(wal')
    BY <1>2, <1>7, <1>8
  <2> QED BY <1>7, <1>9, <1>10, <2>1 DEF Numbered
<1>12. \A i \in Logged(txs') : i = m \/ i \in Logged(txs)
  <2>1. txs' = LoggedIn(txs, op[w].tx) /\ txs \in Seq(Calls)
    BY DEF AppendFrame, LoggedIn, Shape
  <2>2. DOMAIN LoggedIn(txs, op[w].tx) = DOMAIN txs
    BY <1>2, <2>1, TxsLogged
  <2>3. ASSUME NEW i \in DOMAIN txs, i # m
        PROVE  LoggedIn(txs, op[w].tx)[i] = txs[i]
    BY <1>1, <1>2, <2>1, <2>3, TxLogged
  <2> QED BY <2>1, <2>2, <2>3 DEF Logged
<1>13. ASSUME NEW i \in Logged(txs'), NEW j \in DOMAIN db
       PROVE  Held(i, db[j], wal'.frames)
  <2>1. CASE i = m
    <3>1. Len(fs) + 1 \in DOMAIN wal'.frames
      BY <1>6
    <3>2. f.tx = i /\ f.seq > db[j].marker
      BY <1>2, <1>3, <1>8, <2>1
    <3> QED BY <1>6, <3>1, <3>2 DEF Held
  <2>2. CASE i \in Logged(txs)
    <3>1. Held(i, db[j], fs)
      BY <2>2 DEF Kept
    <3> QED BY <1>6, <3>1 DEF Held
  <2> QED BY <1>12, <1>13, <2>1, <2>2
<1>14. \A i \in Logged(txs) : i \in db[Len(db)].done
  BY <1>1, <1>2 DEF Kept
<1>15. keeper.pc \notin {"flushed", "covering"}
  BY <1>1, NoCheckpoint
<1> HIDE DEF m, fs
<1> QED BY <1>7, <1>9, <1>10, <1>11, <1>12, <1>13, <1>14, <1>15 DEF Kept

LEMMA ApplyBatchKeepsKept ==
    ASSUME Shape, Barrier, Calm, Kept, NEW w \in Writers, ApplyBatch(w)
    PROVE  Kept'
<1> DEFINE m == Len(txs)
           s == Applied(Stored, op[w].tx, op[w].seq)
<1>1. op[w].pc = "logged" /\ w = "commit" /\ op[w].tx = m /\ op[w].seq = nextSeq
  BY CommitOnly DEF ApplyBatch
<1>2. m \in 1..m /\ phase = "open" /\ nextSeq \in Nat /\ m \in Nat
  BY <1>1, OpUnderWay, Typed
<1>3. Stored \in States(m) /\ Stored = db[Len(db)] /\ Len(db) \in DOMAIN db
  BY Typed, CoveredAreDone
<1>4. s \in States(m) /\ s.done = Stored.done \cup {m} /\ s.marker = nextSeq
  BY <1>1, <1>2, <1>3 DEF Applied, States
<1>5. db' = Append(db, s) /\ UNCHANGED << nextSeq, wal, phase, txs, keeper >>
  BY DEF ApplyBatch
<1> HIDE DEF s
<1>6. /\ Len(db') = Len(db) + 1 /\ db'[Len(db) + 1] = s /\ DOMAIN db' = 1..(Len(db) + 1)
      /\ \A j \in 1..Len(db) : db'[j] = db[j]
      /\ DOMAIN db = 1..Len(db) /\ Len(db) \in Nat
  <2>1. BackendShape(db, m) /\ DOMAIN db = 1..Len(db) /\ Len(db) \in Nat
    BY Typed DEF BackendShape
  <2> QED BY <1>2, <1>4, <1>5, <2>1, BackendApplied DEF BackendShape
<1>7. \A j \in DOMAIN db' : j = Len(db) + 1 \/ (j \in DOMAIN db /\ db'[j] = db[j])
  BY <1>6
<1>8. /\ op'["commit"].pc = "applied"
  <2>1. op' = MovedIn(op, w, "applied") /\ "applied" \in Points
    BY DEF ApplyBatch, Points, MovedIn
  <2>2. OpShape(op, Len(txs), nextSeq, phase)
    BY DEF Shape
  <2> QED BY <1>1, <2>1, <2>2, Typed, OpMoves
<1>9. Numbered(op'["commit"], db', wal', nextSeq')
  <2>1. nextSeq <= NextOf(wal) /\ \A j \in DOMAIN db : db[j].marker <= NextOf(wal)
    BY <1>1 DEF Kept, Numbered
  <2>2. \A j \in DOMAIN db' : db'[j].marker <= NextOf(wal)
    BY <1>4, <1>6, <1>7, <2>1
  <2> QED BY <1>5, <1>8, <2>2 DEF Numbered
<1>10. \A i \in Logged(txs) : i \in s.done
  <2>1. \A i \in Logged(txs) : i \in db[Len(db)].done \/ i = m
    BY <1>1, <1>2 DEF Kept
  <2> QED BY <1>3, <1>4, <2>1
<1>11. \A i \in Logged(txs) : \A j \in DOMAIN db' : Held(i, db'[j], wal.frames)
  <2>1. \A i \in Logged(txs) : Held(i, s, wal.frames)
    BY <1>10 DEF Held
  <2>2. \A i \in Logged(txs) : \A j \in DOMAIN db : Held(i, db[j], wal.frames)
    BY DEF Kept
  <2> QED BY <1>6, <1>7, <2>1, <2>2
<1>12. keeper.pc \notin {"flushed", "covering"}
  BY <1>1, NoCheckpoint
<1>13. db'[Len(db')] = s
  BY <1>6
<1> HIDE DEF m
<1> QED BY <1>2, <1>5, <1>9, <1>10, <1>11, <1>12, <1>13 DEF Kept

LEMMA SyncLogKeepsKept ==
    ASSUME Shape, Calm, Kept, NEW w \in Writers, SyncLog(w)
    PROVE  Kept'
<1>1. op[w].pc = "applied" /\ w = "commit" /\ phase = "open"
  BY CommitOnly, OpUnderWay DEF SyncLog
<1>2. wal'.frames = wal.frames /\ NextOf(wal') = NextOf(wal)
  BY Typed, LogSynced DEF SyncLog
<1>3. op'["commit"].pc = "synced"
  <2>1. op' = MovedIn(op, w, "synced") /\ "synced" \in Points
    BY DEF SyncLog, Points, MovedIn
  <2>2. OpShape(op, Len(txs), nextSeq, phase)
    BY DEF Shape
  <2> QED BY <1>1, <2>1, <2>2, Typed, OpMoves
<1>4. UNCHANGED << nextSeq, db, phase, txs, keeper >>
  BY DEF SyncLog
<1>5. Numbered(op'["commit"], db', wal', nextSeq')
  BY <1>2, <1>3, <1>4 DEF Kept, Numbered
<1>6. keeper.pc \notin {"flushed", "covering"}
  BY <1>1, NoCheckpoint
<1> QED BY <1>1, <1>2, <1>3, <1>4, <1>5, <1>6 DEF Kept

LEMMA EndKeepsKept ==
    ASSUME Shape, Calm, Kept, NEW w \in Writers, op[w].pc # "idle", NEW a \in {"ok", "error"},
           a = "ok" => op[w].pc # "logged",
           txs' = AnsweredIn(txs, op[w].tx, a), op' = EndedIn(op, w),
           wal'.frames = wal.frames, NextOf(wal') = NextOf(wal), db' = db \/ db' = << Stored >>,
           UNCHANGED << nextSeq, phase, keeper >>
    PROVE  Kept'
<1>1. w = "commit" /\ phase = "open" /\ op[w].tx = Len(txs) /\ txs[Len(txs)].answer = "none"
  BY CommitOnly, OpUnderWay
<1>2. /\ Len(txs') = Len(txs) /\ DOMAIN txs' = DOMAIN txs
      /\ op'[w] = Idle /\ txs'[op[w].tx].answer = a
      /\ \A i \in DOMAIN txs : /\ txs'[i].logged = txs[i].logged
                               /\ i # op[w].tx => txs'[i] = txs[i]
  BY AnswerEnds
<1>3. op'["commit"].pc = "idle"
  BY <1>1, <1>2 DEF Idle
<1>4. /\ Logged(txs') \subseteq Logged(txs)
      /\ a = "error" => op[w].tx \notin Logged(txs')
  BY <1>1, <1>2 DEF Logged
<1>5. Among(db', db) /\ db'[Len(db')] = db[Len(db)]
  <2>1. CASE db' = db
    BY <2>1, AmongItself
  <2>2. CASE db' = << Stored >>
    <3>1. Len(<< Stored >>) = 1 /\ << Stored >>[1] = Stored /\ Stored = db[Len(db)]
      BY Typed
    <3> QED BY <2>2, <3>1, AmongItself
  <2> QED BY <2>1, <2>2
<1>6. Numbered(op'["commit"], db', wal', nextSeq')
  BY <1>3, <1>5, IdleNumbered DEF Kept
<1>7. \A i \in Logged(txs') : \A j \in DOMAIN db' : Held(i, db'[j], wal.frames)
  <2>1. \A i \in Logged(txs) : \A j \in DOMAIN db : Held(i, db[j], wal.frames)
    BY DEF Kept
  <2> QED BY <1>4, <1>5, <2>1 DEF Among
<1>8. \A i \in Logged(txs') : i \in db[Len(db)].done
  <2>1. \A i \in Logged(txs) : i \in db[Len(db)].done \/ (op[w].pc = "logged" /\ i = op[w].tx)
    BY <1>1 DEF Kept
  <2> QED BY <1>4, <2>1
<1>9. keeper.pc \notin {"flushed", "covering"}
  BY <1>1, NoCheckpoint
<1>10. NextOf(wal) <= nextSeq
  BY <1>1 DEF Kept
<1> QED BY <1>1, <1>5, <1>6, <1>7, <1>8, <1>9, <1>10 DEF Kept

LEMMA AnswersKeepKept ==
    ASSUME Shape, Calm, Kept, NEW w \in Writers, AnswerBuffered(w) \/ AnswerFlushed(w) \/ Fail(w)
    PROVE  Kept'
<1>1. CASE AnswerBuffered(w)
  BY <1>1, EndKeepsKept DEF AnswerBuffered, Answered, AnsweredIn, EndedIn
<1>2. CASE AnswerFlushed(w)
  <2>1. op[w].pc # "idle" /\ op[w].pc # "logged"
    BY <1>2 DEF AnswerFlushed
  <2> QED BY <1>2, <2>1, EndKeepsKept DEF AnswerFlushed, Answered, AnsweredIn, EndedIn
<1>3. CASE Fail(w)
  <2>1. wal'.frames = wal.frames /\ NextOf(wal') = NextOf(wal)
    BY <1>3, TornKeeps DEF Fail
  <2> QED BY <1>3, <2>1, EndKeepsKept DEF Fail, Answered, AnsweredIn, EndedIn
<1> QED BY <1>1, <1>2, <1>3

\* Steps that keep the log, leave some states of the backend and end no call.
LEMMA SameLogKeepsKept ==
    ASSUME Shape, Kept, wal'.frames = wal.frames, NextOf(wal') = NextOf(wal), Among(db', db),
           UNCHANGED txs,
           \/ phase' = "down" /\ op'["commit"].pc = "idle"
           \/ UNCHANGED << phase, nextSeq, op >> /\ db'[Len(db')] = db[Len(db)],
           keeper'.pc \in {"flushed", "covering"} => op'["commit"].pc = "idle" /\ Len(db') = 1,
           keeper'.pc = "covering" => keeper'.upto = db'[1].marker
    PROVE  Kept'
<1>1. \A i \in Logged(txs') : \A j \in DOMAIN db' : Held(i, db'[j], wal'.frames)
  <2>1. \A i \in Logged(txs) : \A j \in DOMAIN db : Held(i, db[j], wal.frames)
    BY DEF Kept
  <2> QED BY <2>1 DEF Among
<1>2. Numbered(op'["commit"], db', wal', nextSeq')
  <2>1. Numbered(op["commit"], db, wal, nextSeq)
    BY DEF Kept
  <2>2. CASE op'["commit"].pc = "idle"
    BY <2>1, <2>2, IdleNumbered
  <2>3. CASE UNCHANGED << nextSeq, op >>
    BY <2>1, <2>3, AmongNumbered
  <2> QED BY <2>2, <2>3
<1>3. CASE phase' = "down" /\ op'["commit"].pc = "idle"
  BY <1>1, <1>2, <1>3 DEF Kept
<1>4. CASE UNCHANGED << phase, nextSeq, op >> /\ db'[Len(db')] = db[Len(db)]
  BY <1>1, <1>2, <1>4 DEF Kept
<1> QED BY <1>3, <1>4

\* A compaction that drops nothing needed, or that a checkpoint began.
LEMMA CompactedHeld ==
    ASSUME Shape, Barrier, Calm, Kept, NEW n \in Nat, NEW u \in Nat, NEW b \in BOOLEAN,
           wal' \in Compactions(n, u, b),
           ~DropsNeeded \/ (Len(db) = 1 /\ u = db[1].marker),
           NEW i \in Logged(txs), NEW j \in DOMAIN db
    PROVE  Held(i, db[j], wal'.frames)
<1> DEFINE fs == wal.frames
<1>1. PICK e \in 0..Len(fs) :
         /\ wal'.frames = SubSeq(fs, e + 1, Len(fs))
         /\ e = 0 \/ fs[e].seq <= u
  BY Typed, LogCompacted
<1>2. /\ fs \in Seq(FramesTo(Len(txs))) /\ Len(fs) \in Nat /\ DOMAIN fs = 1..Len(fs)
      /\ \A k \in DOMAIN fs : fs[k].seq \in Nat
  BY Typed
<1>3. /\ DOMAIN wal'.frames = 1..(Len(fs) - e)
      /\ \A k \in 1..(Len(fs) - e) : wal'.frames[k] = fs[k + e]
  <2>1. Len(fs) \in 0..Len(fs) /\ e <= Len(fs)
    BY <1>2
  <2> HIDE DEF fs
  <2> QED BY <1>1, <1>2, <2>1, SubSeqIsSlice
<1>4. InOrder(fs)
  BY DEF Calm, Agreed
<1>5. Held(i, db[j], fs)
  BY DEF Kept
<1>6. CASE i \in db[j].done
  BY <1>6 DEF Held
<1>7. ASSUME NEW k \in DOMAIN fs, fs[k].tx = i, fs[k].seq > db[j].marker
      PROVE  Held(i, db[j], wal'.frames)
  <2>1. CASE k > e
    <3>1. k - e \in 1..(Len(fs) - e) /\ (k - e) + e = k
      BY <1>2, <2>1
    <3> HIDE DEF fs
    <3> QED BY <1>3, <1>7, <3>1 DEF Held
  <2>2. CASE k <= e
    <3>1. e # 0 /\ e \in DOMAIN fs /\ fs[k].seq <= fs[e].seq
      <4>1. e # 0 /\ e \in DOMAIN fs /\ (k = e \/ k < e)
        BY <1>2, <2>2
      <4>2. fs[e].seq \in Nat /\ fs[e].seq <= fs[e].seq
        BY <1>2, <4>1
      <4>3. k < e => fs[k].seq < fs[e].seq
        BY <1>4, <4>1 DEF InOrder
      <4>4. fs[k].seq \in Nat
        BY <1>2
      <4> HIDE DEF fs
      <4> QED BY <4>1, <4>2, <4>3, <4>4
    <3>2. fs[k].seq <= u
      <4>1. /\ fs[e].seq \in Nat /\ fs[k].seq \in Nat /\ fs[e].seq <= u
            /\ fs[k].seq <= fs[e].seq
        BY <1>1, <1>2, <3>1
      <4> HIDE DEF fs
      <4> QED BY <4>1
    <3>3. CASE Len(db) = 1 /\ u = db[1].marker
      <4>1. j = 1 /\ db[1].marker \in Nat
        BY <3>3, Typed, LastState
      <4> QED BY <1>2, <1>7, <3>2, <3>3, <4>1
    <3>4. CASE ~DropsNeeded
      <4>1. fs[k] \notin ToSet(wal'.frames)
        <5>1. ASSUME NEW x \in 1..(Len(fs) - e)
              PROVE  fs[k] # wal'.frames[x]
          <6>1. x + e \in DOMAIN fs /\ k < x + e
            BY <1>2, <2>2, <5>1
          <6>2. fs[k].seq < fs[x + e].seq
            BY <1>4, <6>1 DEF InOrder
          <6>3. fs[k].seq \in Nat
            BY <1>2
          <6>4. fs[k] # fs[x + e]
            <7> HIDE DEF fs
            <7> QED BY <6>2, <6>3
          <6> QED BY <1>3, <5>1, <6>4
        <5> QED BY <1>3, <5>1 DEF ToSet
      <4>2. i \in db[1].done
        BY <1>7, <3>4, <4>1 DEF DropsNeeded
      <4>3. db[1].done \subseteq db[j].done
        <5>1. 1 \in DOMAIN db /\ DOMAIN db = 1..Len(db)
          BY Typed, LastState
        <5>2. 1 <= j
          BY <5>1
        <5> QED BY <5>1, <5>2 DEF Barrier, DoneGrows
      <4> QED BY <4>2, <4>3 DEF Held
    <3> QED BY <3>3, <3>4
  <2> QED BY <1>2, <2>1, <2>2
<1> QED BY <1>5, <1>6, <1>7 DEF Held

\* A compaction writes the next number into the header and gives out none twice.
LEMMA CompactedNext ==
    ASSUME Shape, InOrder(wal.frames), NEW n \in Nat, NEW u \in Nat, NEW b \in BOOLEAN,
           wal' \in Compactions(n, u, b), NextOf(wal) <= n
    PROVE  NextOf(wal') = n
<1>1. /\ wal' \in Logs(Len(txs)) /\ wal'.next = n
      /\ wal'.compacted <= n \/ wal'.compacted = wal.compacted
  BY Typed, LogCompacted DEF LogShape
<1>2. wal'.compacted <= n
  BY <1>1, NextOfWal
<1>3. wal'.frames # << >> => wal'.frames[Len(wal'.frames)].seq <= n
  <2> SUFFICES ASSUME wal'.frames # << >>
               PROVE  wal'.frames[Len(wal'.frames)].seq <= n
    OBVIOUS
  <2>1. wal'.frames \in Seq(FramesTo(Len(txs)))
    BY <1>1 DEF Logs
  <2>2. Len(wal'.frames) \in DOMAIN wal'.frames
    BY <2>1
  <2>3. PICK k \in DOMAIN wal.frames : wal'.frames[Len(wal'.frames)] = wal.frames[k]
    BY <2>2, CompactedSlice
  <2>4. wal.frames[k].seq <= NextOf(wal) /\ wal.frames[k].seq \in Nat
    BY NextCoversFrames, Typed
  <2> QED BY <2>3, <2>4, NextOfWal
<1>4. n <= NextOf(wal') /\ NextOf(wal') \in Nat /\ NextOf(wal') <= n
  <2>1. Len(txs) \in Nat /\ n <= n
    BY Typed
  <2> QED BY <1>1, <1>2, <1>3, <2>1, NextOfLog
<1> QED BY <1>4

LEMMA CompactKeepsKept ==
    ASSUME Shape, Barrier, Calm, Kept, Compact, ~logCut'
    PROVE  Kept'
<1>1. /\ keeper.upto \in Nat /\ Immediate \in BOOLEAN /\ phase = "open"
      /\ keeper.pc \in {"covering", "compacting"}
  BY DEF Shape, KeeperShape, Immediate, Compact
<1>2. /\ wal' \in Compactions(nextSeq, keeper.upto, Immediate)
      /\ UNCHANGED << db, nextSeq, phase, op, txs >> /\ keeper'.pc = "idle"
  BY DEF Compact, Maintain, Resting
<1>3. ~DropsNeeded \/ (Len(db) = 1 /\ keeper.upto = db[1].marker)
  BY <1>1 DEF Compact, Kept
<1>4. NextOf(wal) <= nextSeq /\ InOrder(wal.frames) /\ nextSeq \in Nat /\ NextOf(wal) \in Nat
  BY <1>1, NextOfWal, Typed DEF Kept, Calm, Agreed
<1>5. NextOf(wal') = nextSeq
  BY <1>1, <1>2, <1>4, CompactedNext
<1>6. \A i \in Logged(txs) : \A j \in DOMAIN db : Held(i, db[j], wal'.frames)
  BY <1>1, <1>2, <1>3, <1>4, CompactedHeld
<1>7. Numbered(op["commit"], db, wal', nextSeq)
  <2>1. \A j \in DOMAIN db : db[j].marker <= NextOf(wal) /\ db[j].marker \in Nat
    BY Typed DEF Kept, Numbered
  <2>2. \A j \in DOMAIN db : db[j].marker <= nextSeq
    BY <1>4, <2>1
  <2>3. op["commit"].pc = "numbered" => \A j \in DOMAIN db : db[j].marker < nextSeq
    BY DEF Kept, Numbered
  <2>4. nextSeq <= nextSeq
    BY <1>4
  <2> QED BY <1>5, <2>2, <2>3, <2>4 DEF Numbered
<1>8. \A i \in Logged(txs) :
         i \in db[Len(db)].done \/ (op["commit"].pc = "logged" /\ i = op["commit"].tx)
  BY <1>1 DEF Kept
<1>9. nextSeq <= nextSeq
  BY <1>4
<1> QED BY <1>2, <1>5, <1>6, <1>7, <1>8, <1>9 DEF Kept

LEMMA MaintenanceKeepsKept ==
    ASSUME Shape, Barrier, Calm, Kept, Maintenance, ~logCut'
    PROVE  Kept'
<1>1. CASE Compact
  BY <1>1, CompactKeepsKept
<1>2. /\ Among(db, db) /\ Among(<< Stored >>, db) /\ Stored = db[Len(db)]
      /\ Len(<< Stored >>) = 1 /\ << Stored >>[1] = Stored
  BY AmongItself, Typed
<1>3. CASE TickSync
  <2>1. wal'.frames = wal.frames /\ NextOf(wal') = NextOf(wal)
    BY <1>3, Typed, LogSynced DEF TickSync
  <2>2. keeper'.pc = "ticking" /\ UNCHANGED << db, txs, phase, nextSeq, op >>
    BY <1>3 DEF TickSync, Maintain, Resting
  <2> QED BY <1>2, <2>1, <2>2, SameLogKeepsKept
<1>4. CASE TickFlush
  <2>1. keeper'.pc = "idle" /\ db' = << Stored >> /\ UNCHANGED << wal, txs, phase, nextSeq, op >>
    BY <1>4 DEF TickFlush, Maintain, Resting
  <2> QED BY <1>2, <2>1, SameLogKeepsKept
<1>5. CASE CheckpointFlush
  <2>1. /\ keeper'.pc = "flushed" /\ db' = << Stored >> /\ op["commit"].pc = "idle"
        /\ UNCHANGED << wal, txs, phase, nextSeq, op >>
    BY <1>5 DEF CheckpointFlush, Maintain, Resting, CommitLockFree
  <2> QED BY <1>2, <2>1, SameLogKeepsKept
<1>6. CASE CheckpointMark
  <2>1. /\ keeper'.pc = "covering" /\ keeper'.upto = Stored.marker /\ keeper.pc = "flushed"
        /\ UNCHANGED << wal, db, txs, phase, nextSeq, op >>
    BY <1>6 DEF CheckpointMark, Maintain
  <2>2. op["commit"].pc = "idle" /\ Len(db) = 1
    BY <2>1 DEF Kept
  <2> QED BY <1>2, <2>1, <2>2, SameLogKeepsKept
<1>7. CASE CompactAppliedMark
  <2>1. /\ keeper'.pc = "compacting"
        /\ UNCHANGED << wal, db, txs, phase, nextSeq, op >>
    BY <1>7 DEF CompactAppliedMark, Maintain
  <2> QED BY <1>2, <2>1, SameLogKeepsKept
<1> QED BY <1>1, <1>3, <1>4, <1>5, <1>6, <1>7 DEF Maintenance

LEMMA MaintenanceFailsKeepsKept ==
    ASSUME Shape, Kept, MaintenanceFails
    PROVE  Kept'
<1>1. UNCHANGED << wal, nextSeq, db, phase, op, txs >> /\ keeper'.pc = "idle"
  BY DEF MaintenanceFails, Resting
<1> QED BY <1>1, AmongItself, SameLogKeepsKept

\* Crashes that cut nothing from the log keep it.
LEMMA CrashesKeepKept ==
    ASSUME Shape, Kept, ProcessCrash \/ PowerLoss, ~logCut'
    PROVE  Kept'
<1>1. Stop
  BY DEF ProcessCrash, PowerLoss
<1>2. /\ phase' = "down" /\ op'["commit"].pc = "idle" /\ keeper'.pc = "idle" /\ UNCHANGED txs
  BY <1>1 DEF Stop, Idle, Resting, Writers
<1>3. Among(db', db)
  BY AmongItself DEF ProcessCrash, PowerLoss
<1>4. wal'.frames = wal.frames /\ NextOf(wal') = NextOf(wal)
  <2>1. CASE ProcessCrash
    BY <2>1, TornKeeps DEF ProcessCrash
  <2>2. CASE PowerLoss
    <3>1. wal'.frames = wal.frames /\ wal'.made = wal.made
      BY <2>2 DEF PowerLoss
    <3>2. wal' # NoFile \/ ~wal.made
      BY <3>1 DEF NoFile
    <3>3. wal'.next = wal.next /\ wal'.compacted = wal.compacted
      BY <2>2, <3>2, PowerLossLog
    <3> QED BY <3>1, <3>3 DEF NextOf
  <2> QED BY <2>1, <2>2
<1> QED BY <1>2, <1>3, <1>4, SameLogKeepsKept

LEMMA RepairKeepsKept ==
    ASSUME Shape, Barrier, Calm, Kept, Repair, ~logCut'
    PROVE  Kept'
<1>1. /\ UNCHANGED << db, phase, op, keeper, txs >> /\ phase = "down" /\ ~DropsNeeded
      /\ wal' \in Compactions(FileNext, Stored.marker, FALSE)
  BY DEF Repair
<1>2. FileNext = NextOf(wal) /\ NextOf(wal) \in Nat /\ Stored.marker \in Nat /\ InOrder(wal.frames)
  BY NextOfWal, Typed DEF Calm, Agreed
<1>3. op["commit"].pc = "idle" /\ keeper.pc = "idle"
  BY <1>1, NothingUnderWay DEF Writers
<1>4. NextOf(wal') = NextOf(wal)
  <2>1. NextOf(wal) <= FileNext
    BY <1>2
  <2>2. FileNext \in Nat
    BY <1>2
  <2> QED BY <1>1, <1>2, <2>1, <2>2, CompactedNext
<1>5. \A i \in Logged(txs) : \A j \in DOMAIN db : Held(i, db[j], wal'.frames)
  <2>1. FileNext \in Nat
    BY <1>2
  <2> QED BY <1>1, <1>2, <2>1, CompactedHeld
<1>6. Numbered(op'["commit"], db', wal', nextSeq')
  BY <1>1, <1>3, <1>4 DEF Kept, Numbered
<1> QED BY <1>1, <1>3, <1>5, <1>6 DEF Kept

LEMMA OpenKeepsKept ==
    ASSUME Shape, Calm, Kept, Open
    PROVE  Kept'
<1>1. /\ UNCHANGED << wal, db, op, keeper, txs >> /\ nextSeq' = FileNext /\ phase = "down"
      /\ replay' = {n \in DOMAIN wal.frames : wal.frames[n].seq > db[Len(db)].marker}
      /\ phase' = "open" => replay' = {}
  BY Typed DEF Open
<1>2. FileNext = NextOf(wal) /\ NextOf(wal) \in Nat /\ NextOf(wal) <= NextOf(wal)
  BY NextOfWal
<1>3. op["commit"].pc = "idle" /\ keeper.pc = "idle"
  BY <1>1, NothingUnderWay DEF Writers
<1>4. Numbered(op'["commit"], db', wal', nextSeq')
  BY <1>1, <1>3 DEF Kept, Numbered
<1>5. \A i \in Logged(txs) : \A j \in DOMAIN db : Held(i, db[j], wal.frames)
  BY DEF Kept
<1>6. phase' = "open" => \A i \in Logged(txs) : i \in db[Len(db)].done
  <2>1. \A i \in Logged(txs) : Held(i, db[Len(db)], wal.frames)
    BY <1>5, Typed
  <2> QED BY <1>1, <2>1 DEF Held
<1> QED BY <1>1, <1>2, <1>3, <1>4, <1>5, <1>6 DEF Kept

LEMMA ReplayKeepsKept ==
    ASSUME Shape, Barrier, Calm, Kept, Replay
    PROVE  Kept'
<1> DEFINE fs == wal.frames
           n0 == Min(replay)
<1>1. /\ n0 \in DOMAIN fs /\ NextFrame = fs[n0]
      /\ Replayed \in States(Len(txs)) /\ Replayed.done = Stored.done \cup {NextFrame.tx}
      /\ Replayed.marker = NextFrame.seq
  BY ReplayTakes DEF NextFrame
<1>2. /\ UNCHANGED << nextSeq, op, keeper, txs >> /\ phase = "recovering"
      /\ replay' = replay \ {n0}
      /\ phase' = IF replay' = {} THEN "open" ELSE "recovering"
  BY ReplayMoves
<1>3. wal'.frames = fs /\ NextOf(wal') = NextOf(wal)
  BY ReplayMoves, Typed, LogSynced
<1>4. op["commit"].pc = "idle" /\ keeper.pc = "idle"
  BY <1>2, NothingUnderWay DEF Writers
<1>5. /\ db'[Len(db')] = Replayed
      /\ \A j \in DOMAIN db' : db'[j] = Replayed \/ \E k \in DOMAIN db : db'[j] = db[k]
  <2>1. CASE db' = Append(db, Replayed)
    <3>1. /\ Len(db') = Len(db) + 1 /\ db'[Len(db) + 1] = Replayed
          /\ \A j \in 1..Len(db) : db'[j] = db[j]
          /\ DOMAIN db = 1..Len(db) /\ Len(db) \in Nat /\ DOMAIN db' = 1..(Len(db) + 1)
      BY <1>1, <2>1, Typed, BackendApplied, LastState DEF BackendShape
    <3>2. \A j \in 1..(Len(db) + 1) : j = Len(db) + 1 \/ j \in 1..Len(db)
      BY <3>1
    <3> QED BY <3>1, <3>2
  <2>2. CASE db' = << Replayed >>
    <3>1. Len(<< Replayed >>) = 1 /\ << Replayed >>[1] = Replayed /\ DOMAIN << Replayed >> = {1}
      OBVIOUS
    <3> QED BY <2>2, <3>1
  <2> QED BY <2>1, <2>2, ReplayMoves
<1>6. Calm'
  BY ReplayKeepsCalm
\* What waits behind the frame that was replayed is past the new marker.
<1>7. replay = {n \in DOMAIN fs : fs[n].seq > Stored.marker}
  BY <1>2, Typed DEF Calm
<1>8. \A n \in replay' : fs[n].seq > Replayed.marker /\ n \in DOMAIN fs
  BY <1>2, <1>3, <1>5, <1>6 DEF Calm
<1>9. ASSUME NEW i \in Logged(txs)
      PROVE  Held(i, Replayed, fs) /\ (replay' = {} => i \in Replayed.done)
  <2>1. Held(i, Stored, fs)
    BY Typed DEF Kept
  <2>2. CASE i \in Stored.done
    BY <1>1, <2>2 DEF Held
  <2>3. CASE \E n \in DOMAIN fs : fs[n].tx = i /\ fs[n].seq > Stored.marker
    <3>1. PICK n \in DOMAIN fs : fs[n].tx = i /\ fs[n].seq > Stored.marker
      BY <2>3
    <3>2. n = n0 \/ n \in replay'
      BY <1>2, <1>7, <3>1
    <3>3. CASE n = n0
      BY <1>1, <3>1, <3>3 DEF Held
    <3>4. CASE n \in replay'
      BY <1>8, <3>1, <3>4 DEF Held
    <3> QED BY <3>2, <3>3, <3>4
  <2> QED BY <2>1, <2>2, <2>3 DEF Held
<1>10. \A i \in Logged(txs) : \A j \in DOMAIN db' : Held(i, db'[j], fs)
  <2>1. \A i \in Logged(txs) : \A j \in DOMAIN db : Held(i, db[j], fs)
    BY DEF Kept
  <2> HIDE DEF fs
  <2> QED BY <1>5, <1>9, <2>1
<1>11. Replayed.marker <= NextOf(wal)
  <2>1. InOrder(wal.frames)
    BY DEF Calm, Agreed
  <2> QED BY <1>1, <2>1, NextCoversFrames
<1>12. Numbered(op'["commit"], db', wal', nextSeq')
  <2>1. \A j \in DOMAIN db : db[j].marker <= NextOf(wal)
    BY DEF Kept, Numbered
  <2>2. \A j \in DOMAIN db' : db'[j].marker <= NextOf(wal)
    BY <1>5, <1>11, <2>1
  <2> QED BY <1>2, <1>3, <1>4, <2>2 DEF Numbered
<1>13. NextOf(wal) <= nextSeq
  BY <1>2 DEF Kept
<1>14. phase' = "open" => \A i \in Logged(txs) : i \in db'[Len(db')].done
  BY <1>2, <1>5, <1>9
<1> HIDE DEF fs, n0
<1> QED BY <1>2, <1>3, <1>4, <1>10, <1>12, <1>13, <1>14 DEF Kept, fs
----------------------------------------------------------------------------
(* Every step.                                                             *)

LEMMA NextKeepsShape ==
    ASSUME Shape, Barrier, Next
    PROVE  Shape' /\ Barrier'
<1>1. CASE BeginCommit \/ BeginAudit
  <2>1. "commit" \in Writers /\ "audit" \in Writers /\ {} \in SUBSET Keys
    BY DEF Writers
  <2> QED BY <1>1, <2>1, BeginKeepsShape DEF BeginCommit, BeginAudit
<1>2. ASSUME NEW w \in Writers,
             \/ AppendFrame(w) \/ ApplyBatch(w) \/ AnswerBuffered(w)
             \/ SyncLog(w) \/ AnswerFlushed(w) \/ Fail(w)
      PROVE  Shape' /\ Barrier'
  BY <1>2, AppendFrameKeepsShape, ApplyBatchKeepsShape, AnswerBufferedKeepsShape,
     SyncLogKeepsShape, AnswerFlushedKeepsShape, FailKeepsShape
<1>3. CASE Maintenance
  BY <1>3, MaintenanceKeepsShape
<1>4. CASE MaintenanceFails \/ ProcessCrash \/ PowerLoss \/ Open \/ Replay \/ Repair
  BY <1>4, MaintenanceFailsKeepsShape, ProcessCrashKeepsShape, PowerLossKeepsShape,
     OpenKeepsShape, ReplayKeepsShape, RepairKeepsShape
<1> QED BY <1>1, <1>2, <1>3, <1>4 DEF Next, Maintenance

LEMMA NextKeepsCalm ==
    ASSUME Shape, Barrier, Calm, ~auditing, Next
    PROVE  Calm'
<1>1. CASE BeginCommit \/ BeginAudit
  BY <1>1, BeginKeepsCalm DEF BeginCommit, BeginAudit
<1>2. ASSUME NEW w \in Writers,
             \/ AppendFrame(w) \/ ApplyBatch(w) \/ AnswerBuffered(w)
             \/ SyncLog(w) \/ AnswerFlushed(w) \/ Fail(w)
      PROVE  Calm'
  BY <1>2, AppendFrameKeepsCalm, ApplyBatchKeepsCalm, AnswersKeepCalm, SyncLogKeepsCalm
<1>3. CASE Maintenance
  BY <1>3, MaintenanceKeepsCalm
<1>4. CASE MaintenanceFails \/ ProcessCrash \/ PowerLoss \/ Open \/ Replay \/ Repair
  BY <1>4, MaintenanceFailsKeepsCalm, CrashesKeepCalm, OpenKeepsCalm, ReplayKeepsCalm,
     RepairKeepsCalm
<1> QED BY <1>1, <1>2, <1>3, <1>4 DEF Next, Maintenance

LEMMA NextKeepsKept ==
    ASSUME Shape, Barrier, Calm, Kept, ~auditing, Next, ~logCut'
    PROVE  Kept'
<1>1. CASE BeginCommit \/ BeginAudit
  BY <1>1, BeginKeepsKept DEF BeginCommit, BeginAudit
<1>2. ASSUME NEW w \in Writers,
             \/ AppendFrame(w) \/ ApplyBatch(w) \/ AnswerBuffered(w)
             \/ SyncLog(w) \/ AnswerFlushed(w) \/ Fail(w)
      PROVE  Kept'
  BY <1>2, AppendFrameKeepsKept, ApplyBatchKeepsKept, AnswersKeepKept, SyncLogKeepsKept
<1>3. CASE Maintenance
  BY <1>3, MaintenanceKeepsKept
<1>4. CASE MaintenanceFails \/ ProcessCrash \/ PowerLoss \/ Open \/ Replay \/ Repair
  BY <1>4, MaintenanceFailsKeepsKept, CrashesKeepKept, OpenKeepsKept, ReplayKeepsKept,
     RepairKeepsKept
<1> QED BY <1>1, <1>2, <1>3, <1>4 DEF Next, Maintenance

\* A store keeps its configuration, and a log that was cut stays cut.
LEMMA NextKeepsConfig ==
    ASSUME Shape, Next
    PROVE  auditing' = auditing /\ (logCut => logCut')
<1>1. CASE \E w \in Writers : \/ AppendFrame(w) \/ ApplyBatch(w) \/ AnswerBuffered(w)
                              \/ SyncLog(w) \/ AnswerFlushed(w) \/ Fail(w)
  <2>1. auditing' = auditing /\ logCut' = logCut
    BY <1>1 DEF AppendFrame, ApplyBatch, AnswerBuffered, SyncLog, AnswerFlushed, Fail, config
  <2> QED BY <2>1, Zenon
<1>2. CASE \/ BeginCommit \/ BeginAudit \/ MaintenanceFails \/ ProcessCrash \/ Open
          \/ (Maintenance /\ ~Compact)
  <2>1. auditing' = auditing /\ logCut' = logCut
    BY <1>2 DEF BeginCommit, BeginAudit, Begin, MaintenanceFails, ProcessCrash, Stop, Open,
       Maintenance, TickSync, TickFlush, CheckpointFlush, CheckpointMark,
       CompactAppliedMark, Maintain, config
  <2> QED BY <2>1, Zenon
<1>3. CASE Replay
  <2>1. auditing' = auditing /\ logCut' = logCut
    BY <1>3, ReplayMoves
  <2> QED BY <2>1, Zenon
<1>4. CASE Compact \/ PowerLoss \/ Repair
  <2>1. auditing' = auditing
    BY <1>4 DEF Compact, PowerLoss, Repair, Stop, Maintain, config
  <2>2. logCut => logCut'
    BY <1>4, Zenon DEF Compact, PowerLoss, Repair
  <2> QED BY <2>1, <2>2
<1> QED BY <1>1, <1>2, <1>3, <1>4 DEF Next, Maintenance

LEMMA InitInv == Init => Inv
BY InitSound, InitCalm, InitKept DEF Inv

LEMMA InvInductive == Inv /\ [Next]_vars => Inv'
<1> SUFFICES ASSUME Inv, [Next]_vars PROVE Inv'
  OBVIOUS
<1>1. CASE Next
  <2>1. Shape /\ Barrier /\ (~auditing => Calm) /\ (~auditing /\ ~logCut => Kept)
    BY DEF Inv
  <2>2. Shape' /\ Barrier' /\ auditing' = auditing /\ (logCut => logCut')
    BY <1>1, <2>1, NextKeepsShape, NextKeepsConfig
  <2>3. ~auditing => Calm'
    BY <1>1, <2>1, NextKeepsCalm
  <2>4. ~auditing /\ ~logCut' => Kept'
    BY <1>1, <2>1, <2>2, NextKeepsKept
  <2> QED BY <2>2, <2>3, <2>4 DEF Inv
<1>2. CASE UNCHANGED vars
  <2>1. UNCHANGED << mode, auditing, wal, nextSeq, db, phase, replay, op, keeper, txs,
                     promised, logCut >>
    BY <1>2 DEF vars
  <2>2. Shape' = Shape
    BY <2>1 DEF Shape
  <2>3. Barrier' = Barrier
    BY <2>1 DEF Barrier
  <2>4. Calm' = Calm
    BY <2>1 DEF Calm
  <2>5. Kept' = Kept
    BY <2>1 DEF Kept
  <2> QED BY <2>1, <2>2, <2>3, <2>4, <2>5 DEF Inv
<1> QED BY <1>1, <1>2

LEMMA InvHolds == Spec => []Inv
BY InitInv, InvInductive, PTL DEF Spec

----------------------------------------------------------------------------
(* What the runs check, for every value of the constants.                  *)

\* Every variable keeps its shape; a frame that was synced is in the file, and
\* without audit records no frame carries a number the open log has not given out.
THEOREM TypeCorrect == Spec => []TypeOK
<1>1. Inv => TypeOK
  <2> SUFFICES ASSUME Inv PROVE TypeOK
    OBVIOUS
  <2> DEFINE m == Len(txs)
  <2>1. Shape /\ (~auditing => Calm)
    BY DEF Inv
  <2>2. /\ LogShape(wal, m) /\ BackendShape(db, m) /\ DOMAIN txs = 1..m /\ m \in Nat
        /\ \A i \in DOMAIN wal.frames : wal.frames[i].seq \in Nat
    BY <2>1, Typed
  <2>3. /\ wal.frames \in Seq(Frames) /\ wal.synced \in 0..Len(wal.frames)
        /\ {wal.made, wal.torn, wal.headSynced} \subseteq BOOLEAN
    BY <2>2 DEF LogShape, Logs, FramesTo, Frames
  <2>4. phase # "down" => \A i \in DOMAIN wal.frames : auditing \/ wal.frames[i].seq <= nextSeq
    BY <2>1 DEF Calm
  <2>5. db # << >> /\ \A i \in DOMAIN db : /\ db[i].data \in [Keys -> {0} \cup DOMAIN txs]
                                           /\ db[i].marker \in Nat /\ db[i].done \subseteq DOMAIN txs
    <3>1. db # << >> /\ \A i \in DOMAIN db : db[i] \in States(m)
      BY <2>2 DEF BackendShape
    <3> QED BY <2>2, <3>1 DEF States
  <2>6. op \in [Writers -> [pc : {"idle", "numbered", "logged", "applied", "synced"},
                            tx : {0} \cup DOMAIN txs, seq : Nat]]
    BY <2>1, <2>2 DEF Shape, OpShape, Points
  <2>7. keeper \in [pc : {"idle", "ticking", "flushed", "covering", "compacting"}, upto : Nat]
    BY <2>1 DEF Shape, KeeperShape
  <2>8. /\ mode \in Modes /\ auditing \in BOOLEAN /\ logCut \in BOOLEAN
        /\ phase \in {"down", "recovering", "open"} /\ replay \subseteq DOMAIN wal.frames
        /\ txs \in Seq([audit : BOOLEAN, keys : SUBSET Keys,
                        answer : {"none", "ok", "error"}, logged : BOOLEAN])
        /\ promised \subseteq DOMAIN txs
    BY <2>1, <2>2 DEF Shape, ReplayShape, Calls
  <2> QED BY <2>3, <2>4, <2>5, <2>6, <2>7, <2>8 DEF TypeOK
<1> QED BY InvHolds, <1>1, PTL

\* What a sync barrier covered survives every crash, replay, compaction and
\* repair: the answers of commit_locked and checkpoint_wal keep their promise.
THEOREM PromisesAreKept == Spec => []PromisedSurvive
<1>1. Inv => PromisedSurvive
  <2> SUFFICES ASSUME Inv, NEW i \in promised
               PROVE  i \in Stored.done /\ (~auditing => \A k \in txs[i].keys : Stored.data[k] >= i)
    BY DEF PromisedSurvive
  <2>1. Shape /\ Barrier /\ (~auditing => Calm)
    BY DEF Inv
  <2>2. i \in Stored.done
    BY <2>1, CoveredAreDone DEF Covered
  <2>3. ~auditing => Shows(Stored, txs)
    BY <2>1, Typed DEF Calm, Agreed
  <2> QED BY <2>2, <2>3 DEF Shows
<1> QED BY InvHolds, <1>1, PTL

\* recover_wal_transactions leaves no part of a commit, whatever the crashes took
\* of the log and of the backend.
THEOREM RecoveryStaysWhole == Spec => []RecoveryWhole
<1>1. Inv => RecoveryWhole
  <2> SUFFICES ASSUME Inv, ~auditing, NEW k \in Keys, Stored.data[k] # 0,
                      NEW j \in txs[Stored.data[k]].keys
               PROVE  Stored.data[j] >= Stored.data[k]
    BY DEF RecoveryWhole, NoPartialTransaction
  <2>1. Shows(Stored, txs)
    BY Typed DEF Inv, Calm, Agreed
  <2>2. Stored.data[k] \in Stored.done
    BY <2>1 DEF Shows
  <2> QED BY <2>1, <2>2 DEF Shows
<1> QED BY InvHolds, <1>1, PTL

\* In a store without audit records the numbers a restart gives out, compaction,
\* repair and the marker never hide the frame of a commit from recovery, until the
\* log loses a frame it may need to a power loss, an unflushed compaction or a repair.
THEOREM LoggedStaysKnown == Spec => []LoggedNeverForgotten
<1>1. Inv => LoggedNeverForgotten
  <2> SUFFICES ASSUME Inv, ~auditing, ~logCut, NEW i \in DOMAIN txs, txs[i].logged,
                      txs[i].answer # "error"
               PROVE  \/ i \in Stored.done
                      \/ \E n \in DOMAIN wal.frames :
                            wal.frames[n].tx = i /\ wal.frames[n].seq > Stored.marker
    BY DEF LoggedNeverForgotten
  <2>1. Shape /\ Kept
    BY DEF Inv
  <2>2. i \in Logged(txs)
    BY DEF Logged
  <2>3. Held(i, Stored, wal.frames)
    BY <2>1, <2>2, Typed DEF Kept
  <2> QED BY <2>3 DEF Held
<1> QED BY InvHolds, <1>1, PTL

\* In a store without audit records recovery applies no frame twice, a crash during
\* recovery included.
THEOREM ReplaysStayNew == Spec => ReplaysOnlyUnapplied
<1>1. Inv /\ [Next]_vars =>
         [~auditing /\ replay # {} /\ phase' # "down" =>
             wal.frames[Min(replay)].tx \notin Stored.done]_vars
  <2> SUFFICES ASSUME Inv, ~auditing, replay # {}
               PROVE  wal.frames[Min(replay)].tx \notin Stored.done
    OBVIOUS
  <2>1. Shape /\ Calm /\ phase = "recovering" /\ replay \subseteq DOMAIN wal.frames
    BY DEF Inv, Shape, ReplayShape
  <2>2. Min(replay) \in replay
    <3>1. replay \in SUBSET Nat
      BY <2>1, Typed
    <3> QED BY <3>1, MinOfNaturals
  <2>3. wal.frames[Min(replay)].seq > Stored.marker /\ Min(replay) \in DOMAIN wal.frames
    BY <2>1, <2>2, Typed DEF Calm
  <2>4. \A i \in Stored.done : i < wal.frames[Min(replay)].tx
    BY <2>1, <2>3, Typed DEF Calm, Agreed, Behind
  <2>5. wal.frames[Min(replay)].tx \in Nat
    BY <2>1, <2>3, Typed
  <2> QED BY <2>4, <2>5
<1> QED BY InvHolds, <1>1, PTL DEF Spec, ReplaysOnlyUnapplied
----------------------------------------------------------------------------
(* Seen: what recovery can still show.                                     *)

\* A record shows only calls that write it.
Writes(s, ts) == \A k \in Keys : s.data[k] # 0 => k \in ts[s.data[k]].keys

Written == \A j \in DOMAIN db : Writes(db[j], txs)

\* An acknowledged call that is not visible is in no state the backend can fall
\* back to, nor in the log past the marker of one: nothing brings it back.
Gone == \A i \in Acked \ Visible : \A j \in DOMAIN db : ~Held(i, db[j], wal.frames)

Seen == Written /\ Gone

LEMMA VisibleIs ==
    /\ \A i : i \in Visible <=> IF phase = "open" THEN i \in Stored.done
                                ELSE Held(i, Stored, wal.frames)
    /\ \A i : i \in Visible' <=> IF phase' = "open" THEN i \in Stored'.done
                                 ELSE Held(i, Stored', wal'.frames)
BY DEF Visible, Held

LEMMA VisibleCalls ==
    ASSUME Shape
    PROVE  /\ Stored.done \subseteq Visible /\ Visible \subseteq 1..Len(txs)
           /\ phase = "open" => Visible = Stored.done
           /\ phase # "open" => \A i : i \in Visible <=> Held(i, Stored, wal.frames)
<1>1. Stored.done \subseteq 1..Len(txs) /\ \A n \in DOMAIN wal.frames : wal.frames[n].tx \in 1..Len(txs)
  BY Typed
<1>2. \A i : Held(i, Stored, wal.frames) => i \in 1..Len(txs)
  BY <1>1 DEF Held
<1>3. \A i : i \in Stored.done => Held(i, Stored, wal.frames)
  BY DEF Held
<1> QED BY <1>1, <1>2, <1>3, VisibleIs

\* The backend after a batch, as its last state.
LEMMA StoredAfter ==
    ASSUME NEW m \in Nat, BackendShape(db, m), NEW s \in States(m),
           db' = Append(db, s) \/ db' = << s >>
    PROVE  /\ Stored' = s
           /\ \A j \in DOMAIN db' : db'[j] = s \/ \E i \in DOMAIN db : db'[j] = db[i]
<1>1. CASE db' = Append(db, s)
  <2>1. /\ Len(db') = Len(db) + 1 /\ db'[Len(db) + 1] = s /\ Len(db) \in Nat
        /\ \A j \in 1..Len(db) : db'[j] = db[j]
        /\ DOMAIN db = 1..Len(db) /\ DOMAIN db' = 1..(Len(db) + 1)
    BY <1>1, LastState, BackendApplied DEF BackendShape
  <2>2. \A j \in 1..(Len(db) + 1) : j \in 1..Len(db) \/ j = Len(db) + 1
    BY <2>1
  <2>3. Stored' = db'[Len(db')]
    BY DEF Stored, Last
  <2> QED BY <2>1, <2>2, <2>3
<1>2. CASE db' = << s >>
  <2>1. Len(db') = 1 /\ db'[1] = s /\ DOMAIN db' = 1..1
    BY <1>2
  <2>2. Stored' = db'[Len(db')]
    BY DEF Stored, Last
  <2> QED BY <2>1, <2>2
<1> QED BY <1>1, <1>2

\* A flush, or no step of the backend at all, stores the same.
LEMMA StoredStays ==
    ASSUME Shape, db' = db \/ db' = << Stored >>
    PROVE  Stored' = Stored /\ Among(db', db)
<1>1. CASE db' = db
  BY <1>1, AmongItself DEF Stored, Last
<1>2. CASE db' = << Stored >>
  <2>1. Len(<< Stored >>) = 1 /\ << Stored >>[1] = Stored
    OBVIOUS
  <2>2. Stored' = db'[Len(db')]
    BY DEF Stored, Last
  <2> QED BY <1>2, <2>1, <2>2, AmongItself
<1> QED BY <1>1, <1>2

\* States that the backend had, of calls that keep their records.
LEMMA WrittenStays ==
    ASSUME Shape, Written, Among(db', db), \A i \in 1..Len(txs) : txs'[i].keys = txs[i].keys
    PROVE  Written'
<1> SUFFICES ASSUME NEW j \in DOMAIN db', NEW k \in Keys, db'[j].data[k] # 0
             PROVE  k \in txs'[db'[j].data[k]].keys
  BY DEF Written, Writes
<1>1. PICK i \in DOMAIN db : db'[j] = db[i]
  BY DEF Among
<1>2. db[i] \in States(Len(txs))
  BY <1>1, Typed, LastState
<1>3. db[i].data[k] \in 1..Len(txs)
  BY <1>1, <1>2 DEF States
<1>4. k \in txs[db[i].data[k]].keys
  BY <1>1 DEF Written, Writes
<1> QED BY <1>1, <1>3, <1>4

\* The batch of a call.
LEMMA BatchApplies ==
    ASSUME Shape, NEW t \in 1..Len(txs), NEW n \in Nat
    PROVE  /\ Applied(Stored, t, n) \in States(Len(txs))
           /\ Applied(Stored, t, n).marker = n
           /\ Applied(Stored, t, n).done = Stored.done \cup {t}
           /\ \A k \in Keys : Applied(Stored, t, n).data[k]
                                 = IF k \in txs[t].keys THEN t ELSE Stored.data[k]
<1>1. Len(txs) \in Nat /\ BackendShape(db, Len(txs)) /\ Stored = db[Len(db)]
  BY Typed
<1>2. Stored \in States(Len(txs))
  BY <1>1, LastState
<1>3. t \in Nat /\ t \in 1..Len(txs)
  BY <1>1
<1> QED BY <1>2, <1>3 DEF Applied, States

LEMMA WrittenApplied ==
    ASSUME Shape, Written, NEW t \in 1..Len(txs), NEW n \in Nat, txs' = txs,
           LET s == Applied(Stored, t, n) IN db' = Append(db, s) \/ db' = << s >>
    PROVE  Written'
<1> DEFINE m == Len(txs)
           s == Applied(Stored, t, n)
<1>1. m \in Nat /\ BackendShape(db, m) /\ Stored \in States(m) /\ Stored = db[Len(db)]
      /\ Len(db) \in DOMAIN db
  <2>1. m \in Nat /\ BackendShape(db, m) /\ Stored = db[Len(db)] /\ Len(db) \in DOMAIN db
    BY Typed
  <2>2. db[Len(db)] \in States(m)
    BY <2>1, LastState
  <2> QED BY <2>1, <2>2
<1>2. s \in States(m) /\ \A k \in Keys : s.data[k] = IF k \in txs[t].keys THEN t ELSE Stored.data[k]
  BY BatchApplies
<1>3. db' = Append(db, s) \/ db' = << s >>
  OBVIOUS
<1> HIDE DEF s, m
<1>4. \A j \in DOMAIN db' : db'[j] = s \/ \E i \in DOMAIN db : db'[j] = db[i]
  BY <1>1, <1>2, <1>3, StoredAfter
<1>5. Writes(Stored, txs) /\ \A i \in DOMAIN db : Writes(db[i], txs)
  BY <1>1 DEF Written
<1>6. Writes(s, txs)
  BY <1>2, <1>5 DEF Writes
<1> QED BY <1>4, <1>5, <1>6 DEF Written

\* Steps that leave of the backend and of the log what was there, and after which
\* no call is acknowledged and not visible that was not so before.
LEMMA GoneStays ==
    ASSUME Gone, Among(db', db), Acked' \ Visible' \subseteq Acked \ Visible,
           \A n \in DOMAIN wal'.frames : \/ \E p \in DOMAIN wal.frames : wal'.frames[n] = wal.frames[p]
                                         \/ wal'.frames[n].tx \notin Acked'
    PROVE  Gone'
<1> SUFFICES ASSUME NEW i \in Acked' \ Visible', NEW j \in DOMAIN db', Held(i, db'[j], wal'.frames)
             PROVE  FALSE
  BY DEF Gone
<1>1. PICK e \in DOMAIN db : db'[j] = db[e]
  BY DEF Among
<1>2. Held(i, db[e], wal.frames)
  BY <1>1 DEF Held
<1> QED BY <1>2 DEF Gone

----------------------------------------------------------------------------
(* Every step, as the callers see it.                                      *)

LEMMA BeginSees ==
    ASSUME Shape, Seen, NEW w \in Writers, NEW keys \in SUBSET Keys, Begin(w, keys)
    PROVE  Seen' /\ Visible' = Visible
<1>1. /\ \A i \in DOMAIN txs : txs'[i] = txs[i]
      /\ DOMAIN txs = 1..Len(txs) /\ DOMAIN txs' = 1..(Len(txs) + 1) /\ Len(txs) \in Nat
      /\ txs'[Len(txs) + 1].answer = "none"
  BY BeginGrows, Typed
<1>2. UNCHANGED << wal, db, phase >>
  BY DEF Begin
<1>3. Visible' = Visible
  BY <1>2 DEF Visible, Stored
<1>4. \A i \in DOMAIN txs' : i \in DOMAIN txs \/ i = Len(txs) + 1
  BY <1>1
<1>5. Acked' = Acked
  BY <1>1, <1>4 DEF Acked
<1>6. Among(db', db)
  BY <1>2 DEF Among
<1>7. Written'
  BY <1>1, <1>6, WrittenStays DEF Seen
<1>8. Gone'
  BY <1>2, <1>3, <1>5, <1>6, GoneStays DEF Seen
<1> QED BY <1>3, <1>7, <1>8 DEF Seen

\* A frame for a call that is not answered.
LEMMA AppendFrameSees ==
    ASSUME Shape, Calm, Seen, NEW w \in Writers, AppendFrame(w)
    PROVE  /\ Seen' /\ Visible' = Visible /\ DOMAIN txs' = DOMAIN txs
           /\ \A i \in DOMAIN txs : txs'[i].keys = txs[i].keys /\ txs'[i].answer = txs[i].answer
<1> DEFINE m == Len(txs)
<1>1. op[w].pc # "idle" /\ op[w].tx = m /\ txs[m].answer = "none" /\ phase = "open"
      /\ m \in DOMAIN txs /\ DOMAIN txs = 1..m
  <2>1. op[w].pc # "idle"
    BY DEF AppendFrame
  <2> QED BY <2>1, CommitOnly, OpUnderWay, Typed
<1>2. UNCHANGED << db, phase >> /\ txs' = LoggedIn(txs, m) /\ txs \in Seq(Calls)
  BY <1>1 DEF AppendFrame, LoggedIn, Shape
<1>3. DOMAIN txs' = DOMAIN txs
      /\ \A i \in DOMAIN txs : txs'[i].keys = txs[i].keys /\ txs'[i].answer = txs[i].answer
  BY <1>1, <1>2, TxsLogged, TxLogged
<1>4. Acked' = Acked /\ m \notin Acked
  BY <1>1, <1>3 DEF Acked
<1>5. Visible' = Visible
  <2>1. Stored' = Stored
    BY <1>2 DEF Stored
  <2>2. \A i : i \in Visible' <=> i \in Visible
    BY <1>1, <1>2, <2>1, VisibleIs
  <2> QED BY <2>2
<1>6. \A n \in DOMAIN wal'.frames : \/ \E p \in DOMAIN wal.frames : wal'.frames[n] = wal.frames[p]
                                    \/ wal'.frames[n].tx \notin Acked'
  <2> DEFINE f == [seq |-> op[w].seq, tx |-> op[w].tx]
  <2>1. op[w].seq \in Nat \ {0} /\ op[w].tx \in 1..m /\ nextSeq \in Nat
    BY <1>1, OpUnderWay, Typed
  <2>2. f \in FramesTo(m) /\ f.tx = m
    BY <1>1, <2>1 DEF FramesTo
  <2>3. wal' = Extended(f)
    BY DEF AppendFrame
  <2> HIDE DEF f
  <2>4. wal'.frames = Append(wal.frames, f)
    BY <2>1, <2>2, <2>3, Typed, LogExtended
  <2>5. \A n \in DOMAIN wal'.frames : wal'.frames[n] = f \/ (n \in DOMAIN wal.frames /\ wal'.frames[n] = wal.frames[n])
    <3> DEFINE g == wal.frames
    <3>1. g \in Seq(FramesTo(m)) /\ wal'.frames = Append(g, f)
      BY <2>4, Typed
    <3> HIDE DEF g, m
    <3>2. \A n \in DOMAIN wal'.frames : wal'.frames[n] = f \/ (n \in DOMAIN g /\ wal'.frames[n] = g[n])
      BY <2>2, <3>1
    <3> QED BY <3>2 DEF g
  <2> QED BY <1>4, <2>2, <2>5
<1>7. Among(db', db)
  BY <1>2 DEF Among
<1>8. Written'
  BY <1>1, <1>3, <1>7, WrittenStays DEF Seen
<1>9. Gone'
  BY <1>4, <1>5, <1>6, <1>7, GoneStays DEF Seen
<1> QED BY <1>3, <1>5, <1>8, <1>9 DEF Seen

LEMMA ApplyBatchSees ==
    ASSUME Shape, Barrier, Calm, Seen, NEW w \in Writers, ApplyBatch(w)
    PROVE  /\ Seen' /\ Visible' = Visible \cup {Len(txs)}
           /\ Len(txs) \in DOMAIN txs /\ txs[Len(txs)].answer = "none"
           /\ \A i \in Visible : i < Len(txs)
<1> DEFINE m == Len(txs)
           s == Applied(Stored, m, nextSeq)
<1>1. op[w].pc = "logged" /\ w = "commit" /\ op[w].tx = m /\ op[w].seq = nextSeq
      /\ txs[m].answer = "none"
  BY CommitOnly DEF ApplyBatch
<1>2. m \in 1..m /\ m \in DOMAIN txs /\ DOMAIN txs = 1..m /\ phase = "open" /\ nextSeq \in Nat /\ m \in Nat
  <2>1. DOMAIN txs = 1..m /\ nextSeq \in Nat /\ m \in Nat
    BY Typed
  <2>2. phase = "open" /\ op[w].tx \in DOMAIN txs
    BY <1>1, OpUnderWay
  <2> QED BY <1>1, <2>1, <2>2
<1>3. Stored \in States(m) /\ BackendShape(db, m) /\ Stored = db[Len(db)] /\ Len(db) \in DOMAIN db
  <2>1. BackendShape(db, m) /\ Stored = db[Len(db)] /\ Len(db) \in DOMAIN db
    BY Typed
  <2> QED BY <2>1, CoveredAreDone
<1>4. s \in States(m) /\ s.done = Stored.done \cup {m} /\ s.marker = nextSeq
  BY <1>2, BatchApplies
<1>5. /\ db' = Append(db, s) /\ UNCHANGED << wal, phase, txs >>
  BY <1>1 DEF ApplyBatch
<1>6. Stored' = s /\ \A j \in DOMAIN db' : db'[j] = s \/ \E i \in DOMAIN db : db'[j] = db[i]
  <2> HIDE DEF s, m
  <2> QED BY <1>2, <1>3, <1>4, <1>5, StoredAfter
<1>7. Visible = Stored.done /\ Visible' = s.done
  <2>1. \A i : i \in Visible' <=> i \in s.done
    BY <1>2, <1>5, <1>6, VisibleIs
  <2> QED BY <1>2, <2>1, VisibleCalls
<1>8. \A i \in Stored.done : i < m
  BY <1>1, <1>3, Typed DEF Calm, Newest
<1>9. \A i : Held(i, s, wal.frames) => i \in s.done
  <2>1. \A n \in DOMAIN wal.frames : ~(wal.frames[n].seq > s.marker)
    BY <1>2, <1>4, Typed DEF Calm
  <2> QED BY <2>1 DEF Held
<1>10. Written'
  BY <1>2, <1>5, WrittenApplied DEF Seen
<1>11. Gone'
  <2> SUFFICES ASSUME NEW i \in Acked' \ Visible', NEW j \in DOMAIN db', Held(i, db'[j], wal'.frames)
               PROVE  FALSE
    BY DEF Gone
  <2>1. i \in Acked \ Visible /\ i \notin s.done
    BY <1>4, <1>5, <1>7 DEF Acked
  <2>2. CASE db'[j] = s
    BY <1>5, <1>9, <2>1, <2>2
  <2>3. CASE \E e \in DOMAIN db : db'[j] = db[e]
    BY <1>5, <2>1, <2>3 DEF Seen, Gone
  <2> QED BY <1>6, <2>2, <2>3
<1> QED BY <1>1, <1>2, <1>4, <1>7, <1>8, <1>10, <1>11 DEF Seen

\* An answer changes what is acknowledged; the call is in effect when it is "ok".
LEMMA AnswerSees ==
    ASSUME Shape, Barrier, Calm, Seen, NEW w \in Writers, NEW a \in {"ok", "error"},
           op[w].pc # "idle", a = "ok" => op[w].pc \in {"applied", "synced"},
           txs' = AnsweredIn(txs, op[w].tx, a), op' = EndedIn(op, w),
           wal'.frames = wal.frames, db' = db \/ db' = << Stored >>, phase' = phase
    PROVE  /\ Seen' /\ Visible' = Visible /\ DOMAIN txs' = DOMAIN txs
           /\ op[w].tx \in DOMAIN txs /\ txs[op[w].tx].answer = "none"
           /\ txs'[op[w].tx].answer = a
           /\ \A i \in DOMAIN txs : /\ txs'[i].keys = txs[i].keys
                                    /\ i # op[w].tx => txs'[i] = txs[i]
           /\ a = "ok" => op[w].tx \in Visible
<1> DEFINE t == op[w].tx
<1>1. t \in DOMAIN txs /\ t = Len(txs) /\ txs[t].answer = "none" /\ phase = "open"
      /\ DOMAIN txs = 1..Len(txs)
  BY CommitOnly, OpUnderWay, Typed
<1>2. /\ DOMAIN txs' = DOMAIN txs /\ txs'[t].answer = a
      /\ \A i \in DOMAIN txs : txs'[i].keys = txs[i].keys /\ (i # t => txs'[i] = txs[i])
  BY AnswerEnds
<1>3. Stored' = Stored /\ Among(db', db)
  BY StoredStays
<1>4. Visible' = Visible /\ Visible = Stored.done
  <2>1. \A i : i \in Visible' <=> i \in Stored.done
    BY <1>1, <1>3, VisibleIs
  <2> QED BY <1>1, <2>1, VisibleCalls
<1>5. a = "ok" => t \in Visible
  BY <1>4, CoveredAreDone DEF Barrier
<1> HIDE DEF t
<1>6. Acked' \ Visible' \subseteq Acked \ Visible
  <2> SUFFICES ASSUME NEW i \in Acked', i \notin Visible
               PROVE  i \in Acked
    BY <1>4
  <2>1. i \in DOMAIN txs /\ txs'[i].answer = "ok"
    BY <1>2 DEF Acked
  <2>2. i # t
    BY <1>2, <1>5, <2>1
  <2> QED BY <1>2, <2>1, <2>2 DEF Acked
<1>7. Written'
  BY <1>1, <1>2, <1>3, WrittenStays DEF Seen
<1>8. Gone'
  BY <1>3, <1>6, GoneStays DEF Seen
<1> QED BY <1>1, <1>2, <1>4, <1>5, <1>7, <1>8 DEF Seen, t

\* Steps that store the same and whose log keeps some of its frames, of the calls
\* of an open store.
LEMMA OpenStoreSees ==
    ASSUME Shape, Seen, phase = "open", phase' = "open", UNCHANGED txs,
           Slice(wal'.frames, wal.frames), db' = db \/ db' = << Stored >>
    PROVE  Seen' /\ Visible' = Visible
<1>1. Stored' = Stored /\ Among(db', db)
  BY StoredStays
<1>2. Visible' = Visible
  <2>1. \A i : i \in Visible' <=> i \in Visible
    BY <1>1, VisibleIs
  <2> QED BY <2>1
<1>3. Acked' = Acked
  BY DEF Acked
<1>4. \A n \in DOMAIN wal'.frames : \E p \in DOMAIN wal.frames : wal'.frames[n] = wal.frames[p]
  BY DEF Slice
<1>5. Written'
  BY <1>1, WrittenStays DEF Seen
<1>6. Gone'
  BY <1>1, <1>2, <1>3, <1>4, GoneStays DEF Seen
<1> QED BY <1>2, <1>5, <1>6 DEF Seen

\* What maintenance and a power loss leave of the log.
LEMMA MaintenanceSlices ==
    ASSUME Shape, Maintenance
    PROVE  Slice(wal'.frames, wal.frames)
<1>1. CASE wal' = wal
  BY <1>1, AmongItself
<1>2. CASE TickSync
  <2>1. wal'.frames = wal.frames
    BY <1>2, Typed, LogSynced DEF TickSync
  <2> QED BY <2>1, AmongItself
<1>3. CASE Compact
  <2>1. keeper.upto \in Nat /\ Immediate \in BOOLEAN
    BY DEF Shape, KeeperShape, Immediate
  <2> QED BY <1>3, <2>1, CompactedSlice, Typed DEF Compact
<1>4. wal' = wal \/ TickSync \/ Compact
  BY DEF Maintenance, TickFlush, CheckpointFlush, CheckpointMark, CompactAppliedMark
<1> QED BY <1>1, <1>2, <1>3, <1>4

LEMMA PowerLossSlices ==
    ASSUME Shape, PowerLoss
    PROVE  Slice(wal'.frames, wal.frames)
<1>1. CASE \E n \in 0..Len(wal.frames) : wal'.frames = SubSeq(wal.frames, 1, n)
  <2>1. PICK n \in 0..Len(wal.frames) : wal'.frames = SubSeq(wal.frames, 0 + 1, n)
    BY <1>1
  <2>2. 0 \in 0..Len(wal.frames)
    BY Typed
  <2>3. Slice(SubSeq(wal.frames, 0 + 1, n), wal.frames)
    BY <2>2, Typed, SubSeqIsSlice
  <2> QED BY <2>1, <2>3
<1>2. CASE wal' = NoFile
  <2>1. \A i \in DOMAIN wal'.frames : FALSE
    BY <1>2 DEF NoFile
  <2> QED BY <2>1 DEF Slice
<1> QED BY <1>1, <1>2, PowerLossLog

LEMMA SyncLogSees ==
    ASSUME Shape, Seen, NEW w \in Writers, SyncLog(w)
    PROVE  Seen' /\ Visible' = Visible
<1>1. op[w].pc # "idle" /\ UNCHANGED << phase, txs, db >>
  BY DEF SyncLog
<1>2. phase = "open"
  BY <1>1, OpUnderWay
<1>3. wal'.frames = wal.frames
  BY Typed, LogSynced DEF SyncLog
<1> QED BY <1>1, <1>2, <1>3, AmongItself, OpenStoreSees

LEMMA MaintenanceSees ==
    ASSUME Shape, Seen, Maintenance
    PROVE  Seen' /\ Visible' = Visible
<1>1. UNCHANGED << txs, phase >> /\ (db' = db \/ db' = << Stored >>)
  BY DEF Maintenance, Maintain, TickSync, TickFlush, CheckpointFlush, CheckpointMark,
         CompactAppliedMark, Compact
<1>2. phase = "open"
  BY DEF Maintenance, TickSync, TickFlush, CheckpointFlush, CheckpointMark,
         CompactAppliedMark, Compact, Shape, KeeperShape
<1>3. Slice(wal'.frames, wal.frames)
  BY MaintenanceSlices
<1> QED BY <1>1, <1>2, <1>3, OpenStoreSees

LEMMA MaintenanceFailsSees ==
    ASSUME Shape, Seen, MaintenanceFails
    PROVE  Seen' /\ Visible' = Visible
BY DEF MaintenanceFails, Seen, Written, Gone, Acked, Visible, Stored

\* The end of the process: calls whose frames are in the log come into effect.
LEMMA ProcessCrashSees ==
    ASSUME Shape, Seen, ProcessCrash
    PROVE  /\ Seen' /\ Visible \subseteq Visible'
           /\ (Visible' \ Visible) \cap Acked = {}
<1>1. /\ UNCHANGED << db, txs >> /\ wal'.frames = wal.frames /\ phase' = "down" /\ Stored' = Stored
  BY TornKeeps DEF ProcessCrash, Stop, Stored
<1>2. \A i : i \in Visible' <=> Held(i, Stored, wal.frames)
  BY <1>1, VisibleIs
<1>3. Visible \subseteq Visible'
  <2>1. \A i : i \in Visible => Held(i, Stored, wal.frames)
    BY VisibleIs DEF Held
  <2> QED BY <1>2, <2>1
<1>4. Acked' = Acked
  BY <1>1 DEF Acked
<1>5. (Visible' \ Visible) \cap Acked = {}
  BY <1>2, Typed DEF Seen, Gone
<1>6. Among(db', db)
  BY <1>1, AmongItself
<1>7. Written'
  BY <1>1, <1>6, WrittenStays DEF Seen
<1>8. Gone'
  BY <1>1, <1>3, <1>4, <1>6, GoneStays DEF Seen
<1> QED BY <1>3, <1>5, <1>7, <1>8 DEF Seen

\* A power loss: what is left is in the state the backend fell back to, or in the log.
LEMMA PowerLossSees ==
    ASSUME Shape, Barrier, Seen, PowerLoss
    PROVE  /\ Seen' /\ promised \subseteq Visible'
           /\ (Visible' \ Visible) \cap Acked = {}
<1>1. UNCHANGED txs /\ phase' = "down" /\ Slice(wal'.frames, wal.frames)
  BY PowerLossSlices DEF PowerLoss, Stop
<1>2. PICK e \in DOMAIN db : db' = << db[e] >>
  BY DEF PowerLoss
<1>3. Stored' = db[e] /\ DOMAIN db' = {1} /\ db'[1] = db[e]
  <2>1. Len(<< db[e] >>) = 1 /\ << db[e] >>[1] = db[e] /\ DOMAIN << db[e] >> = {1}
    OBVIOUS
  <2> QED BY <1>2, <2>1 DEF Stored, Last
<1>4. \A i : i \in Visible' <=> Held(i, db[e], wal'.frames)
  BY <1>1, <1>3, VisibleIs
<1>5. \A i : Held(i, db[e], wal'.frames) => Held(i, db[e], wal.frames)
  BY <1>1 DEF Held, Slice
<1>6. Among(db', db)
  BY <1>2, AmongItself
<1>7. Acked' = Acked
  BY <1>1 DEF Acked
<1>8. (Visible' \ Visible) \cap Acked = {}
  BY <1>2, <1>4, <1>5 DEF Seen, Gone
<1>9. promised \subseteq Visible'
  <2>1. 1 \in DOMAIN db /\ 1 <= e
    BY <1>2, Typed, LastState
  <2>2. promised \subseteq db[e].done
    BY <2>1 DEF Barrier, DoneGrows
  <2> QED BY <1>4, <2>2 DEF Held
<1>10. Written'
  BY <1>1, <1>6, WrittenStays DEF Seen
<1>11. Gone'
  BY <1>3, <1>4 DEF Gone
<1> QED BY <1>8, <1>9, <1>10, <1>11 DEF Seen

\* Recovery begins, or has nothing to apply.
LEMMA OpenSees ==
    ASSUME Shape, Seen, Open
    PROVE  Seen' /\ Visible' = Visible
<1>1. /\ UNCHANGED << db, wal, txs >> /\ phase = "down" /\ Stored' = Stored
      /\ replay' = {n \in DOMAIN wal.frames : wal.frames[n].seq > Stored.marker}
      /\ phase' = IF replay' = {} THEN "open" ELSE "recovering"
  BY DEF Open, Stored
<1>2. Visible' = Visible
  <2>1. \A i : i \in Visible <=> Held(i, Stored, wal.frames)
    BY <1>1, VisibleIs
  <2>2. CASE replay' = {}
    <3>1. \A i : i \in Visible' <=> i \in Stored.done
      BY <1>1, <2>2, VisibleIs
    <3>2. \A i : Held(i, Stored, wal.frames) <=> i \in Stored.done
      BY <1>1, <2>2 DEF Held
    <3>3. \A i : i \in Visible' <=> i \in Visible
      BY <2>1, <3>1, <3>2
    <3> QED BY <3>3
  <2>3. CASE replay' # {}
    <3>1. \A i : i \in Visible' <=> i \in Visible
      BY <1>1, <2>1, <2>3, VisibleIs
    <3> QED BY <3>1
  <2> QED BY <2>2, <2>3
<1>3. Acked' = Acked
  BY <1>1 DEF Acked
<1>4. Among(db', db)
  BY <1>1, AmongItself
<1>5. Written'
  BY <1>1, <1>4, WrittenStays DEF Seen
<1>6. Gone'
  BY <1>1, <1>2, <1>3, <1>4, GoneStays DEF Seen
<1> QED BY <1>2, <1>5, <1>6 DEF Seen

\* A repair drops only frames at or below the marker.
LEMMA RepairSees ==
    ASSUME Shape, Calm, Seen, Repair
    PROVE  Seen' /\ Visible' = Visible
<1>1. UNCHANGED << db, phase, txs >> /\ phase = "down" /\ FileNext <= Stored.marker /\ Stored' = Stored
  BY DEF Repair, Stored
<1>2. \A n \in DOMAIN wal.frames : wal.frames[n].seq <= FileNext
      /\ FileNext \in Nat
  BY NextCoversFrames DEF Calm, Agreed
<1>3. Slice(wal'.frames, wal.frames)
  <2>1. FileNext \in Nat /\ Stored.marker \in Nat
    BY NextCoversFrames, Typed DEF Calm, Agreed
  <2> QED BY <2>1, CompactedSlice DEF Repair
<1>4. \A n \in DOMAIN wal.frames : ~(wal.frames[n].seq > Stored.marker)
  BY <1>1, <1>2, Typed
<1>5. \A n \in DOMAIN wal'.frames : \E p \in DOMAIN wal.frames : wal'.frames[n] = wal.frames[p]
  BY <1>3 DEF Slice
<1>6. Visible' = Visible
  <2>1. \A i : i \in Visible <=> i \in Stored.done
    BY <1>1, <1>4, VisibleIs DEF Held
  <2>2. \A i : i \in Visible' <=> i \in Stored.done
    BY <1>1, <1>4, <1>5, VisibleIs DEF Held
  <2>3. \A i : i \in Visible' <=> i \in Visible
    BY <2>1, <2>2
  <2> QED BY <2>3
<1>7. Acked' = Acked
  BY <1>1 DEF Acked
<1>8. Among(db', db)
  BY <1>1, AmongItself
<1>9. Written'
  BY <1>1, <1>8, WrittenStays DEF Seen
<1>10. Gone'
  BY <1>5, <1>6, <1>7, <1>8, GoneStays DEF Seen
<1> QED BY <1>6, <1>9, <1>10 DEF Seen

\* What is visible does not change when one of the frames that wait is applied.
LEMMA ReplayHolds ==
    ASSUME Shape, Barrier, Calm, Replay
    PROVE  /\ \A i : Held(i, Replayed, wal.frames) <=> Held(i, Stored, wal.frames)
           /\ replay' = {} => \A i : Held(i, Replayed, wal.frames) => i \in Replayed.done
<1> DEFINE fs == wal.frames
           p == Min(replay)
<1>1. /\ p \in replay /\ p \in DOMAIN fs /\ \A n \in replay : p <= n
      /\ Replayed.done = Stored.done \cup {fs[p].tx} /\ Replayed.marker = fs[p].seq
      /\ replay' = replay \ {p}
  BY ReplayTakes, ReplayMoves DEF NextFrame
<1>2. /\ replay = {n \in DOMAIN fs : fs[n].seq > Stored.marker}
      /\ InOrder(fs)
  BY Typed DEF Calm, Agreed, Replay
<1>3. /\ DOMAIN fs \subseteq Nat /\ Stored.marker \in Nat
      /\ \A n \in DOMAIN fs : fs[n].seq \in Nat
  BY Typed
<1> HIDE DEF fs, p
<1>4. \A n \in DOMAIN fs : fs[n].seq > fs[p].seq <=> n \in replay \ {p}
  <2> TAKE n \in DOMAIN fs
  <2>1. fs[p].seq > Stored.marker /\ fs[p].seq \in Nat /\ fs[n].seq \in Nat /\ n \in Nat /\ p \in Nat
    BY <1>1, <1>2, <1>3
  <2>2. CASE n < p
    <3>1. fs[n].seq < fs[p].seq
      BY <1>1, <1>2, <2>2 DEF InOrder
    <3>2. n \notin replay
      <4>1. ~(p <= n)
        BY <2>1, <2>2
      <4> QED BY <1>1, <4>1
    <3>3. ~(fs[n].seq > fs[p].seq)
      BY <2>1, <3>1
    <3> QED BY <3>2, <3>3
  <2>3. CASE n = p
    BY <2>1, <2>3
  <2>4. CASE p < n
    <3>1. fs[p].seq < fs[n].seq
      BY <1>1, <1>2, <2>4 DEF InOrder
    <3>2. fs[n].seq > Stored.marker /\ fs[n].seq > fs[p].seq
      BY <1>3, <2>1, <3>1
    <3>3. n # p /\ n \in replay
      BY <1>2, <2>1, <2>4, <3>2
    <3> QED BY <3>2, <3>3
  <2> QED BY <2>1, <2>2, <2>3, <2>4
<1>5. \A i : Held(i, Replayed, fs) <=> i \in Stored.done \/ \E n \in replay : fs[n].tx = i
  BY <1>1, <1>2, <1>4 DEF Held
<1>6. \A i : Held(i, Stored, fs) <=> i \in Stored.done \/ \E n \in replay : fs[n].tx = i
  BY <1>2 DEF Held
<1>7. replay' = {} => \A i : Held(i, Replayed, fs) => i \in Replayed.done
  BY <1>1, <1>4 DEF Held
<1> QED BY <1>5, <1>6, <1>7 DEF fs

LEMMA ReplaySees ==
    ASSUME Shape, Barrier, Calm, Seen, Replay
    PROVE  Seen' /\ Visible' = Visible
<1>1. /\ db' = Append(db, Replayed) \/ db' = << Replayed >>
      /\ UNCHANGED txs /\ phase = "recovering"
      /\ phase' = IF replay' = {} THEN "open" ELSE "recovering"
  BY ReplayMoves
<1>2. wal'.frames = wal.frames
  BY ReplayMoves, Typed, LogSynced
<1>3. /\ Replayed \in States(Len(txs)) /\ BackendShape(db, Len(txs)) /\ Len(txs) \in Nat
      /\ NextFrame.tx \in 1..Len(txs) /\ NextFrame.seq \in Nat
  BY ReplayTakes, Typed
<1>4. /\ Stored' = Replayed
      /\ \A j \in DOMAIN db' : db'[j] = Replayed \/ \E i \in DOMAIN db : db'[j] = db[i]
  BY <1>1, <1>3, StoredAfter
<1>5. /\ \A i : Held(i, Replayed, wal.frames) <=> Held(i, Stored, wal.frames)
      /\ replay' = {} => \A i : Held(i, Replayed, wal.frames) => i \in Replayed.done
  BY ReplayHolds
<1>6. \A i : i \in Visible <=> Held(i, Replayed, wal.frames)
  BY <1>1, <1>5, VisibleIs
<1>7. Visible' = Visible
  <2>1. \A i : i \in Replayed.done => Held(i, Replayed, wal.frames)
    BY DEF Held
  <2>2. CASE replay' = {}
    <3>1. \A i : i \in Visible' <=> i \in Replayed.done
      BY <1>1, <1>4, <2>2, VisibleIs
    <3>2. \A i : i \in Visible' <=> i \in Visible
      BY <1>5, <1>6, <2>1, <2>2, <3>1
    <3> QED BY <3>2
  <2>3. CASE replay' # {}
    <3>1. \A i : i \in Visible' <=> i \in Visible
      BY <1>1, <1>2, <1>4, <1>6, <2>3, VisibleIs
    <3> QED BY <3>1
  <2> QED BY <2>2, <2>3
<1>8. Written'
  <2>1. LET s == Applied(Stored, NextFrame.tx, NextFrame.seq) IN db' = Append(db, s) \/ db' = << s >>
    BY <1>1 DEF Replayed
  <2> QED BY <1>1, <1>3, <2>1, WrittenApplied DEF Seen
<1>9. Gone'
  <2> SUFFICES ASSUME NEW i \in Acked' \ Visible', NEW j \in DOMAIN db', Held(i, db'[j], wal'.frames)
               PROVE  FALSE
    BY DEF Gone
  <2>1. i \in Acked \ Visible
    BY <1>1, <1>7 DEF Acked
  <2>2. CASE db'[j] = Replayed
    BY <1>2, <1>6, <2>1, <2>2
  <2>3. CASE \E e \in DOMAIN db : db'[j] = db[e]
    BY <1>2, <2>1, <2>3 DEF Seen, Gone
  <2> QED BY <1>4, <2>2, <2>3
<1> QED BY <1>7, <1>8, <1>9 DEF Seen

----------------------------------------------------------------------------
(* The steps of DurableHistory.                                            *)

CallsMap == [i \in DOMAIN txs |-> [keys |-> txs[i].keys, answer |-> txs[i].answer]]
ShownMap == IF phase = "open" THEN Stored.data ELSE NewestOf(Visible)
HistoryVars == << Immediate, CallsMap, Visible, promised, ShownMap >>

\* The step is one of DurableHistory, or changes nothing its callers see.
Follows == [History!Next]_HistoryVars

View == Shape /\ Barrier /\ Calm /\ Seen

\* The newest of the calls in effect, as DurableHistory and as this module says it.
LEMMA NewestIs ==
    ASSUME NEW cs, NEW seen, \A i \in seen : cs[i].keys = txs[i].keys
    PROVE  History!Newest(cs, seen) = NewestOf(seen)
<1>1. \A k \in Keys : {i \in seen : k \in cs[i].keys} = {i \in seen : k \in txs[i].keys}
  OBVIOUS
<1>2. \A S : History!Max(S) = Max(S)
  BY DEF History!Max, Max
<1> QED BY <1>1, <1>2 DEF History!Newest, NewestOf

\* The records always show the newest of the calls in effect.
LEMMA ShowsNewest ==
    ASSUME View
    PROVE  ShownMap = NewestOf(Visible)
<1>1. CASE phase # "open"
  BY <1>1 DEF ShownMap
<1>2. CASE phase = "open"
  <2>1. Shape /\ Visible = Stored.done /\ Stored = db[Len(db)] /\ Len(db) \in DOMAIN db
        /\ Stored \in States(Len(txs)) /\ Stored.done \subseteq 1..Len(txs)
    BY <1>2, VisibleCalls, Typed, LastState DEF View
  <2>2. Shows(Stored, txs) /\ Writes(Stored, txs)
    BY <2>1 DEF View, Calm, Agreed, Seen, Written
  <2>3. ASSUME NEW k \in Keys
        PROVE  Max({0} \cup {i \in Visible : k \in txs[i].keys}) = Stored.data[k]
    <3> DEFINE S == {0} \cup {i \in Visible : k \in txs[i].keys}
    <3>1. S \in SUBSET Nat
      BY <2>1
    <3>2. Stored.data[k] \in S
      BY <2>1, <2>2 DEF Shows, Writes
    <3>3. \A i \in S : i <= Stored.data[k]
      <4>1. Stored.data[k] \in Nat
        BY <2>1 DEF States
      <4>2. \A i \in Stored.done : k \in txs[i].keys => Stored.data[k] >= i
        BY <2>2 DEF Shows
      <4> QED BY <2>1, <4>1, <4>2
    <3> HIDE DEF S
    <3>4. Max(S) = Stored.data[k]
      BY <3>1, <3>2, <3>3, MaxIsUnique
    <3> QED BY <3>4 DEF S
  <2>4. Stored.data = [k \in Keys |-> Stored.data[k]]
    BY <2>1 DEF States
  <2>5. NewestOf(Visible) = [k \in Keys |-> Stored.data[k]]
    BY <2>3 DEF NewestOf
  <2> QED BY <1>2, <2>4, <2>5 DEF ShownMap
<1> QED BY <1>1, <1>2

InEffect == ShownMap = NewestOf(Visible) /\ Visible \subseteq DOMAIN txs

LEMMA ViewShows == View => InEffect
<1>1. View => ShownMap = NewestOf(Visible)
  BY ShowsNewest
<1>2. View => Shape
  BY DEF View
<1>3. Shape => Visible \subseteq DOMAIN txs
  BY VisibleCalls, Typed
<1> QED BY <1>1, <1>2, <1>3 DEF InEffect

LEMMA ViewShowsNext == View' => InEffect'
BY ViewShows, PTL

\* The same after a step, of calls whose records are known.
LEMMA ShownAfter ==
    ASSUME View', NEW cs, \A i \in Visible' : cs[i].keys = txs'[i].keys
    PROVE  ShownMap' = History!Newest(cs, Visible')
<1>1. \A k \in Keys : {i \in Visible' : k \in cs[i].keys} = {i \in Visible' : k \in txs'[i].keys}
  OBVIOUS
<1>2. \A S : History!Max(S) = Max(S)
  BY DEF History!Max, Max
<1> QED BY <1>1, <1>2, ViewShowsNext DEF InEffect, History!Newest, NewestOf

LEMMA CallsMapIs ==
    ASSUME View
    PROVE  /\ DOMAIN CallsMap = DOMAIN txs /\ DOMAIN txs = 1..Len(txs) /\ Len(txs) \in Nat
           /\ Len(CallsMap) = Len(txs)
           /\ \A i \in DOMAIN txs : CallsMap[i].keys = txs[i].keys /\ CallsMap[i].answer = txs[i].answer
           /\ Visible \subseteq DOMAIN txs
           /\ History!Acknowledged(CallsMap) = Acked
<1>1. Shape /\ DOMAIN txs = 1..Len(txs) /\ Len(txs) \in Nat
  BY Typed DEF View
<1>2. Len(CallsMap) = Len(txs)
  BY <1>1 DEF CallsMap
<1>3. History!Acknowledged(CallsMap) = Acked
  BY DEF History!Acknowledged, CallsMap, Acked
<1> QED BY <1>1, <1>2, <1>3, VisibleCalls DEF CallsMap

\* Steps after which the same calls are in effect.
LEMMA ShownStays ==
    ASSUME View, View', Visible' = Visible, \A i \in DOMAIN txs : txs'[i].keys = txs[i].keys
    PROVE  ShownMap' = ShownMap
<1>1. \A i \in Visible : txs'[i].keys = txs[i].keys
  BY CallsMapIs
<1>2. ShownMap' = History!Newest(txs, Visible')
  BY <1>1, ShownAfter
<1>3. History!Newest(txs, Visible) = NewestOf(Visible)
  BY NewestIs
<1> QED BY <1>2, <1>3, ShowsNewest

\* Steps that change neither the calls nor what is visible.
LEMMA CallersSeeNothing ==
    ASSUME View, View', Visible' = Visible, mode' = mode, DOMAIN txs' = DOMAIN txs,
           \A i \in DOMAIN txs : txs'[i].keys = txs[i].keys /\ txs'[i].answer = txs[i].answer
    PROVE  UNCHANGED << Immediate, CallsMap, Visible, ShownMap >>
<1>1. CallsMap' = CallsMap
  BY DEF CallsMap
<1>2. ShownMap' = ShownMap
  BY ShownStays
<1> QED BY <1>1, <1>2 DEF Immediate

LEMMA StaysFollow ==
    ASSUME View, View', Visible' = Visible, UNCHANGED << mode, promised >>, DOMAIN txs' = DOMAIN txs,
           \A i \in DOMAIN txs : txs'[i].keys = txs[i].keys /\ txs'[i].answer = txs[i].answer
    PROVE  Follows
BY CallersSeeNothing DEF Follows, HistoryVars

\* The steps of DurableHistory that are of one call.
LEMMA CallFollows ==
    ASSUME NEW t \in DOMAIN txs,
           History!TakeEffect(t) \/ History!Acknowledge(t) \/ History!Refuse(t)
    PROVE  Follows
<1>1. DOMAIN [i \in DOMAIN txs |-> [keys |-> txs[i].keys, answer |-> txs[i].answer]] = DOMAIN txs
  OBVIOUS
<1>2. History!Next
  BY <1>1 DEF History!Next
<1> QED BY <1>2 DEF Follows

LEMMA BarrierFollows ==
    ASSUME View, View', Visible' = Visible, mode' = mode, UNCHANGED txs, phase = "open",
           promised' = Covered
    PROVE  Follows
<1>1. UNCHANGED << Immediate, CallsMap, Visible, ShownMap >>
  BY CallersSeeNothing
<1>2. Covered \subseteq promised \cup (Visible \cap Acked)
  BY VisibleCalls DEF Covered, View
<1>3. History!Acknowledged(CallsMap') = Acked
  BY <1>1, CallsMapIs
<1>4. History!Secure
  BY <1>1, <1>2, <1>3 DEF History!Secure, History!Barrier, Covered, ShownMap, CallsMap
<1> QED BY <1>4 DEF Follows, History!Next

LEMMA BeginFollows ==
    ASSUME View, View', NEW keys \in SUBSET Keys \ {{}}, Begin("commit", keys)
    PROVE  Follows
<1> DEFINE c == [keys |-> keys, answer |-> "none"]
<1>1. Shape /\ Seen /\ "commit" \in Writers /\ keys \in SUBSET Keys
  BY DEF View, Writers
<1>2. Visible' = Visible
  BY <1>1, BeginSees
<1>3. /\ \A i \in DOMAIN txs : txs'[i] = txs[i]
      /\ DOMAIN txs = 1..Len(txs) /\ DOMAIN txs' = 1..(Len(txs) + 1) /\ Len(txs) \in Nat
      /\ txs'[Len(txs) + 1].answer = "none"
  BY <1>1, BeginGrows, Typed
<1>4. txs'[Len(txs) + 1].keys = keys
  <2> DEFINE d == [audit |-> "commit" = "audit", keys |-> keys, answer |-> "none", logged |-> FALSE]
  <2>1. txs' = Append(txs, d) /\ txs \in Seq(Calls) /\ d.keys = keys
    BY <1>1 DEF Begin, Shape
  <2> HIDE DEF d
  <2> QED BY <2>1
<1>5. CallsMap' = Append(CallsMap, c)
  <2>1. CallsMap' = [i \in 1..(Len(txs) + 1) |-> [keys |-> txs'[i].keys, answer |-> txs'[i].answer]]
    BY <1>3 DEF CallsMap
  <2>2. Append(CallsMap, c) = [i \in 1..(Len(CallsMap) + 1) |->
                                  IF i = Len(CallsMap) + 1 THEN c ELSE CallsMap[i]]
    OBVIOUS
  <2>3. ASSUME NEW i \in 1..(Len(txs) + 1)
        PROVE  [keys |-> txs'[i].keys, answer |-> txs'[i].answer]
                  = IF i = Len(txs) + 1 THEN c ELSE CallsMap[i]
    <3>1. CASE i = Len(txs) + 1
      BY <1>3, <1>4, <3>1
    <3>2. CASE i # Len(txs) + 1
      <4>1. i \in DOMAIN txs
        BY <1>3, <3>2
      <4> QED BY <1>3, <3>2, <4>1 DEF CallsMap
    <3> QED BY <3>1, <3>2
  <2>4. Len(CallsMap) = Len(txs)
    BY CallsMapIs
  <2> HIDE DEF c
  <2> QED BY <2>1, <2>2, <2>3, <2>4
<1>6. ShownMap' = ShownMap
  BY <1>2, <1>3, ShownStays
<1>7. UNCHANGED << Immediate, promised >>
  BY DEF Begin, config, Immediate
<1>8. History!Begin
  BY <1>2, <1>5, <1>6, <1>7 DEF History!Begin, CallsMap, ShownMap
<1> QED BY <1>8 DEF Follows, History!Next

LEMMA ApplyBatchFollows ==
    ASSUME View, View', NEW w \in Writers, ApplyBatch(w)
    PROVE  Follows
<1> DEFINE m == Len(txs)
<1>1. /\ Visible' = Visible \cup {m} /\ m \in DOMAIN txs /\ txs[m].answer = "none"
      /\ \A i \in Visible : i < m
  BY ApplyBatchSees DEF View
<1>2. UNCHANGED << txs, promised >> /\ mode' = mode
  BY DEF ApplyBatch, config
<1>3. \A i \in Visible' : CallsMap[i].keys = txs'[i].keys
  BY <1>1, <1>2, CallsMapIs
<1>4. ShownMap' = History!Newest(CallsMap, Visible')
  BY <1>3, ShownAfter
<1>5. UNCHANGED << Immediate, CallsMap, promised >>
  BY <1>2 DEF Immediate, CallsMap
<1>6. CallsMap[m].answer = "none" /\ m \in DOMAIN CallsMap
  BY <1>1, CallsMapIs
<1> HIDE DEF m
<1>7. History!TakeEffect(m)
  BY <1>1, <1>4, <1>5, <1>6 DEF History!TakeEffect, CallsMap, ShownMap
<1> QED BY <1>1, <1>7, CallFollows

\* Answers.
LEMMA AnswerFollows ==
    ASSUME View, View', Visible' = Visible, mode' = mode, DOMAIN txs' = DOMAIN txs,
           NEW t \in DOMAIN txs, NEW a, txs[t].answer = "none", txs'[t].answer = a,
           \A i \in DOMAIN txs : txs'[i].keys = txs[i].keys /\ (i # t => txs'[i] = txs[i])
    PROVE  History!Answer(t, a)
<1>1. CallsMap[t].answer = "none"
  BY CallsMapIs
<1>2. CallsMap' = [CallsMap EXCEPT ![t].answer = a]
  <2>1. ASSUME NEW i \in DOMAIN txs
        PROVE  [keys |-> txs'[i].keys, answer |-> txs'[i].answer]
                  = [CallsMap EXCEPT ![t].answer = a][i]
    <3>1. CASE i = t
      BY <3>1 DEF CallsMap
    <3>2. CASE i # t
      BY <3>2 DEF CallsMap
    <3> QED BY <3>1, <3>2
  <2>2. CallsMap' = [i \in DOMAIN txs |-> [keys |-> txs'[i].keys, answer |-> txs'[i].answer]]
    BY DEF CallsMap
  <2>3. DOMAIN [CallsMap EXCEPT ![t].answer = a] = DOMAIN txs
    BY DEF CallsMap
  <2>4. [CallsMap EXCEPT ![t].answer = a] = [i \in DOMAIN txs |-> [CallsMap EXCEPT ![t].answer = a][i]]
    BY DEF CallsMap
  <2> QED BY <2>1, <2>2, <2>4
<1>3. ShownMap' = ShownMap
  BY ShownStays
<1>4. Immediate' = Immediate
  BY DEF Immediate
<1> QED BY <1>1, <1>2, <1>3, <1>4 DEF History!Answer, CallsMap, ShownMap

LEMMA AnswerAcknowledges ==
    ASSUME NEW t, History!Answer(t, "ok"), t \in Visible, promised \subseteq promised',
           promised' \subseteq promised \cup (Visible \cap Acked'), Immediate => t \in promised'
    PROVE  History!Acknowledge(t)
<1>1. History!Acknowledged(CallsMap') = Acked'
  BY DEF History!Acknowledged, CallsMap, Acked
<1>2. History!Barrier
  BY <1>1 DEF History!Barrier, CallsMap
<1> QED BY <1>2 DEF History!Acknowledge

LEMMA AcknowledgeFollows ==
    ASSUME View, View', Visible' = Visible, mode' = mode, DOMAIN txs' = DOMAIN txs,
           NEW t \in DOMAIN txs, txs[t].answer = "none", txs'[t].answer = "ok",
           \A i \in DOMAIN txs : txs'[i].keys = txs[i].keys /\ (i # t => txs'[i] = txs[i]),
           t \in Visible, promised \subseteq promised',
           promised' \subseteq promised \cup (Visible \cap Acked'), Immediate => t \in promised'
    PROVE  Follows
<1>1. History!Answer(t, "ok")
  BY AnswerFollows
<1>2. History!Acknowledge(t)
  BY <1>1, AnswerAcknowledges
<1> QED BY <1>2, CallFollows

LEMMA RefuseFollows ==
    ASSUME View, View', Visible' = Visible, mode' = mode, DOMAIN txs' = DOMAIN txs,
           NEW t \in DOMAIN txs, txs[t].answer = "none", txs'[t].answer = "error",
           \A i \in DOMAIN txs : txs'[i].keys = txs[i].keys /\ (i # t => txs'[i] = txs[i]),
           promised' = promised
    PROVE  Follows
<1>1. History!Answer(t, "error")
  BY AnswerFollows
<1>2. History!Refuse(t)
  BY <1>1 DEF History!Refuse
<1> QED BY <1>2, CallFollows

LEMMA AnswersFollow ==
    ASSUME View, View', NEW w \in Writers, AnswerBuffered(w) \/ AnswerFlushed(w) \/ Fail(w)
    PROVE  Follows
<1> DEFINE t == op[w].tx
           a == txs'[t].answer
<1>1. /\ op[w].pc # "idle" /\ op' = EndedIn(op, w) /\ phase' = phase /\ mode' = mode
      /\ wal'.frames = wal.frames /\ (db' = db \/ db' = << Stored >>)
  <2>1. Fail(w) => wal'.frames = wal.frames
    BY TornKeeps DEF Fail, View
  <2> QED BY <2>1 DEF AnswerBuffered, AnswerFlushed, Fail, EndedIn, config
<1>2. CASE AnswerBuffered(w) \/ AnswerFlushed(w)
  <2>1. txs' = AnsweredIn(txs, t, "ok") /\ op[w].pc \in {"applied", "synced"}
    BY <1>2 DEF AnswerBuffered, AnswerFlushed, Answered, AnsweredIn
  <2>2. /\ Visible' = Visible /\ DOMAIN txs' = DOMAIN txs
        /\ t \in DOMAIN txs /\ txs[t].answer = "none" /\ a = "ok" /\ t \in Visible
        /\ \A i \in DOMAIN txs : txs'[i].keys = txs[i].keys /\ (i # t => txs'[i] = txs[i])
    BY <1>1, <2>1, AnswerSees DEF View
  <2> HIDE DEF t, a
  <2>3. Acked \cup {t} \subseteq Acked'
    BY <2>2 DEF Acked, a
  <2>4. Covered \subseteq promised \cup (Visible \cap Acked)
    BY VisibleCalls DEF Covered, View
  <2>5. \/ promised' = promised /\ ~Immediate
        \/ promised' = Covered \cup {t}
    BY <1>2 DEF AnswerBuffered, AnswerFlushed, t
  <2>6. promised \subseteq promised' /\ promised' \subseteq promised \cup (Visible \cap Acked')
    BY <2>2, <2>3, <2>4, <2>5 DEF Covered
  <2>7. Immediate => t \in promised'
    BY <2>5
  <2> QED BY <1>1, <2>2, <2>6, <2>7, AcknowledgeFollows DEF a
<1>3. CASE Fail(w)
  <2>1. txs' = AnsweredIn(txs, t, "error")
    BY <1>3 DEF Fail, Answered, AnsweredIn
  <2>2. /\ Visible' = Visible /\ DOMAIN txs' = DOMAIN txs
        /\ t \in DOMAIN txs /\ txs[t].answer = "none" /\ a = "error"
        /\ \A i \in DOMAIN txs : txs'[i].keys = txs[i].keys /\ (i # t => txs'[i] = txs[i])
    BY <1>1, <2>1, AnswerSees DEF View
  <2> HIDE DEF t, a
  <2>3. promised' = promised
    BY <1>3 DEF Fail
  <2> QED BY <1>1, <2>2, <2>3, RefuseFollows DEF a
<1> QED BY <1>2, <1>3

\* The calls are what they were.
LEMMA SameCalls ==
    ASSUME UNCHANGED txs
    PROVE  /\ DOMAIN txs' = DOMAIN txs
           /\ \A i \in DOMAIN txs : txs'[i].keys = txs[i].keys /\ txs'[i].answer = txs[i].answer
OBVIOUS

LEMMA CommitStepsFollow ==
    ASSUME View, View', NEW w \in Writers, AppendFrame(w) \/ SyncLog(w)
    PROVE  Follows
<1>1. CASE AppendFrame(w)
  <2>1. UNCHANGED << mode, promised >>
    BY <1>1 DEF AppendFrame, config
  <2> QED BY <1>1, <2>1, AppendFrameSees, StaysFollow DEF View
<1>2. CASE SyncLog(w)
  <2>1. UNCHANGED << mode, promised, txs >>
    BY <1>2 DEF SyncLog, config
  <2> QED BY <1>2, <2>1, SyncLogSees, SameCalls, StaysFollow DEF View
<1> QED BY <1>1, <1>2

LEMMA MaintenanceFollows ==
    ASSUME View, View', Maintenance
    PROVE  Follows
<1>1. Visible' = Visible
  BY MaintenanceSees DEF View
<1>2. /\ UNCHANGED << mode, txs >> /\ phase = "open"
      /\ promised' = promised \/ promised' = Covered
  BY DEF Maintenance, Maintain, TickSync, TickFlush, CheckpointFlush, CheckpointMark,
         CompactAppliedMark, Compact, config, View, Shape, KeeperShape
<1> QED BY <1>1, <1>2, SameCalls, StaysFollow, BarrierFollows

LEMMA RecoveryFollows ==
    ASSUME View, View', MaintenanceFails \/ Open \/ Replay \/ Repair
    PROVE  Follows
<1>1. Visible' = Visible
  BY MaintenanceFailsSees, OpenSees, ReplaySees, RepairSees DEF View
<1>2. UNCHANGED << mode, txs, promised >>
  BY DEF MaintenanceFails, Open, Replay, Repair, config
<1> QED BY <1>1, <1>2, SameCalls, StaysFollow

\* A crash: every call that comes into effect with it was in the log.
LEMMA CrashesFollow ==
    ASSUME View, View', ProcessCrash \/ PowerLoss
    PROVE  Follows
<1>1. UNCHANGED << mode, txs, promised >>
  BY DEF ProcessCrash, PowerLoss, Stop, config
<1>2. UNCHANGED << Immediate, CallsMap, promised >>
  BY <1>1 DEF Immediate, CallsMap
<1>3. Visible' \subseteq DOMAIN CallsMap
  <2>1. Visible' \subseteq DOMAIN txs'
    BY ViewShowsNext DEF InEffect
  <2> QED BY <1>1, <2>1, CallsMapIs
<1>4. ShownMap' = History!Newest(CallsMap, Visible')
  <2>1. \A i \in Visible' : CallsMap[i].keys = txs'[i].keys
    BY <1>1, <1>3, CallsMapIs
  <2> QED BY <2>1, ShownAfter
<1>5. (Visible' \ Visible) \cap Acked = {}
  BY ProcessCrashSees, PowerLossSees DEF View
<1>6. History!Acknowledged(CallsMap) = Acked
  BY CallsMapIs
<1>7. CASE ProcessCrash
  <2>1. Visible \subseteq Visible'
    BY <1>7, ProcessCrashSees DEF View
  <2>2. History!Restart
    BY <1>2, <1>3, <1>4, <1>5, <1>6, <2>1 DEF History!Restart, History!Reappear, CallsMap, ShownMap
  <2> QED BY <2>2 DEF Follows, History!Next
<1>8. CASE PowerLoss
  <2>1. promised \subseteq Visible'
    BY <1>8, PowerLossSees DEF View
  <2>2. History!PowerLoss
    BY <1>2, <1>3, <1>4, <1>5, <1>6, <2>1 DEF History!PowerLoss, History!Reappear, CallsMap, ShownMap
  <2> QED BY <2>2 DEF Follows, History!Next
<1> QED BY <1>7, <1>8

LEMMA NextSees ==
    ASSUME View, ~auditing, Next
    PROVE  Seen'
<1>0. Shape /\ Barrier /\ Calm /\ Seen /\ "commit" \in Writers
  BY DEF View, Writers
<1>1. CASE BeginCommit \/ BeginAudit
  BY <1>0, <1>1, BeginSees DEF BeginCommit, BeginAudit
<1>2. ASSUME NEW w \in Writers, AppendFrame(w) \/ ApplyBatch(w) \/ SyncLog(w)
      PROVE  Seen'
  BY <1>0, <1>2, AppendFrameSees, ApplyBatchSees, SyncLogSees
<1>3. ASSUME NEW w \in Writers, AnswerBuffered(w) \/ AnswerFlushed(w)
      PROVE  Seen'
  <2>1. /\ op[w].pc \in {"applied", "synced"} /\ op' = EndedIn(op, w) /\ phase' = phase
        /\ wal'.frames = wal.frames /\ (db' = db \/ db' = << Stored >>)
        /\ txs' = AnsweredIn(txs, op[w].tx, "ok")
    BY <1>3 DEF AnswerBuffered, AnswerFlushed, EndedIn, Answered, AnsweredIn
  <2> QED BY <1>0, <2>1, AnswerSees
<1>4. ASSUME NEW w \in Writers, Fail(w)
      PROVE  Seen'
  <2>1. /\ op[w].pc # "idle" /\ op' = EndedIn(op, w) /\ phase' = phase
        /\ wal'.frames = wal.frames /\ db' = db
        /\ txs' = AnsweredIn(txs, op[w].tx, "error")
    <3>1. wal'.frames = wal.frames
      BY <1>0, <1>4, TornKeeps DEF Fail
    <3> QED BY <1>4, <3>1 DEF Fail, EndedIn, Answered, AnsweredIn
  <2> QED BY <1>0, <2>1, AnswerSees
<1>5. CASE Maintenance \/ MaintenanceFails
  BY <1>0, <1>5, MaintenanceSees, MaintenanceFailsSees
<1>6. CASE ProcessCrash \/ PowerLoss
  BY <1>0, <1>6, ProcessCrashSees, PowerLossSees
<1>7. CASE Open \/ Replay \/ Repair
  BY <1>0, <1>7, OpenSees, ReplaySees, RepairSees
<1> QED BY <1>1, <1>2, <1>3, <1>4, <1>5, <1>6, <1>7 DEF Next, Maintenance

LEMMA NextFollows ==
    ASSUME View, View', ~auditing, Next
    PROVE  Follows
<1>1. CASE BeginCommit \/ BeginAudit
  BY <1>1, BeginFollows DEF BeginCommit, BeginAudit
<1>2. ASSUME NEW w \in Writers,
             \/ AppendFrame(w) \/ ApplyBatch(w) \/ AnswerBuffered(w)
             \/ SyncLog(w) \/ AnswerFlushed(w) \/ Fail(w)
      PROVE  Follows
  BY <1>2, CommitStepsFollow, ApplyBatchFollows, AnswersFollow
<1>3. CASE Maintenance
  BY <1>3, MaintenanceFollows
<1>4. CASE ProcessCrash \/ PowerLoss
  BY <1>4, CrashesFollow
<1>5. CASE MaintenanceFails \/ Open \/ Replay \/ Repair
  BY <1>5, RecoveryFollows
<1> QED BY <1>1, <1>2, <1>3, <1>4, <1>5 DEF Next, Maintenance

LEMMA InitSees == Init => Seen
<1> SUFFICES ASSUME Init PROVE Seen
  OBVIOUS
<1>1. DOMAIN db = {1} /\ \A k \in Keys : db[1].data[k] = 0
  BY DEF Init
<1>2. Acked = {}
  BY DEF Init, Acked
<1> QED BY <1>1, <1>2 DEF Seen, Written, Writes, Gone

SeenInv == ~auditing => Seen

LEMMA SeenInductive == Inv /\ SeenInv /\ [Next]_vars => SeenInv'
<1> SUFFICES ASSUME Inv, SeenInv, [Next]_vars, ~auditing' PROVE Seen'
  BY DEF SeenInv
<1>1. CASE Next
  <2>1. auditing' = auditing
    BY <1>1, NextKeepsConfig DEF Inv
  <2>2. View /\ ~auditing
    BY <2>1 DEF View, Inv, SeenInv
  <2> QED BY <1>1, <2>2, NextSees
<1>2. CASE UNCHANGED vars
  <2>1. UNCHANGED << auditing, wal, db, phase, txs >>
    BY <1>2 DEF vars
  <2>2. Seen
    BY <2>1 DEF SeenInv
  <2> QED BY <2>1, <2>2 DEF Seen, Written, Gone, Acked, Visible, Stored
<1> QED BY <1>1, <1>2

LEMMA SeenHolds == Spec => []SeenInv
<1>1. Init => SeenInv
  BY InitSees DEF SeenInv
<1> QED BY <1>1, SeenInductive, InvHolds, PTL DEF Spec

LEMMA StepFollows ==
    Inv /\ SeenInv /\ Inv' /\ SeenInv' /\ [Next]_vars =>
        [~auditing => History!Next]_HistoryVars
<1> SUFFICES ASSUME Inv, SeenInv, Inv', SeenInv', [Next]_vars, ~auditing
             PROVE  Follows
  BY DEF Follows
<1>1. CASE Next
  <2>1. auditing' = auditing
    BY <1>1, NextKeepsConfig DEF Inv
  <2>2. View /\ View'
    BY <2>1 DEF View, Inv, SeenInv
  <2> QED BY <1>1, <2>2, NextFollows
<1>2. CASE UNCHANGED vars
  <2>1. UNCHANGED << mode, wal, db, phase, txs, promised >>
    BY <1>2 DEF vars
  <2>2. HistoryVars' = HistoryVars
    BY <2>1 DEF HistoryVars, Immediate, CallsMap, Visible, ShownMap, NewestOf, Stored
  <2> QED BY <2>2 DEF Follows
<1> QED BY <1>1, <1>2

\* A store without audit records implements DurableHistory: commits take effect
\* whole and in order, the records show the newest of them before and after every
\* recovery, a power loss takes no call a barrier covered, and no acknowledged call
\* it took comes back.
THEOREM CommitsSurviveCrashes == Spec => ImplementsDurableHistory
<1>1. Init => (~auditing => History!Init)
  <2> SUFFICES ASSUME Init PROVE History!Init
    OBVIOUS
  <2>1. /\ txs = << >> /\ promised = {} /\ phase = "open" /\ wal.frames = << >>
        /\ db = << [data |-> [k \in Keys |-> 0], marker |-> 0, done |-> {}] >>
    BY DEF Init, NoFile
  <2>2. Stored.data = [k \in Keys |-> 0] /\ Stored.done = {}
    BY <2>1 DEF Stored, Last
  <2>3. Visible = {}
    BY <2>1, <2>2 DEF Visible
  <2>4. CallsMap = << >>
    BY <2>1 DEF CallsMap
  <2>5. ShownMap = [k \in Keys |-> 0] /\ Immediate \in BOOLEAN
    BY <2>1, <2>2 DEF ShownMap, Immediate
  <2> QED BY <2>1, <2>3, <2>4, <2>5 DEF History!Init, CallsMap, ShownMap
<1>2. Inv /\ SeenInv /\ Inv' /\ SeenInv' /\ [Next]_vars =>
         [~auditing => History!Next]_(History!vars)
  BY StepFollows DEF History!vars, HistoryVars, CallsMap, ShownMap
<1> QED BY <1>1, <1>2, InvHolds, SeenHolds, PTL DEF Spec, ImplementsDurableHistory

\* The same of a store known to keep no audit records: its behaviours are those of
\* DurableHistory.
THEOREM UnauditedStoreKeepsHistory == Spec /\ [](~auditing) => History!Spec
BY CommitsSurviveCrashes, PTL DEF ImplementsDurableHistory, History!Spec

----------------------------------------------------------------------------
(* Immediate mode, audit records included.                                 *)

AnswersPromised == Immediate => Acked \subseteq promised

\* Steps that answer no call with "ok".
LEMMA NoAnswerPromised ==
    ASSUME AnswersPromised, mode' = mode, promised \subseteq promised',
           \A i \in DOMAIN txs' : txs'[i].answer = "ok" => i \in DOMAIN txs /\ txs[i].answer = "ok"
    PROVE  AnswersPromised'
BY DEF AnswersPromised, Acked, Immediate

LEMMA CallsKeepPromises ==
    ASSUME Shape, AnswersPromised, BeginCommit \/ BeginAudit
    PROVE  AnswersPromised'
<1>1. PICK w \in Writers, keys \in SUBSET Keys : Begin(w, keys)
  BY DEF BeginCommit, BeginAudit, Writers
<1>2. /\ \A i \in DOMAIN txs : txs'[i] = txs[i]
      /\ DOMAIN txs = 1..Len(txs) /\ DOMAIN txs' = 1..(Len(txs) + 1) /\ Len(txs) \in Nat
      /\ txs'[Len(txs) + 1].answer = "none"
  BY <1>1, BeginGrows, Typed
<1>3. \A i \in DOMAIN txs' : i \in DOMAIN txs \/ i = Len(txs) + 1
  BY <1>2
<1>4. UNCHANGED << mode, promised >>
  BY <1>1 DEF Begin, config
<1> QED BY <1>2, <1>3, <1>4, NoAnswerPromised

LEMMA CommitStepsKeepPromises ==
    ASSUME Shape, AnswersPromised, NEW w \in Writers,
           \/ AppendFrame(w) \/ ApplyBatch(w) \/ AnswerBuffered(w)
           \/ SyncLog(w) \/ AnswerFlushed(w) \/ Fail(w)
    PROVE  AnswersPromised'
<1> DEFINE t == op[w].tx
<1>1. op[w].pc # "idle" /\ t \in DOMAIN txs /\ txs \in Seq(Calls)
  <2>1. op[w].pc # "idle"
    BY DEF AppendFrame, ApplyBatch, AnswerBuffered, SyncLog, AnswerFlushed, Fail
  <2> QED BY <2>1, OpUnderWay DEF Shape
<1>2. CASE AppendFrame(w)
  <2>1. txs' = LoggedIn(txs, t) /\ UNCHANGED << mode, promised >>
    BY <1>2 DEF AppendFrame, LoggedIn, config
  <2> HIDE DEF t
  <2>2. DOMAIN txs' = DOMAIN txs /\ \A i \in DOMAIN txs : txs'[i].answer = txs[i].answer
    BY <1>1, <2>1, TxsLogged, TxLogged
  <2> QED BY <2>1, <2>2, NoAnswerPromised
<1>3. CASE ApplyBatch(w) \/ SyncLog(w)
  <2>1. UNCHANGED << mode, promised, txs >>
    BY <1>3 DEF ApplyBatch, SyncLog, config
  <2> QED BY <2>1, NoAnswerPromised
<1>4. CASE AnswerBuffered(w)
  BY <1>4 DEF AnswerBuffered, AnswersPromised, Immediate, config
<1>5. CASE AnswerFlushed(w)
  <2>1. /\ DOMAIN txs' = DOMAIN txs /\ promised' = Covered \cup {t} /\ mode' = mode
        /\ \A i \in DOMAIN txs : i # t => txs'[i] = txs[i]
    <3>1. txs' = AnsweredIn(txs, t, "ok") /\ op' = EndedIn(op, w)
      BY <1>5 DEF AnswerFlushed, Answered, AnsweredIn, EndedIn
    <3>2. promised' = Covered \cup {t} /\ mode' = mode
      BY <1>5 DEF AnswerFlushed, config
    <3> QED BY <1>1, <3>1, <3>2, AnswerEnds
  <2> HIDE DEF t
  <2>2. Acked' \subseteq Acked \cup {t}
    BY <2>1 DEF Acked
  <2> QED BY <2>1, <2>2 DEF AnswersPromised, Immediate, Covered
<1>6. CASE Fail(w)
  <2>1. /\ DOMAIN txs' = DOMAIN txs /\ UNCHANGED << mode, promised >>
        /\ \A i \in DOMAIN txs : i # t => txs'[i] = txs[i]
        /\ txs'[t].answer = "error"
    <3>1. txs' = AnsweredIn(txs, t, "error") /\ op' = EndedIn(op, w)
      BY <1>6 DEF Fail, Answered, AnsweredIn, EndedIn
    <3>2. UNCHANGED << mode, promised >>
      BY <1>6 DEF Fail, config
    <3> QED BY <1>1, <3>1, <3>2, AnswerEnds
  <2> HIDE DEF t
  <2>2. \A i \in DOMAIN txs' : txs'[i].answer = "ok" => i \in DOMAIN txs /\ txs[i].answer = "ok"
    <3> TAKE i \in DOMAIN txs'
    <3>1. CASE i = t
      BY <2>1, <3>1
    <3>2. CASE i # t
      BY <2>1, <3>2
    <3> QED BY <3>1, <3>2
  <2> QED BY <2>1, <2>2, NoAnswerPromised
<1> QED BY <1>2, <1>3, <1>4, <1>5, <1>6

LEMMA OtherStepsKeepPromises ==
    ASSUME Shape, AnswersPromised,
           Maintenance \/ MaintenanceFails \/ ProcessCrash \/ PowerLoss \/ Open \/ Replay \/ Repair
    PROVE  AnswersPromised'
<1>1. CASE Maintenance
  <2>1. UNCHANGED << mode, txs >> /\ (promised' = promised \/ promised' = Covered)
    BY <1>1 DEF Maintenance, Maintain, TickSync, TickFlush, CheckpointFlush, CheckpointMark,
       CompactAppliedMark, Compact, config
  <2>2. promised \subseteq promised'
    BY <2>1 DEF Covered
  <2> QED BY <2>1, <2>2, NoAnswerPromised
<1>2. CASE MaintenanceFails \/ ProcessCrash \/ PowerLoss \/ Open \/ Replay \/ Repair
  <2>1. UNCHANGED << mode, txs, promised >>
    BY <1>2 DEF MaintenanceFails, ProcessCrash, PowerLoss, Stop, Open, Replay, Repair, config
  <2> QED BY <2>1, NoAnswerPromised
<1> QED BY <1>1, <1>2

LEMMA PromisesInductive == Shape /\ AnswersPromised /\ [Next]_vars => AnswersPromised'
<1> SUFFICES ASSUME Shape, AnswersPromised, [Next]_vars PROVE AnswersPromised'
  OBVIOUS
<1>1. CASE UNCHANGED vars
  BY <1>1 DEF vars, AnswersPromised, Immediate, Acked
<1>2. CASE Next
  BY <1>2, CallsKeepPromises, CommitStepsKeepPromises, OtherStepsKeepPromises DEF Next, Maintenance
<1> QED BY <1>1, <1>2

\* With WALSyncMode::Immediate every call that was ever acknowledged was applied in
\* what an open store holds, whatever crashes and power losses came after: an audit
\* record, which nothing overwrites, is there, and without audit records the records
\* of a commit show it or something newer.  With them a recovery can replay an older
\* commit over its records.
THEOREM ImmediateLosesNothing ==
    Spec => [](Immediate /\ phase = "open" =>
                  \A i \in Acked :
                      /\ i \in Stored.done
                      /\ ~auditing => \A k \in txs[i].keys : Stored.data[k] >= i)
<1> DEFINE Stays == Immediate /\ phase = "open" =>
                       \A i \in Acked :
                           /\ i \in Stored.done
                           /\ ~auditing => \A k \in txs[i].keys : Stored.data[k] >= i
<1>1. Init => AnswersPromised
  BY DEF Init, AnswersPromised, Acked
<1>2. Inv => Shape
  BY DEF Inv
<1>3. Spec => []AnswersPromised
  BY <1>1, <1>2, PromisesInductive, InvHolds, PTL DEF Spec
<1>4. PromisedSurvive /\ AnswersPromised => Stays
  BY DEF PromisedSurvive, AnswersPromised
<1> HIDE DEF Stays
<1>5. Spec => []Stays
  BY <1>3, <1>4, PromisesAreKept, PTL
<1> QED BY <1>5 DEF Stays
=============================================================================
