--------------------------- MODULE TxSessionProofs --------------------------
(***************************************************************************)
(* Proofs about TxSession, for every set of callers and every bound.       *)
(*                                                                         *)
(* Ids: what was given out, and what a call has counted and not yet        *)
(* stamped, are ranges of counters that do not meet, and all of them are   *)
(* at or below the counter; the epoch only grows.                          *)
(*                                                                         *)
(* Tables: a number is opened by one call; nobody ends it before that call *)
(* has listed it, and nothing lists it again afterwards.                   *)
(***************************************************************************)
EXTENDS TxSession, OrderLemmas, FiniteSetTheorems

USE TxSessionAssumption

Points == {"idle", "observe_epoch", "observe_counter", "count", "stamp",
           "stamp_last", "insert", "session", "commit", "rollback", "discard",
           "clean", "clean_tx"}
Tasks == {"none", "reserve", "open", "commit", "rollback", "delete", "clean"}
Outcomes == {"committed", "timed out", "rolled back", "discarded"}

Frames == [pc : Points, task : Tasks, n : Nat, fence : Ids, len : {1, 2},
           first : Ids, count : Nat, floor : Ids, rest : SUBSET Nat]
Grants == [first : Ids, last : Ids, floor : Ids, call : Callers \X Nat]

\* An id the clock has reached in both its parts.
Below(x) == x[1] <= epoch /\ x[2] <= counter

\* A call that has counted owns counters that were counted.
Sound(f, o, c) ==
    /\ f \in Frames
    /\ f.n <= o /\ f.rest \subseteq 1 .. o
    /\ f.pc = "clean" => f.rest # {}
    /\ f.pc \in {"stamp", "stamp_last"} => f.count + f.len - 1 <= c
    /\ f.pc \in {"observe_epoch", "observe_counter", "insert", "session"} => f.task = "open"
    /\ f.pc \in {"count", "stamp"} => f.task \in {"open", "commit", "reserve"}
    /\ f.task = "open" => f.pc \in {"observe_epoch", "observe_counter", "count", "stamp",
                                   "insert", "session"}
    /\ f.pc \in {"clean", "clean_tx"} => f.task = "clean"
    /\ f.pc = "stamp_last" => f.task = "reserve"
    /\ f.pc = "commit" => f.task = "commit"
    /\ f.task \notin {"none", "reserve", "clean"} \/ f.pc = "clean_tx" => f.n # 0

ClockTypes == epoch \in 1 .. MaxEpoch /\ counter \in Nat
BoundTypes == opened \in 0 .. MaxSessions /\ calls \in 0 .. MaxCalls
TableTypes == active \cup sessions \cup late \cup failed \cup stale \subseteq 1 .. opened
CallerTypes == caller \in [Callers -> Frames] /\ \A p \in Callers : Sound(caller[p], opened, counter)
IdTypes ==
    /\ bookmarks \subseteq Ids
    /\ granted \subseteq Grants
    /\ \A g \in granted : Below(g.last)
OutcomeTypes == outcome \in [Numbers -> SUBSET Outcomes]

Types ==
    ClockTypes /\ BoundTypes /\ TableTypes /\ CallerTypes /\ IdTypes /\ OutcomeTypes

----------------------------------------------------------------------------
(* The latest of some ids.                                                 *)

\* A set of ids with a bound on both parts has a latest one.
LEMMA LatestOfBounded ==
    ASSUME NEW S \in SUBSET (Nat \X Nat), S # {}, NEW m \in Nat, NEW n \in Nat,
           \A x \in S : x[1] <= m /\ x[2] <= n
    PROVE  Latest(S) \in S /\ \A y \in S : AtMost(y, Latest(S))
<1> DEFINE E == {x[1] : x \in S}
           e == Max(E)
           C == {x[2] : x \in {y \in S : y[1] = e}}
           c == Max(C)
<1>1. e \in E /\ \A k \in E : k <= e
  <2>1. E \in SUBSET Nat /\ E # {} /\ \A k \in E : k <= m
    OBVIOUS
  <2> HIDE DEF E
  <2> QED BY <2>1, MaxOfNaturals
<1>2. c \in C /\ \A k \in C : k <= c
  <2>1. C \in SUBSET Nat /\ C # {} /\ \A k \in C : k <= n
    BY <1>1
  <2> HIDE DEF C, e
  <2> QED BY <2>1, MaxOfNaturals
<1>3. PICK z \in S : z[1] = e /\ z[2] = c
  BY <1>2
<1>4. \A y \in S : AtMost(y, z)
  <2> SUFFICES ASSUME NEW y \in S PROVE AtMost(y, z)
    OBVIOUS
  <2>1. y[1] <= z[1]
    BY <1>1, <1>3
  <2>2. y[1] = z[1] => y[2] <= z[2]
    BY <1>2, <1>3
  <2>3. /\ y = <<y[1], y[2]>> /\ z = <<z[1], z[2]>>
        /\ y[1] \in Nat /\ y[2] \in Nat /\ z[1] \in Nat /\ z[2] \in Nat
    OBVIOUS
  <2> HIDE DEF e, c
  <2> QED BY <2>1, <2>2, <2>3 DEF AtMost, Less
<1> HIDE DEF E, C, e, c
<1> QED BY <1>4 DEF Latest

\* Ids given out so far end below the clock.
LEMMA GrantedSoFarBelow ==
    ASSUME Types
    PROVE  GrantedSoFar \in Ids /\ Below(GrantedSoFar)
<1> DEFINE S == {g.last : g \in granted}
<1>1. CASE granted = {}
  <2>1. GrantedSoFar = <<0, 0>>
    BY <1>1 DEF GrantedSoFar, Latest, Zero
  <2> QED BY <2>1 DEF Types, ClockTypes, Ids, Below
<1>2. CASE granted # {}
  <2>1. /\ S \in SUBSET Ids /\ S # {}
        /\ \A x \in S : x[1] <= epoch /\ x[2] <= counter
    BY <1>2 DEF Types, IdTypes, Grants, Below
  <2>2. S \in SUBSET (Nat \X Nat) /\ epoch \in Nat /\ counter \in Nat
    BY <2>1 DEF Ids, Types, ClockTypes
  <2>3. Latest(S) \in S
    <3> HIDE DEF S
    <3> QED BY <2>1, <2>2, LatestOfBounded
  <2> QED BY <2>1, <2>3 DEF GrantedSoFar, Below
<1> QED BY <1>1, <1>2

\* The later of two ids is one of them.
LEMMA LatestOfTwo ==
    ASSUME NEW x \in Ids, NEW y \in Ids
    PROVE  Latest({x, y}) \in {x, y}
<1>1. x \in Nat \X Nat /\ y \in Nat \X Nat
  BY DEF Ids
<1>2. /\ x[1] <= x[1] + y[1] /\ y[1] <= x[1] + y[1]
      /\ x[2] <= x[2] + y[2] /\ y[2] <= x[2] + y[2]
      /\ x[1] + y[1] \in Nat /\ x[2] + y[2] \in Nat
  BY <1>1
<1> QED BY <1>1, <1>2, LatestOfBounded

----------------------------------------------------------------------------
(* Types.                                                                  *)

LEMMA InitTyped == Init => Types
  BY DEF Init, Types, ClockTypes, BoundTypes, TableTypes, CallerTypes, IdTypes,
         OutcomeTypes, Sound, Frames, Idle, Points, Tasks, Zero, Ids, Numbers

\* A step of one call leaves the other calls where they stand.
Moves(p, f) ==
    /\ caller' = [caller EXCEPT ![p] = f]
    /\ opened <= opened' /\ counter <= counter'

LEMMA Moved ==
    ASSUME CallerTypes, NEW p \in Callers, NEW f, Moves(p, f)
    PROVE  caller'[p] = f /\ \A q \in Callers \ {p} : caller'[q] = caller[q]
  BY DEF CallerTypes, Moves

LEMMA MovesTyped ==
    ASSUME CallerTypes, BoundTypes, ClockTypes, BoundTypes', ClockTypes',
           NEW p \in Callers, NEW f, Sound(f, opened', counter'), Moves(p, f)
    PROVE  CallerTypes'
<1>1. f \in Frames
  BY DEF Sound
<1>2. caller' \in [Callers -> Frames] /\ caller'[p] = f
  BY <1>1 DEF CallerTypes, Moves
<1>3. ASSUME NEW q \in Callers PROVE Sound(caller'[q], opened', counter')
  <2>1. CASE q = p
    BY <2>1, <1>2
  <2>2. CASE q # p
    <3>1. caller'[q] = caller[q] /\ Sound(caller[q], opened, counter)
      BY <2>2 DEF CallerTypes, Moves
    <3> QED BY <3>1 DEF Sound, Moves, Frames, BoundTypes, ClockTypes
  <2> QED BY <2>1, <2>2
<1> QED BY <1>2, <1>3 DEF CallerTypes

\* The ids stay typed while the clock does not go back.
LEMMA IdsStayTyped ==
    ASSUME IdTypes, ClockTypes, ClockTypes', epoch <= epoch', counter <= counter',
           UNCHANGED <<granted, bookmarks>>
    PROVE  IdTypes'
  BY DEF IdTypes, ClockTypes, Below, Grants, Ids

\* A call that returns is sound.
LEMMA IdleSound ==
    ASSUME NEW o \in Nat, NEW c \in Nat
    PROVE  Sound(Idle, o, c) /\ Idle \in Frames
  BY DEF Sound, Idle, Frames, Points, Tasks, Ids, Zero

LEMMA GotoMoves ==
    ASSUME CallerTypes, BoundTypes, ClockTypes, NEW p \in Callers,
           NEW x \in {"observe_counter", "count", "insert", "session"}, caller[p].task = "open",
           Goto(p, x), opened' = opened, counter' \in Nat, counter <= counter'
    PROVE  /\ Moves(p, [caller[p] EXCEPT !.pc = x])
           /\ Sound([caller[p] EXCEPT !.pc = x], opened', counter')
<1>1. Sound(caller[p], opened, counter) /\ opened \in Nat /\ counter \in Nat
  BY DEF CallerTypes, BoundTypes, ClockTypes
<1>2. Moves(p, [caller[p] EXCEPT !.pc = x])
  BY DEF Moves, Goto, CallerTypes, BoundTypes
<1>3. [caller[p] EXCEPT !.pc = x] \in Frames
  <2>1. x \in Points
    BY DEF Points
  <2> QED BY <1>1, <2>1 DEF Sound, Frames
<1> QED BY <1>1, <1>2, <1>3 DEF Sound, Frames

\* A record and a function with several fields replaced.
LEMMA FrameWith ==
    ASSUME NEW c \in Frames, NEW x \in Points, NEW k \in Nat, NEW y \in Ids
    PROVE  /\ [c EXCEPT !.pc = x, !.count = k] \in Frames
           /\ [c EXCEPT !.first = y, !.pc = x] \in Frames
  BY DEF Frames

LEMMA CallerWith ==
    ASSUME caller \in [Callers -> Frames], NEW p \in Callers, NEW x, NEW y
    PROVE  /\ [caller EXCEPT ![p].pc = x, ![p].count = y]
                = [caller EXCEPT ![p] = [caller[p] EXCEPT !.pc = x, !.count = y]]
           /\ [caller EXCEPT ![p].first = x, ![p].pc = y]
                = [caller EXCEPT ![p] = [caller[p] EXCEPT !.first = x, !.pc = y]]
  OBVIOUS

\* The clock's own steps keep the types.
LEMMA ClockTyped ==
    ASSUME Types, NEW p \in Callers, Clock(p)
    PROVE  Types'
<1> DEFINE c == caller[p]
<1>1. /\ CallerTypes /\ BoundTypes /\ ClockTypes /\ IdTypes /\ TableTypes /\ OutcomeTypes
      /\ Sound(c, opened, counter) /\ c \in Frames
  BY DEF Types, CallerTypes, Sound
<1>2. UNCHANGED <<active, late, sessions, stale, failed, opened, calls, outcome, bookmarks>>
  BY DEF Clock, ObserveEpoch, ObserveCounter, CountRange, StampBegin, StampFirst,
         StampLast, table, bounds, histories, clock
<1>3. TableTypes' /\ OutcomeTypes' /\ BoundTypes'
  BY <1>1, <1>2 DEF TableTypes, OutcomeTypes, BoundTypes
<1>4. ASSUME ClockTypes', IdTypes', NEW f, Sound(f, opened', counter'), Moves(p, f)
      PROVE  Types'
  BY <1>1, <1>3, <1>4, MovesTyped DEF Types
<1>5. ASSUME ClockTypes', UNCHANGED granted, epoch <= epoch', counter <= counter'
      PROVE  IdTypes'
  BY <1>1, <1>2, <1>5, IdsStayTyped
<1>10. CASE ObserveEpoch(p)
  <2>1. ClockTypes' /\ epoch <= epoch' /\ counter' = counter
    BY <1>1, <1>10 DEF ObserveEpoch, ClockTypes, Larger, Frames, Ids
  <2>2. IdTypes'
    BY <1>10, <2>1, <1>5, <1>1 DEF ObserveEpoch, histories, ClockTypes
  <2>3. Goto(p, "observe_counter") /\ c.task = "open"
    BY <1>1, <1>10 DEF ObserveEpoch, Sound
  <2>9. counter' \in Nat /\ counter <= counter' /\ opened' = opened
    BY <1>1, <1>2, <2>1 DEF ClockTypes
  <2>4. Moves(p, [c EXCEPT !.pc = "observe_counter"]) /\ Sound([c EXCEPT !.pc = "observe_counter"], opened', counter')
    BY <1>1, <1>2, <2>1, <2>3, <2>9, GotoMoves
  <2> QED BY <1>4, <2>1, <2>2, <2>4
<1>11. CASE ObserveCounter(p)
  <2>1. ClockTypes' /\ epoch' = epoch /\ counter <= counter'
    BY <1>1, <1>11 DEF ObserveCounter, ClockTypes, Larger, Frames, Ids
  <2>2. IdTypes'
    BY <1>11, <2>1, <1>5, <1>1 DEF ObserveCounter, histories, ClockTypes
  <2>3. Goto(p, "count") /\ c.task = "open"
    BY <1>1, <1>11 DEF ObserveCounter, Sound
  <2>9. counter' \in Nat /\ counter <= counter' /\ opened' = opened
    BY <1>1, <1>2, <2>1 DEF ClockTypes
  <2>4. Moves(p, [c EXCEPT !.pc = "count"]) /\ Sound([c EXCEPT !.pc = "count"], opened', counter')
    BY <1>1, <1>2, <2>1, <2>3, <2>9, GotoMoves
  <2> QED BY <1>4, <2>1, <2>2, <2>4
<1>12. CASE CountRange(p)
  <2> DEFINE f == [c EXCEPT !.pc = "stamp", !.count = counter + 1]
  <2>1. ClockTypes' /\ epoch' = epoch /\ counter <= counter' /\ counter' = counter + c.len
        /\ c.pc = "count" /\ c.len \in {1, 2}
    BY <1>1, <1>12 DEF CountRange, ClockTypes, Frames
  <2>2. IdTypes'
    BY <1>12, <2>1, <1>5, <1>1 DEF CountRange, histories, ClockTypes
  <2>3. Moves(p, f)
    <3>1. caller' = [caller EXCEPT ![p] = f]
      BY <1>1, <1>12, CallerWith DEF CountRange, CallerTypes
    <3> HIDE DEF f
    <3> QED BY <3>1, <1>1, <1>2, <2>1 DEF Moves, BoundTypes, ClockTypes
  <2>4. f \in Frames /\ f.n = c.n /\ f.rest = c.rest /\ f.count = counter + 1 /\ f.len = c.len
        /\ f.pc = "stamp" /\ f.task = c.task
    <3>1. "stamp" \in Points /\ counter + 1 \in Nat /\ Zero \in Ids
      BY <1>1 DEF Points, ClockTypes, Ids, Zero
    <3>2. f \in Frames
      BY <1>1, <3>1, FrameWith
    <3> HIDE DEF c
    <3> QED BY <1>1, <3>2 DEF Frames
  <2>5. Sound(f, opened', counter')
    <3>1. /\ f.count + f.len - 1 = counter' /\ f.n \in Nat /\ counter' \in Nat
      BY <1>1, <2>1, <2>4 DEF ClockTypes, Frames
    <3> HIDE DEF f, c
    <3> QED BY <1>1, <1>2, <2>1, <2>4, <3>1 DEF Sound
  <2> HIDE DEF f, c
  <2> QED BY <1>4, <2>1, <2>2, <2>3, <2>5
<1>13. CASE StampBegin(p)
  <2>1. UNCHANGED <<epoch, counter>> /\ ClockTypes' /\ c.pc = "stamp" /\ c.task = "open"
    BY <1>1, <1>13 DEF StampBegin, ClockTypes, clock
  <2>2. <<epoch, c.count>> \in Ids /\ c.count <= counter
    BY <1>1, <2>1 DEF Ids, ClockTypes, Sound, Frames
  <2>3. IdTypes'
    BY <1>1, <1>2, <1>13, <2>1, <2>2
       DEF StampBegin, Grant, IdTypes, Grants, Below, Frames, ClockTypes, BoundTypes
  <2>4. Goto(p, "insert") /\ c.task = "open"
    BY <1>13 DEF StampBegin
  <2>9. counter' \in Nat /\ counter <= counter' /\ opened' = opened
    BY <1>1, <1>2, <2>1 DEF ClockTypes
  <2>5. Moves(p, [c EXCEPT !.pc = "insert"]) /\ Sound([c EXCEPT !.pc = "insert"], opened', counter')
    BY <1>1, <1>2, <2>1, <2>4, <2>9, GotoMoves
  <2> QED BY <1>4, <2>1, <2>3, <2>5
<1>14. CASE StampFirst(p)
  <2> DEFINE f == [c EXCEPT !.first = <<epoch, c.count>>, !.pc = "stamp_last"]
  <2>1. UNCHANGED <<epoch, counter>> /\ ClockTypes' /\ c.pc = "stamp" /\ c.task = "reserve"
    BY <1>1, <1>14 DEF StampFirst, ClockTypes, clock
  <2>2. IdTypes'
    BY <1>14, <2>1, <1>5, <1>1 DEF StampFirst, histories, ClockTypes
  <2>3. Moves(p, f)
    <3>1. caller' = [caller EXCEPT ![p] = f]
      BY <1>1, <1>14, CallerWith DEF StampFirst, CallerTypes
    <3> HIDE DEF f
    <3> QED BY <3>1, <1>1, <1>2, <2>1 DEF Moves, BoundTypes, ClockTypes
  <2>4. f \in Frames /\ f.n = c.n /\ f.rest = c.rest /\ f.count = c.count /\ f.len = c.len
        /\ f.pc = "stamp_last" /\ f.task = c.task
    <3>1. "stamp_last" \in Points /\ <<epoch, c.count>> \in Ids
      BY <1>1 DEF Points, ClockTypes, Ids, Frames
    <3>2. f \in Frames
      BY <1>1, <3>1, FrameWith DEF ClockTypes
    <3> HIDE DEF c
    <3> QED BY <1>1, <3>2 DEF Frames
  <2>5. Sound(f, opened', counter')
    <3> HIDE DEF f, c
    <3> QED BY <1>1, <1>2, <2>1, <2>4 DEF Sound
  <2> HIDE DEF f, c
  <2> QED BY <1>4, <2>1, <2>2, <2>3, <2>5
<1>15. CASE StampLast(p)
  <2> DEFINE x == <<epoch, c.count + c.len - 1>>
  <2>1. UNCHANGED <<epoch, counter>> /\ ClockTypes' /\ c.pc = "stamp_last"
    BY <1>1, <1>15 DEF StampLast, ClockTypes, clock
  <2>2. x \in Ids /\ c.count + c.len - 1 <= counter
    BY <1>1, <2>1 DEF Ids, ClockTypes, Sound, Frames
  <2>3. IdTypes'
    BY <1>1, <1>2, <1>15, <2>1, <2>2
       DEF StampLast, Grant, IdTypes, Grants, Below, Frames, ClockTypes, BoundTypes
  <2>4. Moves(p, Idle)
    BY <1>1, <1>2, <1>15, <2>1 DEF StampLast, Return, Moves, BoundTypes, ClockTypes
  <2>5. Sound(Idle, opened', counter')
    <3>1. opened' \in Nat /\ counter' \in Nat
      BY <1>1, <1>2, <2>1 DEF BoundTypes, ClockTypes
    <3> QED BY <3>1, IdleSound
  <2> HIDE DEF c
  <2> QED BY <1>4, <2>1, <2>3, <2>4, <2>5
<1> QED BY <1>10, <1>11, <1>12, <1>13, <1>14, <1>15 DEF Clock

\* A call that begins with a sound frame.
LEMMA BeginMoves ==
    ASSUME Types, NEW p \in Callers, NEW f, Begin(p, f),
           opened' \in {opened, opened + 1}, opened' <= MaxSessions,
           ClockTypes', counter' = counter
    PROVE  Moves(p, f) /\ BoundTypes' /\ opened' \in Nat /\ counter' \in Nat
  BY DEF Types, ClockTypes, BoundTypes, Begin, Moves

\* An active transaction and a listed session were opened.
LEMMA Opened ==
    ASSUME Types, NEW n \in active \cup sessions \cup late \cup failed \cup stale
    PROVE  n \in Numbers /\ n \in Nat /\ n <= opened
  BY DEF Types, TableTypes, BoundTypes, Numbers

\* A call that takes effect when it begins, or only collects, keeps the types.
LEMMA StartTyped ==
    ASSUME Types, NEW p \in Callers, Start(p)
    PROVE  Types'
<1>1. CallerTypes /\ BoundTypes /\ ClockTypes /\ IdTypes /\ TableTypes /\ OutcomeTypes
  BY DEF Types
<1>2. ASSUME NEW f, Begin(p, f), UNCHANGED <<opened, granted, bookmarks>>,
             ClockTypes', counter' = counter, epoch <= epoch', TableTypes', OutcomeTypes',
             Sound(f, opened, counter)
      PROVE  Types'
  <2>1. Moves(p, f) /\ BoundTypes'
    BY <1>1, <1>2, BeginMoves DEF BoundTypes
  <2>2. IdTypes'
    BY <1>1, <1>2, IdsStayTyped DEF ClockTypes
  <2> QED BY <1>1, <1>2, <2>1, <2>2, MovesTyped DEF Types
<1>3. ASSUME UNCHANGED clock PROVE ClockTypes' /\ epoch' = epoch /\ counter' = counter /\ epoch <= epoch'
  BY <1>1, <1>3 DEF clock, ClockTypes
<1>4. Sound(Idle, opened, counter) /\ Idle \in Frames /\ opened \in Nat /\ counter \in Nat
  BY <1>1, IdleSound DEF BoundTypes, ClockTypes
<1>5. GrantedSoFar \in Ids
  BY GrantedSoFarBelow
<1>10. CASE CallReserve(p, 2)
  <2> DEFINE f == [Idle EXCEPT !.pc = "count", !.task = "reserve", !.len = 2,
                     !.floor = GrantedSoFar]
  <2>1. f \in Frames
    BY <1>4, <1>5 DEF Frames, Points, Tasks
  <2>2. Sound(f, opened, counter)
    BY <1>4, <2>1 DEF Sound, Idle
  <2>3. TableTypes' /\ OutcomeTypes'
    BY <1>1, <1>10 DEF CallReserve, TableTypes, OutcomeTypes, table, histories
  <2> QED BY <1>10, <1>2, <1>3, <2>2, <2>3 DEF CallReserve, histories
<1>11. ASSUME NEW b \in bookmarks \cup Remote \cup {Zero}, CallOpen(p, b)
       PROVE  Types'
  <2> DEFINE x == IF b = Zero THEN "count" ELSE "observe_epoch"
             l == Latest({GrantedSoFar, b})
             f == [Idle EXCEPT !.pc = x, !.task = "open", !.n = opened + 1,
                     !.fence = b, !.floor = l]
  <2>1. b \in Ids
    BY <1>1, <1>11 DEF IdTypes, Ids, Zero
  <2>2. l \in Ids /\ x \in Points /\ x \in {"count", "observe_epoch"} /\ "open" \in Tasks
        /\ opened + 1 \in Nat
    BY <1>4, <1>5, <2>1, LatestOfTwo DEF Points, Tasks
  <2> HIDE DEF x, l
  <2>3. f \in Frames
    BY <1>4, <2>1, <2>2 DEF Frames
  <2>4. f.pc = x /\ f.n = opened + 1 /\ f.rest = {}
    BY DEF Idle
  <2>5. opened' = opened + 1 /\ opened' <= MaxSessions /\ UNCHANGED clock
    BY <1>4, <1>11 DEF CallOpen
  <2>6. Sound(f, opened', counter')
    BY <1>4, <2>2, <2>3, <2>4, <2>5 DEF Sound
  <2>7. TableTypes' /\ OutcomeTypes' /\ UNCHANGED <<granted, bookmarks>>
    BY <1>1, <1>4, <1>11, <2>5 DEF CallOpen, TableTypes, OutcomeTypes, table, histories
  <2>8. Begin(p, f)
    BY <1>11 DEF CallOpen, x, l
  <2> HIDE DEF f
  <2>9. Moves(p, f) /\ BoundTypes' /\ ClockTypes' /\ IdTypes'
    BY <1>1, <1>3, <1>4, <2>5, <2>7, <2>8, BeginMoves, IdsStayTyped
  <2> QED BY <1>1, <2>6, <2>7, <2>9, MovesTyped DEF Types
<1>12. ASSUME NEW n \in Numbers, Touch(p, n)
       PROVE  Types'
  <2>1. TableTypes' /\ OutcomeTypes'
    BY <1>1, <1>12 DEF Touch, TableTypes, OutcomeTypes, histories
  <2> QED BY <1>12, <1>2, <1>3, <1>4, <2>1 DEF Touch, histories
<1>13. ASSUME NEW n \in Numbers, RecordTerminalError(p, n)
       PROVE  Types'
  <2>1. TableTypes' /\ OutcomeTypes'
    BY <1>1, <1>13 DEF RecordTerminalError, TableTypes, OutcomeTypes, histories
  <2> QED BY <1>13, <1>2, <1>3, <1>4, <2>1 DEF RecordTerminalError, histories
<1>14. ASSUME NEW n \in Numbers, NEW task \in {"commit", "rollback", "delete"},
              TakeSession(p, n, task)
       PROVE  Types'
  <2> DEFINE x == IF n \in failed \/ task = "delete" THEN "discard" ELSE task
             f == [Idle EXCEPT !.n = n, !.task = task, !.pc = x]
  <2>1. n \in Nat /\ n <= opened
    BY <1>14, Opened DEF TakeSession
  <2>2. x \in Points /\ task \in Tasks /\ x \in {"commit", "rollback", "discard"}
    BY <1>14 DEF Points, Tasks
  <2>3. Begin(p, f)
    BY <1>14 DEF TakeSession
  <2> HIDE DEF x
  <2>4. f \in Frames
    BY <1>4, <2>1, <2>2 DEF Frames
  <2>5. Sound(f, opened, counter)
    <3>1. f.n = n /\ f.task = task /\ f.pc = x /\ f.rest = {} /\ n # 0
      BY <1>14, Opened DEF TakeSession, Idle, Numbers
    <3>2. x = "commit" => task = "commit"
      BY DEF x
    <3> HIDE DEF f
    <3> QED BY <1>4, <2>1, <2>2, <2>4, <3>1, <3>2 DEF Sound
  <2>6. TableTypes' /\ OutcomeTypes'
    BY <1>1, <1>14 DEF TakeSession, TableTypes, OutcomeTypes, histories
  <2> HIDE DEF f
  <2> QED BY <1>14, <1>2, <1>3, <2>3, <2>5, <2>6 DEF TakeSession, histories
<1>15. ASSUME NEW e \in 1 .. MaxEpoch, AdvanceEpoch(p, e)
       PROVE  Types'
  <2>1. ClockTypes' /\ counter' = counter /\ epoch <= epoch'
    BY <1>1, <1>15 DEF AdvanceEpoch, ClockTypes
  <2>2. TableTypes' /\ OutcomeTypes'
    BY <1>1, <1>15 DEF AdvanceEpoch, TableTypes, OutcomeTypes, table, histories
  <2> QED BY <1>15, <1>2, <1>4, <2>1, <2>2 DEF AdvanceEpoch, histories
<1>16. CASE CollectExpired(p)
  <2> DEFINE s == sessions \cap stale
             f == [Idle EXCEPT !.pc = "clean", !.task = "clean", !.rest = s]
  <2>1. s # {} /\ s \subseteq 1 .. opened
    BY <1>1, <1>16 DEF CollectExpired, TableTypes
  <2>2. Begin(p, f)
    BY <1>16 DEF CollectExpired
  <2> HIDE DEF s
  <2>3. f \in Frames
    <3>1. s \in SUBSET Nat /\ "clean" \in Points /\ "clean" \in Tasks
      BY <1>4, <2>1 DEF Points, Tasks
    <3> QED BY <1>4, <3>1 DEF Frames
  <2>4. Sound(f, opened, counter)
    BY <1>4, <2>1, <2>3 DEF Sound, Idle
  <2>5. TableTypes' /\ OutcomeTypes'
    BY <1>1, <1>16 DEF CollectExpired, TableTypes, OutcomeTypes, table, histories
  <2> HIDE DEF f
  <2> QED BY <1>16, <1>2, <1>3, <2>2, <2>4, <2>5 DEF CollectExpired, histories
<1>17. CASE CleanLateTransactions(p)
  <2>1. TableTypes'
    BY <1>1, <1>17 DEF CleanLateTransactions, TableTypes, table
  <2>2. OutcomeTypes'
    BY <1>1, <1>17 DEF CleanLateTransactions, OutcomeTypes, Outcomes
  <2> QED BY <1>17, <1>2, <1>3, <1>4, <2>1, <2>2 DEF CleanLateTransactions
<1> QED BY <1>10, <1>11, <1>12, <1>13, <1>14, <1>15, <1>16, <1>17 DEF Start

\* The other steps of a call keep the types.
LEMMA ContinueTyped ==
    ASSUME Types, NEW p \in Callers, Continue(p)
    PROVE  Types'
<1> DEFINE c == caller[p]
<1>1. /\ CallerTypes /\ BoundTypes /\ ClockTypes /\ IdTypes /\ TableTypes /\ OutcomeTypes
      /\ Sound(c, opened, counter) /\ c \in Frames /\ opened \in Nat /\ counter \in Nat
  BY DEF Types, CallerTypes, Sound, BoundTypes, ClockTypes
<1>2. UNCHANGED <<epoch, counter, late, stale, failed, opened, calls>>
  BY DEF Continue, InsertTransaction, OpenSession, TakeTransaction, EndCommit, EndRollback,
         Discard, CleanTransaction, CleanSession, clock, table, bounds
<1>3. ClockTypes' /\ BoundTypes' /\ counter' = counter /\ opened' = opened
  BY <1>1, <1>2 DEF ClockTypes, BoundTypes
<1>4. ASSUME TableTypes', OutcomeTypes', IdTypes', NEW f, Sound(f, opened, counter),
             caller' = [caller EXCEPT ![p] = f]
      PROVE  Types'
  <2>1. Moves(p, f)
    BY <1>1, <1>3, <1>4 DEF Moves
  <2>2. CallerTypes'
    BY <1>1, <1>3, <1>4, <2>1, MovesTyped
  <2> QED BY <1>3, <1>4, <2>2 DEF Types
<1>5. ASSUME UNCHANGED <<granted, bookmarks>> PROVE IdTypes'
  BY <1>1, <1>2, <1>3, <1>5, IdsStayTyped DEF ClockTypes
<1>6. Sound(Idle, opened, counter)
  BY <1>1, IdleSound
<1>7. ASSUME NEW x \in {"session", "clean"}, x = "clean" => c.rest # {} /\ c.task = "clean",
             x = "session" => c.task = "open", c.n # 0
      PROVE  Sound([c EXCEPT !.pc = x], opened, counter)
  <2>1. x \in Points
    BY DEF Points
  <2>2. [c EXCEPT !.pc = x] \in Frames
    BY <1>1, <2>1 DEF Frames
  <2> QED BY <1>1, <1>7, <2>2 DEF Sound, Frames
<1>8. ASSUME NEW x, Goto(p, x) PROVE caller' = [caller EXCEPT ![p] = [c EXCEPT !.pc = x]]
  BY <1>1, <1>8 DEF Goto, CallerTypes
<1>9. ASSUME NEW n, NEW how \in Outcomes, Remove(n, how), sessions' \subseteq sessions
      PROVE  TableTypes' /\ OutcomeTypes'
  <2>1. TableTypes'
    BY <1>1, <1>2, <1>9 DEF Remove, TableTypes
  <2>2. OutcomeTypes'
    BY <1>1, <1>9 DEF Remove, OutcomeTypes
  <2> QED BY <2>1, <2>2
<1>10. CASE InsertTransaction(p)
  <2>1. c.n \in 1 .. opened
    BY <1>1, <1>10 DEF InsertTransaction, Sound, Frames
  <2>2. TableTypes' /\ OutcomeTypes'
    <3>1. TableTypes'
      BY <1>1, <1>2, <1>10, <2>1 DEF InsertTransaction, TableTypes, table
    <3>2. outcome' = outcome
      BY <1>10 DEF InsertTransaction, histories
    <3> QED BY <1>1, <3>1, <3>2 DEF OutcomeTypes
  <2>3. Goto(p, "session") /\ UNCHANGED <<granted, bookmarks>> /\ c.task = "open" /\ c.n # 0
    BY <1>1, <1>10 DEF InsertTransaction, histories, Sound
  <2> QED BY <1>4, <1>5, <1>7, <1>8, <2>2, <2>3
<1>11. CASE OpenSession(p)
  <2>1. TableTypes' /\ OutcomeTypes'
    <3>1. TableTypes'
      BY <1>1, <1>2, <1>11 DEF OpenSession, TableTypes
    <3>2. outcome' = outcome
      BY <1>11 DEF OpenSession, histories
    <3> QED BY <1>1, <3>1, <3>2 DEF OutcomeTypes
  <2> QED BY <1>4, <1>5, <1>6, <1>11, <2>1 DEF OpenSession, Return, histories
<1>12. CASE TakeTransaction(p)
  <2> DEFINE f == IF c.n \in active THEN [c EXCEPT !.pc = "count", !.floor = GrantedSoFar]
                  ELSE Idle
  <2>1. TableTypes' /\ OutcomeTypes'
    <3>1. TableTypes'
      BY <1>1, <1>2, <1>12 DEF TakeTransaction, TableTypes, table
    <3>2. outcome' = outcome
      BY <1>12 DEF TakeTransaction, histories
    <3> QED BY <1>1, <3>1, <3>2 DEF OutcomeTypes
  <2>2. GrantedSoFar \in Ids /\ "count" \in Points
    BY GrantedSoFarBelow DEF Points
  <2>3. [c EXCEPT !.pc = "count", !.floor = GrantedSoFar] \in Frames
    BY <1>1, <2>2 DEF Frames
  <2>4. Sound(f, opened, counter)
    <3>1. c.task = "commit" /\ c.n # 0
      BY <1>1, <1>12 DEF TakeTransaction, Sound
    <3> QED BY <1>1, <1>6, <2>3, <3>1 DEF Sound, Frames
  <2>5. caller' = [caller EXCEPT ![p] = f]
    BY <1>1, <1>12 DEF TakeTransaction, CallerTypes
  <2> HIDE DEF f
  <2> QED BY <1>4, <1>5, <1>12, <2>1, <2>4, <2>5 DEF TakeTransaction, histories
<1>13. CASE EndCommit(p)
  <2> DEFINE ts == <<epoch, c.count>>
  <2>1. ts \in Ids /\ c.count <= counter /\ ts[1] = epoch /\ ts[2] = c.count
    <3>1. c.count \in Nat /\ c.len \in {1, 2} /\ c.count + c.len - 1 <= counter
      BY <1>1, <1>13 DEF EndCommit, Sound, Frames
    <3> HIDE DEF c
    <3> QED BY <1>1, <3>1 DEF Ids, ClockTypes
  <2>2. bookmarks' \subseteq bookmarks \cup {ts} /\ Grant(p, ts, ts)
    BY <1>13 DEF EndCommit
  <2> HIDE DEF ts
  <2>3. IdTypes'
    BY <1>1, <1>2, <2>1, <2>2
       DEF IdTypes, Grant, Grants, Below, Frames, ClockTypes, BoundTypes
  <2>4. TableTypes'
    BY <1>1, <1>2, <1>13 DEF EndCommit, TableTypes, table
  <2>5. OutcomeTypes'
    <3>1. \/ outcome' = [outcome EXCEPT ![c.n] = @ \cup {"timed out"}]
          \/ outcome' = [outcome EXCEPT ![c.n] = @ \cup {"committed"}]
      BY <1>13 DEF EndCommit
    <3> QED BY <1>1, <3>1 DEF OutcomeTypes, Outcomes
  <2> QED BY <1>4, <1>6, <1>13, <2>3, <2>4, <2>5 DEF EndCommit, Return
<1>14. CASE EndRollback(p)
  <2>1. TableTypes' /\ OutcomeTypes'
    BY <1>9, <1>14 DEF EndRollback, table, Outcomes
  <2> QED BY <1>4, <1>5, <1>6, <1>14, <2>1 DEF EndRollback, Return
<1>15. CASE Discard(p)
  <2>1. TableTypes' /\ OutcomeTypes'
    BY <1>9, <1>15 DEF Discard, table, Outcomes
  <2> QED BY <1>4, <1>5, <1>6, <1>15, <2>1 DEF Discard, Return
<1>16. CASE CleanTransaction(p)
  <2>1. TableTypes' /\ OutcomeTypes' /\ IdTypes'
    BY <1>5, <1>9, <1>16 DEF CleanTransaction, table, Outcomes
  <2>2. CASE c.rest = {}
    BY <1>4, <1>6, <1>16, <2>1, <2>2 DEF CleanTransaction, Return
  <2>3. CASE c.rest # {}
    <3>1. Goto(p, "clean") /\ c.n # 0 /\ c.task = "clean"
      BY <1>1, <1>16, <2>3 DEF CleanTransaction, Sound
    <3> QED BY <1>4, <1>7, <1>8, <2>1, <2>3, <3>1
  <2> QED BY <2>2, <2>3
<1>17. ASSUME NEW n \in Numbers, CleanSession(p, n)
       PROVE  Types'
  <2> DEFINE f == [c EXCEPT !.pc = "clean_tx", !.n = n, !.rest = @ \ {n}]
  <2>1. n \in 1 .. opened /\ n \in Nat /\ c.rest \ {n} \in SUBSET Nat /\ "clean_tx" \in Points
    BY <1>1, <1>17 DEF CleanSession, Sound, Points, Frames, Numbers
  <2>2. f \in Frames
    BY <1>1, <2>1 DEF Frames
  <2>3. Sound(f, opened, counter)
    <3>1. /\ f.pc = "clean_tx" /\ f.n = n /\ f.rest = c.rest \ {n} /\ f.task = c.task
          /\ c.pc = "clean" /\ c.task = "clean"
      BY <1>1, <1>17 DEF CleanSession, Sound, Frames
    <3> HIDE DEF f
    <3> QED BY <1>1, <2>1, <2>2, <3>1 DEF Sound
  <2>4. caller' = [caller EXCEPT ![p] = f]
    BY <1>1, <1>17 DEF CleanSession, CallerTypes
  <2>5. TableTypes' /\ OutcomeTypes'
    <3>1. TableTypes'
      BY <1>1, <1>2, <1>17 DEF CleanSession, TableTypes
    <3>2. outcome' = outcome
      BY <1>17 DEF CleanSession, histories
    <3> QED BY <1>1, <3>1, <3>2 DEF OutcomeTypes
  <2> HIDE DEF f
  <2> QED BY <1>4, <1>5, <1>17, <2>3, <2>4, <2>5 DEF CleanSession, histories
<1> QED BY <1>10, <1>11, <1>12, <1>13, <1>14, <1>15, <1>16, <1>17 DEF Continue

\* Time and a restart keep the types.
LEMMA TimeTyped ==
    ASSUME Types, \/ \E n \in Numbers : TransactionTimesOut(n) \/ SessionExpires(n)
                  \/ UNCHANGED vars
    PROVE  Types' /\ UNCHANGED <<clock, active, sessions, failed, caller, bounds, histories>>
<1>1. UNCHANGED <<clock, active, sessions, failed, caller, bounds, histories>>
  BY DEF TransactionTimesOut, SessionExpires, vars, table
<1>2. TableTypes'
  <2>1. TableTypes
    BY DEF Types
  <2>2. ASSUME NEW n \in Numbers, n \in Existing PROVE n \in 1 .. opened
    <3>1. CASE n \in active
      BY <2>1, <3>1 DEF TableTypes
    <3>2. ASSUME NEW p \in Callers, n = caller[p].n PROVE n \in 1 .. opened
      <4>1. caller[p].n <= opened /\ opened \in Nat
        BY DEF Types, CallerTypes, BoundTypes, Sound
      <4> QED BY <2>2, <3>2, <4>1, TxSessionAssumption DEF Numbers
    <3> QED BY <2>2, <3>1, <3>2 DEF Existing
  <2>3. ASSUME NEW n \in Numbers, TransactionTimesOut(n) PROVE TableTypes'
    <3>1. late' = late \cup {n} /\ n \in 1 .. opened /\ stale' = stale
      BY <2>2, <2>3 DEF TransactionTimesOut, table
    <3> QED BY <1>1, <2>1, <3>1 DEF TableTypes, bounds
  <2>4. ASSUME NEW n \in Numbers, SessionExpires(n) PROVE TableTypes'
    BY <1>1, <2>1, <2>4 DEF SessionExpires, TableTypes, bounds
  <2> QED BY <1>1, <2>1, <2>3, <2>4 DEF vars, TableTypes, table, bounds
<1>3. ClockTypes' /\ BoundTypes' /\ CallerTypes' /\ OutcomeTypes' /\ IdTypes'
  BY <1>1 DEF Types, ClockTypes, BoundTypes, CallerTypes, OutcomeTypes, IdTypes, clock, bounds,
              histories, Below
<1> QED BY <1>1, <1>2, <1>3 DEF Types

LEMMA RestartTyped ==
    ASSUME Types, Restart
    PROVE  Types'
<1>1. ClockTypes' /\ BoundTypes' /\ TableTypes' /\ OutcomeTypes'
  BY DEF Types, Restart, ClockTypes, BoundTypes, TableTypes, OutcomeTypes
<1>2. IdTypes'
  BY DEF Types, Restart, IdTypes
<1>3. opened \in Nat /\ opened' = opened /\ counter' = 0
  BY DEF Types, Restart, BoundTypes
<1>4. caller' = [q \in Callers |-> Idle]
  BY DEF Restart
<1>5. Sound(Idle, opened', counter') /\ Idle \in Frames
  BY <1>3, IdleSound
<1>6. CallerTypes'
  BY <1>4, <1>5 DEF CallerTypes
<1> QED BY <1>1, <1>2, <1>6 DEF Types

\* The parts of the next-state relation.
LEMMA NextParts ==
    ASSUME [Next]_vars
    PROVE  \/ \E p \in Callers : Start(p) \/ Continue(p) \/ Clock(p)
           \/ (\E n \in Numbers : TransactionTimesOut(n) \/ SessionExpires(n)) \/ UNCHANGED vars
           \/ Restart
  BY DEF Next

LEMMA NextTyped == Types /\ [Next]_vars => Types'
  BY NextParts, StartTyped, ContinueTyped, ClockTyped, TimeTyped, RestartTyped

LEMMA AlwaysTyped == Spec => []Types
  BY InitTyped, NextTyped, PTL DEF Spec

\* The type invariant: a call is at one of its steps, a session was opened
\* before it is listed, and the parts of every id are in range.
THEOREM TypeCorrect == Spec => []TypeOK
<1>1. Types => TypeOK
  <2> SUFFICES ASSUME Types PROVE TypeOK
    OBVIOUS
  <2>1. /\ epoch \in 1 .. MaxEpoch /\ counter \in Nat
        /\ opened \in 0 .. MaxSessions /\ calls \in 0 .. MaxCalls
        /\ active \cup sessions \cup late \cup failed \subseteq 1 .. opened
        /\ stale \subseteq 1 .. opened
        /\ bookmarks \subseteq Ids
    BY DEF Types, ClockTypes, BoundTypes, TableTypes, IdTypes
  <2>2. ASSUME NEW p \in Callers
        PROVE  /\ caller[p].pc \in Points
               /\ caller[p].rest \subseteq Numbers /\ caller[p].n \in 0 .. opened
               /\ caller[p].pc = "clean" => caller[p].rest # {}
    <3>1. Sound(caller[p], opened, counter) /\ opened <= MaxSessions /\ opened \in Nat
      BY <2>1 DEF Types, CallerTypes
    <3> QED BY <3>1 DEF Sound, Frames, Numbers
  <2>3. \A g \in granted : {g.first, g.last, g.floor} \subseteq Ids
    BY DEF Types, IdTypes, Grants
  <2> QED BY <2>1, <2>2, <2>3 DEF TypeOK, Points
<1> QED BY <1>1, AlwaysTyped, PTL

----------------------------------------------------------------------------
(* Ids.                                                                    *)

Step(p) == Start(p) \/ Continue(p) \/ Clock(p)

\* A step of a call moves that call only, and the clock never goes back.
LEMMA StepOfCall ==
    ASSUME Types, NEW p \in Callers, Step(p)
    PROVE  /\ \A q \in Callers \ {p} : caller'[q] = caller[q]
           /\ epoch \in Nat /\ epoch' \in Nat /\ counter \in Nat /\ counter' \in Nat
           /\ epoch <= epoch' /\ counter <= counter'
           /\ caller[p] \in Frames /\ Sound(caller[p], opened, counter)
           /\ caller'[p] \in Frames /\ Sound(caller'[p], opened', counter')
<1>1. Types'
  BY StartTyped, ContinueTyped, ClockTyped DEF Step
<1>2. /\ caller \in [Callers -> Frames] /\ caller' \in [Callers -> Frames]
      /\ epoch \in Nat /\ epoch' \in Nat /\ counter \in Nat /\ counter' \in Nat
      /\ Sound(caller[p], opened, counter) /\ Sound(caller'[p], opened', counter')
  BY <1>1 DEF Types, CallerTypes, ClockTypes
<1>3. CASE Start(p)
  <2> DEFINE Beginning == (\E f : Begin(p, f)) /\ epoch <= epoch' /\ counter' = counter
  <2>1. Beginning
    <3>1. CASE CallReserve(p, 2)
      BY <1>2, <3>1 DEF CallReserve, clock
    <3>2. ASSUME NEW b, CallOpen(p, b) PROVE Beginning
      BY <1>2, <3>2 DEF CallOpen, clock
    <3>3. ASSUME NEW n, Touch(p, n) \/ RecordTerminalError(p, n) PROVE Beginning
      BY <1>2, <3>3 DEF Touch, RecordTerminalError, clock
    <3>4. ASSUME NEW n, NEW task, TakeSession(p, n, task) PROVE Beginning
      BY <1>2, <3>4 DEF TakeSession, clock
    <3>5. ASSUME NEW e \in 1 .. MaxEpoch, AdvanceEpoch(p, e) PROVE Beginning
      BY <1>2, <3>5 DEF AdvanceEpoch
    <3>6. CASE CollectExpired(p)
      BY <1>2, <3>6 DEF CollectExpired, clock
    <3>7. CASE CleanLateTransactions(p)
      BY <1>2, <3>7 DEF CleanLateTransactions, clock
    <3> QED BY <1>3, <3>1, <3>2, <3>3, <3>4, <3>5, <3>6, <3>7 DEF Start
  <2> QED BY <1>2, <2>1 DEF Begin
<1>4. CASE Continue(p)
  <2>1. UNCHANGED <<epoch, counter>>
    BY <1>4 DEF Continue, InsertTransaction, OpenSession, TakeTransaction, EndCommit,
                EndRollback, Discard, CleanTransaction, CleanSession, clock
  <2>2. \A q \in Callers \ {p} : caller'[q] = caller[q]
    BY <1>2, <1>4 DEF Continue, InsertTransaction, OpenSession, TakeTransaction, EndCommit,
                EndRollback, Discard, CleanTransaction, CleanSession, Goto, Return
  <2> QED BY <1>2, <2>1, <2>2
<1>5. CASE Clock(p)
  <2>1. \A q \in Callers \ {p} : caller'[q] = caller[q]
    BY <1>2, <1>5 DEF Clock, ObserveEpoch, ObserveCounter, CountRange, StampBegin,
                StampFirst, StampLast, Goto, Return
  <2>2. epoch <= epoch' /\ counter <= counter'
    <3>1. caller[p].fence \in Ids /\ caller[p].len \in {1, 2}
      BY <1>2 DEF Frames
    <3> QED BY <1>2, <1>5, <3>1 DEF Clock, ObserveEpoch, ObserveCounter, CountRange, StampBegin,
                StampFirst, StampLast, Larger, Ids, clock
  <2> QED BY <1>2, <2>1, <2>2
<1> QED BY <1>2, <1>3, <1>4, <1>5 DEF Step

\* A call that begins stands at the step it begins with.
LEMMA Begun ==
    ASSUME Types, NEW p \in Callers, NEW f, Begin(p, f)
    PROVE  caller'[p] = f /\ caller[p].pc = "idle"
  BY DEF Types, CallerTypes, Begin

\* The step a call stands at after it began.
LEMMA Beginnings ==
    ASSUME Types, NEW p \in Callers, Start(p)
    PROVE  /\ caller[p].pc = "idle" /\ UNCHANGED granted
           /\ \/ /\ caller'[p].pc = "count" /\ caller'[p].floor = GrantedSoFar
                 /\ caller'[p].task = "reserve" /\ caller'[p].rest = {}
              \/ \E b \in Ids :
                    /\ CallOpen(p, b)
                    /\ caller'[p].pc = IF b = Zero THEN "count" ELSE "observe_epoch"
                    /\ caller'[p].fence = b /\ caller'[p].floor = Latest({GrantedSoFar, b})
                    /\ caller'[p].task = "open" /\ caller'[p].n = opened + 1
                    /\ caller'[p].rest = {}
              \/ \E n \in sessions, task \in {"commit", "rollback", "delete"} :
                    /\ TakeSession(p, n, task)
                    /\ caller'[p].n = n /\ caller'[p].rest = {} /\ caller'[p].task = task
                    /\ caller'[p].pc = IF n \in failed \/ task = "delete" THEN "discard" ELSE task
              \/ /\ caller'[p].pc = "clean" /\ caller'[p].rest = sessions \cap stale
                 /\ caller'[p].task = "clean"
              \/ caller'[p] = Idle
<1>1. CASE CallReserve(p, 2)
  <2>1. /\ caller'[p] = [Idle EXCEPT !.pc = "count", !.task = "reserve", !.len = 2,
                               !.floor = GrantedSoFar]
        /\ caller[p].pc = "idle" /\ UNCHANGED granted
    BY <1>1, Begun DEF CallReserve, histories
  <2>2. /\ caller'[p].pc = "count" /\ caller'[p].floor = GrantedSoFar
        /\ caller'[p].task = "reserve" /\ caller'[p].rest = {}
    BY <2>1 DEF Idle
  <2> QED BY <2>1, <2>2
<1>2. ASSUME NEW b \in bookmarks \cup Remote \cup {Zero}, CallOpen(p, b)
      PROVE  /\ b \in Ids /\ caller[p].pc = "idle" /\ UNCHANGED granted
             /\ caller'[p].pc = IF b = Zero THEN "count" ELSE "observe_epoch"
             /\ caller'[p].fence = b /\ caller'[p].floor = Latest({GrantedSoFar, b})
             /\ caller'[p].task = "open" /\ caller'[p].n = opened + 1
             /\ caller'[p].rest = {}
  <2> DEFINE x == IF b = Zero THEN "count" ELSE "observe_epoch"
             l == Latest({GrantedSoFar, b})
  <2>1. /\ caller'[p] = [Idle EXCEPT !.pc = x, !.task = "open", !.n = opened + 1,
                               !.fence = b, !.floor = l]
        /\ caller[p].pc = "idle" /\ UNCHANGED granted
    BY <1>2, Begun DEF CallOpen, histories
  <2>2. b \in Ids
    BY DEF Types, IdTypes, Ids, Zero
  <2> HIDE DEF x, l
  <2>3. /\ caller'[p].pc = x /\ caller'[p].floor = l /\ caller'[p].fence = b
        /\ caller'[p].task = "open" /\ caller'[p].n = opened + 1 /\ caller'[p].rest = {}
    BY <2>1 DEF Idle
  <2> QED BY <2>1, <2>2, <2>3 DEF x, l
<1>3. ASSUME NEW n, Touch(p, n) \/ RecordTerminalError(p, n)
      PROVE  caller'[p] = Idle /\ caller[p].pc = "idle" /\ UNCHANGED granted
  BY <1>3, Begun DEF Touch, RecordTerminalError, histories
<1>4. ASSUME NEW n, NEW task \in {"commit", "rollback", "delete"}, TakeSession(p, n, task)
      PROVE  /\ n \in sessions /\ caller[p].pc = "idle" /\ UNCHANGED granted
             /\ caller'[p].n = n /\ caller'[p].rest = {} /\ caller'[p].task = task
             /\ caller'[p].pc = IF n \in failed \/ task = "delete" THEN "discard" ELSE task
  <2> DEFINE x == IF n \in failed \/ task = "delete" THEN "discard" ELSE task
  <2>1. /\ caller'[p] = [Idle EXCEPT !.n = n, !.task = task, !.pc = x]
        /\ caller[p].pc = "idle" /\ UNCHANGED granted /\ n \in sessions
    BY <1>4, Begun DEF TakeSession, histories
  <2> HIDE DEF x
  <2>2. /\ caller'[p].pc = x /\ caller'[p].n = n /\ caller'[p].task = task
        /\ caller'[p].rest = {}
    BY <2>1 DEF Idle
  <2> QED BY <2>1, <2>2 DEF x
<1>5. ASSUME NEW e, AdvanceEpoch(p, e)
      PROVE  caller'[p] = Idle /\ caller[p].pc = "idle" /\ UNCHANGED granted
  BY <1>5, Begun DEF AdvanceEpoch, histories
<1>6. CASE CollectExpired(p)
  <2> DEFINE s == sessions \cap stale
  <2>1. /\ caller'[p] = [Idle EXCEPT !.pc = "clean", !.task = "clean", !.rest = s]
        /\ caller[p].pc = "idle" /\ UNCHANGED granted
    BY <1>6, Begun DEF CollectExpired, histories
  <2> HIDE DEF s
  <2>2. caller'[p].pc = "clean" /\ caller'[p].rest = s /\ caller'[p].task = "clean"
    BY <2>1 DEF Idle
  <2> QED BY <2>1, <2>2 DEF s
<1>7. CASE CleanLateTransactions(p)
  BY <1>7, Begun DEF CleanLateTransactions
<1> QED
  <2>1. CASE \E b \in bookmarks \cup Remote \cup {Zero} : CallOpen(p, b)
    BY <1>2, <2>1
  <2>2. CASE \E n \in Numbers, task \in {"commit", "rollback", "delete"} : TakeSession(p, n, task)
    BY <1>4, <2>2
  <2>3. CASE \/ \E n \in Numbers : Touch(p, n) \/ RecordTerminalError(p, n)
             \/ \E e \in 1 .. MaxEpoch : AdvanceEpoch(p, e)
             \/ CleanLateTransactions(p)
    BY <1>3, <1>5, <1>7, <2>3
  <2> QED BY <1>1, <1>6, <2>1, <2>2, <2>3 DEF Start

\* The floor of a call is an id the clock has reached, or the bookmark it is
\* about to observe; what it counts is above it.
Ahead(f, e, k) ==
    /\ f.pc = "observe_epoch" =>
          f.floor = f.fence \/ (f.floor[1] <= e /\ f.floor[2] <= k)
    /\ f.pc = "observe_counter" =>
          f.floor[1] <= e /\ (f.floor = f.fence \/ f.floor[2] <= k)
    /\ f.pc = "count" => f.floor[1] <= e /\ f.floor[2] <= k
    /\ f.pc = "stamp" => f.floor[1] <= e /\ f.floor[2] < f.count
    /\ f.pc = "stamp_last" => f.floor[1] <= f.first[1] /\ f.floor[2] < f.first[2]

\* In both its parts, an id given out is above its floor.
Above(g) == g.floor[1] <= g.first[1] /\ g.floor[2] < g.first[2]

Ordered ==
    /\ \A p \in Callers : Ahead(caller[p], epoch, counter)
    /\ \A g \in granted : Above(g)

LEMMA AheadStays ==
    ASSUME NEW f \in Frames, NEW e \in Nat, NEW k \in Nat, NEW d \in Nat, NEW j \in Nat,
           e <= d, k <= j, Ahead(f, e, k)
    PROVE  Ahead(f, d, j)
<1>1. f.floor \in Ids /\ f.floor[1] \in Nat /\ f.floor[2] \in Nat
  BY DEF Frames, Ids
<1> QED BY <1>1 DEF Ahead

LEMMA IdleAhead == \A e, k : Ahead(Idle, e, k)
  BY DEF Ahead, Idle

LEMMA ContinueOrdered ==
    ASSUME Types, Ordered, NEW p \in Callers, Continue(p)
    PROVE  Ahead(caller'[p], epoch', counter') /\ \A g \in granted' : Above(g)
<1> DEFINE c == caller[p]
           Done == Ahead(caller'[p], epoch', counter')
<1>1. /\ epoch \in Nat /\ counter \in Nat /\ epoch <= epoch' /\ counter <= counter'
      /\ epoch' \in Nat /\ counter' \in Nat
      /\ c \in Frames /\ Sound(c, opened, counter)
      /\ caller \in [Callers -> Frames]
  BY StepOfCall DEF Step, Types, CallerTypes
<1>2. Ahead(c, epoch, counter) /\ \A g \in granted : Above(g)
  BY DEF Ordered
<1>3. ASSUME NEW x \in {"session", "clean"}, Goto(p, x)
      PROVE  Done
  BY <1>1, <1>3 DEF Goto, Ahead
<1>4. ASSUME Return(p) PROVE Done
  BY <1>1, <1>4, IdleAhead DEF Return
<1>5. CASE InsertTransaction(p)
  BY <1>2, <1>3, <1>5 DEF InsertTransaction, histories
<1>6. CASE OpenSession(p)
  BY <1>2, <1>4, <1>6 DEF OpenSession, histories
<1>7. CASE TakeTransaction(p)
  <2>1. GrantedSoFar[1] <= epoch /\ GrantedSoFar[2] <= counter
    BY GrantedSoFarBelow DEF Below
  <2>2. UNCHANGED <<epoch, counter, granted>>
    BY <1>7 DEF TakeTransaction, clock, histories
  <2>3. \/ caller'[p] = Idle
        \/ caller'[p] = [c EXCEPT !.pc = "count", !.floor = GrantedSoFar]
    BY <1>1, <1>7 DEF TakeTransaction
  <2>4. CASE caller'[p] = [c EXCEPT !.pc = "count", !.floor = GrantedSoFar]
    <3>1. caller'[p].pc = "count" /\ caller'[p].floor = GrantedSoFar
      BY <1>1, <2>4 DEF Frames
    <3> QED BY <1>2, <2>1, <2>2, <3>1 DEF Ahead
  <2> QED BY <1>2, <2>2, <2>3, <2>4, IdleAhead
<1>8. CASE EndCommit(p)
  <2> DEFINE ts == <<epoch, c.count>>
             g == [first |-> ts, last |-> ts, floor |-> c.floor, call |-> <<p, calls>>]
  <2>1. c.floor[1] <= epoch /\ c.floor[2] < c.count
    BY <1>2, <1>8 DEF EndCommit, Ahead
  <2>2. Above(g)
    BY <2>1 DEF Above
  <2>3. granted' = granted \cup {g} /\ Return(p)
    BY <1>8 DEF EndCommit, Grant
  <2> HIDE DEF g
  <2> QED BY <1>2, <1>4, <2>2, <2>3
<1>9. CASE EndRollback(p)
  BY <1>2, <1>4, <1>9 DEF EndRollback
<1>10. CASE Discard(p)
  BY <1>2, <1>4, <1>10 DEF Discard
<1>11. CASE CleanTransaction(p)
  BY <1>2, <1>3, <1>4, <1>11 DEF CleanTransaction
<1>12. ASSUME NEW n, CleanSession(p, n) PROVE Done /\ granted' = granted
  <2>1. caller'[p].pc = "clean_tx"
    BY <1>1, <1>12 DEF CleanSession, Frames
  <2> QED BY <1>12, <2>1 DEF CleanSession, histories, Ahead
<1>13. CASE \E n \in Numbers : CleanSession(p, n)
  BY <1>2, <1>12, <1>13
<1> HIDE DEF Done
<1> QED BY <1>5, <1>6, <1>7, <1>8, <1>9, <1>10, <1>11, <1>13 DEF Continue

LEMMA ClockOrdered ==
    ASSUME Types, Ordered, NEW p \in Callers, Clock(p)
    PROVE  Ahead(caller'[p], epoch', counter') /\ \A g \in granted' : Above(g)
<1> DEFINE c == caller[p]
           Done == Ahead(caller'[p], epoch', counter')
<1>1. /\ epoch \in Nat /\ counter \in Nat /\ epoch <= epoch' /\ counter <= counter'
      /\ epoch' \in Nat /\ counter' \in Nat
      /\ c \in Frames /\ Sound(c, opened, counter)
      /\ caller \in [Callers -> Frames]
      /\ c.floor \in Ids /\ c.floor[1] \in Nat /\ c.floor[2] \in Nat
      /\ c.fence \in Ids /\ c.fence[1] \in Nat /\ c.fence[2] \in Nat /\ c.count \in Nat
  <2>1. c \in Frames /\ c.floor \in Ids /\ c.fence \in Ids /\ c.count \in Nat
    BY StepOfCall DEF Step, Frames
  <2> QED BY <2>1, StepOfCall DEF Step, Types, CallerTypes, Ids
<1>2. Ahead(c, epoch, counter) /\ \A g \in granted : Above(g)
  BY DEF Ordered
<1>3. CASE ObserveEpoch(p)
  <2>1. /\ c.pc = "observe_epoch" /\ epoch' = Larger(epoch, c.fence[1])
        /\ UNCHANGED <<counter, granted>>
        /\ caller'[p].pc = "observe_counter" /\ caller'[p].floor = c.floor
        /\ caller'[p].fence = c.fence
    BY <1>1, <1>3 DEF ObserveEpoch, Goto, histories, Frames
  <2>2. c.floor = c.fence \/ (c.floor[1] <= epoch /\ c.floor[2] <= counter)
    BY <1>2, <2>1 DEF Ahead
  <2>3. c.floor[1] <= epoch' /\ (c.floor = c.fence \/ c.floor[2] <= counter')
    BY <1>1, <2>1, <2>2 DEF Larger
  <2> QED BY <1>2, <2>1, <2>3 DEF Ahead
<1>4. CASE ObserveCounter(p)
  <2>1. /\ c.pc = "observe_counter" /\ counter' = Larger(counter, c.fence[2])
        /\ UNCHANGED <<epoch, granted>>
        /\ caller'[p].pc = "count" /\ caller'[p].floor = c.floor
    BY <1>1, <1>4 DEF ObserveCounter, Goto, histories, Frames
  <2>2. c.floor[1] <= epoch /\ (c.floor = c.fence \/ c.floor[2] <= counter)
    BY <1>2, <2>1 DEF Ahead
  <2>3. c.floor[1] <= epoch' /\ c.floor[2] <= counter'
    BY <1>1, <2>1, <2>2 DEF Larger
  <2> QED BY <1>2, <2>1, <2>3 DEF Ahead
<1>5. CASE CountRange(p)
  <2>1. /\ c.pc = "count" /\ UNCHANGED <<epoch, granted>>
        /\ caller'[p].pc = "stamp" /\ caller'[p].floor = c.floor
        /\ caller'[p].count = counter + 1
    BY <1>1, <1>5 DEF CountRange, histories, Frames
  <2>2. c.floor[1] <= epoch /\ c.floor[2] <= counter
    BY <1>2, <2>1 DEF Ahead
  <2>3. c.floor[1] <= epoch' /\ c.floor[2] < counter + 1
    BY <1>1, <2>1, <2>2
  <2> QED BY <1>2, <2>1, <2>3 DEF Ahead
<1>6. CASE StampBegin(p)
  <2> DEFINE ts == <<epoch, c.count>>
             g == [first |-> ts, last |-> ts, floor |-> c.floor, call |-> <<p, calls>>]
  <2>1. c.floor[1] <= epoch /\ c.floor[2] < c.count
    BY <1>2, <1>6 DEF StampBegin, Ahead
  <2>2. Above(g)
    BY <2>1 DEF Above
  <2>3. granted' = granted \cup {g} /\ caller'[p].pc = "insert"
    BY <1>1, <1>6 DEF StampBegin, Grant, Goto, Frames
  <2> HIDE DEF g
  <2> QED BY <1>2, <2>2, <2>3 DEF Ahead
<1>7. CASE StampFirst(p)
  <2>1. /\ c.pc = "stamp" /\ UNCHANGED <<granted>>
        /\ caller'[p].pc = "stamp_last" /\ caller'[p].floor = c.floor
        /\ caller'[p].first = <<epoch, c.count>>
    BY <1>1, <1>7 DEF StampFirst, histories, Frames
  <2>2. c.floor[1] <= epoch /\ c.floor[2] < c.count
    BY <1>2, <2>1 DEF Ahead
  <2> QED BY <1>2, <2>1, <2>2 DEF Ahead
<1>8. CASE StampLast(p)
  <2> DEFINE l == <<epoch, c.count + c.len - 1>>
             g == [first |-> c.first, last |-> l, floor |-> c.floor, call |-> <<p, calls>>]
  <2>1. c.floor[1] <= c.first[1] /\ c.floor[2] < c.first[2]
    BY <1>2, <1>8 DEF StampLast, Ahead
  <2>2. Above(g)
    BY <2>1 DEF Above
  <2>3. granted' = granted \cup {g} /\ caller'[p] = Idle
    BY <1>1, <1>8 DEF StampLast, Grant, Return
  <2> HIDE DEF g
  <2> QED BY <1>2, <2>2, <2>3, IdleAhead
<1> QED BY <1>3, <1>4, <1>5, <1>6, <1>7, <1>8 DEF Clock

LEMMA StartOrdered ==
    ASSUME Types, Ordered, NEW p \in Callers, Start(p)
    PROVE  Ahead(caller'[p], epoch', counter') /\ \A g \in granted' : Above(g)
<1>1. /\ epoch \in Nat /\ counter \in Nat /\ epoch <= epoch' /\ counter <= counter'
      /\ epoch' \in Nat /\ counter' \in Nat
  BY StepOfCall DEF Step
<1>2. granted' = granted /\ \A g \in granted : Above(g)
  BY Beginnings DEF Ordered
<1>3. GrantedSoFar \in Ids /\ GrantedSoFar[1] <= epoch' /\ GrantedSoFar[2] <= counter'
  <2>1. GrantedSoFar \in Ids /\ GrantedSoFar[1] <= epoch /\ GrantedSoFar[2] <= counter
        /\ GrantedSoFar[1] \in Nat /\ GrantedSoFar[2] \in Nat
    BY GrantedSoFarBelow DEF Below, Ids
  <2> QED BY <1>1, <2>1
<1>4. CASE caller'[p].pc = "count" /\ caller'[p].floor = GrantedSoFar
  BY <1>2, <1>3, <1>4 DEF Ahead
<1>5. ASSUME NEW b \in Ids,
             caller'[p].pc = IF b = Zero THEN "count" ELSE "observe_epoch",
             caller'[p].fence = b, caller'[p].floor = Latest({GrantedSoFar, b})
      PROVE  Ahead(caller'[p], epoch', counter')
  <2>1. caller'[p].floor \in {GrantedSoFar, b}
    BY <1>3, <1>5, LatestOfTwo
  <2>2. b = Zero => b[1] <= epoch' /\ b[2] <= counter'
    BY <1>1 DEF Zero
  <2> QED BY <1>3, <1>5, <2>1, <2>2 DEF Ahead
<1>6. CASE caller'[p].pc \in {"commit", "rollback", "discard", "clean"}
  BY <1>2, <1>6 DEF Ahead
<1> QED BY <1>2, <1>4, <1>5, <1>6, Beginnings, IdleAhead

LEMMA OrderedStays == Types /\ Ordered /\ [Next]_vars => Ordered'
<1> SUFFICES ASSUME Types, Ordered, [Next]_vars PROVE Ordered'
  OBVIOUS
<1>1. ASSUME NEW p \in Callers, Step(p) PROVE Ordered'
  <2>1. Ahead(caller'[p], epoch', counter') /\ \A g \in granted' : Above(g)
    BY <1>1, StartOrdered, ContinueOrdered, ClockOrdered DEF Step
  <2>2. ASSUME NEW q \in Callers, q # p PROVE Ahead(caller'[q], epoch', counter')
    <3>1. caller'[q] = caller[q] /\ Ahead(caller[q], epoch, counter) /\ caller[q] \in Frames
      BY <1>1, <2>2, StepOfCall DEF Ordered, Types, CallerTypes
    <3> QED BY <1>1, <3>1, StepOfCall, AheadStays
  <2> QED BY <2>1, <2>2 DEF Ordered, Above
<1>2. CASE (\E n \in Numbers : TransactionTimesOut(n) \/ SessionExpires(n)) \/ UNCHANGED vars
  <2>1. UNCHANGED <<epoch, counter, caller, granted>>
    BY <1>2, TimeTyped DEF clock, histories
  <2> QED BY <2>1 DEF Ordered, Above
<1>3. CASE Restart
  BY <1>3, IdleAhead DEF Restart, Ordered
<1> QED BY <1>1, <1>2, <1>3, NextParts DEF Step

\* An id given out by a call is larger than every id given out before the call
\* began or took its number, and than the bookmark a transaction was opened
\* with: reads are monotone across nodes and restarts.
THEOREM IdsAlwaysInOrder == Spec => []IdsInOrder
<1>1. Init => Ordered
  BY IdleAhead DEF Init, Ordered
<1>2. Types /\ Ordered => IdsInOrder
  <2> SUFFICES ASSUME Types, Ordered, NEW g \in granted PROVE Less(g.floor, g.first)
    BY DEF IdsInOrder
  <2>1. g.floor \in Ids /\ g.first \in Ids /\ Above(g)
    BY DEF Types, IdTypes, Grants, Ordered
  <2> QED BY <2>1 DEF Above, Less, Ids
<1> QED BY <1>1, <1>2, AlwaysTyped, OrderedStays, PTL DEF Spec

\* The counters a call has counted and not yet stamped.
Holds(f) == f.pc \in {"stamp", "stamp_last"}
High(f) == f.count + f.len - 1
Apart(a, b, c, d) == b < c \/ d < a

\* No counter was given to two calls.
Separate ==
    /\ \A g \in granted : g.first[2] <= g.last[2]
    /\ \A g, h \in granted :
          g # h => Apart(g.first[2], g.last[2], h.first[2], h.last[2])
    /\ \A p \in Callers : Holds(caller[p]) =>
          /\ caller[p].pc = "stamp_last" => caller[p].first[2] = caller[p].count
          /\ \A g \in granted :
                Apart(caller[p].count, High(caller[p]), g.first[2], g.last[2])
          /\ \A q \in Callers \ {p} : Holds(caller[q]) =>
                Apart(caller[p].count, High(caller[p]), caller[q].count, High(caller[q]))

LEMMA IdleHoldsNothing == ~Holds(Idle)
  BY DEF Holds, Idle

\* A step that counts nothing and gives nothing out.
LEMMA SeparateFrame ==
    ASSUME Separate, NEW p \in Callers, \A q \in Callers \ {p} : caller'[q] = caller[q],
           ~Holds(caller'[p]), granted' = granted
    PROVE  Separate'
<1>1. \A q \in Callers : Holds(caller'[q]) => q # p /\ caller'[q] = caller[q]
  OBVIOUS
<1> QED BY <1>1 DEF Separate, High

\* A step that gives out what its call has counted.
LEMMA SeparateGrant ==
    ASSUME Types, Separate, NEW p \in Callers, \A q \in Callers \ {p} : caller'[q] = caller[q],
           Holds(caller[p]), ~Holds(caller'[p]),
           NEW g \in Grants, granted' = granted \cup {g},
           g.first[2] = caller[p].count,
           g.last[2] \in {caller[p].count, High(caller[p])}
    PROVE  Separate'
<1> DEFINE c == caller[p]
<1>1. /\ c.count \in Nat /\ High(c) \in Nat /\ c.count <= High(c)
      /\ g.first[2] \in Nat /\ g.last[2] \in Nat
  BY DEF Types, CallerTypes, Frames, High, Grants, Ids
<1>2. g.first[2] <= g.last[2]
  BY <1>1
<1>3. ASSUME NEW a \in Nat, NEW b \in Nat, Apart(c.count, High(c), a, b)
      PROVE  /\ Apart(g.first[2], g.last[2], a, b)
             /\ Apart(a, b, g.first[2], g.last[2])
  BY <1>1, <1>3 DEF Apart
<1>4. ASSUME NEW h \in granted
      PROVE  /\ Apart(g.first[2], g.last[2], h.first[2], h.last[2])
             /\ Apart(h.first[2], h.last[2], g.first[2], g.last[2])
  <2>1. h.first[2] \in Nat /\ h.last[2] \in Nat
    BY DEF Types, IdTypes, Grants, Ids
  <2>2. Apart(c.count, High(c), h.first[2], h.last[2])
    BY DEF Separate
  <2> QED BY <1>3, <2>1, <2>2
<1>5. ASSUME NEW q \in Callers, q # p, Holds(caller[q])
      PROVE  Apart(caller[q].count, High(caller[q]), g.first[2], g.last[2])
  <2>1. caller[q].count \in Nat /\ High(caller[q]) \in Nat
    BY DEF Types, CallerTypes, Frames, High
  <2>2. Apart(c.count, High(c), caller[q].count, High(caller[q]))
    BY <1>5 DEF Separate
  <2> QED BY <1>3, <2>1, <2>2
<1>6. \A q \in Callers : Holds(caller'[q]) => q # p /\ caller'[q] = caller[q]
  OBVIOUS
<1>7. \A h \in granted' : h.first[2] <= h.last[2]
  BY <1>2 DEF Separate
<1>8. \A h, k \in granted' : h # k => Apart(h.first[2], h.last[2], k.first[2], k.last[2])
  BY <1>4 DEF Separate
<1>9. ASSUME NEW q \in Callers, Holds(caller'[q])
      PROVE  /\ caller'[q].pc = "stamp_last" => caller'[q].first[2] = caller'[q].count
             /\ \A h \in granted' :
                   Apart(caller'[q].count, High(caller'[q]), h.first[2], h.last[2])
             /\ \A r \in Callers \ {q} : Holds(caller'[r]) =>
                   Apart(caller'[q].count, High(caller'[q]), caller'[r].count, High(caller'[r]))
  BY <1>5, <1>6, <1>9 DEF Separate, High
<1> QED BY <1>7, <1>8, <1>9 DEF Separate

\* The other steps of a clock and of a commit.
LEMMA SeparateCount ==
    ASSUME Types, Separate, NEW p \in Callers, CountRange(p)
    PROVE  Separate'
<1> DEFINE c == caller'[p]
<1>1. /\ c.count = counter + 1 /\ c.pc = "stamp" /\ c.len \in {1, 2} /\ granted' = granted
      /\ counter \in Nat
      /\ \A q \in Callers \ {p} : caller'[q] = caller[q]
  <2>1. caller[p] \in Frames /\ counter \in Nat /\ \A q \in Callers \ {p} : caller'[q] = caller[q]
    BY StepOfCall DEF Step, Clock
  <2>2. caller[p].len \in {1, 2}
    BY <2>1 DEF Frames
  <2> QED BY <2>1, <2>2 DEF CountRange, histories, Types, CallerTypes, Frames
<1>2. c.count \in Nat /\ High(c) \in Nat /\ c.count <= High(c) /\ counter < c.count
  BY <1>1 DEF High
<1>3. ASSUME NEW g \in granted
      PROVE  Apart(c.count, High(c), g.first[2], g.last[2])
  <2>1. g.last[2] <= counter /\ g.last[2] \in Nat
    BY DEF Types, IdTypes, Below, Grants, Ids
  <2> QED BY <1>1, <1>2, <2>1 DEF Apart
<1>4. ASSUME NEW q \in Callers, q # p, Holds(caller[q])
      PROVE  /\ Apart(c.count, High(c), caller[q].count, High(caller[q]))
             /\ Apart(caller[q].count, High(caller[q]), c.count, High(c))
  <2>1. High(caller[q]) <= counter /\ High(caller[q]) \in Nat
    BY <1>4 DEF Types, CallerTypes, Sound, Frames, High, Holds
  <2> QED BY <1>1, <1>2, <2>1 DEF Apart
<1>5. ASSUME NEW q \in Callers, Holds(caller'[q])
      PROVE  /\ caller'[q].pc = "stamp_last" => caller'[q].first[2] = caller'[q].count
             /\ \A h \in granted' :
                   Apart(caller'[q].count, High(caller'[q]), h.first[2], h.last[2])
             /\ \A r \in Callers \ {q} : Holds(caller'[r]) =>
                   Apart(caller'[q].count, High(caller'[q]), caller'[r].count, High(caller'[r]))
  <2>1. CASE q = p
    BY <1>1, <1>3, <1>4, <2>1
  <2>2. CASE q # p
    <3>1. caller'[q] = caller[q] /\ Holds(caller[q])
      BY <1>1, <1>5, <2>2
    <3>2. \A r \in Callers \ {q} : r # p => caller'[r] = caller[r]
      BY <1>1
    <3> HIDE DEF c
    <3>3. Apart(caller'[q].count, High(caller'[q]), c.count, High(c))
      BY <1>4, <2>2, <3>1
    <3> QED BY <1>1, <2>2, <3>1, <3>2, <3>3 DEF Separate, c
  <2> QED BY <2>1, <2>2
<1> QED BY <1>1, <1>5 DEF Separate

LEMMA SeparateFirst ==
    ASSUME Types, Separate, NEW p \in Callers, StampFirst(p)
    PROVE  Separate'
<1>1. /\ caller'[p].count = caller[p].count /\ caller'[p].len = caller[p].len
      /\ caller'[p].first[2] = caller'[p].count /\ Holds(caller[p]) /\ granted' = granted
      /\ \A q \in Callers \ {p} : caller'[q] = caller[q]
  BY DEF Types, CallerTypes, StampFirst, Frames, Holds, histories
<1>2. \A q \in Callers : /\ caller'[q].count = caller[q].count
                         /\ High(caller'[q]) = High(caller[q])
                         /\ Holds(caller'[q]) => Holds(caller[q])
  BY <1>1 DEF High
<1> QED BY <1>1, <1>2 DEF Separate

LEMMA SeparateStays == Types /\ Separate /\ [Next]_vars => Separate'
<1> SUFFICES ASSUME Types, Separate, [Next]_vars PROVE Separate'
  OBVIOUS
<1>1. ASSUME NEW p \in Callers, Step(p)
      PROVE  /\ caller[p] \in Frames /\ caller \in [Callers -> Frames]
             /\ \A q \in Callers \ {p} : caller'[q] = caller[q]
  BY <1>1, StepOfCall DEF Types, CallerTypes
<1>2. ASSUME NEW p \in Callers, Start(p) PROVE Separate'
  <2>1. granted' = granted /\ ~Holds(caller'[p])
    BY <1>2, Beginnings, IdleHoldsNothing DEF Holds
  <2> QED BY <1>1, <1>2, <2>1, SeparateFrame DEF Step
<1>3. ASSUME NEW p \in Callers, \/ InsertTransaction(p) \/ OpenSession(p) \/ TakeTransaction(p)
                                \/ EndRollback(p) \/ Discard(p) \/ CleanTransaction(p)
                                \/ \E n \in Numbers : CleanSession(p, n)
                                \/ ObserveEpoch(p) \/ ObserveCounter(p)
      PROVE  Separate'
  <2>1. Step(p)
    BY <1>3 DEF Step, Continue, Clock
  <2>2. granted' = granted
    BY <1>3 DEF InsertTransaction, OpenSession, TakeTransaction, EndRollback, Discard,
                CleanTransaction, CleanSession, ObserveEpoch, ObserveCounter, histories
  <2>3. \/ caller'[p] = Idle
        \/ caller'[p].pc \in {"session", "count", "clean", "clean_tx", "observe_counter"}
    <3>1. CASE InsertTransaction(p) \/ ObserveEpoch(p) \/ ObserveCounter(p)
      BY <1>1, <2>1, <3>1 DEF InsertTransaction, ObserveEpoch, ObserveCounter, Goto, Frames
    <3>2. CASE OpenSession(p) \/ EndRollback(p) \/ Discard(p)
      BY <1>1, <2>1, <3>2 DEF OpenSession, EndRollback, Discard, Return
    <3>3. CASE TakeTransaction(p)
      BY <1>1, <2>1, <3>3 DEF TakeTransaction, Frames
    <3>4. CASE CleanTransaction(p)
      BY <1>1, <2>1, <3>4 DEF CleanTransaction, Return, Goto, Frames
    <3>5. ASSUME NEW n, CleanSession(p, n) PROVE caller'[p].pc = "clean_tx"
      BY <1>1, <2>1, <3>5 DEF CleanSession, Frames
    <3> QED BY <1>3, <3>1, <3>2, <3>3, <3>4, <3>5
  <2>4. ~Holds(caller'[p])
    BY <2>3, IdleHoldsNothing DEF Holds
  <2> QED BY <1>1, <2>1, <2>2, <2>4, SeparateFrame
<1>4. ASSUME NEW p \in Callers, StampBegin(p) \/ EndCommit(p) \/ StampLast(p)
      PROVE  Separate'
  <2> DEFINE c == caller[p]
             first == IF StampLast(p) THEN c.first ELSE <<epoch, c.count>>
             last == IF StampLast(p) THEN <<epoch, c.count + c.len - 1>> ELSE <<epoch, c.count>>
             g == [first |-> first, last |-> last, floor |-> c.floor, call |-> <<p, calls>>]
  <2>1. Step(p)
    BY <1>4 DEF Step, Continue, Clock
  <2>2. granted' = granted \cup {g} /\ Holds(c)
    BY <1>4 DEF StampBegin, EndCommit, StampLast, Grant, Holds
  <2>3. g \in granted'
    BY <2>2
  <2>4. g \in Grants
    <3>1. Types'
      BY <2>1, StartTyped, ContinueTyped, ClockTyped DEF Step
    <3> QED BY <2>3, <3>1 DEF Types, IdTypes
  <2>5. ~Holds(caller'[p])
    <3>1. caller'[p] = Idle \/ caller'[p].pc = "insert"
      BY <1>1, <1>4, <2>1 DEF StampBegin, EndCommit, StampLast, Goto, Return, Frames
    <3> QED BY <3>1, IdleHoldsNothing DEF Holds
  <2>6. g.first[2] = c.count /\ g.last[2] \in {c.count, High(c)}
    <3>1. StampLast(p) => c.first[2] = c.count
      BY DEF StampLast, Separate, Holds
    <3> QED BY <1>4, <3>1 DEF High
  <2> HIDE DEF g
  <2> QED BY <1>1, <2>1, <2>2, <2>4, <2>5, <2>6, SeparateGrant
<1>5. ASSUME NEW p \in Callers, Step(p) PROVE Separate'
  BY <1>2, <1>3, <1>4, <1>5, SeparateCount, SeparateFirst DEF Step, Continue, Clock
<1>6. CASE (\E n \in Numbers : TransactionTimesOut(n) \/ SessionExpires(n)) \/ UNCHANGED vars
  <2>1. UNCHANGED <<caller, granted>>
    BY <1>6, TimeTyped DEF histories
  <2> QED BY <2>1 DEF Separate, High
<1>7. CASE Restart
  BY <1>7, IdleHoldsNothing DEF Restart, Separate
<1> QED BY <1>5, <1>6, <1>7, NextParts DEF Step

\* No id is given out twice while the process lives, and no id given out lies in
\* a range reserved by another call whose ends were stamped in one epoch,
\* however the calls interleave.
THEOREM IdsAlwaysExclusive == Spec => []IdsExclusive
<1>1. Init => Separate
  BY IdleHoldsNothing DEF Init, Separate
<1>2. Types /\ Separate => IdsExclusive
  <2> SUFFICES ASSUME Types, Separate, NEW g \in granted, NEW h \in granted, g # h,
                      AtMost(g.first, h.last), AtMost(h.first, g.last),
                      g.first[1] = g.last[1], h.first[1] = h.last[1]
               PROVE  FALSE
    BY DEF IdsExclusive, Overlap
  <2>1. /\ g.first[1] \in Nat /\ g.first[2] \in Nat /\ g.last[1] \in Nat /\ g.last[2] \in Nat
        /\ h.first[1] \in Nat /\ h.first[2] \in Nat /\ h.last[1] \in Nat /\ h.last[2] \in Nat
    BY DEF Types, IdTypes, Grants, Ids
  <2>2. \/ g.last[2] < h.first[2]
        \/ h.last[2] < g.first[2]
    BY DEF Separate, Apart
  <2>3. /\ g.first[1] < h.last[1] \/ (g.first[1] = h.last[1] /\ g.first[2] <= h.last[2])
        /\ h.first[1] < g.last[1] \/ (h.first[1] = g.last[1] /\ h.first[2] <= g.last[2])
    BY <2>1 DEF AtMost, Less
  <2> QED BY <2>1, <2>2, <2>3
<1> QED BY <1>1, <1>2, AlwaysTyped, SeparateStays, PTL DEF Spec

----------------------------------------------------------------------------
(* The two tables: who opens, ends and commits a number, and what was told of
   it, for every set of callers. *)

\* A call that opens the transaction and the session with the number n; that
\* removed the session n and goes on to its transaction; that took the
\* transaction n to commit it.
Opens(f, n) == f.task = "open" /\ f.n = n
Ends(f, n) == f.pc \in {"commit", "rollback", "discard", "clean_tx"} /\ f.n = n
Commits(f, n) == f.task = "commit" /\ f.pc \in {"count", "stamp"} /\ f.n = n

\* A number is opened by one call, which lists it last; nobody ends what is
\* still being opened or still listed.
Roles ==
    /\ \A p \in Callers, n \in Numbers : Opens(caller[p], n) =>
          /\ n \notin sessions
          /\ n \in active => caller[p].pc = "session"
          /\ \A q \in Callers :
                /\ Opens(caller[q], n) => q = p
                /\ ~Ends(caller[q], n) /\ n \notin caller[q].rest
    /\ \A p \in Callers, n \in Numbers : Ends(caller[p], n) => n \notin sessions

\* What was told of one number: nothing while it is active, being opened or
\* being committed; never more than one thing; and a commit neither of a listed
\* session nor of a failed one.
ToldOf(n) ==
    /\ n \in Nat /\ n > opened => outcome[n] = {}
    /\ n \in active => outcome[n] = {}
    /\ n \in sessions \cup failed => "committed" \notin outcome[n]
    /\ outcome[n] = {} \/ \E how : outcome[n] = {how}
    /\ \A p \in Callers :
          /\ Opens(caller[p], n) /\ caller[p].pc # "session" => outcome[n] = {}
          /\ Ends(caller[p], n) /\ caller[p].pc = "commit" => n \notin failed
          /\ Commits(caller[p], n) =>
                /\ n \notin active \cup sessions \cup failed /\ outcome[n] = {}
                /\ \A q \in Callers :
                      ~Opens(caller[q], n) /\ (Commits(caller[q], n) => q = p)

Told == \A n \in Numbers : ToldOf(n)

----------------------------------------------------------------------------
(* What a step of a call does to its frame and to the tables.              *)

\* The step of a call moves on and keeps what the call is about.
Keeps(p) ==
    /\ caller'[p].task = caller[p].task /\ caller'[p].n = caller[p].n
    /\ caller'[p].rest = caller[p].rest

Clocked(p) ==
    /\ UNCHANGED <<active, late, sessions, stale, failed, opened, outcome>>
    /\ caller[p].pc \in {"observe_epoch", "observe_counter", "count", "stamp", "stamp_last"}
    /\ \/ caller'[p] = Idle
       \/ /\ Keeps(p)
          /\ caller'[p].pc \in {"observe_counter", "count", "stamp", "insert", "stamp_last"}

LEMMA ClockMoves ==
    ASSUME Types, NEW p \in Callers, Clock(p)
    PROVE  Clocked(p)
<1>1. caller \in [Callers -> Frames] /\ caller[p] \in Frames
  BY DEF Types, CallerTypes
<1>2. CASE ObserveEpoch(p)
  BY <1>1, <1>2 DEF ObserveEpoch, Goto, Clocked, Keeps, table, bounds, histories, Frames
<1>3. CASE ObserveCounter(p)
  BY <1>1, <1>3 DEF ObserveCounter, Goto, Clocked, Keeps, table, bounds, histories, Frames
<1>4. CASE CountRange(p)
  BY <1>1, <1>4 DEF CountRange, Clocked, Keeps, table, bounds, histories, Frames
<1>5. CASE StampBegin(p)
  BY <1>1, <1>5 DEF StampBegin, Goto, Clocked, Keeps, table, bounds, Frames
<1>6. CASE StampFirst(p)
  BY <1>1, <1>6 DEF StampFirst, Clocked, Keeps, table, bounds, histories, Frames
<1>7. CASE StampLast(p)
  BY <1>1, <1>7 DEF StampLast, Return, Clocked, Keeps, table, bounds
<1> QED BY <1>2, <1>3, <1>4, <1>5, <1>6, <1>7 DEF Clock

\* The frames after the steps of an open, an end and a cleanup.
LEMMA ContinueMoves ==
    ASSUME Types, NEW p \in Callers
    PROVE  /\ InsertTransaction(p) => Keeps(p) /\ caller'[p].pc = "session"
           /\ OpenSession(p) \/ EndCommit(p) \/ EndRollback(p) \/ Discard(p)
                 => caller'[p] = Idle
           /\ TakeTransaction(p) =>
                 IF caller[p].n \in active THEN Keeps(p) /\ caller'[p].pc = "count"
                 ELSE caller'[p] = Idle
           /\ CleanTransaction(p) =>
                 caller'[p] = Idle \/ (Keeps(p) /\ caller'[p].pc = "clean")
           /\ \A n : CleanSession(p, n) =>
                 /\ caller'[p].pc = "clean_tx" /\ caller'[p].n = n
                 /\ caller'[p].rest \subseteq caller[p].rest /\ caller'[p].task = "clean"
<1>1. caller \in [Callers -> Frames] /\ caller[p] \in Frames /\ Sound(caller[p], opened, counter)
  BY DEF Types, CallerTypes
<1>2. ASSUME InsertTransaction(p) PROVE Keeps(p) /\ caller'[p].pc = "session"
  BY <1>1, <1>2 DEF InsertTransaction, Goto, Keeps, Frames
<1>3. ASSUME OpenSession(p) \/ EndCommit(p) \/ EndRollback(p) \/ Discard(p)
      PROVE  caller'[p] = Idle
  BY <1>1, <1>3 DEF OpenSession, EndCommit, EndRollback, Discard, Return
<1>4. ASSUME TakeTransaction(p)
      PROVE  IF caller[p].n \in active THEN Keeps(p) /\ caller'[p].pc = "count"
             ELSE caller'[p] = Idle
  BY <1>1, <1>4 DEF TakeTransaction, Keeps, Frames
<1>5. ASSUME CleanTransaction(p)
      PROVE  caller'[p] = Idle \/ (Keeps(p) /\ caller'[p].pc = "clean")
  BY <1>1, <1>5 DEF CleanTransaction, Return, Goto, Keeps, Frames
<1>6. ASSUME NEW n, CleanSession(p, n)
      PROVE  /\ caller'[p].pc = "clean_tx" /\ caller'[p].n = n
             /\ caller'[p].rest \subseteq caller[p].rest /\ caller'[p].task = "clean"
  <2>1. caller[p].task = "clean"
    BY <1>1, <1>6 DEF CleanSession, Sound
  <2> QED BY <1>1, <1>6, <2>1 DEF CleanSession, Frames
<1> QED BY <1>2, <1>3, <1>4, <1>5, <1>6

----------------------------------------------------------------------------
(* The two tables.                                                         *)

\* The roles of one number.
RolesOf(n) ==
    /\ \A p \in Callers : Opens(caller[p], n) =>
          /\ n \notin sessions
          /\ n \in active => caller[p].pc = "session"
          /\ \A q \in Callers :
                /\ Opens(caller[q], n) => q = p
                /\ ~Ends(caller[q], n) /\ n \notin caller[q].rest
    /\ \A p \in Callers : Ends(caller[p], n) => n \notin sessions

\* A step that neither opens nor lists a number and ends it only after it was
\* removed from the sessions keeps its roles.
LEMMA RolesKept ==
    ASSUME NEW n, RolesOf(n), NEW p \in Callers,
           \A q \in Callers \ {p} : caller'[q] = caller[q],
           n \in sessions' => n \in sessions, n \in active' => n \in active,
           Opens(caller'[p], n) =>
              Opens(caller[p], n) /\ (caller[p].pc = "session" => caller'[p].pc = "session"),
           Ends(caller'[p], n) =>
              Ends(caller[p], n) \/ (n \notin sessions' /\ \A q \in Callers : ~Opens(caller[q], n)),
           n \in caller'[p].rest =>
              n \in caller[p].rest \/ \A q \in Callers : ~Opens(caller[q], n)
    PROVE  RolesOf(n)'
<1>1. \A q \in Callers : Opens(caller'[q], n) =>
         Opens(caller[q], n) /\ (caller[q].pc = "session" => caller'[q].pc = "session")
  OBVIOUS
<1>2. \A q \in Callers : Ends(caller'[q], n) =>
         n \notin sessions' /\ (Ends(caller[q], n) \/ \A r \in Callers : ~Opens(caller[r], n))
  BY DEF RolesOf
<1>3. \A q \in Callers : n \in caller'[q].rest =>
         n \in caller[q].rest \/ \A r \in Callers : ~Opens(caller[r], n)
  OBVIOUS
<1> HIDE DEF Opens, Ends
<1> QED BY <1>1, <1>2, <1>3 DEF RolesOf

LEMMA IdleRoles == \A n \in Numbers : ~Opens(Idle, n) /\ ~Ends(Idle, n) /\ n \notin Idle.rest
  BY DEF Opens, Ends, Idle

LEMMA StartRoles ==
    ASSUME Types, Roles, NEW p \in Callers, Start(p), NEW n \in Numbers
    PROVE  RolesOf(n)'
<1>1. /\ RolesOf(n)
      /\ \A q \in Callers \ {p} : caller'[q] = caller[q]
  BY StepOfCall DEF Roles, RolesOf, Step
<1>2. /\ \A q \in Callers : caller[q].n <= opened /\ caller[q].n \in Nat
                            /\ caller[q].rest \subseteq 1 .. opened
      /\ opened \in Nat /\ n \in Nat
  BY DEF Types, CallerTypes, Sound, BoundTypes, Frames, Numbers
<1>3. caller[p].pc = "idle"
  BY Beginnings
<1>4. sessions' \subseteq sessions /\ active' \subseteq active
  <2>1. ASSUME NEW b, CallOpen(p, b) PROVE UNCHANGED <<sessions, active>>
    BY <2>1 DEF CallOpen, table
  <2>2. ASSUME NEW m, NEW task, TakeSession(p, m, task)
        PROVE sessions' \subseteq sessions /\ active' = active
    BY <2>2 DEF TakeSession
  <2>3. ASSUME NEW m, Touch(p, m) \/ RecordTerminalError(p, m)
        PROVE UNCHANGED <<sessions, active>>
    BY <2>3 DEF Touch, RecordTerminalError
  <2>4. ASSUME NEW e, AdvanceEpoch(p, e) PROVE UNCHANGED <<sessions, active>>
    BY <2>4 DEF AdvanceEpoch, table
  <2>5. CallReserve(p, 2) \/ CollectExpired(p) => UNCHANGED <<sessions, active>>
    BY DEF CallReserve, CollectExpired, table
  <2>6. CleanLateTransactions(p) => active' \subseteq active /\ sessions' = sessions
    BY DEF CleanLateTransactions, table
  <2> QED BY <2>1, <2>2, <2>3, <2>4, <2>5, <2>6 DEF Start
<1>5. ASSUME ~Opens(caller'[p], n), n \notin caller'[p].rest, ~Ends(caller'[p], n)
      PROVE  RolesOf(n)'
  BY <1>1, <1>4, <1>5, RolesKept
<1>6. CASE caller'[p].pc = "count" /\ caller'[p].task = "reserve" /\ caller'[p].rest = {}
  BY <1>5, <1>6 DEF Opens, Ends
<1>7. ASSUME NEW b, CallOpen(p, b), caller'[p].task = "open", caller'[p].n = opened + 1,
             caller'[p].pc \in {"count", "observe_epoch"}, caller'[p].rest = {}
      PROVE  RolesOf(n)'
  <2>1. CASE n # opened + 1
    BY <1>5, <1>7, <2>1 DEF Opens, Ends
  <2>2. CASE n = opened + 1
    <3>1. \A q \in Callers : ~Opens(caller[q], n) /\ ~Ends(caller[q], n) /\ n \notin caller[q].rest
      BY <1>2, <2>2 DEF Opens, Ends
    <3>2. n \notin sessions /\ n \notin active
      BY <1>2, <2>2, Opened
    <3>3. n \notin sessions' /\ n \notin active' /\ Opens(caller'[p], n)
          /\ ~Ends(caller'[p], n) /\ n \notin caller'[p].rest
      BY <1>4, <1>7, <2>2, <3>2 DEF Opens, Ends
    <3>4. \A q \in Callers : /\ ~Ends(caller'[q], n) /\ n \notin caller'[q].rest
                             /\ Opens(caller'[q], n) => q = p
      BY <1>1, <3>1, <3>3
    <3> HIDE DEF Opens, Ends
    <3> QED BY <3>3, <3>4 DEF RolesOf
  <2> QED BY <2>1, <2>2
<1>8. ASSUME NEW m \in sessions, NEW task \in {"commit", "rollback", "delete"},
             TakeSession(p, m, task), caller'[p].n = m, caller'[p].rest = {},
             caller'[p].task = task
      PROVE  RolesOf(n)'
  <2>1. CASE m # n
    BY <1>5, <1>8, <2>1 DEF Opens, Ends
  <2>2. CASE m = n
    <3>1. \A q \in Callers : ~Opens(caller[q], n)
      BY <1>1, <1>8, <2>2 DEF RolesOf
    <3>2. n \notin sessions'
      BY <1>8, <2>2 DEF TakeSession
    <3>3. ~Opens(caller'[p], n)
      BY <1>8 DEF Opens
    <3> QED BY <1>1, <1>4, <1>8, <3>1, <3>2, <3>3, RolesKept
  <2> QED BY <2>1, <2>2
<1>9. CASE /\ caller'[p].pc = "clean" /\ caller'[p].rest = sessions \cap stale
           /\ caller'[p].task = "clean"
  <2>1. n \in caller'[p].rest => \A q \in Callers : ~Opens(caller[q], n)
    BY <1>1, <1>9 DEF RolesOf
  <2>2. ~Opens(caller'[p], n) /\ ~Ends(caller'[p], n)
    BY <1>9 DEF Opens, Ends
  <2> QED BY <1>1, <1>4, <2>1, <2>2, RolesKept
<1>10. CASE caller'[p] = Idle
  BY <1>5, <1>10, IdleRoles
<1> QED BY <1>6, <1>7, <1>8, <1>9, <1>10, Beginnings

\* A clock step changes no role: only an open stands before the insertion.
LEMMA ClockRoles ==
    ASSUME Types, Roles, NEW p \in Callers, Clock(p), NEW n \in Numbers
    PROVE  RolesOf(n)'
<1>1. /\ RolesOf(n)
      /\ \A q \in Callers \ {p} : caller'[q] = caller[q]
  BY StepOfCall DEF Roles, RolesOf, Step
<1>2. Clocked(p)
  BY ClockMoves
<1>3. caller'[p] = Idle => RolesOf(n)'
  BY <1>1, <1>2, IdleRoles, RolesKept DEF Clocked
<1>4. CASE Keeps(p)
  <2>1. Opens(caller'[p], n) => Opens(caller[p], n) /\ caller[p].pc # "session"
    BY <1>2, <1>4 DEF Keeps, Opens, Clocked
  <2>2. caller'[p] # Idle => ~Ends(caller'[p], n)
    BY <1>2 DEF Clocked, Ends
  <2>3. n \in caller'[p].rest => n \in caller[p].rest
    BY <1>4 DEF Keeps
  <2> QED BY <1>1, <1>2, <1>3, <2>1, <2>2, <2>3, RolesKept DEF Clocked
<1> QED BY <1>2, <1>3, <1>4 DEF Clocked

LEMMA ContinueRoles ==
    ASSUME Types, Roles, NEW p \in Callers, Continue(p), NEW n \in Numbers
    PROVE  RolesOf(n)'
<1> DEFINE c == caller[p]
<1>1. /\ RolesOf(n)
      /\ \A q \in Callers \ {p} : caller'[q] = caller[q]
      /\ Sound(c, opened, counter)
  BY StepOfCall DEF Roles, RolesOf, Step
<1>2. ASSUME caller'[p] = Idle, n \in sessions' => n \in sessions, n \in active' => n \in active
      PROVE  RolesOf(n)'
  BY <1>1, <1>2, IdleRoles, RolesKept
<1>3. CASE InsertTransaction(p)
  <2>1. /\ c.pc = "insert" /\ c.task = "open" /\ Keeps(p) /\ caller'[p].pc = "session"
        /\ active' = active \cup {c.n} /\ sessions' = sessions
    BY <1>1, <1>3, ContinueMoves DEF InsertTransaction, Sound, table
  <2>2. ~Ends(caller'[p], n) /\ (Opens(caller'[p], n) <=> Opens(c, n))
        /\ caller'[p].rest = c.rest
    BY <2>1 DEF Keeps, Opens, Ends
  <2>3. CASE n # c.n
    BY <1>1, <2>1, <2>2, <2>3, RolesKept
  <2>4. CASE n = c.n
    <3>1. Opens(c, n)
      BY <2>1, <2>4 DEF Opens
    <3>2. /\ n \notin sessions
          /\ \A q \in Callers : /\ Opens(caller[q], n) => q = p
                                /\ ~Ends(caller[q], n) /\ n \notin caller[q].rest
      BY <1>1, <3>1 DEF RolesOf
    <3>3. \A q \in Callers : /\ Opens(caller'[q], n) => q = p
                             /\ ~Ends(caller'[q], n) /\ n \notin caller'[q].rest
      BY <1>1, <2>2, <3>2
    <3> HIDE DEF Opens, Ends
    <3> QED BY <2>1, <3>2, <3>3 DEF RolesOf
  <2> QED BY <2>3, <2>4
<1>4. CASE OpenSession(p)
  <2>1. /\ c.pc = "session" /\ c.task = "open" /\ caller'[p] = Idle /\ active' = active
        /\ sessions' \subseteq sessions \cup {c.n}
    BY <1>1, <1>4, ContinueMoves DEF OpenSession, Sound
  <2>2. CASE n # c.n
    BY <1>2, <2>1, <2>2
  <2>3. CASE n = c.n
    <3>1. Opens(c, n)
      BY <2>1, <2>3 DEF Opens
    <3>2. \A q \in Callers : ~Opens(caller'[q], n) /\ ~Ends(caller'[q], n)
      BY <1>1, <2>1, <3>1, IdleRoles DEF RolesOf
    <3> HIDE DEF Opens, Ends
    <3> QED BY <3>2 DEF RolesOf
  <2> QED BY <2>2, <2>3
<1>5. CASE TakeTransaction(p)
  <2>1. /\ sessions' = sessions /\ active' \subseteq active /\ c.task = "commit"
        /\ caller'[p] = Idle \/ (Keeps(p) /\ caller'[p].pc = "count")
    BY <1>1, <1>5, ContinueMoves DEF TakeTransaction, table, Sound
  <2>2. CASE Keeps(p) /\ caller'[p].pc = "count"
    <3>1. ~Opens(caller'[p], n) /\ ~Ends(caller'[p], n) /\ caller'[p].rest = c.rest
      BY <2>1, <2>2 DEF Keeps, Opens, Ends
    <3> QED BY <1>1, <2>1, <3>1, RolesKept
  <2> QED BY <1>2, <2>1, <2>2
<1>6. CASE EndCommit(p) \/ EndRollback(p) \/ Discard(p)
  <2>1. caller'[p] = Idle
    BY <1>6, ContinueMoves
  <2>2. sessions' = sessions /\ active' \subseteq active
    BY <1>6 DEF EndCommit, EndRollback, Discard, Remove, table
  <2> QED BY <1>2, <2>1, <2>2
<1>7. CASE CleanTransaction(p)
  <2>1. /\ sessions' = sessions /\ active' \subseteq active /\ c.task = "clean"
        /\ caller'[p] = Idle \/ (Keeps(p) /\ caller'[p].pc = "clean")
    BY <1>1, <1>7, ContinueMoves DEF CleanTransaction, Remove, table, Sound
  <2>2. CASE Keeps(p) /\ caller'[p].pc = "clean"
    <3>1. ~Opens(caller'[p], n) /\ ~Ends(caller'[p], n) /\ caller'[p].rest = c.rest
      BY <2>1, <2>2 DEF Keeps, Opens, Ends
    <3> QED BY <1>1, <2>1, <3>1, RolesKept
  <2> QED BY <1>2, <2>1, <2>2
<1>8. ASSUME NEW m \in Numbers, CleanSession(p, m)
      PROVE  RolesOf(n)'
  <2>1. /\ caller'[p].pc = "clean_tx" /\ caller'[p].n = m /\ caller'[p].task = "clean"
        /\ caller'[p].rest \subseteq c.rest
        /\ sessions' = sessions \ {m} /\ active' = active /\ m \in c.rest
    BY <1>8, ContinueMoves DEF CleanSession
  <2>2. ~Opens(caller'[p], n) /\ (Ends(caller'[p], n) => n = m)
    BY <2>1 DEF Opens, Ends
  <2>3. n = m => n \notin sessions' /\ \A q \in Callers : ~Opens(caller[q], n)
    BY <1>1, <2>1 DEF RolesOf
  <2> QED BY <1>1, <2>1, <2>2, <2>3, RolesKept
<1> QED BY <1>3, <1>4, <1>5, <1>6, <1>7, <1>8 DEF Continue

LEMMA RolesStay == Types /\ Roles /\ [Next]_vars => Roles'
<1> SUFFICES ASSUME Types, Roles, [Next]_vars PROVE Roles'
  OBVIOUS
<1>1. Roles' <=> \A n \in Numbers : RolesOf(n)'
  BY DEF Roles, RolesOf
<1>2. ASSUME NEW p \in Callers, Step(p) PROVE Roles'
  BY <1>1, <1>2, StartRoles, ContinueRoles, ClockRoles DEF Step
<1>3. CASE (\E n \in Numbers : TransactionTimesOut(n) \/ SessionExpires(n)) \/ UNCHANGED vars
  <2>1. UNCHANGED <<active, sessions, caller>>
    BY <1>3, TimeTyped
  <2> HIDE DEF Opens, Ends
  <2> QED BY <2>1 DEF Roles
<1>4. CASE Restart
  <2>1. \A p \in Callers : caller'[p] = Idle
    BY <1>4 DEF Restart
  <2> QED BY <2>1, IdleRoles DEF Roles
<1> QED BY <1>2, <1>3, <1>4, NextParts DEF Step

\* A call between the two tables.
Between(f, n) == f.n = n /\ f.pc \in {"session", "commit", "rollback", "discard", "clean_tx"}

LEMMA AgreeKept ==
    ASSUME TablesAgree, NEW p \in Callers, \A q \in Callers \ {p} : caller'[q] = caller[q],
           late \subseteq late',
           \A n \in active' : n \notin sessions' =>
              \/ n \in active /\ n \notin sessions /\ ~Between(caller[p], n)
              \/ Between(caller'[p], n),
           \A n \in sessions' : n \notin active' =>
              (n \in sessions /\ n \notin active) \/ n \in late'
    PROVE  TablesAgree'
<1>1. ASSUME NEW n \in active' \ sessions' PROVE \E q \in Callers : Between(caller'[q], n)
  <2>1. CASE n \in active /\ n \notin sessions /\ ~Between(caller[p], n)
    <3>1. PICK q \in Callers : Between(caller[q], n)
      BY <2>1 DEF TablesAgree, Between
    <3>2. caller'[q] = caller[q]
      BY <2>1, <3>1
    <3> QED BY <3>1, <3>2
  <2> QED BY <1>1, <2>1
<1>2. \A n \in sessions' \ active' : n \in late'
  BY DEF TablesAgree
<1> QED BY <1>1, <1>2 DEF TablesAgree, Between

\* A step between the tables that leaves them as they are, or removes from the
\* transactions what it is about.
LEMMA StartAgree ==
    ASSUME Types, Roles, TablesAgree, NEW p \in Callers, Start(p)
    PROVE  TablesAgree'
<1>1. \A q \in Callers \ {p} : caller'[q] = caller[q]
  BY StepOfCall DEF Step
<1>2. \A n : ~Between(caller[p], n)
  BY Beginnings DEF Between
<1>3. ASSUME UNCHANGED <<sessions, active, late>>
      PROVE  TablesAgree'
  BY <1>1, <1>2, <1>3, AgreeKept
<1>4. ASSUME NEW m, NEW task \in {"commit", "rollback", "delete"}, TakeSession(p, m, task)
      PROVE  TablesAgree'
  <2>1. /\ sessions' = sessions \ {m} /\ active' = active /\ late' = late
    BY <1>4 DEF TakeSession
  <2>2. Between(caller'[p], m)
    <3> DEFINE x == IF m \in failed \/ task = "delete" THEN "discard" ELSE task
    <3>1. caller'[p] = [Idle EXCEPT !.n = m, !.task = task, !.pc = x]
      BY <1>4, Begun DEF TakeSession
    <3>2. x \in {"commit", "rollback", "discard"}
      OBVIOUS
    <3> HIDE DEF x
    <3> QED BY <3>1, <3>2 DEF Between, Idle
  <2> QED BY <1>1, <1>2, <2>1, <2>2, AgreeKept
<1>5. CASE CleanLateTransactions(p)
  <2>1. active' = active \ late /\ sessions' = sessions /\ late' = late
    BY <1>5 DEF CleanLateTransactions, table
  <2> QED BY <1>1, <1>2, <2>1, AgreeKept
<1>6. ASSUME NEW b, CallOpen(p, b) PROVE UNCHANGED <<sessions, active, late>>
  BY <1>6 DEF CallOpen, table
<1>7. ASSUME NEW m, Touch(p, m) \/ RecordTerminalError(p, m)
      PROVE  UNCHANGED <<sessions, active, late>>
  BY <1>7 DEF Touch, RecordTerminalError
<1>8. ASSUME NEW e, AdvanceEpoch(p, e) PROVE UNCHANGED <<sessions, active, late>>
  BY <1>8 DEF AdvanceEpoch, table
<1>9. CallReserve(p, 2) \/ CollectExpired(p) => UNCHANGED <<sessions, active, late>>
  BY DEF CallReserve, CollectExpired, table
<1> QED BY <1>3, <1>4, <1>5, <1>6, <1>7, <1>8, <1>9 DEF Start

LEMMA ContinueAgree ==
    ASSUME Types, Roles, TablesAgree, NEW p \in Callers, Continue(p)
    PROVE  TablesAgree'
<1> DEFINE c == caller[p]
<1>1. /\ \A q \in Callers \ {p} : caller'[q] = caller[q]
      /\ Sound(c, opened, counter)
      /\ late' = late
  <2>1. late' = late
    BY DEF Continue, InsertTransaction, OpenSession, TakeTransaction, EndCommit, EndRollback,
           Discard, CleanTransaction, CleanSession
  <2> QED BY <2>1, StepOfCall DEF Step
<1>2. ASSUME c.pc \in {"commit", "rollback", "discard", "clean_tx"},
             sessions' = sessions, active' = active \ {c.n}
      PROVE  TablesAgree'
  <2>1. c.n \notin sessions
    <3>1. \A n \in sessions : n \in Numbers
      BY Opened
    <3> QED BY <1>2, <3>1 DEF Roles, Ends
  <2>2. \A n : Between(c, n) => n = c.n
    BY DEF Between
  <2> HIDE DEF c
  <2>3. \A n \in active' : n \notin sessions' =>
           n \in active /\ n \notin sessions /\ ~Between(c, n)
    BY <1>2, <2>2
  <2>4. \A n \in sessions' : n \notin active' => n \in sessions /\ n \notin active
    BY <1>2, <2>1
  <2> QED BY <1>1, <2>3, <2>4, AgreeKept DEF c
<1>3. CASE InsertTransaction(p)
  <2>1. /\ c.pc = "insert" /\ caller'[p].n = c.n /\ caller'[p].pc = "session"
        /\ active' = active \cup {c.n} /\ sessions' = sessions
    BY <1>3, ContinueMoves DEF InsertTransaction, Keeps, table
  <2>2. \A n : ~Between(c, n) /\ (n = c.n => Between(caller'[p], n))
    BY <2>1 DEF Between
  <2> QED BY <1>1, <2>1, <2>2, AgreeKept
<1>4. CASE OpenSession(p)
  <2>1. /\ active' = active
        /\ sessions' = IF c.n \in active THEN sessions \cup {c.n} ELSE sessions
    BY <1>4 DEF OpenSession
  <2>2. \A n : Between(c, n) => n = c.n
    BY DEF Between
  <2>3. \A n \in active' : n \notin sessions' =>
           n \in active /\ n \notin sessions /\ ~Between(c, n)
    BY <2>1, <2>2
  <2>4. \A n \in sessions' : n \notin active' => n \in sessions /\ n \notin active
    BY <2>1
  <2> QED BY <1>1, <2>3, <2>4, AgreeKept
<1>5. CASE TakeTransaction(p)
  BY <1>2, <1>5 DEF TakeTransaction, table
<1>6. CASE EndCommit(p)
  <2>1. /\ c.pc = "stamp" /\ UNCHANGED <<sessions, active>>
    BY <1>6 DEF EndCommit, table
  <2>2. \A n : ~Between(c, n)
    BY <2>1 DEF Between
  <2> QED BY <1>1, <2>1, <2>2, AgreeKept
<1>7. CASE EndRollback(p) \/ Discard(p) \/ CleanTransaction(p)
  BY <1>2, <1>7 DEF EndRollback, Discard, CleanTransaction, Remove, table
<1>8. ASSUME NEW m, CleanSession(p, m)
      PROVE  TablesAgree'
  <2>1. /\ c.pc = "clean" /\ sessions' = sessions \ {m} /\ active' = active
        /\ caller'[p].n = m /\ caller'[p].pc = "clean_tx"
    BY <1>8, ContinueMoves DEF CleanSession
  <2>2. /\ \A n : ~Between(c, n)
        /\ Between(caller'[p], m)
    BY <2>1 DEF Between
  <2> QED BY <1>1, <2>1, <2>2, AgreeKept
<1> QED BY <1>3, <1>4, <1>5, <1>6, <1>7, <1>8 DEF Continue

LEMMA ClockAgree ==
    ASSUME Types, Roles, TablesAgree, NEW p \in Callers, Clock(p)
    PROVE  TablesAgree'
<1>1. /\ \A q \in Callers \ {p} : caller'[q] = caller[q]
      /\ Clocked(p)
  BY StepOfCall, ClockMoves DEF Step
<1>2. \A n : ~Between(caller[p], n)
  BY <1>1 DEF Between, Clocked
<1> QED BY <1>1, <1>2, AgreeKept DEF Clocked

LEMMA AgreeStays == Types /\ Roles /\ TablesAgree /\ [Next]_vars => TablesAgree'
<1> SUFFICES ASSUME Types, Roles, TablesAgree, [Next]_vars PROVE TablesAgree'
  OBVIOUS
<1>1. ASSUME NEW p \in Callers, Step(p) PROVE TablesAgree'
  BY <1>1, StartAgree, ContinueAgree, ClockAgree DEF Step
<1>2. CASE (\E n \in Numbers : TransactionTimesOut(n) \/ SessionExpires(n)) \/ UNCHANGED vars
  <2>1. UNCHANGED <<active, sessions, caller>> /\ late \subseteq late'
    BY <1>2, TimeTyped DEF TransactionTimesOut, SessionExpires, vars
  <2> QED BY <2>1 DEF TablesAgree
<1>3. CASE Restart
  BY <1>3 DEF Restart, TablesAgree
<1> QED BY <1>1, <1>2, <1>3, NextParts DEF Step

LEMMA InitRoles == Init => Roles /\ TablesAgree
  BY IdleRoles DEF Init, Roles, TablesAgree

LEMMA AlwaysRoles == Spec => [](Types /\ Roles)
  BY InitTyped, NextTyped, InitRoles, RolesStay, PTL DEF Spec

\* No interleaving of opens, commits, rollbacks and cleanups leaks a
\* transaction whose session is gone, and a session loses its transaction only
\* to the timeout.
THEOREM TablesAlwaysAgree == Spec => []TablesAgree
  BY AlwaysRoles, InitRoles, AgreeStays, PTL DEF Spec

----------------------------------------------------------------------------
(* What is told.                                                           *)

\* A step that tells nothing of a number, lists it nowhere and takes it for no
\* commit.
LEMMA ToldKept ==
    ASSUME NEW n \in Numbers, ToldOf(n), NEW p \in Callers,
           \A q \in Callers \ {p} : caller'[q] = caller[q],
           outcome'[n] = outcome[n], opened \in Nat, opened' \in Nat, opened <= opened',
           n \in active' => n \in active, n \in sessions' => n \in sessions,
           n \in failed' => n \in failed,
           Opens(caller'[p], n) =>
              Opens(caller[p], n) /\ (caller'[p].pc # "session" => caller[p].pc # "session"),
           Ends(caller'[p], n) /\ caller'[p].pc = "commit" => n \notin failed,
           Commits(caller'[p], n) => Commits(caller[p], n)
    PROVE  ToldOf(n)'
<1>1. \A q \in Callers :
         /\ Opens(caller'[q], n) => Opens(caller[q], n)
         /\ Opens(caller'[q], n) /\ caller'[q].pc # "session" => caller[q].pc # "session"
         /\ Ends(caller'[q], n) /\ caller'[q].pc = "commit" => n \notin failed'
         /\ Commits(caller'[q], n) => Commits(caller[q], n)
  <2> HIDE DEF Opens, Ends, Commits
  <2> QED BY DEF ToldOf
<1>2. n \in Nat /\ n > opened' => outcome'[n] = {}
  BY DEF ToldOf
<1> HIDE DEF Opens, Ends, Commits
<1> QED BY <1>1, <1>2 DEF ToldOf

\* A step that ends an active number and does not commit it.
LEMMA ToldEnded ==
    ASSUME NEW n \in Numbers, RolesOf(n), ToldOf(n), NEW p \in Callers,
           \A q \in Callers \ {p} : caller'[q] = caller[q],
           NEW how, how # "committed", n \in active, outcome'[n] = outcome[n] \cup {how},
           opened \in Nat, n <= opened, opened' = opened,
           n \notin active', failed' = failed,
           ~Opens(caller'[p], n), ~Commits(caller'[p], n), caller'[p].pc # "commit"
    PROVE  ToldOf(n)'
<1>1. outcome'[n] = {how}
  BY DEF ToldOf
<1>2. \A q \in Callers : /\ Opens(caller'[q], n) => caller'[q].pc = "session"
                         /\ ~Commits(caller'[q], n)
                         /\ Ends(caller'[q], n) /\ caller'[q].pc = "commit" => n \notin failed'
  <2> HIDE DEF Opens, Ends, Commits
  <2> QED BY DEF ToldOf, RolesOf
<1>3. ~(n > opened')
  BY DEF Numbers
<1> HIDE DEF Opens, Ends, Commits
<1> QED BY <1>1, <1>2, <1>3 DEF ToldOf

LEMMA IdleTells == \A n \in Numbers : ~Opens(Idle, n) /\ ~Commits(Idle, n) /\ Idle.pc # "commit"
  BY DEF Opens, Commits, Idle

LEMMA StartTold ==
    ASSUME Types, Roles, Told, NEW p \in Callers, Start(p), NEW n \in Numbers
    PROVE  ToldOf(n)'
<1>1. /\ RolesOf(n) /\ ToldOf(n)
      /\ \A q \in Callers \ {p} : caller'[q] = caller[q]
      /\ opened \in Nat /\ n \in Nat
  BY StepOfCall DEF Roles, RolesOf, Told, Step, Types, BoundTypes, Numbers
<1>2. CASE CallReserve(p, 2) \/ CollectExpired(p)
  <2>1. UNCHANGED <<outcome, opened, active, sessions, failed>>
    BY <1>2 DEF CallReserve, CollectExpired, table, histories
  <2>2. caller'[p].task # "open" /\ caller'[p].task # "commit" /\ caller'[p].pc # "commit"
    <3>1. CASE CallReserve(p, 2)
      <4>1. caller'[p] = [Idle EXCEPT !.pc = "count", !.task = "reserve", !.len = 2,
                                      !.floor = GrantedSoFar]
        BY <3>1, Begun DEF CallReserve
      <4> QED BY <4>1 DEF Idle
    <3>2. CASE CollectExpired(p)
      <4> DEFINE s == sessions \cap stale
      <4>1. caller'[p] = [Idle EXCEPT !.pc = "clean", !.task = "clean", !.rest = s]
        BY <3>2, Begun DEF CollectExpired
      <4> QED BY <4>1 DEF Idle
    <3> QED BY <1>2, <3>1, <3>2
  <2>3. ~Opens(caller'[p], n) /\ ~Commits(caller'[p], n)
    BY <2>2 DEF Opens, Commits
  <2> QED BY <1>1, <2>1, <2>2, <2>3, ToldKept
<1>3. ASSUME NEW b, CallOpen(p, b)
      PROVE  ToldOf(n)'
  <2> DEFINE x == IF b = Zero THEN "count" ELSE "observe_epoch"
             l == Latest({GrantedSoFar, b})
  <2>1. /\ UNCHANGED <<outcome, active, sessions, failed>> /\ opened' = opened + 1
        /\ caller'[p] = [Idle EXCEPT !.pc = x, !.task = "open", !.n = opened + 1,
                               !.fence = b, !.floor = l]
    BY <1>3, Begun DEF CallOpen, table, histories
  <2>2. x \in {"count", "observe_epoch"}
    OBVIOUS
  <2> HIDE DEF x, l
  <2>3. caller'[p].task = "open" /\ caller'[p].n = opened + 1 /\ caller'[p].pc = x
    BY <2>1 DEF Idle
  <2>4. ~Commits(caller'[p], n) /\ caller'[p].pc # "commit" /\ (Opens(caller'[p], n) => n = opened + 1)
    BY <2>2, <2>3 DEF Opens, Commits
  <2>5. CASE n # opened + 1
    <3>1. opened' \in Nat /\ opened <= opened' /\ ~Opens(caller'[p], n)
      BY <1>1, <2>1, <2>4, <2>5
    <3> HIDE DEF Opens, Ends, Commits
    <3> QED BY <1>1, <2>1, <2>4, <3>1, ToldKept
  <2>6. CASE n = opened + 1
    <3>1. outcome'[n] = {}
      BY <1>1, <2>1, <2>6 DEF ToldOf
    <3>2. n \notin active' \cup sessions' \cup failed'
      BY <1>1, <2>1, <2>6, Opened
    <3>3. \A q \in Callers : ~Commits(caller'[q], n)
      <4>1. \A q \in Callers : caller[q].n # n
        BY <1>1, <2>6 DEF Types, CallerTypes, Sound, Frames
      <4> QED BY <1>1, <2>4, <4>1 DEF Commits
    <3> HIDE DEF Opens, Ends, Commits
    <3> QED BY <3>1, <3>2, <3>3 DEF ToldOf
  <2> QED BY <2>5, <2>6
<1>4. ASSUME NEW m, Touch(p, m) PROVE ToldOf(n)'
  <2>1. /\ UNCHANGED <<outcome, opened, active, sessions, failed>> /\ caller'[p] = Idle
    BY <1>4, Begun DEF Touch, histories
  <2> QED BY <1>1, <2>1, IdleTells, ToldKept
<1>5. ASSUME NEW m, RecordTerminalError(p, m) PROVE ToldOf(n)'
  <2>1. /\ UNCHANGED <<outcome, opened, active, sessions>> /\ caller'[p] = Idle
        /\ failed' = failed \cup {m} /\ m \in sessions
    BY <1>5, Begun DEF RecordTerminalError, histories
  <2>2. CASE n # m
    BY <1>1, <2>1, <2>2, IdleTells, ToldKept
  <2>3. CASE n = m
    <3>1. \A q \in Callers : /\ ~Commits(caller'[q], n) /\ ~Opens(caller'[q], n)
                             /\ ~Ends(caller'[q], n)
      <4> HIDE DEF Opens, Ends, Commits
      <4> QED BY <1>1, <2>1, <2>3, IdleTells, IdleRoles DEF ToldOf, RolesOf
    <3> HIDE DEF Opens, Ends, Commits
    <3> QED BY <1>1, <2>1, <2>3, <3>1 DEF ToldOf
  <2> QED BY <2>2, <2>3
<1>6. ASSUME NEW m, NEW task \in {"commit", "rollback", "delete"}, TakeSession(p, m, task)
      PROVE  ToldOf(n)'
  <2> DEFINE x == IF m \in failed \/ task = "delete" THEN "discard" ELSE task
  <2>1. /\ UNCHANGED <<outcome, opened, active, failed>> /\ sessions' = sessions \ {m}
        /\ caller'[p] = [Idle EXCEPT !.n = m, !.task = task, !.pc = x]
    BY <1>6, Begun DEF TakeSession, histories
  <2>2. x \in {"commit", "rollback", "discard"} /\ (x = "commit" => m \notin failed)
    OBVIOUS
  <2> HIDE DEF x
  <2>3. caller'[p].pc = x /\ caller'[p].task = task /\ caller'[p].n = m
    BY <2>1 DEF Idle
  <2>4. ~Opens(caller'[p], n) /\ ~Commits(caller'[p], n)
        /\ (Ends(caller'[p], n) /\ caller'[p].pc = "commit" => n \notin failed)
    BY <2>2, <2>3 DEF Opens, Commits, Ends
  <2>5. opened' \in Nat /\ opened <= opened' /\ (n \in sessions' => n \in sessions)
    BY <1>1, <2>1
  <2> HIDE DEF Opens, Ends, Commits
  <2> QED BY <1>1, <2>1, <2>4, <2>5, ToldKept
<1>7. ASSUME NEW e, AdvanceEpoch(p, e) PROVE ToldOf(n)'
  <2>1. /\ UNCHANGED <<outcome, opened, active, sessions, failed>> /\ caller'[p] = Idle
    BY <1>7, Begun DEF AdvanceEpoch, table, histories
  <2> QED BY <1>1, <2>1, IdleTells, ToldKept
<1>8. CASE CleanLateTransactions(p)
  <2>1. /\ UNCHANGED <<opened, sessions, failed>> /\ caller'[p] = Idle
        /\ active' = active \ late
        /\ outcome'[n] = IF n \in active \cap late THEN outcome[n] \cup {"discarded"}
                         ELSE outcome[n]
    BY <1>8, Begun DEF CleanLateTransactions, table
  <2>2. CASE n \in active \cap late
    <3>1. n <= opened
      BY <2>2, Opened
    <3> QED BY <1>1, <2>1, <2>2, <3>1, IdleTells, ToldEnded
  <2>3. CASE n \notin active \cap late
    BY <1>1, <2>1, <2>3, IdleTells, ToldKept
  <2> QED BY <2>2, <2>3
<1> QED BY <1>2, <1>3, <1>4, <1>5, <1>6, <1>7, <1>8 DEF Start

LEMMA ClockTold ==
    ASSUME Types, Roles, Told, NEW p \in Callers, Clock(p), NEW n \in Numbers
    PROVE  ToldOf(n)'
<1>1. /\ ToldOf(n) /\ Clocked(p)
      /\ \A q \in Callers \ {p} : caller'[q] = caller[q]
      /\ opened \in Nat /\ opened' = opened /\ opened <= opened
      /\ Sound(caller[p], opened, counter)
  BY StepOfCall, ClockMoves DEF Told, Step, Types, BoundTypes, Clocked
<1>2. CASE caller'[p] = Idle
  BY <1>1, <1>2, IdleTells, ToldKept DEF Clocked
<1>3. CASE /\ Keeps(p)
           /\ caller'[p].pc \in {"observe_counter", "count", "stamp", "insert", "stamp_last"}
  <2>1. /\ Opens(caller'[p], n) => Opens(caller[p], n)
        /\ caller[p].pc # "session" /\ caller'[p].pc # "commit"
    BY <1>1, <1>3 DEF Opens, Keeps, Clocked
  <2>2. Commits(caller'[p], n) => Commits(caller[p], n)
    BY <1>1, <1>3 DEF Commits, Keeps, Clocked, Sound
  <2> QED BY <1>1, <2>1, <2>2, ToldKept DEF Clocked
<1> QED BY <1>1, <1>2, <1>3 DEF Clocked

LEMMA ContinueTold ==
    ASSUME Types, Roles, Told, NEW p \in Callers, Continue(p), NEW n \in Numbers
    PROVE  ToldOf(n)'
<1> DEFINE c == caller[p]
<1>1. /\ RolesOf(n) /\ ToldOf(n)
      /\ \A q \in Callers \ {p} : caller'[q] = caller[q]
      /\ opened \in Nat /\ opened <= opened /\ opened' = opened /\ failed' = failed
      /\ Sound(c, opened, counter)
  <2>1. opened' = opened /\ failed' = failed
    BY DEF Continue, InsertTransaction, OpenSession, TakeTransaction, EndCommit, EndRollback,
           Discard, CleanTransaction, CleanSession, bounds, table
  <2> QED BY <2>1, StepOfCall DEF Roles, RolesOf, Told, Step, Types, BoundTypes
<1>2. CASE InsertTransaction(p)
  <2>1. /\ c.pc = "insert" /\ c.task = "open" /\ Keeps(p) /\ caller'[p].pc = "session"
        /\ active' = active \cup {c.n} /\ UNCHANGED <<sessions, outcome>>
    BY <1>1, <1>2, ContinueMoves DEF InsertTransaction, Sound, table, histories
  <2>2. /\ ~Commits(caller'[p], n) /\ (Opens(caller'[p], n) <=> Opens(c, n))
        /\ (Opens(c, n) <=> n = c.n)
    BY <2>1 DEF Keeps, Opens, Commits
  <2>3. CASE n # c.n
    BY <1>1, <2>1, <2>2, <2>3, ToldKept
  <2>4. CASE n = c.n
    <3>1. outcome[n] = {} /\ n \notin sessions /\ \A q \in Callers : ~Commits(caller[q], n)
      <4> HIDE DEF Opens, Ends, Commits
      <4> QED BY <1>1, <2>1, <2>2, <2>4 DEF ToldOf, RolesOf
    <3>2. \A q \in Callers : ~Commits(caller'[q], n) /\ ~Ends(caller'[q], n)
      <4>1. ~Ends(caller'[p], n)
        BY <2>1 DEF Ends
      <4> HIDE DEF Opens, Ends, Commits
      <4> QED BY <1>1, <2>2, <2>4, <3>1, <4>1 DEF RolesOf
    <3>3. "committed" \notin outcome'[n] /\ outcome'[n] = {}
      BY <2>1, <3>1
    <3> HIDE DEF Opens, Ends, Commits
    <3> QED BY <3>2, <3>3 DEF ToldOf
  <2> QED BY <2>3, <2>4
<1>3. CASE OpenSession(p)
  <2>1. /\ caller'[p] = Idle /\ active' = active /\ outcome' = outcome
        /\ sessions' = IF c.n \in active THEN sessions \cup {c.n} ELSE sessions
        /\ c.pc = "session" /\ c.task = "open"
    BY <1>1, <1>3, ContinueMoves DEF OpenSession, histories, Sound
  <2>2. CASE n \in sessions' => n \in sessions
    BY <1>1, <2>1, <2>2, IdleTells, ToldKept
  <2>3. CASE n = c.n /\ n \in active
    <3>1. Opens(c, n)
      BY <2>1, <2>3 DEF Opens
    <3>2. \A q \in Callers : ~Commits(caller'[q], n) /\ ~Opens(caller'[q], n) /\ ~Ends(caller'[q], n)
      <4> HIDE DEF Opens, Ends, Commits
      <4> QED BY <1>1, <2>1, <3>1, IdleTells, IdleRoles DEF ToldOf, RolesOf
    <3>3. outcome'[n] = {}
      BY <1>1, <2>1, <2>3 DEF ToldOf
    <3> HIDE DEF Opens, Ends, Commits
    <3> QED BY <3>2, <3>3 DEF ToldOf
  <2> QED BY <2>1, <2>2, <2>3
<1>4. CASE TakeTransaction(p)
  <2>1. /\ c.pc = "commit" /\ c.task = "commit" /\ active' = active \ {c.n}
        /\ UNCHANGED <<sessions, outcome>>
    BY <1>1, <1>4 DEF TakeTransaction, Sound, table, histories
  <2>2. CASE c.n \notin active
    <3>1. caller'[p] = Idle
      BY <1>4, <2>2, ContinueMoves
    <3> QED BY <1>1, <2>1, <3>1, IdleTells, ToldKept
  <2>3. CASE c.n \in active
    <3>1. Keeps(p) /\ caller'[p].pc = "count"
      BY <1>4, <2>3, ContinueMoves
    <3>2. ~Opens(caller'[p], n) /\ caller'[p].pc # "commit" /\ (Commits(caller'[p], n) => n = c.n)
      BY <2>1, <3>1 DEF Keeps, Opens, Commits
    <3>3. CASE n # c.n
      BY <1>1, <2>1, <3>2, <3>3, ToldKept
    <3>4. CASE n = c.n
      <4>1. Ends(c, n)
        BY <2>1, <3>4 DEF Ends
      <4>2. /\ n \notin active' \cup sessions' \cup failed' /\ outcome'[n] = {}
            /\ \A q \in Callers : ~Opens(caller[q], n) /\ ~Commits(caller[q], n)
        <5> HIDE DEF Opens, Ends, Commits
        <5> QED BY <1>1, <2>1, <2>3, <3>4, <4>1 DEF ToldOf, RolesOf
      <4>3. \A q \in Callers : /\ ~Opens(caller'[q], n) /\ (Commits(caller'[q], n) => q = p)
                               /\ Ends(caller'[q], n) /\ caller'[q].pc = "commit" => n \notin failed'
        <5> HIDE DEF Opens, Ends, Commits
        <5> QED BY <1>1, <3>2, <4>2
      <4> HIDE DEF Opens, Ends, Commits
      <4> QED BY <4>2, <4>3 DEF ToldOf
    <3> QED BY <3>3, <3>4
  <2> QED BY <2>2, <2>3
<1>5. CASE EndCommit(p)
  <2>1. /\ UNCHANGED <<active, sessions>> /\ caller'[p] = Idle
        /\ Commits(c, c.n)
        /\ \E how : outcome' = [outcome EXCEPT ![c.n] = @ \cup {how}]
    BY <1>5, ContinueMoves DEF EndCommit, table, Commits
  <2>2. PICK how : outcome' = [outcome EXCEPT ![c.n] = @ \cup {how}]
    BY <2>1
  <2>3. outcome \in [Numbers -> SUBSET Outcomes]
    BY DEF Types, OutcomeTypes
  <2>4. CASE n # c.n
    BY <1>1, <2>1, <2>2, <2>3, <2>4, IdleTells, ToldKept
  <2>5. CASE n = c.n
    <3>1. /\ n \notin active \cup sessions \cup failed /\ outcome[n] = {} /\ ~(n > opened)
          /\ \A q \in Callers : /\ ~Opens(caller[q], n)
                                /\ Commits(caller[q], n) => q = p
      <4>1. ~(n > opened) /\ n \in Nat
        BY <1>1, <2>5 DEF Sound, Frames, Numbers
      <4> HIDE DEF Opens, Ends, Commits
      <4> QED BY <1>1, <2>1, <2>5, <4>1 DEF ToldOf
    <3>2. outcome'[n] = {how}
      BY <2>2, <2>3, <2>5, <3>1
    <3>3. \A q \in Callers : /\ ~Opens(caller'[q], n) /\ ~Commits(caller'[q], n)
      <4> HIDE DEF Opens, Ends, Commits
      <4> QED BY <1>1, <2>1, <3>1, IdleTells
    <3> HIDE DEF Opens, Ends, Commits
    <3> QED BY <1>1, <2>1, <3>1, <3>2, <3>3 DEF ToldOf
  <2> QED BY <2>4, <2>5
<1>6. ASSUME NEW how \in {"rolled back", "discarded"}, Remove(c.n, how), sessions' = sessions,
             ~Opens(caller'[p], n), ~Commits(caller'[p], n), caller'[p].pc # "commit"
      PROVE  ToldOf(n)'
  <2>1. outcome \in [Numbers -> SUBSET Outcomes]
    BY DEF Types, OutcomeTypes
  <2>2. CASE n = c.n /\ n \in active
    <3>1. outcome'[n] = outcome[n] \cup {how} /\ n \notin active' /\ n <= opened
      BY <1>6, <2>1, <2>2, Opened DEF Remove
    <3> QED BY <1>1, <1>6, <2>2, <3>1, ToldEnded
  <2>3. CASE ~(n = c.n /\ n \in active)
    <3>1. outcome'[n] = outcome[n] /\ active' \subseteq active
      BY <1>6, <2>1, <2>3 DEF Remove
    <3> QED BY <1>1, <1>6, <3>1, ToldKept
  <2> QED BY <2>2, <2>3
<1>7. CASE EndRollback(p) \/ Discard(p)
  <2>1. caller'[p] = Idle
    BY <1>7, ContinueMoves
  <2> QED BY <1>6, <1>7, <2>1, IdleTells DEF EndRollback, Discard, table
<1>8. CASE CleanTransaction(p)
  <2>1. ~Opens(caller'[p], n) /\ ~Commits(caller'[p], n) /\ caller'[p].pc # "commit"
    <3>1. c.task = "clean"
      BY <1>1, <1>8 DEF CleanTransaction, Sound
    <3>2. CASE Keeps(p) /\ caller'[p].pc = "clean"
      BY <3>1, <3>2 DEF Keeps, Opens, Commits
    <3> QED BY <1>8, <3>2, IdleTells, ContinueMoves
  <2> QED BY <1>6, <1>8, <2>1 DEF CleanTransaction, table
<1>9. ASSUME NEW m, CleanSession(p, m) PROVE ToldOf(n)'
  <2>1. /\ caller'[p].pc = "clean_tx" /\ caller'[p].task = "clean"
        /\ UNCHANGED <<active, outcome>> /\ sessions' = sessions \ {m}
    BY <1>9, ContinueMoves DEF CleanSession, histories
  <2>2. ~Opens(caller'[p], n) /\ ~Commits(caller'[p], n) /\ caller'[p].pc # "commit"
    BY <2>1 DEF Opens, Commits
  <2> QED BY <1>1, <2>1, <2>2, ToldKept
<1> QED BY <1>2, <1>3, <1>4, <1>5, <1>7, <1>8, <1>9 DEF Continue

LEMMA ToldStays == Types /\ Roles /\ Told /\ [Next]_vars => Told'
<1> SUFFICES ASSUME Types, Roles, Told, [Next]_vars, NEW n \in Numbers PROVE ToldOf(n)'
  BY DEF Told
<1>1. ASSUME NEW p \in Callers, Step(p) PROVE ToldOf(n)'
  BY <1>1, StartTold, ContinueTold, ClockTold DEF Step
<1>2. ToldOf(n)
  BY DEF Told
<1>3. CASE (\E m \in Numbers : TransactionTimesOut(m) \/ SessionExpires(m)) \/ UNCHANGED vars
  <2>1. UNCHANGED <<active, sessions, failed, caller, opened, outcome>>
    BY <1>3, TimeTyped DEF bounds, histories
  <2> HIDE DEF Opens, Ends, Commits
  <2> QED BY <1>2, <2>1 DEF ToldOf
<1>4. CASE Restart
  <2>1. /\ \A q \in Callers : caller'[q] = Idle
        /\ UNCHANGED <<failed, opened, outcome>> /\ active' = {} /\ sessions' = {}
    BY <1>4 DEF Restart
  <2>2. \A q \in Callers : ~Opens(caller'[q], n) /\ ~Commits(caller'[q], n) /\ ~Ends(caller'[q], n)
    BY <2>1, IdleTells, IdleRoles
  <2> HIDE DEF Opens, Ends, Commits
  <2> QED BY <1>2, <2>1, <2>2 DEF ToldOf
<1> QED BY <1>1, <1>3, <1>4, NextParts DEF Step

\* Every transaction ends once: what a client was told of it, committed, timed
\* out, rolled back or discarded, is never followed by another end; and no
\* session with a terminal error ever commits.
THEOREM OneOutcomeAlways == Spec => []OneOutcome
<1>1. Init => Told
  <2> SUFFICES ASSUME Init, NEW n \in Numbers PROVE ToldOf(n)
    BY DEF Told
  <2>1. /\ outcome[n] = {} /\ active = {} /\ \A q \in Callers : caller[q] = Idle
    BY DEF Init
  <2> QED BY <2>1, IdleTells DEF ToldOf
<1>2. Types /\ Told => OneOutcome
  <2> SUFFICES ASSUME Types, Told PROVE OneOutcome
    OBVIOUS
  <2>1. \A n \in Numbers : Cardinality(outcome[n]) <= 1
    <3> SUFFICES ASSUME NEW n \in Numbers PROVE Cardinality(outcome[n]) <= 1
      OBVIOUS
    <3>1. outcome[n] = {} \/ \E how : outcome[n] = {how}
      BY DEF Told, ToldOf
    <3>2. CASE outcome[n] = {}
      <4>1. Cardinality(outcome[n]) = 0
        BY <3>2, FS_EmptySet
      <4> QED BY <4>1
    <3>3. ASSUME NEW how, outcome[n] = {how} PROVE Cardinality(outcome[n]) <= 1
      <4>1. Cardinality({how}) = 1
        BY FS_Singleton
      <4> QED BY <3>3, <4>1
    <3> QED BY <3>1, <3>2, <3>3
  <2>2. \A n \in failed : "committed" \notin outcome[n]
    BY Opened DEF Told, ToldOf
  <2> QED BY <2>1, <2>2 DEF OneOutcome
<1> QED BY <1>1, <1>2, AlwaysRoles, ToldStays, PTL DEF Spec
============================================================================
