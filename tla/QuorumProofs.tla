---------------------------- MODULE QuorumProofs ---------------------------
(***************************************************************************)
(* Proofs about QuorumReplicator, for every finite set of nodes and every  *)
(* bound.                                                                  *)
(*                                                                         *)
(* Elections: no term has two leaders, unless a task went on in a term it  *)
(* did not start in.  The argument is that of majorities.  A node votes    *)
(* once in a term, since its term never moves back and its vote is         *)
(* forgotten only when the term grows; a leader has the votes of a         *)
(* majority; two majorities share a voter.                                 *)
(*                                                                         *)
(* The log: with one leader to a term, logs are equal up to any place      *)
(* where they have entries of one term (LogsAgree).  An apply returns Ok   *)
(* only after every node accepted its entry, and so no log, and no request *)
(* that can still be stored, is without an acknowledged entry (AckedKept): *)
(* what is acknowledged or committed is at one place everywhere.           *)
(*                                                                         *)
(* The users: a command keeps its one place wherever its entry is sent     *)
(* (OnePlace), nodes only take more for committed, and so they implement   *)
(* ReplicatedLog, what the foremost took for committed being decided.      *)
(***************************************************************************)
EXTENDS QuorumReplicator, OrderLemmas, SequenceTheorems, FiniteSetTheorems, TLAPS

USE SentinelAssumption, BoundAssumption

\* What the argument needs to know of the types.
TaskTypes(n) ==
    /\ election[n].pc \in {"ask", "answer"} =>
          /\ election[n].request.term \in Nat
          /\ election[n].votes \in SUBSET Nodes
    /\ election[n].pc = "answer" =>
          /\ election[n].response.term \in Nat
          /\ election[n].response.voter \in Nodes
    /\ election[n].pc = "broadcast" => election[n].term \in Nat
    /\ apply[n].pc \in {"sent", "admitted", "answer"} =>
          apply[n].request.term \in Nat /\ apply[n].retry \in Nodes
    /\ apply[n].pc = "answer" => apply[n].response.term \in Nat
    /\ apply[n].pc = "broadcast" => apply[n].term \in Nat

VoteTypes ==
    /\ term \in [Nodes -> Nat]
    /\ votedFor \in [Nodes -> Nodes \cup {NoNode}]
    /\ role = [n \in Nodes |-> role[n]]
    /\ election = [n \in Nodes |-> election[n]]
    /\ apply = [n \in Nodes |-> apply[n]]
    /\ ballots \in SUBSET (Nodes \X Nat \X Nodes)
    /\ elected \in SUBSET (Nat \X Nodes)
    /\ overtaken \in BOOLEAN
    /\ \A n \in Nodes : TaskTypes(n)

\* A vote belongs to a term the voter reached; in its own term it is recorded.
VotesRecorded ==
    \A v \in Nodes, t \in Nat, c \in Nodes :
        << v, t, c >> \in ballots =>
            t <= term[v] /\ (t = term[v] => votedFor[v] = c)

VotesOnce ==
    \A v \in Nodes, t \in Nat, c, d \in Nodes :
        << v, t, c >> \in ballots /\ << v, t, d >> \in ballots => c = d

\* The votes an election counts, and the one in an answer, were cast.
VotesCast ==
    \A n \in Nodes :
        /\ election[n].pc \in {"ask", "answer"} =>
              /\ << n, election[n].request.term, n >> \in ballots
              /\ \A v \in election[n].votes : << v, election[n].request.term, n >> \in ballots
        /\ election[n].pc = "answer" /\ election[n].response.granted =>
              << election[n].response.voter, election[n].request.term, n >> \in ballots

Majority(Q) == Q \in SUBSET Nodes /\ Cardinality(Q) >= QuorumSize

ElectedByMajority ==
    \A t \in Nat, n \in Nodes :
        << t, n >> \in elected =>
            \E Q \in SUBSET Nodes : /\ Majority(Q)
                                    /\ \A v \in Q : << v, t, n >> \in ballots

Voting == VotesRecorded /\ VotesOnce /\ VotesCast /\ ElectedByMajority

VInv == VoteTypes /\ (~overtaken => Voting)

----------------------------------------------------------------------------
(* Types.                                                                  *)

\* A broadcast that begins, or goes on with fewer peers.
LEMMA AnnouncingIs ==
    ASSUME NEW t, NEW through, NEW peers
    PROVE  LET task == Announcing(t, through, peers)
           IN  \/ task.pc = "idle" /\ task = Idle
               \/ task.pc = "broadcast" /\ task.term = t /\ task.through = through
BY DEF Announcing, Idle

\* Its type.
LEMMA AnnouncingTyped ==
    ASSUME NEW t \in Terms, NEW through \in Nat, NEW peers \in SUBSET Nodes
    PROVE  /\ Announcing(t, through, peers) \in Elections
           /\ Announcing(t, through, peers) \in Applies
<1>1. /\ Idle \in Elections /\ Idle \in Applies
  BY DEF Idle, Elections, Applies
<1>2. [pc |-> "broadcast", term |-> t, through |-> through, peers |-> peers] \in Broadcasts
  BY DEF Broadcasts
<1> QED BY <1>1, <1>2 DEF Announcing, Elections, Applies

\* Initially no node has a task.
LEMMA InitTyped == Init => VoteTypes
<1> SUFFICES ASSUME Init PROVE VoteTypes
  OBVIOUS
<1>1. term \in [Nodes -> Nat] /\ votedFor \in [Nodes -> Nodes \cup {NoNode}]
  BY DEF Init
<1>2. /\ role = [n \in Nodes |-> role[n]]
      /\ election = [n \in Nodes |-> election[n]]
      /\ apply = [n \in Nodes |-> apply[n]]
  BY DEF Init
<1>3. ballots = {} /\ elected = {} /\ overtaken = FALSE
  BY DEF Init
<1>4. \A n \in Nodes : TaskTypes(n)
  BY DEF Init, TaskTypes, Idle
<1> QED BY <1>1, <1>2, <1>3, <1>4 DEF VoteTypes

\* StartElection keeps the types.
LEMMA StartElectionTyped ==
    ASSUME VoteTypes, NEW n \in Nodes, StartElection(n)
    PROVE  VoteTypes'
<1> DEFINE request == [term |-> term[n] + 1, lastIndex |-> Len(log[n]),
                       lastTerm |-> LastTerm(log[n])]
<1>1. term' \in [Nodes -> Nat] /\ votedFor' \in [Nodes -> Nodes \cup {NoNode}]
  BY DEF VoteTypes, StartElection
<1>2. /\ role' = [m \in Nodes |-> role'[m]]
      /\ election' = [m \in Nodes |-> election'[m]]
      /\ apply' = [m \in Nodes |-> apply'[m]]
  BY DEF VoteTypes, StartElection
<1>3. ballots' \in SUBSET (Nodes \X Nat \X Nodes)
  BY DEF VoteTypes, StartElection
<1>4. elected' = elected /\ overtaken' = overtaken
  BY DEF StartElection
<1>5. ASSUME NEW m \in Nodes PROVE TaskTypes(m)'
  <2>1. apply'[m] = apply[m]
    BY DEF StartElection
  <2>2. CASE m = n
    <3>1. election'[n] = [pc |-> "ask", peers |-> Peers(n), votes |-> {n},
                          request |-> request]
      BY DEF StartElection, VoteTypes
    <3>2. request.term \in Nat
      BY DEF VoteTypes
    <3> HIDE DEF request
    <3> QED BY <2>1, <2>2, <3>1, <3>2 DEF VoteTypes, TaskTypes
  <2>3. CASE m # n
    <3>1. election'[m] = election[m]
      BY <2>3 DEF StartElection, VoteTypes
    <3> QED BY <2>1, <3>1 DEF VoteTypes, TaskTypes
  <2> QED BY <2>2, <2>3
<1> QED BY <1>1, <1>2, <1>3, <1>4, <1>5 DEF VoteTypes

\* So does the handler of a vote request.
LEMMA RequestVoteTyped ==
    ASSUME VoteTypes, NEW n \in Nodes, NEW p \in Peers(n), RequestVote(n, p)
    PROVE  VoteTypes'
<1> DEFINE request == election[n].request
<1>1. p \in Nodes /\ election[n].pc = "ask" /\ request.term \in Nat
  BY DEF Peers, RequestVote, VoteTypes, TaskTypes
<1>2. term' \in [Nodes -> Nat] /\ votedFor' \in [Nodes -> Nodes \cup {NoNode}]
  BY <1>1 DEF VoteTypes, RequestVote
<1>3. /\ role' = [m \in Nodes |-> role'[m]]
      /\ election' = [m \in Nodes |-> election'[m]]
      /\ apply' = apply /\ elected' = elected /\ overtaken' = overtaken
  BY DEF VoteTypes, RequestVote
<1>4. ballots' \in SUBSET (Nodes \X Nat \X Nodes)
  <2>1. ballots' \in {ballots, ballots \cup {<< p, request.term, n >>}}
    BY DEF RequestVote
  <2> QED BY <1>1, <2>1 DEF VoteTypes
<1>5. ASSUME NEW m \in Nodes PROVE TaskTypes(m)'
  <2>1. CASE m = n
    <3>1. PICK granted : election'[n] =
            [pc |-> "answer", peers |-> election[n].peers \ {p},
             votes |-> election[n].votes, request |-> request,
             response |-> [term |-> term'[p], granted |-> granted, voter |-> p]]
      BY DEF RequestVote, VoteTypes
    <3>2. term'[p] \in Nat /\ election[n].votes \in SUBSET Nodes
      BY <1>1, <1>2 DEF VoteTypes, TaskTypes
    <3> HIDE DEF request
    <3> QED BY <1>1, <1>3, <2>1, <3>1, <3>2 DEF VoteTypes, TaskTypes
  <2>2. CASE m # n
    <3>1. election'[m] = election[m]
      BY <2>2 DEF RequestVote, VoteTypes
    <3> QED BY <1>3, <3>1 DEF VoteTypes, TaskTypes
  <2> QED BY <2>1, <2>2
<1> QED BY <1>2, <1>3, <1>4, <1>5 DEF VoteTypes

\* And the candidate's look at the answer.
LEMMA CountVoteTyped ==
    ASSUME VoteTypes, NEW n \in Nodes, CountVote(n)
    PROVE  VoteTypes'
<1>1. /\ TaskTypes(n) /\ election[n].pc = "answer"
      /\ election[n].response.term \in Nat /\ election[n].response.voter \in Nodes
  BY DEF VoteTypes, TaskTypes, CountVote
<1>2. /\ term' \in [Nodes -> Nat] /\ role' = [m \in Nodes |-> role'[m]]
      /\ votedFor' \in [Nodes -> Nodes \cup {NoNode}]
      /\ overtaken' \in BOOLEAN
  BY <1>1 DEF VoteTypes, CountVote
<1>3. UNCHANGED << apply, ballots, elected >>
  BY DEF CountVote
<1>4. /\ election' = [m \in Nodes |-> election'[m]]
      /\ \A m \in Nodes \ {n} : election'[m] = election[m]
  BY DEF VoteTypes, CountVote
<1>5. \/ election'[n] = Idle
      \/ /\ election'[n].pc = "ask" /\ election'[n].request = election[n].request
         /\ election'[n].votes \in {election[n].votes, election[n].votes \cup {election[n].response.voter}}
  BY DEF VoteTypes, CountVote, Asking
<1>6. ASSUME NEW m \in Nodes PROVE TaskTypes(m)'
  <2>1. TaskTypes(m)
    BY DEF VoteTypes
  <2>2. CASE m # n
    BY <1>3, <1>4, <2>1, <2>2 DEF TaskTypes
  <2>3. CASE election'[n] = Idle
    BY <1>3, <2>1, <2>2, <2>3 DEF TaskTypes, Idle
  <2>4. CASE m = n /\ election'[n].pc = "ask"
    <3>1. /\ election'[n].request.term \in Nat /\ election'[n].votes \in SUBSET Nodes
      BY <1>1, <1>5, <2>4 DEF TaskTypes, Idle
    <3> QED BY <1>3, <2>1, <2>4, <3>1 DEF TaskTypes
  <2> QED BY <1>5, <2>2, <2>3, <2>4
<1> QED BY <1>2, <1>3, <1>4, <1>6 DEF VoteTypes

\* Every step of an election keeps the types.
LEMMA ElectionTyped ==
    ASSUME VoteTypes, NEW n \in Nodes, Election(n)
    PROVE  VoteTypes'
<1>1. ASSUME NEW p \in Peers(n), VoteRequestLost(n, p) PROVE VoteTypes'
  BY <1>1 DEF VoteTypes, TaskTypes, VoteRequestLost, Asking, stateVars
<1>2. ASSUME VoteAnswerLost(n) \/ NoQuorum(n) \/ BroadcastLost(n) PROVE VoteTypes'
  BY <1>2 DEF VoteTypes, TaskTypes, VoteAnswerLost, NoQuorum, BroadcastLost, Asking, Idle, stateVars
<1>3. ASSUME BecomeLeader(n) PROVE VoteTypes'
  <2>1. /\ term' = term /\ ballots' = ballots /\ apply' = apply
        /\ role' = [m \in Nodes |-> role'[m]]
        /\ votedFor' \in [Nodes -> Nodes \cup {NoNode}]
        /\ election' = [m \in Nodes |-> election'[m]]
    BY <1>3 DEF VoteTypes, BecomeLeader
  <2>2. elected' \in SUBSET (Nat \X Nodes) /\ overtaken' \in BOOLEAN
    BY <1>3 DEF VoteTypes, BecomeLeader
  <2>3. ASSUME NEW m \in Nodes PROVE TaskTypes(m)'
    <3>1. m # n => election'[m] = election[m]
      BY <1>3 DEF VoteTypes, BecomeLeader
    <3>2. election'[n] = Announcing(term[n], commitIndex[n], Peers(n))
      BY <1>3 DEF VoteTypes, BecomeLeader
    <3>3. \/ election'[n].pc = "idle"
          \/ election'[n].pc = "broadcast" /\ election'[n].term = term[n]
      BY <3>2, AnnouncingIs
    <3> QED BY <2>1, <3>1, <3>3 DEF VoteTypes, TaskTypes
  <2> QED BY <2>1, <2>2, <2>3 DEF VoteTypes
<1>4. ASSUME NEW p \in Peers(n), BroadcastAsNewLeader(n, p) PROVE VoteTypes'
  BY <1>4 DEF VoteTypes, TaskTypes, BroadcastAsNewLeader, Broadcast, Follow, Idle, Announcing
<1>5. CASE \E p \in Peers(n) : RequestVote(n, p) \/ VoteRequestLost(n, p)
  BY <1>1, <1>5, RequestVoteTyped
<1>6. CASE StartElection(n) \/ CountVote(n) \/ VoteAnswerLost(n) \/ NoQuorum(n) \/ BroadcastLost(n)
           \/ BecomeLeader(n)
  BY <1>2, <1>3, <1>6, StartElectionTyped, CountVoteTyped
<1>7. CASE \E p \in Peers(n) : BroadcastAsNewLeader(n, p)
  BY <1>4, <1>7
<1> QED BY <1>5, <1>6, <1>7 DEF Election

\* Every step of an apply keeps the types.
LEMMA ApplyTyped ==
    ASSUME VoteTypes, NEW n \in Nodes, Apply(n)
    PROVE  VoteTypes'
<1>1. ASSUME BeginApply(n) \/ AppendFails(n) PROVE VoteTypes'
  BY <1>1 DEF VoteTypes, TaskTypes, BeginApply, AppendFails, Idle, stateVars
<1>2. ASSUME PushEntry(n) PROVE VoteTypes'
  BY <1>2 DEF VoteTypes, TaskTypes, PushEntry, stateVars
<1>3. ASSUME NEW p \in Peers(n), SendEntries(n, p) PROVE VoteTypes'
  BY <1>3 DEF VoteTypes, TaskTypes, SendEntries, stateVars, Idle, Peers
<1>4. ASSUME AdmitEntries(n) PROVE VoteTypes'
  BY <1>4 DEF VoteTypes, TaskTypes, AdmitEntries, Answered, Follow
<1>5. ASSUME StoreEntries(n) PROVE VoteTypes'
  BY <1>5 DEF VoteTypes, TaskTypes, StoreEntries, Answered
<1>6. ASSUME HandleAnswer(n) PROVE VoteTypes'
  BY <1>6 DEF VoteTypes, TaskTypes, HandleAnswer, Replicating, Idle
<1>7. ASSUME CommitEntry(n) PROVE VoteTypes'
  <2>1. /\ UNCHANGED << term, role, votedFor, election, ballots, elected >>
        /\ overtaken' \in BOOLEAN /\ \A m \in Nodes : m # n => apply'[m] = apply[m]
        /\ apply' = [m \in Nodes |-> apply'[m]]
        /\ apply'[n] = Announcing(term[n], apply[n].through, Peers(n))
    BY <1>7 DEF VoteTypes, CommitEntry
  <2>2. \/ apply'[n].pc = "idle"
        \/ apply'[n].pc = "broadcast" /\ apply'[n].term = term[n]
    BY <2>1, AnnouncingIs
  <2> HIDE <1>7
  <2> QED BY <2>1, <2>2 DEF VoteTypes, TaskTypes
<1>8. ASSUME NEW p \in Peers(n), BroadcastCommit(n, p) PROVE VoteTypes'
  BY <1>8 DEF VoteTypes, TaskTypes, BroadcastCommit, Broadcast, Follow, Idle, Announcing
<1> QED
  BY <1>1, <1>2, <1>3, <1>4, <1>5, <1>6, <1>7, <1>8 DEF Apply

----------------------------------------------------------------------------
(* Votes.                                                                  *)

\* No term moves back, and a vote changes only when the term grows.
TermsGrow ==
    \A v \in Nodes :
        /\ term[v] <= term'[v]
        /\ term'[v] = term[v] => votedFor'[v] = votedFor[v]

\* A step that casts no vote keeps the invariant if the terms grow and the
\* elections count votes that were cast.
LEMMA VotesKept ==
    ASSUME VoteTypes, VoteTypes', Voting, TermsGrow, VotesCast',
           ballots' = ballots, elected' = elected
    PROVE  Voting'
<1>1. VotesRecorded'
  <2> SUFFICES ASSUME NEW v \in Nodes, NEW t \in Nat, NEW c \in Nodes,
                      << v, t, c >> \in ballots
               PROVE  t <= term'[v] /\ (t = term'[v] => votedFor'[v] = c)
    BY DEF VotesRecorded
  <2>1. t <= term[v] /\ (t = term[v] => votedFor[v] = c)
    BY DEF Voting, VotesRecorded
  <2>2. term[v] <= term'[v] /\ (term'[v] = term[v] => votedFor'[v] = votedFor[v])
    BY DEF TermsGrow
  <2>3. term[v] \in Nat /\ term'[v] \in Nat
    BY DEF VoteTypes
  <2> QED BY <2>1, <2>2, <2>3
<1>2. VotesOnce'
  BY DEF Voting, VotesOnce
<1>3. ElectedByMajority'
  BY DEF Voting, ElectedByMajority, Majority
<1> QED BY <1>1, <1>2, <1>3 DEF Voting

\* An election that goes on with the same request and no new votes, and one
\* that ends, counts votes that were cast.
SameVotes(n) ==
    \/ election'[n] = election[n]
    \/ election'[n].pc \in {"idle", "broadcast"}
    \/ /\ election'[n].pc = "ask" /\ election[n].pc \in {"ask", "answer"}
       /\ election'[n].request = election[n].request
       /\ election'[n].votes = election[n].votes

\* Such steps keep VotesCast.
LEMMA SameVotesCast ==
    ASSUME VotesCast, ballots' = ballots, \A n \in Nodes : SameVotes(n)
    PROVE  VotesCast'
BY DEF VotesCast, SameVotes

\* StartElection casts the candidate's own vote in a term new to it.
LEMMA StartElectionVotes ==
    ASSUME VoteTypes, VoteTypes', Voting, NEW n \in Nodes, StartElection(n)
    PROVE  Voting'
<1>1. /\ term'[n] = term[n] + 1 /\ votedFor'[n] = n
      /\ \A v \in Nodes : v # n => term'[v] = term[v] /\ votedFor'[v] = votedFor[v]
      /\ ballots' = ballots \cup {<< n, term[n] + 1, n >>} /\ elected' = elected
      /\ \A v \in Nodes : term[v] \in Nat
  BY DEF StartElection, VoteTypes
<1>2. \A t \in Nat, c \in Nodes : << n, t, c >> \in ballots => t <= term[n]
  BY DEF Voting, VotesRecorded
<1>3. VotesRecorded'
  BY <1>1, <1>2 DEF Voting, VotesRecorded
<1>4. VotesOnce'
  BY <1>1, <1>2 DEF Voting, VotesOnce
<1>5. VotesCast'
  <2> SUFFICES ASSUME NEW m \in Nodes
               PROVE  /\ election'[m].pc \in {"ask", "answer"} =>
                            /\ << m, election'[m].request.term, m >> \in ballots'
                            /\ \A v \in election'[m].votes :
                                  << v, election'[m].request.term, m >> \in ballots'
                      /\ election'[m].pc = "answer" /\ election'[m].response.granted =>
                            << election'[m].response.voter, election'[m].request.term, m >>
                              \in ballots'
    BY DEF VotesCast
  <2>1. CASE m = n
    <3>1. /\ election'[n].pc = "ask" /\ election'[n].votes = {n}
          /\ election'[n].request.term = term[n] + 1
      BY DEF StartElection, VoteTypes
    <3> QED BY <1>1, <2>1, <3>1
  <2>2. CASE m # n
    <3>1. election'[m] = election[m]
      BY <2>2 DEF StartElection, VoteTypes
    <3> QED BY <1>1, <3>1 DEF Voting, VotesCast
  <2> QED BY <2>1, <2>2
<1>6. ElectedByMajority'
  BY <1>1 DEF Voting, ElectedByMajority, Majority
<1> QED BY <1>3, <1>4, <1>5, <1>6 DEF Voting

\* request_vote_rpc gives the vote of a term once.
LEMMA RequestVoteVotes ==
    ASSUME VoteTypes, VoteTypes', Voting, NEW n \in Nodes, NEW p \in Peers(n),
           RequestVote(n, p)
    PROVE  Voting'
<1> DEFINE t == election[n].request.term
<1>1. /\ p \in Nodes /\ t \in Nat /\ election[n].pc = "ask"
      /\ \A v \in Nodes : term[v] \in Nat
      /\ elected' = elected
  BY DEF Peers, RequestVote, VoteTypes, TaskTypes
<1>2. /\ \A v \in Nodes : v # p => term'[v] = term[v] /\ votedFor'[v] = votedFor[v]
      /\ term'[p] = IF t > term[p] THEN t ELSE term[p]
  BY <1>1 DEF RequestVote, VoteTypes
<1>3. PICK granted \in BOOLEAN :
        /\ granted => t >= term[p] /\ (t > term[p] \/ votedFor[p] \in {NoNode, n})
        /\ votedFor'[p] = IF granted THEN n ELSE IF t > term[p] THEN NoNode ELSE votedFor[p]
        /\ ballots' = IF granted THEN ballots \cup {<< p, t, n >>} ELSE ballots
        /\ election'[n] =
              [pc |-> "answer", peers |-> election[n].peers \ {p},
               votes |-> election[n].votes, request |-> election[n].request,
               response |-> [term |-> term'[p], granted |-> granted, voter |-> p]]
        /\ \A m \in Nodes : m # n => election'[m] = election[m]
  <2> DEFINE g == /\ t >= term[p]
                  /\ t > term[p] \/ votedFor[p] \in {NoNode, n}
                  /\ IsUpToDate(election[n].request, log[p])
  <2>1. /\ votedFor'[p] = IF g THEN n ELSE IF t > term[p] THEN NoNode ELSE votedFor[p]
        /\ ballots' = IF g THEN ballots \cup {<< p, t, n >>} ELSE ballots
    BY <1>1 DEF RequestVote, VoteTypes
  <2>2. /\ election'[n] =
              [pc |-> "answer", peers |-> election[n].peers \ {p},
               votes |-> election[n].votes, request |-> election[n].request,
               response |-> [term |-> term'[p], granted |-> g, voter |-> p]]
        /\ \A m \in Nodes : m # n => election'[m] = election[m]
    BY <1>1 DEF RequestVote, VoteTypes
  <2>3. g \in BOOLEAN
    OBVIOUS
  <2> QED BY <2>1, <2>2, <2>3
<1>4. \A u \in Nat, c \in Nodes : << p, u, c >> \in ballots =>
         u <= term[p] /\ (u = term[p] => votedFor[p] = c)
  BY <1>1 DEF Voting, VotesRecorded
<1>5. \A v \in Nodes, u \in Nat, c \in Nodes : << v, u, c >> \in ballots' =>
         \/ << v, u, c >> \in ballots
         \/ granted /\ v = p /\ u = t /\ c = n
  BY <1>3
<1> HIDE DEF t
<1>6. VotesRecorded'
  <2> SUFFICES ASSUME NEW v \in Nodes, NEW u \in Nat, NEW c \in Nodes,
                      << v, u, c >> \in ballots'
               PROVE  u <= term'[v] /\ (u = term'[v] => votedFor'[v] = c)
    BY DEF VotesRecorded
  <2>1. CASE << v, u, c >> \in ballots /\ v # p
    BY <1>2, <2>1 DEF Voting, VotesRecorded
  <2>2. CASE << v, u, c >> \in ballots /\ v = p
    <3>1. u <= term[p] /\ (u = term[p] => votedFor[p] = c)
      BY <1>4, <2>2
    <3>2. CASE granted
      BY <1>1, <1>2, <1>3, <2>2, <3>1, <3>2
    <3>3. CASE ~granted
      BY <1>1, <1>2, <1>3, <2>2, <3>1, <3>3
    <3> QED BY <3>2, <3>3
  <2>3. CASE granted /\ v = p /\ u = t /\ c = n
    BY <1>1, <1>2, <1>3, <2>3
  <2> QED BY <1>5, <2>1, <2>2, <2>3
<1>7. VotesOnce'
  <2>1. \A c \in Nodes : granted /\ << p, t, c >> \in ballots => c = n
    BY <1>1, <1>3, <1>4
  <2> QED BY <1>1, <1>5, <2>1 DEF Voting, VotesOnce
<1>8. VotesCast'
  <2> SUFFICES ASSUME NEW m \in Nodes
               PROVE  /\ election'[m].pc \in {"ask", "answer"} =>
                            /\ << m, election'[m].request.term, m >> \in ballots'
                            /\ \A v \in election'[m].votes :
                                  << v, election'[m].request.term, m >> \in ballots'
                      /\ election'[m].pc = "answer" /\ election'[m].response.granted =>
                            << election'[m].response.voter, election'[m].request.term, m >>
                              \in ballots'
    BY DEF VotesCast
  <2>1. ballots \subseteq ballots' /\ (granted => << p, t, n >> \in ballots')
    BY <1>3
  <2>2. CASE m = n
    <3>1. /\ << n, t, n >> \in ballots
          /\ \A v \in election[n].votes : << v, t, n >> \in ballots
      BY <1>1 DEF Voting, VotesCast, t
    <3>2. /\ election'[n].votes = election[n].votes /\ election'[n].request.term = t
          /\ election'[n].response.granted = granted /\ election'[n].response.voter = p
      BY <1>3 DEF t
    <3> QED BY <2>1, <2>2, <3>1, <3>2
  <2>3. CASE m # n
    BY <1>3, <2>1, <2>3 DEF Voting, VotesCast
  <2> QED BY <2>2, <2>3
<1>9. ElectedByMajority'
  <2>1. ballots \subseteq ballots'
    BY <1>3
  <2> QED BY <1>1, <2>1 DEF Voting, ElectedByMajority, Majority
<1> QED BY <1>6, <1>7, <1>8, <1>9 DEF Voting

\* A candidate counts the votes that were given, and adopts a newer term.
LEMMA CountVoteVotes ==
    ASSUME VoteTypes, VoteTypes', Voting, NEW n \in Nodes, CountVote(n), ~overtaken'
    PROVE  Voting'
<1>1. TermsGrow
  <2>1. election[n].response.term \in Nat /\ \A v \in Nodes : term[v] \in Nat
    BY DEF CountVote, VoteTypes, TaskTypes
  <2>2. ~(election[n].response.term > election[n].request.term
          /\ term[n] >= election[n].response.term)
    BY DEF CountVote
  <2>3. CASE election[n].response.term > election[n].request.term
    BY <2>1, <2>2, <2>3 DEF CountVote, VoteTypes, TermsGrow
  <2>4. CASE ~(election[n].response.term > election[n].request.term)
    BY <2>1, <2>4 DEF CountVote, VoteTypes, TermsGrow
  <2> QED BY <2>3, <2>4
<1>2. ballots' = ballots /\ elected' = elected
  BY DEF CountVote
<1>3. VotesCast'
  <2>1. \A m \in Nodes : m # n => election'[m] = election[m]
    BY DEF CountVote, VoteTypes
  <2>2. \/ election'[n].pc = "idle"
        \/ /\ election'[n].pc = "ask"
           /\ election'[n].request = election[n].request
           /\ \A v \in election'[n].votes :
                 v \in election[n].votes
                 \/ (election[n].response.granted /\ v = election[n].response.voter)
    BY DEF CountVote, VoteTypes, Asking, Idle
  <2>3. election[n].pc = "answer"
    BY DEF CountVote
  <2> QED BY <1>2, <2>1, <2>2, <2>3 DEF Voting, VotesCast
<1> QED BY <1>1, <1>2, <1>3, VotesKept

\* A node that becomes leader in the term it asked votes for has a majority.
LEMMA BecomeLeaderVotes ==
    ASSUME VoteTypes, VoteTypes', Voting, NEW n \in Nodes, BecomeLeader(n), ~overtaken'
    PROVE  Voting'
<1>1. /\ term' = term /\ ballots' = ballots
      /\ elected' = elected \cup {<< term[n], n >>}
      /\ election[n].pc = "ask" /\ Cardinality(election[n].votes) >= QuorumSize
      /\ term[n] = election[n].request.term
      /\ term[n] \in Nat /\ election[n].votes \in SUBSET Nodes
  BY DEF BecomeLeader, VoteTypes, TaskTypes
<1>2. /\ << n, term[n], n >> \in ballots
      /\ \A v \in election[n].votes : << v, term[n], n >> \in ballots
  BY <1>1 DEF Voting, VotesCast
<1>3. votedFor[n] = n
  BY <1>1, <1>2 DEF Voting, VotesRecorded
<1>4. votedFor' = votedFor
  BY <1>3 DEF BecomeLeader, VoteTypes
<1>5. VotesRecorded' /\ VotesOnce'
  BY <1>1, <1>4 DEF Voting, VotesRecorded, VotesOnce
<1>6. VotesCast'
  <2>1. ASSUME NEW m \in Nodes PROVE SameVotes(m)
    <3>1. CASE m # n
      BY <3>1 DEF BecomeLeader, VoteTypes, SameVotes
    <3>2. CASE m = n
      <4>1. election'[n] = Announcing(term[n], commitIndex[n], Peers(n))
        BY DEF BecomeLeader, VoteTypes
      <4> QED BY <3>2, <4>1, AnnouncingIs DEF SameVotes
    <3> QED BY <3>1, <3>2
  <2> QED BY <1>1, <2>1, SameVotesCast DEF Voting
<1>7. ElectedByMajority'
  <2> SUFFICES ASSUME NEW t \in Nat, NEW m \in Nodes, << t, m >> \in elected'
               PROVE  \E Q \in SUBSET Nodes :
                         Majority(Q) /\ \A v \in Q : << v, t, m >> \in ballots'
    BY <1>1 DEF ElectedByMajority, Majority
  <2>1. CASE << t, m >> \in elected
    BY <1>1, <2>1 DEF Voting, ElectedByMajority
  <2>2. CASE t = term[n] /\ m = n
    BY <1>1, <1>2, <2>2 DEF Majority
  <2> QED BY <1>1, <2>1, <2>2
<1> QED BY <1>5, <1>6, <1>7 DEF Voting

\* Follow, at receivers that did not go past the term, moves no term back and
\* forgets a vote only with its term.
LEMMA FollowGrows ==
    ASSUME VoteTypes, NEW S \in SUBSET Nodes, NEW t \in Nat,
           \A p \in S : t >= term[p], Follow(S, t)
    PROVE  TermsGrow
BY DEF VoteTypes, Follow, TermsGrow

\* So does broadcast_commit, which such receivers alone accept.
LEMMA BroadcastGrows ==
    ASSUME VoteTypes, NEW n \in Nodes, NEW p \in Peers(n), NEW task,
           task.term \in Nat, Broadcast(n, p, task)
    PROVE  TermsGrow
<1> DEFINE reached == {q \in {p} : task.term >= term[q]}
<1>1. reached \in SUBSET Nodes /\ \A q \in reached : task.term >= term[q]
  BY DEF Peers
<1>2. Follow(reached, task.term)
  BY DEF Broadcast
<1> HIDE DEF reached
<1> QED BY <1>1, <1>2, FollowGrows

\* A step of an election keeps the voting, unless it overtakes.
LEMMA ElectionVotes ==
    ASSUME VoteTypes, VoteTypes', Voting, NEW n \in Nodes, Election(n), ~overtaken'
    PROVE  Voting'
<1>1. ASSUME NEW p \in Peers(n), VoteRequestLost(n, p) PROVE Voting'
  <2>1. TermsGrow /\ ballots' = ballots /\ elected' = elected
    BY <1>1 DEF VoteRequestLost, stateVars, VoteTypes, TermsGrow
  <2>2. \A m \in Nodes : SameVotes(m)
    BY <1>1 DEF VoteRequestLost, VoteTypes, SameVotes, Asking
  <2> QED BY <2>1, <2>2, SameVotesCast, VotesKept DEF Voting
<1>2. ASSUME VoteAnswerLost(n) \/ NoQuorum(n) \/ BroadcastLost(n) PROVE Voting'
  <2>1. TermsGrow /\ ballots' = ballots /\ elected' = elected
    BY <1>2 DEF VoteAnswerLost, NoQuorum, BroadcastLost, stateVars, VoteTypes, TermsGrow
  <2>2. \A m \in Nodes : SameVotes(m)
    BY <1>2 DEF VoteAnswerLost, NoQuorum, BroadcastLost, VoteTypes, SameVotes, Asking, Idle
  <2> QED BY <2>1, <2>2, SameVotesCast, VotesKept DEF Voting
<1>3. ASSUME NEW p \in Peers(n), BroadcastAsNewLeader(n, p) PROVE Voting'
  <2>1. election[n].term \in Nat /\ Broadcast(n, p, election[n])
    BY <1>3 DEF BroadcastAsNewLeader, VoteTypes, TaskTypes
  <2>2. TermsGrow
    BY <2>1, BroadcastGrows
  <2>3. ballots' = ballots /\ elected' = elected /\ \A m \in Nodes : SameVotes(m)
    BY <1>3 DEF BroadcastAsNewLeader, VoteTypes, SameVotes, Idle, Announcing
  <2> QED BY <2>2, <2>3, SameVotesCast, VotesKept DEF Voting
<1>4. CASE \E p \in Peers(n) : RequestVote(n, p) \/ VoteRequestLost(n, p)
  BY <1>1, <1>4, RequestVoteVotes
<1>5. CASE StartElection(n) \/ CountVote(n) \/ VoteAnswerLost(n) \/ NoQuorum(n) \/ BroadcastLost(n)
           \/ BecomeLeader(n)
  BY <1>2, <1>5, StartElectionVotes, CountVoteVotes, BecomeLeaderVotes
<1>6. CASE \E p \in Peers(n) : BroadcastAsNewLeader(n, p)
  BY <1>3, <1>6
<1> QED BY <1>4, <1>5, <1>6 DEF Election

\* A step of an apply casts no vote; it moves terms only forward, unless it
\* overtakes.
LEMMA ApplyVotes ==
    ASSUME VoteTypes, VoteTypes', Voting, NEW n \in Nodes, Apply(n), ~overtaken'
    PROVE  Voting'
<1>1. ASSUME TermsGrow, ballots' = ballots, elected' = elected, election' = election
      PROVE  Voting'
  <2>1. \A m \in Nodes : SameVotes(m)
    BY <1>1 DEF SameVotes
  <2> QED BY <1>1, <2>1, SameVotesCast, VotesKept DEF Voting
<1>2. ASSUME term' = term, votedFor' = votedFor PROVE TermsGrow
  BY <1>2 DEF TermsGrow, VoteTypes
<1>3. ASSUME BeginApply(n) \/ AppendFails(n) \/ PushEntry(n) \/ StoreEntries(n)
             \/ CommitEntry(n)
      PROVE  Voting'
  <2>1. CASE BeginApply(n) \/ AppendFails(n) \/ PushEntry(n) \/ CommitEntry(n)
    BY <1>1, <1>2, <2>1 DEF BeginApply, AppendFails, PushEntry, CommitEntry, stateVars
  <2>2. CASE StoreEntries(n)
    <3>1. UNCHANGED << term, votedFor, ballots, elected, election >>
      BY <2>2 DEF StoreEntries
    <3> QED BY <1>1, <1>2, <3>1
  <2> QED BY <1>3, <2>1, <2>2
<1>4. ASSUME NEW p \in Peers(n), SendEntries(n, p) PROVE Voting'
  BY <1>1, <1>2, <1>4 DEF SendEntries, stateVars
<1>5. ASSUME AdmitEntries(n) PROVE Voting'
  <2> DEFINE p == apply[n].retry
             t == apply[n].request.term
  <2>1. p \in Nodes /\ t \in Nat /\ term[p] \in Nat
    BY <1>5 DEF AdmitEntries, VoteTypes, TaskTypes
  <2>2. ballots' = ballots /\ elected' = elected /\ election' = election
    BY <1>5 DEF AdmitEntries
  <2>3. CASE t < term[p]
    BY <1>1, <1>2, <1>5, <2>2, <2>3 DEF AdmitEntries
  <2>4. CASE ~(t < term[p])
    <3>1. Follow({p}, t)
      BY <1>5, <2>4 DEF AdmitEntries
    <3>2. \A q \in {p} : t >= term[q]
      BY <2>1, <2>4
    <3>3. TermsGrow
      BY <2>1, <3>1, <3>2, FollowGrows
    <3> QED BY <1>1, <2>2, <3>3
  <2> QED BY <2>3, <2>4
<1>6. ASSUME HandleAnswer(n) PROVE Voting'
  <2> DEFINE t == apply[n].response.term
  <2>1. t \in Nat /\ apply[n].request.term \in Nat /\ \A v \in Nodes : term[v] \in Nat
    <3>1. apply[n].pc = "answer"
      BY <1>6 DEF HandleAnswer
    <3> QED BY <3>1 DEF VoteTypes, TaskTypes
  <2>2. ballots' = ballots /\ elected' = elected /\ election' = election
    BY <1>6 DEF HandleAnswer
  <2>3. CASE t > apply[n].request.term
    <3>1. ~(term[n] >= t)
      BY <1>6, <2>3 DEF HandleAnswer
    <3>2. /\ term' = [term EXCEPT ![n] = t] /\ votedFor' = [votedFor EXCEPT ![n] = NoNode]
      BY <1>6, <2>3 DEF HandleAnswer
    <3>3. TermsGrow
      BY <2>1, <3>1, <3>2 DEF VoteTypes, TermsGrow
    <3> QED BY <1>1, <2>2, <3>3
  <2>4. CASE ~(t > apply[n].request.term)
    <3>1. TermsGrow
      <4>1. /\ term' = [term EXCEPT ![n] = term[n]]
            /\ votedFor' = [votedFor EXCEPT ![n] = votedFor[n]]
        BY <1>6, <2>4 DEF HandleAnswer
      <4> QED BY <2>1, <4>1 DEF VoteTypes, TermsGrow
    <3> QED BY <1>1, <2>2, <3>1
  <2> QED BY <2>3, <2>4
<1>7. ASSUME NEW p \in Peers(n), BroadcastCommit(n, p) PROVE Voting'
  <2>1. apply[n].term \in Nat /\ Broadcast(n, p, apply[n])
    BY <1>7 DEF BroadcastCommit, VoteTypes, TaskTypes
  <2>2. TermsGrow
    BY <2>1, BroadcastGrows
  <2> QED BY <1>1, <1>7, <2>2 DEF BroadcastCommit
<1> QED BY <1>3, <1>4, <1>5, <1>6, <1>7 DEF Apply

----------------------------------------------------------------------------
(* The invariant, and what it gives.                                       *)

\* Nobody has voted initially.
LEMMA InitVoting == Init => Voting
BY DEF Init, Idle, Voting, VotesRecorded, VotesOnce, VotesCast, ElectedByMajority

\* A step that is not overtaken does not follow one that was.
LEMMA OvertakenStays ==
    ASSUME VoteTypes, NEW n \in Nodes, Election(n) \/ Apply(n), ~overtaken'
    PROVE  ~overtaken
BY DEF Election, Apply, StartElection, RequestVote, VoteRequestLost, CountVote,
       VoteAnswerLost, NoQuorum, BroadcastLost, BecomeLeader, BroadcastAsNewLeader, BeginApply,
       PushEntry, SendEntries, AdmitEntries, StoreEntries, HandleAnswer, AppendFails,
       CommitEntry, BroadcastCommit

\* Every step keeps the invariant.
LEMMA VStep == VInv /\ [Next]_vars => VInv'
<1> SUFFICES ASSUME VInv, [Next]_vars PROVE VInv'
  OBVIOUS
<1>1. VoteTypes
  BY DEF VInv
<1>2. ASSUME NEW n \in Nodes, Election(n) \/ Apply(n) PROVE VInv'
  <2>1. VoteTypes'
    BY <1>1, <1>2, ElectionTyped, ApplyTyped
  <2>2. ASSUME ~overtaken' PROVE Voting'
    <3>1. Voting
      BY <1>1, <1>2, <2>2, OvertakenStays DEF VInv
    <3> QED BY <1>1, <1>2, <2>1, <2>2, <3>1, ElectionVotes, ApplyVotes
  <2> QED BY <2>1, <2>2 DEF VInv
<1>3. CASE UNCHANGED vars
  <2>1. /\ term' = term /\ votedFor' = votedFor /\ role' = role
        /\ election' = election /\ apply' = apply /\ ballots' = ballots
        /\ elected' = elected /\ overtaken' = overtaken
    BY <1>3 DEF vars
  <2>2. VoteTypes'
    BY <1>1, <2>1 DEF VoteTypes, TaskTypes
  <2>3. TermsGrow /\ \A n \in Nodes : SameVotes(n)
    BY <1>1, <2>1 DEF TermsGrow, SameVotes, VoteTypes
  <2>4. ASSUME ~overtaken' PROVE Voting'
    BY <1>1, <2>1, <2>2, <2>3, <2>4, SameVotesCast, VotesKept DEF VInv, Voting
  <2> QED BY <2>2, <2>4 DEF VInv
<1> QED BY <1>2, <1>3 DEF Next

\* A node gives one vote in a term and a leader has the votes of a majority of
\* them (request_vote_rpc, start_election), in every reachable state.
THEOREM VotingInvariant == Spec => []VInv
<1>1. Init => VInv
  BY InitTyped, InitVoting DEF VInv
<1> QED BY <1>1, VStep, PTL DEF Spec

\* Two majorities of the nodes share a node.
LEMMA MajoritiesMeet ==
    ASSUME NEW P, NEW Q, Majority(P), Majority(Q)
    PROVE  \E v \in Nodes : v \in P /\ v \in Q
<1>1. IsFiniteSet(Nodes) /\ Cardinality(Nodes) \in Nat
  BY NodesAssumption, FS_CardinalityType
<1>2. /\ P \in SUBSET Nodes /\ Q \in SUBSET Nodes
      /\ Cardinality(P) >= QuorumSize /\ Cardinality(Q) >= QuorumSize
  BY DEF Majority
<1>3. Cardinality(P) \in Nat /\ Cardinality(Q) \in Nat
  BY <1>1, <1>2, FS_Subset, FS_CardinalityType
<1>4. Cardinality(P) + Cardinality(Q) > Cardinality(Nodes)
  BY <1>1, <1>2, <1>3 DEF QuorumSize
<1>5. P \cap Q # {}
  BY <1>1, <1>2, <1>4, FS_MajoritiesIntersect
<1> QED BY <1>2, <1>5

\* What the invariant is for.
LEMMA OneLeaderFromVotes == VInv => OneLeaderPerTerm
<1> SUFFICES ASSUME VInv, ~overtaken, NEW x \in elected, NEW y \in elected, x[1] = y[1]
             PROVE  x = y
  BY DEF OneLeaderPerTerm
<1>1. PICK t \in Nat, n \in Nodes : x = << t, n >>
  BY DEF VInv, VoteTypes
<1>2. PICK m \in Nodes : y = << t, m >>
  BY <1>1 DEF VInv, VoteTypes
<1>3. PICK P \in SUBSET Nodes : Majority(P) /\ \A v \in P : << v, t, n >> \in ballots
  BY <1>1 DEF VInv, Voting, ElectedByMajority
<1>4. PICK Q \in SUBSET Nodes : Majority(Q) /\ \A v \in Q : << v, t, m >> \in ballots
  BY <1>2 DEF VInv, Voting, ElectedByMajority
<1>5. PICK v \in Nodes : v \in P /\ v \in Q
  BY <1>3, <1>4, MajoritiesMeet
<1>6. n = m
  BY <1>3, <1>4, <1>5 DEF VInv, Voting, VotesOnce
<1> QED BY <1>1, <1>2, <1>6

\* No term of the consensus log has two leaders, while no task went on in a
\* term it did not start in.
THEOREM OneLeaderInATerm == Spec => []OneLeaderPerTerm
BY VotingInvariant, OneLeaderFromVotes, PTL

----------------------------------------------------------------------------
(* All types.                                                              *)

Busy == {"replicate", "sent", "admitted", "answer"}

\* TypeOK, and that next_index is a function of the nodes.
Types == TypeOK /\ nextIndex = [n \in Nodes |-> nextIndex[n]]

Tasks(task) == task.peers \in SUBSET Nodes /\ task.acks \in Nat

\* What the types say of the fields of an apply, per state it is in.
LEMMA ApplyFields ==
    ASSUME TypeOK, NEW n \in Nodes
    PROVE  /\ apply[n].pc \in {"idle", "push", "broadcast"} \cup Busy
           /\ apply[n].pc \in Busy \cup {"broadcast"} =>
                 apply[n].term \in Terms /\ apply[n].through \in Nat
           /\ apply[n].pc \in Busy => Tasks(apply[n])
           /\ apply[n].pc = "push" =>
                 apply[n].term \in Terms /\ apply[n].command \in Commands
           /\ apply[n].pc = "broadcast" => apply[n].peers \in SUBSET Nodes
           /\ apply[n].pc = "replicate" => apply[n].retry \in Nodes \cup {NoNode}
           /\ apply[n].pc \in Busy \ {"replicate"} =>
                 apply[n].retry \in Nodes /\ apply[n].request \in Requests
           /\ apply[n].pc = "answer" => apply[n].response \in Answers
<1>1. apply[n] \in Applies
  BY DEF TypeOK
<1>2. CASE apply[n] \in [pc : {"idle"}]
  BY <1>2 DEF Busy
<1>3. CASE apply[n] \in Broadcasts
  BY <1>3 DEF Busy, Broadcasts
<1>4. CASE apply[n] \in [pc : {"push"}, term : Terms, command : Commands]
  BY <1>4 DEF Busy
<1>5. CASE apply[n] \in [pc : {"replicate"}, term : Terms, through : Nat, peers : SUBSET Nodes,
                         acks : Nat, retry : Nodes \cup {NoNode}]
  BY <1>5 DEF Busy, Tasks
<1>6. CASE apply[n] \in [pc : {"sent", "admitted"}, term : Terms, through : Nat,
                         peers : SUBSET Nodes, acks : Nat, retry : Nodes, request : Requests]
  BY <1>6 DEF Busy, Tasks
<1>7. CASE apply[n] \in [pc : {"answer"}, term : Terms, through : Nat, peers : SUBSET Nodes,
                         acks : Nat, retry : Nodes, request : Requests, response : Answers]
  BY <1>7 DEF Busy, Tasks
<1> QED BY <1>1, <1>2, <1>3, <1>4, <1>5, <1>6, <1>7 DEF Applies

\* The same for an election.
LEMMA ElectionFields ==
    ASSUME TypeOK, NEW n \in Nodes
    PROVE  /\ election[n].pc \in {"ask", "answer"} =>
                 /\ election[n].peers \in SUBSET Nodes /\ election[n].votes \in SUBSET Nodes
                 /\ election[n].request \in VoteRequests
           /\ election[n].pc = "answer" => election[n].response \in VoteAnswers
           /\ election[n].pc = "broadcast" =>
                 /\ election[n].term \in Terms /\ election[n].through \in Nat
                 /\ election[n].peers \in SUBSET Nodes
<1>1. election[n] \in Elections
  BY DEF TypeOK
<1> QED BY <1>1 DEF Elections, Broadcasts

\* The last term of a log is a term.
LEMMA LastTermIsTerm ==
    ASSUME NEW l \in Seq(Entries)
    PROVE  LastTerm(l) \in Terms
<1>1. CASE l = << >>
  BY <1>1 DEF LastTerm, Terms
<1>2. CASE l # << >>
  <2>1. Len(l) \in DOMAIN l
    BY <1>2
  <2>2. l[Len(l)] \in Entries
    BY <2>1
  <2> QED BY <1>2, <2>2 DEF LastTerm, Entries
<1> QED BY <1>1, <1>2

\* The lesser of two naturals.
LEMMA LesserOf ==
    ASSUME NEW a \in Nat, NEW b \in Nat
    PROVE  Min({a, b}) \in {a, b} /\ Min({a, b}) <= a /\ Min({a, b}) <= b
<1>1. {a, b} \in SUBSET Nat /\ {a, b} # {}
  OBVIOUS
<1> QED BY <1>1, MinOfNaturals

\* CommitUpTo keeps what was committed before, adds the commands of the entries
\* that follow, and stops at the commit index or the end of the log.
LEMMA CommittedUpTo ==
    ASSUME NEW done \in Seq(Commands), NEW l \in Seq(Entries), NEW commit \in Nat
    PROVE  /\ CommitUpTo(done, l, commit) \in Seq(Commands)
           /\ Len(CommitUpTo(done, l, commit)) \in
                 {Len(done), Min({commit, Len(l)})}
           /\ \A i \in DOMAIN CommitUpTo(done, l, commit) :
                 CommitUpTo(done, l, commit)[i] =
                   (IF i <= Len(done) THEN done[i] ELSE l[i].command)
<1> DEFINE top == Min({commit, Len(l)})
           more == [i \in 1..(top - Len(done)) |-> l[Len(done) + i].command]
<1>1. top \in Nat /\ top <= Len(l) /\ Len(done) \in Nat
  BY LesserOf
<1>2. CommitUpTo(done, l, commit) = done \o more
  BY DEF CommitUpTo
<1> HIDE DEF top
<1>3. CASE top - Len(done) \in Nat
  <2> DEFINE k == top - Len(done)
  <2>1. \A i \in 1..k : l[Len(done) + i].command \in Commands
    <3> SUFFICES ASSUME NEW i \in 1..k
                 PROVE  l[Len(done) + i].command \in Commands
      OBVIOUS
    <3>1. Len(done) + i \in 1..Len(l)
      BY <1>1, <1>3
    <3>2. l[Len(done) + i] \in Entries
      BY <3>1
    <3> QED BY <3>2 DEF Entries
  <2>2. more \in [1..k -> Commands]
    BY <2>1
  <2>3. \A i \in 1..k : more[i] = l[Len(done) + i].command
    OBVIOUS
  <2>4. more \in Seq(Commands) /\ Len(more) = k
    <3> HIDE DEF more, k
    <3>1. k \in Nat
      BY <1>3 DEF k
    <3> QED BY <2>2, <3>1
  <2> HIDE DEF more
  <2>5. /\ done \o more \in Seq(Commands) /\ Len(done \o more) = top
        /\ \A i \in 1..top :
              (done \o more)[i] = (IF i <= Len(done) THEN done[i] ELSE more[i - Len(done)])
    BY <1>1, <1>3, <2>4, ConcatProperties
  <2>6. ASSUME NEW i \in 1..top
        PROVE  (done \o more)[i] = (IF i <= Len(done) THEN done[i] ELSE l[i].command)
    <3>1. CASE i <= Len(done)
      BY <2>5, <3>1
    <3>2. CASE ~(i <= Len(done))
      <4>1. i - Len(done) \in 1..k /\ Len(done) + (i - Len(done)) = i
        BY <1>1, <3>2
      <4> QED BY <2>3, <2>5, <3>2, <4>1
    <3> QED BY <3>1, <3>2
  <2>7. DOMAIN (done \o more) = 1..top
    BY <1>1, <2>5
  <2> QED BY <1>2, <2>5, <2>6, <2>7 DEF top
<1>4. CASE top - Len(done) \notin Nat
  <2>1. more = << >>
    BY <1>1, <1>4
  <2>2. done \o << >> = done
    OBVIOUS
  <2>3. CommitUpTo(done, l, commit) = done
    BY <1>2, <2>1, <2>2
  <2> QED BY <2>3
<1> QED BY <1>3, <1>4

Roles == {"Follower", "Candidate", "Leader"}

\* StartElection keeps the types.
LEMMA StartElectionTypes ==
    ASSUME Types, NEW n \in Nodes, StartElection(n)
    PROVE  Types'
<1> DEFINE request == [term |-> term[n] + 1, lastIndex |-> Len(log[n]),
                       lastTerm |-> LastTerm(log[n])]
<1>1. term[n] + 1 \in Terms /\ log[n] \in Seq(Entries)
  BY DEF StartElection, Types, TypeOK, Terms
<1>2. request \in VoteRequests
  <2>1. LastTerm(log[n]) \in Terms /\ Len(log[n]) \in Nat
    BY <1>1, LastTermIsTerm
  <2> QED BY <1>1, <2>1 DEF VoteRequests
<1>3. election' \in [Nodes -> Elections]
  <2>1. Peers(n) \in SUBSET Nodes /\ {n} \in SUBSET Nodes
    BY DEF Peers
  <2>2. election' = [election EXCEPT ![n] =
          [pc |-> "ask", peers |-> Peers(n), votes |-> {n}, request |-> request]]
    BY DEF StartElection
  <2> HIDE DEF request
  <2>3. [pc |-> "ask", peers |-> Peers(n), votes |-> {n}, request |-> request] \in Elections
    BY <1>2, <2>1 DEF Elections
  <2> QED BY <2>2, <2>3 DEF Types, TypeOK
<1>4. /\ term' \in [Nodes -> Terms] /\ role' \in [Nodes -> Roles]
      /\ votedFor' \in [Nodes -> Nodes \cup {NoNode}]
      /\ ballots' \subseteq Nodes \X Terms \X Nodes
  BY <1>1 DEF StartElection, Types, TypeOK, Roles
<1> QED BY <1>3, <1>4 DEF StartElection, Types, TypeOK, logVars, Roles

\* So does the handler of a vote request.
LEMMA RequestVoteTypes ==
    ASSUME Types, NEW n \in Nodes, NEW p \in Peers(n), RequestVote(n, p)
    PROVE  Types'
<1> DEFINE request == election[n].request
<1>1. /\ p \in Nodes /\ election[n].pc = "ask" /\ request \in VoteRequests
      /\ election[n].peers \in SUBSET Nodes /\ election[n].votes \in SUBSET Nodes
  BY ElectionFields DEF Peers, RequestVote, Types
<1>2. request.term \in Terms
  BY <1>1 DEF VoteRequests
<1>3. /\ term' \in [Nodes -> Terms] /\ role' \in [Nodes -> Roles]
      /\ votedFor' \in [Nodes -> Nodes \cup {NoNode}]
  BY <1>1, <1>2 DEF RequestVote, Types, TypeOK, Roles
<1>4. ballots' \subseteq Nodes \X Terms \X Nodes
  <2>1. ballots' \in {ballots, ballots \cup {<< p, request.term, n >>}}
    BY DEF RequestVote
  <2> QED BY <1>1, <1>2, <2>1 DEF Types, TypeOK
<1>5. election' \in [Nodes -> Elections]
  <2>1. PICK granted \in BOOLEAN : election' = [election EXCEPT ![n] =
          [pc |-> "answer", peers |-> election[n].peers \ {p}, votes |-> election[n].votes,
           request |-> request,
           response |-> [term |-> term'[p], granted |-> granted, voter |-> p]]]
    BY DEF RequestVote, Types, TypeOK
  <2>2. [term |-> term'[p], granted |-> granted, voter |-> p] \in VoteAnswers
    BY <1>1, <1>3 DEF VoteAnswers
  <2> HIDE DEF request
  <2>3. [pc |-> "answer", peers |-> election[n].peers \ {p}, votes |-> election[n].votes,
         request |-> request,
         response |-> [term |-> term'[p], granted |-> granted, voter |-> p]] \in Elections
    BY <1>1, <2>2 DEF Elections
  <2> QED BY <2>1, <2>3 DEF Types, TypeOK
<1> QED BY <1>3, <1>4, <1>5 DEF RequestVote, Types, TypeOK, logVars, Roles

\* And the candidate's look at the answer.
LEMMA CountVoteTypes ==
    ASSUME Types, NEW n \in Nodes, CountVote(n)
    PROVE  Types'
<1>1. /\ election[n].request \in VoteRequests /\ election[n].response \in VoteAnswers
      /\ election[n].peers \in SUBSET Nodes /\ election[n].votes \in SUBSET Nodes
  BY ElectionFields DEF CountVote, Types
<1>2. election[n].response.term \in Terms /\ election[n].response.voter \in Nodes
  BY <1>1 DEF VoteAnswers
<1>3. /\ term' \in [Nodes -> Terms] /\ role' \in [Nodes -> Roles]
      /\ votedFor' \in [Nodes -> Nodes \cup {NoNode}]
  BY <1>2 DEF CountVote, Types, TypeOK, Roles
<1>4. election' \in [Nodes -> Elections]
  <2>1. Idle \in Elections
    BY DEF Idle, Elections
  <2>2. \A vs \in SUBSET Nodes : Asking(election[n], election[n].peers, vs) \in Elections
    BY <1>1 DEF Elections, Asking
  <2>3. election'[n] = Idle
        \/ \E vs \in SUBSET Nodes : election'[n] = Asking(election[n], election[n].peers, vs)
    BY <1>1, <1>2 DEF CountVote, Types, TypeOK
  <2>4. election' = [election EXCEPT ![n] = election'[n]]
    BY DEF CountVote, Types, TypeOK
  <2>5. election'[n] \in Elections
    BY <2>1, <2>2, <2>3
  <2>6. PICK e \in Elections : election' = [election EXCEPT ![n] = e]
    BY <2>4, <2>5
  <2> QED BY <2>6 DEF Types, TypeOK
<1> QED BY <1>3, <1>4 DEF CountVote, Types, TypeOK, logVars, Roles

\* An election that loses a call or its quorum.
LEMMA CallLostTypes ==
    ASSUME Types, NEW n \in Nodes,
           VoteAnswerLost(n) \/ NoQuorum(n) \/ BroadcastLost(n) \/ \E p \in Peers(n) : VoteRequestLost(n, p)
    PROVE  Types'
<1>1. ~BroadcastLost(n) =>
      /\ election[n].pc \in {"ask", "answer"} /\ election[n].request \in VoteRequests
      /\ election[n].peers \in SUBSET Nodes /\ election[n].votes \in SUBSET Nodes
  BY ElectionFields DEF VoteAnswerLost, NoQuorum, VoteRequestLost, Types
<1>2. Idle \in Elections
  BY DEF Idle, Elections
<1>3. ~BroadcastLost(n) =>
      \A ps \in SUBSET Nodes : Asking(election[n], ps, election[n].votes) \in Elections
  BY <1>1 DEF Elections, Asking
<1>4. \/ election' = [election EXCEPT ![n] = Idle]
      \/ /\ ~BroadcastLost(n)
         /\ \E ps \in SUBSET Nodes :
               election' = [election EXCEPT ![n] = Asking(election[n], ps, election[n].votes)]
  BY <1>1 DEF VoteAnswerLost, NoQuorum, BroadcastLost, VoteRequestLost, Types, TypeOK
<1>5. election' \in [Nodes -> Elections]
  <2>1. \E e \in Elections : election' = [election EXCEPT ![n] = e]
    BY <1>2, <1>3, <1>4
  <2> QED BY <2>1 DEF Types, TypeOK
<1>6. UNCHANGED << stateVars, logVars, apply, issued, ballots, elected >>
  BY DEF VoteAnswerLost, NoQuorum, BroadcastLost, VoteRequestLost
<1> QED BY <1>5, <1>6 DEF Types, TypeOK, stateVars, logVars

\* A new leader.
LEMMA BecomeLeaderTypes ==
    ASSUME Types, NEW n \in Nodes, BecomeLeader(n)
    PROVE  Types'
<1>1. log[n] \in Seq(Entries) /\ term[n] \in Terms /\ commitIndex[n] \in Nat
  BY DEF Types, TypeOK
<1>2. Len(log[n]) + 1 \in Nat \ {0}
  BY <1>1
<1>3. nextIndex' = [m \in Nodes |-> nextIndex'[m]]
  BY DEF BecomeLeader, Types
<1>4. \A m \in Nodes : nextIndex'[m] \in [Peers(m) -> Nat \ {0}]
  <2>1. nextIndex'[n] = [p \in Peers(n) |-> Len(log[n]) + 1]
    BY DEF BecomeLeader, Types
  <2>2. \A m \in Nodes : m # n => nextIndex'[m] = nextIndex[m]
    BY DEF BecomeLeader, Types
  <2>3. nextIndex'[n] \in [Peers(n) -> Nat \ {0}]
    BY <1>2, <2>1
  <2> QED BY <2>2, <2>3 DEF Types, TypeOK
<1>5. election' \in [Nodes -> Elections]
  <2>1. Announcing(term[n], commitIndex[n], Peers(n)) \in Elections
    BY <1>1, AnnouncingTyped DEF Peers
  <2> QED BY <2>1 DEF BecomeLeader, Types, TypeOK
<1>6. /\ role' \in [Nodes -> Roles] /\ votedFor' \in [Nodes -> Nodes \cup {NoNode}]
      /\ elected' \subseteq Terms \X Nodes
  BY <1>1 DEF BecomeLeader, Types, TypeOK, Roles
<1>7. UNCHANGED << term, commitIndex, logVars, apply, issued, ballots >>
  BY DEF BecomeLeader
<1> QED BY <1>3, <1>4, <1>5, <1>6, <1>7 DEF Types, TypeOK, logVars, Roles

\* A request of a broadcast or of an apply: what the receivers make of it.
LEMMA AppendedTypes ==
    ASSUME NEW l \in Seq(Entries), NEW g \in Seq(Entries), NEW prev \in Nat, prev <= Len(l)
    PROVE  Appended(l, prev, g) \in Seq(Entries)
<1> DEFINE different == {i \in 1..Len(g) : prev + i > Len(l) \/ l[prev + i] # g[i]}
<1>1. CASE different = {}
  BY <1>1 DEF Appended
<1>2. CASE different # {}
  <2> DEFINE k == Min(different)
  <2>1. different \in SUBSET Nat
    OBVIOUS
  <2>2. k \in different /\ \A i \in different : k <= i
    BY <1>2, <2>1, MinOfNaturals
  <2>3. k \in 1..Len(g)
    BY <2>2
  <2>4. prev + k - 1 <= Len(l)
    <3>1. CASE k = 1
      BY <3>1
    <3>2. CASE k # 1
      <4>1. k - 1 \in 1..Len(g) /\ ~(k <= k - 1)
        BY <2>3, <3>2
      <4>2. ~(prev + (k - 1) > Len(l))
        BY <2>2, <4>1
      <4> HIDE DEF k
      <4> QED BY <2>3, <4>2
    <3> QED BY <3>1, <3>2
  <2>5. Appended(l, prev, g) = SubSeq(l, 1, prev + k - 1) \o SubSeq(g, k, Len(g))
    BY <1>2 DEF Appended
  <2> HIDE DEF k
  <2>6. SubSeq(l, 1, prev + k - 1) \in Seq(Entries)
    <3>1. \A i \in 1..(prev + k - 1) : l[i] \in Entries
      BY <2>3, <2>4
    <3> QED BY <2>3, <3>1, SubSeqProperties
  <2>7. SubSeq(g, k, Len(g)) \in Seq(Entries)
    <3>1. \A i \in k..Len(g) : g[i] \in Entries
      BY <2>3
    <3> QED BY <2>3, <3>1, SubSeqProperties
  <2> QED BY <2>5, <2>6, <2>7
<1> QED BY <1>1, <1>2

\* What a receiver ends with has the types of its state.
LEMMA StoredTypes ==
    ASSUME Types, NEW p \in Nodes, NEW request, request.prevIndex \in Nat,
           request.entries \in Seq(Entries), request.commit \in Nat
    PROVE  /\ Stored(p, request).log \in Seq(Entries)
           /\ Stored(p, request).commit \in Nat
           /\ Stored(p, request).match \in Nat
           /\ Stored(p, request).success \in BOOLEAN
<1> DEFINE l == Appended(log[p], request.prevIndex, request.entries)
           announced == Min({request.commit, Len(l)})
<1>1. log[p] \in Seq(Entries) /\ commitIndex[p] \in Nat
  BY DEF Types, TypeOK
<1>2. CASE Matches(log[p], request.prevIndex, request.prevTerm)
  <2>1. request.prevIndex <= Len(log[p])
    BY <1>1, <1>2 DEF Matches
  <2>2. l \in Seq(Entries)
    BY <1>1, <2>1, AppendedTypes
  <2>3. /\ Stored(p, request).log = l /\ Stored(p, request).match = Len(l)
        /\ Stored(p, request).success = TRUE
        /\ Stored(p, request).commit \in {announced, commitIndex[p]}
    BY <1>2 DEF Stored
  <2> HIDE DEF l
  <2>4. announced \in Nat
    BY <2>2, LesserOf
  <2> HIDE DEF announced
  <2>5. Stored(p, request).success \in BOOLEAN
    <3>1. Stored(p, request).success = TRUE
      BY <2>3
    <3> QED BY <3>1, Zenon
  <2>6. Stored(p, request).match \in Nat
    BY <2>2, <2>3
  <2> QED BY <1>1, <2>2, <2>3, <2>4, <2>5, <2>6
<1>3. CASE ~Matches(log[p], request.prevIndex, request.prevTerm)
  BY <1>1, <1>3 DEF Stored
<1> QED BY <1>2, <1>3

\* So have the logs, the commit indexes and what is committed after Store.
LEMMA StoreTypes ==
    ASSUME Types, NEW S \in SUBSET Nodes, NEW request, request.prevIndex \in Nat,
           request.entries \in Seq(Entries), request.commit \in Nat, Store(S, request)
    PROVE  /\ log' \in [Nodes -> Seq(Entries)]
           /\ commitIndex' \in [Nodes -> Nat]
           /\ committed' \in [Nodes -> Seq(Commands)]
<1>1. \A p \in Nodes : Stored(p, request).log \in Seq(Entries) /\ Stored(p, request).commit \in Nat
  BY StoredTypes
<1>2. \A p \in Nodes :
         CommitUpTo(committed[p], Stored(p, request).log, Stored(p, request).commit) \in Seq(Commands)
  BY <1>1, CommittedUpTo DEF Types, TypeOK
<1> QED BY <1>1, <1>2 DEF Store, Types, TypeOK

\* And the state after a broadcast.
LEMMA BroadcastTypes ==
    ASSUME Types, NEW n \in Nodes, NEW p \in Peers(n), NEW task,
           task.term \in Terms, task.through \in Nat, Broadcast(n, p, task)
    PROVE  /\ term' \in [Nodes -> Terms] /\ role' \in [Nodes -> Roles]
           /\ votedFor' \in [Nodes -> Nodes \cup {NoNode}]
           /\ log' \in [Nodes -> Seq(Entries)]
           /\ commitIndex' \in [Nodes -> Nat]
           /\ committed' \in [Nodes -> Seq(Commands)]
<1> DEFINE request == [term |-> task.term, prevIndex |-> Len(log[n]),
                       prevTerm |-> LastTerm(log[n]), entries |-> << >>,
                       commit |-> task.through]
           reached == {q \in {p} : request.term >= term[q]}
<1>1. reached \in SUBSET Nodes
  BY DEF Peers
<1>2. Follow(reached, task.term) /\ Store(reached, request)
  BY DEF Broadcast
<1>3. request.prevIndex \in Nat /\ request.entries \in Seq(Entries) /\ request.commit \in Nat
  BY DEF Types, TypeOK
<1> HIDE DEF reached, request
<1>4. /\ term' \in [Nodes -> Terms] /\ role' \in [Nodes -> Roles]
      /\ votedFor' \in [Nodes -> Nodes \cup {NoNode}]
  BY <1>1, <1>2 DEF Follow, Types, TypeOK, Roles
<1> QED BY <1>1, <1>2, <1>3, <1>4, StoreTypes

\* Every step of an election keeps the types.
LEMMA ElectionKeepsTypes ==
    ASSUME Types, NEW n \in Nodes, Election(n)
    PROVE  Types'
<1>1. ASSUME NEW p \in Peers(n), BroadcastAsNewLeader(n, p) PROVE Types'
  <2>1. election[n].pc = "broadcast" /\ Broadcast(n, p, election[n])
    BY <1>1 DEF BroadcastAsNewLeader
  <2>2. /\ election[n].term \in Terms /\ election[n].through \in Nat
        /\ election[n].peers \ {p} \in SUBSET Nodes
    BY <2>1, ElectionFields DEF Types
  <2>3. /\ term' \in [Nodes -> Terms] /\ role' \in [Nodes -> Roles]
        /\ votedFor' \in [Nodes -> Nodes \cup {NoNode}]
        /\ log' \in [Nodes -> Seq(Entries)]
        /\ commitIndex' \in [Nodes -> Nat]
        /\ committed' \in [Nodes -> Seq(Commands)]
    BY <2>1, <2>2, BroadcastTypes
  <2>4. election' \in [Nodes -> Elections]
    <3>1. Announcing(election[n].term, election[n].through, election[n].peers \ {p}) \in Elections
      BY <2>2, AnnouncingTyped
    <3> QED BY <1>1, <3>1 DEF BroadcastAsNewLeader, Types, TypeOK
  <2>5. UNCHANGED << nextIndex, apply, issued, ballots, elected >>
    BY <1>1 DEF BroadcastAsNewLeader
  <2> QED BY <2>3, <2>4, <2>5 DEF Types, TypeOK, Roles
<1>2. CASE \E p \in Peers(n) : BroadcastAsNewLeader(n, p)
  BY <1>1, <1>2
<1>3. CASE \E p \in Peers(n) : RequestVote(n, p)
  BY <1>3, RequestVoteTypes
<1>4. CASE VoteAnswerLost(n) \/ NoQuorum(n) \/ BroadcastLost(n) \/ \E p \in Peers(n) : VoteRequestLost(n, p)
  BY <1>4, CallLostTypes
<1>5. CASE StartElection(n) \/ CountVote(n) \/ BecomeLeader(n)
  BY <1>5, StartElectionTypes, CountVoteTypes, BecomeLeaderTypes
<1> QED BY <1>2, <1>3, <1>4, <1>5 DEF Election

\* The start of an apply, its entry and its failure.
LEMMA PushTypes ==
    ASSUME Types, NEW n \in Nodes, BeginApply(n) \/ PushEntry(n) \/ AppendFails(n)
    PROVE  Types'
<1>1. CASE BeginApply(n)
  <2>1. issued + 1 \in Commands /\ issued + 1 \in Nat /\ term[n] \in Terms
    BY <1>1 DEF BeginApply, Types, TypeOK, Commands
  <2>2. [pc |-> "push", term |-> term[n], command |-> issued + 1] \in Applies
    BY <2>1 DEF Applies
  <2>3. apply' \in [Nodes -> Applies]
    BY <1>1, <2>2 DEF BeginApply, Types, TypeOK
  <2>4. UNCHANGED << stateVars, logVars, election, ballots, elected >> /\ issued' \in Nat
    BY <1>1, <2>1 DEF BeginApply
  <2> QED BY <2>3, <2>4 DEF Types, TypeOK, stateVars, logVars
<1>2. CASE PushEntry(n)
  <2>1. apply[n].term \in Terms /\ apply[n].command \in Commands /\ log[n] \in Seq(Entries)
    BY <1>2, ApplyFields DEF PushEntry, Types, TypeOK
  <2>2. [pc |-> "replicate", term |-> apply[n].term, through |-> Len(log[n]) + 1,
         peers |-> Peers(n), acks |-> 1, retry |-> NoNode] \in Applies
    <3>1. Peers(n) \in SUBSET Nodes /\ Len(log[n]) + 1 \in Nat /\ 1 \in Nat
      BY <2>1 DEF Peers
    <3> QED BY <2>1, <3>1 DEF Applies
  <2>3. apply' \in [Nodes -> Applies]
    BY <1>2, <2>2 DEF PushEntry, Types, TypeOK
  <2>4. log' \in [Nodes -> Seq(Entries)]
    <3>1. [term |-> apply[n].term, command |-> apply[n].command] \in Entries
      BY <2>1 DEF Entries
    <3>2. Append(log[n], [term |-> apply[n].term, command |-> apply[n].command]) \in Seq(Entries)
      BY <2>1, <3>1, AppendProperties
    <3> QED BY <1>2, <3>2 DEF PushEntry, Types, TypeOK
  <2>5. UNCHANGED << stateVars, committed, election, issued, ballots, elected >>
    BY <1>2 DEF PushEntry
  <2> QED BY <2>3, <2>4, <2>5 DEF Types, TypeOK, stateVars
<1>3. CASE AppendFails(n)
  <2>1. apply' \in [Nodes -> Applies]
    BY <1>3 DEF AppendFails, Types, TypeOK, Idle, Applies
  <2>2. UNCHANGED << stateVars, logVars, election, issued, ballots, elected >>
    BY <1>3 DEF AppendFails
  <2> QED BY <2>1, <2>2 DEF Types, TypeOK, stateVars, logVars
<1> QED BY <1>1, <1>2, <1>3

\* build_append_request.
LEMMA SendEntriesTypes ==
    ASSUME Types, NEW n \in Nodes, NEW p \in Peers(n), SendEntries(n, p)
    PROVE  Types'
<1> DEFINE prev == nextIndex[n][p] - 1
           request == [term |-> term[n], prevIndex |-> prev,
                       prevTerm |-> LastTerm(SubSeq(log[n], 1, prev)),
                       entries |-> SubSeq(log[n], prev + 1, Len(log[n])),
                       commit |-> commitIndex[n]]
<1>1. /\ p \in Nodes /\ apply[n].pc = "replicate" /\ apply[n].term \in Terms
      /\ apply[n].through \in Nat /\ apply[n].peers \in SUBSET Nodes /\ apply[n].acks \in Nat
  BY ApplyFields DEF Peers, SendEntries, Types, Busy, Tasks
<1>2. prev \in Nat /\ log[n] \in Seq(Entries) /\ term[n] \in Terms /\ commitIndex[n] \in Nat
  BY DEF Types, TypeOK
<1>3. ASSUME prev <= Len(log[n]) PROVE request \in Requests
  <2> HIDE DEF prev
  <2>1. SubSeq(log[n], 1, prev) \in Seq(Entries)
    <3>1. \A i \in 1..prev : log[n][i] \in Entries
      BY <1>2, <1>3
    <3> QED BY <1>2, <3>1, SubSeqProperties
  <2>2. SubSeq(log[n], prev + 1, Len(log[n])) \in Seq(Entries)
    <3>1. \A i \in (prev + 1)..Len(log[n]) : log[n][i] \in Entries
      BY <1>2
    <3> QED BY <1>2, <3>1, SubSeqProperties
  <2>3. LastTerm(SubSeq(log[n], 1, prev)) \in Terms
    BY <2>1, LastTermIsTerm
  <2> QED BY <1>2, <2>2, <2>3 DEF Requests
<1>4. \E e \in Applies : apply' = [apply EXCEPT ![n] = e]
  <2>1. CASE prev > Len(log[n])
    <3>1. apply' = [apply EXCEPT ![n] = Idle]
      BY <2>1 DEF SendEntries
    <3>2. Idle \in Applies
      BY DEF Idle, Applies
    <3> QED BY <3>1, <3>2
  <2>2. CASE ~(prev > Len(log[n]))
    <3>1. apply' = [apply EXCEPT ![n] =
            [pc |-> "sent", term |-> apply[n].term, through |-> apply[n].through,
             peers |-> apply[n].peers, acks |-> apply[n].acks, retry |-> p,
             request |-> request]]
      BY <2>2 DEF SendEntries, Types, TypeOK
    <3>2. request \in Requests
      BY <1>2, <1>3, <2>2
    <3> HIDE DEF request
    <3>3. [pc |-> "sent", term |-> apply[n].term, through |-> apply[n].through,
           peers |-> apply[n].peers, acks |-> apply[n].acks, retry |-> p,
           request |-> request] \in Applies
      BY <1>1, <3>2 DEF Applies
    <3> QED BY <3>1, <3>3
  <2> QED BY <2>1, <2>2
<1>5. apply' \in [Nodes -> Applies]
  BY <1>4 DEF Types, TypeOK
<1>6. UNCHANGED << stateVars, logVars, election, issued, ballots, elected >>
  BY DEF SendEntries
<1> QED BY <1>5, <1>6 DEF Types, TypeOK, stateVars, logVars

\* An answer of a typed task is typed.
LEMMA AnsweredTyped ==
    ASSUME TypeOK, NEW n \in Nodes, apply[n].pc \in Busy \ {"replicate"},
           NEW success \in BOOLEAN, NEW match \in Nat, NEW t \in Terms
    PROVE  Answered(apply[n], success, match, t) \in Applies
<1>1. /\ apply[n].term \in Terms /\ apply[n].through \in Nat /\ apply[n].peers \in SUBSET Nodes
      /\ apply[n].acks \in Nat /\ apply[n].retry \in Nodes /\ apply[n].request \in Requests
  BY ApplyFields DEF Busy, Tasks
<1>2. [success |-> success, match |-> match, term |-> t] \in Answers
  BY DEF Answers
<1> QED BY <1>1, <1>2 DEF Applies, Answered

\* The two locks of append_entries_rpc.
LEMMA AdmitEntriesTypes ==
    ASSUME Types, NEW n \in Nodes, AdmitEntries(n)
    PROVE  Types'
<1> DEFINE p == apply[n].retry
<1>1. /\ apply[n].pc = "sent" /\ apply[n].term \in Terms /\ apply[n].through \in Nat
      /\ apply[n].peers \in SUBSET Nodes /\ apply[n].acks \in Nat
      /\ p \in Nodes /\ apply[n].request \in Requests
  BY ApplyFields DEF AdmitEntries, Types, Busy, Tasks
<1>2. apply[n].request.term \in Terms /\ term[p] \in Terms
  BY <1>1 DEF Requests, Types, TypeOK
<1>3. UNCHANGED << commitIndex, nextIndex, logVars, election, issued, ballots, elected >>
  BY DEF AdmitEntries
<1>4. CASE apply[n].request.term < term[p]
  <2>1. apply' = [apply EXCEPT ![n] = Answered(apply[n], FALSE, 0, term[p])]
    BY <1>4 DEF AdmitEntries, Types, TypeOK
  <2>2. FALSE \in BOOLEAN /\ apply[n].pc \in Busy \ {"replicate"}
    BY <1>1 DEF Busy
  <2>3. Answered(apply[n], FALSE, 0, term[p]) \in Applies
    BY <1>2, <2>2, AnsweredTyped DEF Types
  <2>4. apply' \in [Nodes -> Applies]
    BY <2>1, <2>3 DEF Types, TypeOK
  <2>5. UNCHANGED << term, role, votedFor >>
    BY <1>4 DEF AdmitEntries
  <2> QED BY <1>3, <2>4, <2>5 DEF Types, TypeOK, logVars
<1>5. CASE ~(apply[n].request.term < term[p])
  <2>1. apply' = [apply EXCEPT ![n] =
          [pc |-> "admitted", term |-> apply[n].term, through |-> apply[n].through,
           peers |-> apply[n].peers, acks |-> apply[n].acks, retry |-> apply[n].retry,
           request |-> apply[n].request]]
    BY <1>5 DEF AdmitEntries, Types, TypeOK
  <2>2. [pc |-> "admitted", term |-> apply[n].term, through |-> apply[n].through,
         peers |-> apply[n].peers, acks |-> apply[n].acks, retry |-> apply[n].retry,
         request |-> apply[n].request] \in Applies
    BY <1>1 DEF Applies
  <2>3. apply' \in [Nodes -> Applies]
    BY <2>1, <2>2 DEF Types, TypeOK
  <2>4. Follow({p}, apply[n].request.term)
    BY <1>5 DEF AdmitEntries
  <2>5. /\ term' \in [Nodes -> Terms] /\ role' \in [Nodes -> Roles]
        /\ votedFor' \in [Nodes -> Nodes \cup {NoNode}]
    BY <1>2, <2>4 DEF Follow, Types, TypeOK, Roles
  <2> QED BY <1>3, <2>3, <2>5 DEF Types, TypeOK, logVars, Roles
<1> QED BY <1>4, <1>5

\* StoreEntries keeps the types.
LEMMA StoreEntriesTypes ==
    ASSUME Types, NEW n \in Nodes, StoreEntries(n)
    PROVE  Types'
<1> DEFINE p == apply[n].retry
           request == apply[n].request
           after == Stored(p, request)
<1>1. apply[n].pc = "admitted" /\ p \in Nodes /\ request \in Requests
  BY ApplyFields DEF StoreEntries, Types, Busy
<1>2. /\ request.prevIndex \in Nat /\ request.entries \in Seq(Entries)
      /\ request.commit \in Nat
  BY <1>1 DEF Requests
<1>3. Store({p}, request)
  BY DEF StoreEntries
<1>4. apply' = [apply EXCEPT ![n] = Answered(apply[n], after.success, after.match, term[p])]
  BY DEF StoreEntries, Types, TypeOK
<1>5. term[p] \in Terms
  BY <1>1 DEF Types, TypeOK
<1>6. UNCHANGED << term, role, votedFor, nextIndex, election, issued, ballots, elected >>
  BY DEF StoreEntries
<1> HIDE DEF p, request
<1>7. after.match \in Nat /\ after.success \in BOOLEAN
  BY <1>1, <1>2, StoredTypes
<1> HIDE DEF after
<1>8. Answered(apply[n], after.success, after.match, term[p]) \in Applies
  BY <1>1, <1>5, <1>7, AnsweredTyped DEF Types, Busy
<1>9. apply' \in [Nodes -> Applies]
  BY <1>4, <1>8 DEF Types, TypeOK
<1>10. /\ log' \in [Nodes -> Seq(Entries)]
       /\ commitIndex' \in [Nodes -> Nat]
       /\ committed' \in [Nodes -> Seq(Commands)]
  <2>1. {p} \in SUBSET Nodes
    BY <1>1
  <2> QED BY <1>2, <1>3, <2>1, StoreTypes
<1> QED BY <1>6, <1>9, <1>10 DEF Types, TypeOK

\* The answer of a peer.
LEMMA HandleAnswerTypes ==
    ASSUME Types, NEW n \in Nodes, HandleAnswer(n)
    PROVE  Types'
<1> DEFINE p == apply[n].retry
           answer == apply[n].response
<1>1. /\ apply[n].pc = "answer" /\ apply[n].term \in Terms /\ apply[n].through \in Nat
      /\ apply[n].peers \in SUBSET Nodes /\ apply[n].acks \in Nat
      /\ p \in Nodes /\ answer \in Answers
  BY ApplyFields DEF HandleAnswer, Types, Busy, Tasks
<1>2. answer.term \in Terms /\ answer.match \in Nat
  BY <1>1 DEF Answers
<1>3. /\ term' \in [Nodes -> Terms] /\ role' \in [Nodes -> Roles]
      /\ votedFor' \in [Nodes -> Nodes \cup {NoNode}]
  BY <1>2 DEF HandleAnswer, Types, TypeOK, Roles
<1>4. /\ nextIndex' = [m \in Nodes |-> nextIndex'[m]]
      /\ \A m \in Nodes : nextIndex'[m] \in [Peers(m) -> Nat \ {0}]
  <2>1. /\ nextIndex' = [m \in Nodes |-> nextIndex'[m]]
        /\ \A m \in Nodes : m # n => nextIndex'[m] = nextIndex[m]
    BY DEF HandleAnswer, Types
  <2> DEFINE k == IF answer.term > apply[n].request.term THEN nextIndex[n][p]
                  ELSE IF answer.success THEN answer.match + 1
                  ELSE IF nextIndex[n][p] <= 1 THEN nextIndex[n][p] ELSE nextIndex[n][p] - 1
  <2>2. nextIndex'[n] = [nextIndex[n] EXCEPT ![p] = k]
    BY DEF HandleAnswer, Types
  <2>3. nextIndex'[n] \in [Peers(n) -> Nat \ {0}]
    <3>1. nextIndex[n] \in [Peers(n) -> Nat \ {0}]
      BY DEF Types, TypeOK
    <3>2. p \in Peers(n) => k \in Nat \ {0}
      <4>1. p \in Peers(n) => nextIndex[n][p] \in Nat \ {0}
        BY <3>1
      <4> QED BY <1>2, <4>1
    <3> HIDE DEF p, k
    <3> QED BY <2>2, <3>1, <3>2
  <2> QED BY <2>1, <2>3 DEF Types, TypeOK
<1>5. \E e \in Applies : apply' = [apply EXCEPT ![n] = e]
  <2>1. Idle \in Applies
    BY DEF Idle, Applies
  <2>2. \A ps \in SUBSET Nodes, k \in Nat, q \in Nodes \cup {NoNode} :
           Replicating(apply[n], ps, k, q) \in Applies
    BY <1>1 DEF Applies, Replicating
  <2> DEFINE fewer == apply[n].peers \ {p}
             more == apply[n].acks + (IF answer.match >= apply[n].through THEN 1 ELSE 0)
  <2>3. \/ apply' = [apply EXCEPT ![n] = Idle]
        \/ apply' = [apply EXCEPT ![n] = Replicating(apply[n], fewer, more, NoNode)]
        \/ apply' = [apply EXCEPT ![n] = Replicating(apply[n], fewer, apply[n].acks, NoNode)]
        \/ apply' = [apply EXCEPT ![n] =
              Replicating(apply[n], apply[n].peers, apply[n].acks, p)]
    BY DEF HandleAnswer, Types, TypeOK
  <2>4. fewer \in SUBSET Nodes /\ more \in Nat
    BY <1>1, <1>2
  <2> HIDE DEF p, fewer, more
  <2>5. /\ Replicating(apply[n], fewer, more, NoNode) \in Applies
        /\ Replicating(apply[n], fewer, apply[n].acks, NoNode) \in Applies
        /\ Replicating(apply[n], apply[n].peers, apply[n].acks, p) \in Applies
    BY <1>1, <2>2, <2>4
  <2> QED BY <2>1, <2>3, <2>5
<1>6. apply' \in [Nodes -> Applies]
  BY <1>5 DEF Types, TypeOK
<1>7. UNCHANGED << commitIndex, logVars, election, issued, ballots, elected >>
  BY DEF HandleAnswer
<1> QED BY <1>3, <1>4, <1>6, <1>7 DEF Types, TypeOK, logVars, Roles

\* The commit.
LEMMA CommitEntryTypes ==
    ASSUME Types, NEW n \in Nodes, CommitEntry(n)
    PROVE  Types'
<1>1. apply[n].pc = "replicate" /\ apply[n].through \in Nat /\ term[n] \in Terms
  BY ApplyFields DEF CommitEntry, Types, TypeOK, Busy
<1>2. Announcing(term[n], apply[n].through, Peers(n)) \in Applies
  BY <1>1, AnnouncingTyped DEF Peers
<1>3. apply' \in [Nodes -> Applies]
  BY <1>2 DEF CommitEntry, Types, TypeOK
<1>4. committed' \in [Nodes -> Seq(Commands)]
  <2>1. CommitUpTo(committed[n], log[n], apply[n].through) \in Seq(Commands)
    BY <1>1, CommittedUpTo DEF Types, TypeOK
  <2> QED BY <2>1 DEF CommitEntry, Types, TypeOK
<1>5. commitIndex' \in [Nodes -> Nat]
  BY <1>1 DEF CommitEntry, Types, TypeOK
<1>6. UNCHANGED << term, role, votedFor, nextIndex, log, election, issued, ballots, elected >>
  BY DEF CommitEntry
<1> QED BY <1>3, <1>4, <1>5, <1>6 DEF Types, TypeOK

\* Every step of an apply keeps the types.
LEMMA ApplyKeepsTypes ==
    ASSUME Types, NEW n \in Nodes, Apply(n)
    PROVE  Types'
<1>1. ASSUME NEW p \in Peers(n), BroadcastCommit(n, p) PROVE Types'
  <2>1. apply[n].pc = "broadcast" /\ Broadcast(n, p, apply[n])
    BY <1>1 DEF BroadcastCommit
  <2>2. /\ apply[n].term \in Terms /\ apply[n].through \in Nat
        /\ apply[n].peers \ {p} \in SUBSET Nodes
    BY <2>1, ApplyFields DEF Types
  <2>3. /\ term' \in [Nodes -> Terms] /\ role' \in [Nodes -> Roles]
        /\ votedFor' \in [Nodes -> Nodes \cup {NoNode}]
        /\ log' \in [Nodes -> Seq(Entries)]
        /\ commitIndex' \in [Nodes -> Nat]
        /\ committed' \in [Nodes -> Seq(Commands)]
    BY <2>1, <2>2, BroadcastTypes
  <2>4. apply' \in [Nodes -> Applies]
    <3>1. Announcing(apply[n].term, apply[n].through, apply[n].peers \ {p}) \in Applies
      BY <2>2, AnnouncingTyped
    <3> QED BY <1>1, <3>1 DEF BroadcastCommit, Types, TypeOK
  <2>5. UNCHANGED << nextIndex, election, issued, ballots, elected >>
    BY <1>1 DEF BroadcastCommit
  <2> QED BY <2>3, <2>4, <2>5 DEF Types, TypeOK, Roles
<1>2. CASE \E p \in Peers(n) : BroadcastCommit(n, p)
  BY <1>1, <1>2
<1>3. CASE \E p \in Peers(n) : SendEntries(n, p)
  BY <1>3, SendEntriesTypes
<1>4. CASE BeginApply(n) \/ PushEntry(n) \/ AppendFails(n)
  BY <1>4, PushTypes
<1>5. CASE AdmitEntries(n) \/ StoreEntries(n) \/ HandleAnswer(n) \/ CommitEntry(n)
  BY <1>5, AdmitEntriesTypes, StoreEntriesTypes, HandleAnswerTypes, CommitEntryTypes
<1> QED BY <1>2, <1>3, <1>4, <1>5 DEF Apply

\* The types hold initially.
LEMMA InitTypes == Init => Types
<1> SUFFICES ASSUME Init PROVE Types
  OBVIOUS
<1>1. \A n \in Nodes : nextIndex[n] \in [Peers(n) -> Nat \ {0}]
  BY DEF Init
<1>2. nextIndex = [n \in Nodes |-> nextIndex[n]]
  BY DEF Init
<1>3. election \in [Nodes -> Elections] /\ apply \in [Nodes -> Applies]
  BY DEF Init, Idle, Elections, Applies
<1>4. /\ log \in [Nodes -> Seq(Entries)] /\ committed \in [Nodes -> Seq(Commands)]
  BY DEF Init
<1>5. /\ term \in [Nodes -> Terms] /\ role \in [Nodes -> Roles]
      /\ votedFor \in [Nodes -> Nodes \cup {NoNode}] /\ commitIndex \in [Nodes -> Nat]
      /\ issued \in Nat /\ ballots = {} /\ elected = {}
  BY DEF Init, Terms, Roles
<1> QED BY <1>1, <1>2, <1>3, <1>4, <1>5 DEF Types, TypeOK, Roles

\* Every step keeps the types.
LEMMA TypesStep == Types /\ [Next]_vars => Types'
<1> SUFFICES ASSUME Types, [Next]_vars PROVE Types'
  OBVIOUS
<1>1. CASE \E n \in Nodes : Election(n) \/ Apply(n)
  BY <1>1, ElectionKeepsTypes, ApplyKeepsTypes
<1>2. CASE UNCHANGED vars
  BY <1>2 DEF vars, Types, TypeOK
<1> QED BY <1>1, <1>2 DEF Next

\* The state of the consensus log and of its tasks stays of its type.
THEOREM TypeCorrect == Spec => []TypeOK
<1>1. Types => TypeOK
  BY DEF Types
<1> QED BY <1>1, InitTypes, TypesStep, PTL DEF Spec

----------------------------------------------------------------------------
(* The log.  While no task was overtaken:                                  *)
(* LogsAgree: logs, and the log each request under way was built from, are *)
(* equal up to any place where they have entries of one term.              *)
(* PendingKept: the entry of an apply under way is with the leader and all *)
(* that accepted it, until a node that did not is in a later term, after   *)
(* which the apply cannot return Ok.                                       *)
(* AckedKept: an entry whose apply returned Ok is in every log, and in     *)
(* every request that can still be stored.                                 *)
(* sent[n] is the log of n when it built its request: a witness, which     *)
(* LogInv is stated for and the invariant quantifies.                      *)

InFlight(n) == apply[n].pc \in {"sent", "admitted"}
Accepted(n) == apply[n].pc = "answer" /\ apply[n].response.success

Seen(sent) == {log[n] : n \in Nodes} \cup {sent[n] : n \in {m \in Nodes : InFlight(m)}}

\* What build_append_request makes of a log.
IsPart(request, l) ==
    /\ request.prevIndex <= Len(l)
    /\ request.prevIndex # 0 => request.prevTerm = l[request.prevIndex].term
    /\ request.entries = SubSeq(l, request.prevIndex + 1, Len(l))

Has(l, i, e) == i \in DOMAIN l /\ l[i] = e

\* Tasks belong to terms their node was elected in.
TaskElected(n) ==
    /\ role[n] = "Leader" => << term[n], n >> \in elected
    /\ apply[n].pc \in Busy => << apply[n].term, n >> \in elected /\ n \notin apply[n].peers
    /\ apply[n].pc \in Busy \ {"replicate"} =>
          apply[n].request.term = apply[n].term /\ apply[n].retry \in apply[n].peers
    /\ apply[n].pc = "admitted" \/ Accepted(n) => term[apply[n].retry] >= apply[n].term

TasksElected ==
    /\ \A m \in Nodes, t \in Nat : << t, m >> \in elected => t <= term[m]
    /\ \A n \in Nodes : TaskElected(n)

\* Entries are of terms with a leader, not later than that of the log's node.
EntriesElected(sent) ==
    /\ \A l \in Seen(sent) : \A i \in DOMAIN l : \E m \in Nodes : << l[i].term, m >> \in elected
    /\ \A n \in Nodes : \A i \in DOMAIN log[n] : log[n][i].term <= term[n]
    /\ \A n \in Nodes : InFlight(n) =>
          /\ \A i \in DOMAIN sent[n] : sent[n][i].term <= apply[n].term
          /\ IsPart(apply[n].request, sent[n])

Agree(l, m) ==
    \A i \in DOMAIN l \cap DOMAIN m : l[i].term = m[i].term => \A j \in 1..i : l[j] = m[j]

\* A leader's log is as long as any with an entry of its term.
LogsAgree(sent) ==
    /\ \A l, m \in Seen(sent) : Agree(l, m)
    /\ \A n \in Nodes : << term[n], n >> \in elected =>
          \A l \in Seen(sent) : \A i \in DOMAIN l : l[i].term = term[n] => i <= Len(log[n])

\* The nodes the apply of n counts, or will once it looks at the answer.
Holders(n) == {p \in Nodes : p \notin apply[n].peers \/ (Accepted(n) /\ p = apply[n].retry)}

Current(n) == apply[n].pc \in Busy /\ apply[n].term = term[n]

\* The apply of n can still return Ok.
Undisturbed(n) == \A p \in Nodes \ Holders(n) : term[p] <= apply[n].term

HoldersKeep(n, sent) ==
    LET i == apply[n].through
    IN  /\ \A p \in Holders(n) : Has(log[p], i, log[n][i])
        /\ \A m \in Nodes : InFlight(m) /\ apply[m].term >= apply[n].term =>
              Has(sent[m], i, log[n][i])

\* A refusal that may come has an earlier entry to try.
MayStepBack(n) ==
    \/ InFlight(n) /\ apply[n].request.prevIndex # 0
    \/ /\ apply[n].pc = "answer" /\ ~apply[n].response.success
       /\ apply[n].response.term <= apply[n].term

PendingKept(n, sent) ==
    LET t == apply[n].term
        i == apply[n].through
    IN  /\ i = Len(log[n]) /\ i >= 1 /\ log[n][i].term = t
        /\ InFlight(n) => sent[n] = log[n]
        /\ \A p \in Holders(n) : term[p] >= t
        /\ \A p \in Nodes \ Holders(n) : term[p] <= t =>
              \A j \in DOMAIN log[p] : j >= i => log[p][j].term # t
        /\ Undisturbed(n) => HoldersKeep(n, sent)
        /\ Accepted(n) => apply[n].response.match = i
        /\ MayStepBack(n) => nextIndex[n][apply[n].retry] > 1

AckedKept(sent) ==
    \A a \in acked :
        /\ \A p \in Nodes : Has(log[p], a.index, a.entry) /\ a.entry.term <= term[p]
        /\ \A m \in Nodes : InFlight(m) /\ apply[m].term >= a.entry.term =>
              Has(sent[m], a.index, a.entry)

\* Nothing past an acknowledged entry is committed.
Safe(c) == c = 0 \/ \E a \in acked : c <= a.index

CommitsOf(n) ==
    /\ Safe(commitIndex[n]) /\ Safe(Len(committed[n]))
    /\ InFlight(n) => Safe(apply[n].request.commit)
    /\ election[n].pc = "broadcast" => Safe(election[n].through)
    /\ apply[n].pc = "broadcast" => Safe(apply[n].through)
    /\ \A i \in DOMAIN committed[n] : committed[n][i] = log[n][i].command

CommitsSafe == \A n \in Nodes : CommitsOf(n)

NextInLog ==
    \A n \in Nodes : role[n] = "Leader" =>
        \A p \in Peers(n) : nextIndex[n][p] <= Len(log[n]) + 1

LogInv(sent) ==
    /\ TasksElected
    /\ EntriesElected(sent)
    /\ LogsAgree(sent)
    /\ \A n \in Nodes : Current(n) => PendingKept(n, sent)
    /\ AckedKept(sent)
    /\ CommitsSafe
    /\ NextInLog

LogsInv ==
    /\ Types
    /\ ~overtaken => \E sent \in [Nodes -> Seq(Entries)] : LogInv(sent)

----------------------------------------------------------------------------
\* A term has one leader.
Unique ==
    \A t \in Nat, m, n \in Nodes : << t, m >> \in elected /\ << t, n >> \in elected => m = n

\* It has, from the votes.
LEMMA LeadersUnique == VInv => (~overtaken => Unique)
<1> SUFFICES ASSUME VInv, ~overtaken, NEW t \in Nat, NEW m \in Nodes, NEW n \in Nodes,
                    << t, m >> \in elected, << t, n >> \in elected
             PROVE  m = n
  BY DEF Unique
<1>1. << t, m >>[1] = << t, n >>[1]
  OBVIOUS
<1>2. << t, m >> = << t, n >>
  BY <1>1, OneLeaderFromVotes DEF OneLeaderPerTerm
<1> QED BY <1>2

\* The numbers the terms are compared as.
LEMMA Numbers ==
    ASSUME Types, NEW n \in Nodes
    PROVE  /\ term[n] \in Nat /\ log[n] \in Seq(Entries)
           /\ \A i \in DOMAIN log[n] : log[n][i].term \in Nat
           /\ apply[n].pc \in Busy => apply[n].term \in Nat /\ apply[n].through \in Nat
<1>1. \A t \in Terms : t \in Nat
  BY DEF Terms
<1>2. term[n] \in Terms /\ log[n] \in Seq(Entries)
  BY DEF Types, TypeOK
<1>3. \A i \in DOMAIN log[n] : log[n][i] \in Entries
  BY <1>2
<1>4. apply[n].pc \in Busy => apply[n].term \in Terms /\ apply[n].through \in Nat
  BY ApplyFields DEF Types
<1> QED BY <1>1, <1>2, <1>3, <1>4 DEF Entries

----------------------------------------------------------------------------
(* Steps that leave the logs alone.                                        *)

Later == \A p \in Nodes : term'[p] >= term[p]

\* What such a step makes of an apply.
TaskKept(n) ==
    apply'[n].pc \in Busy =>
        /\ apply[n].pc \in Busy /\ apply'[n].term = apply[n].term
        /\ apply'[n].through = apply[n].through
        /\ Holders(n)' = Holders(n)
        /\ Accepted(n)' => Accepted(n) /\ apply'[n].response = apply[n].response
        /\ Current(n) /\ MayStepBack(n)' => nextIndex'[n][apply'[n].retry] > 1

\* A request under way stays, or is built of the log of the moment.
RequestKept(n, sent, sent2) ==
    InFlight(n)' =>
        \/ InFlight(n) /\ apply'[n].request = apply[n].request /\ sent2[n] = sent[n]
        \/ Current(n) /\ IsPart(apply'[n].request, log[n]) /\ sent2[n] = log[n]

Untouched(sent, sent2) ==
    /\ log' = log /\ elected \subseteq elected' /\ Later
    /\ \A n \in Nodes : TaskKept(n) /\ RequestKept(n, sent, sent2)

\* Such a step shows no new log.
LEMMA SeenUntouched ==
    ASSUME NEW sent, NEW sent2, Untouched(sent, sent2)
    PROVE  Seen(sent2)' \subseteq Seen(sent)
<1> SUFFICES ASSUME NEW l \in Seen(sent2)' PROVE l \in Seen(sent)
  OBVIOUS
<1>1. CASE \E n \in Nodes : l = log'[n]
  BY <1>1 DEF Untouched, Seen
<1>2. CASE \E n \in Nodes : InFlight(n)' /\ l = sent2[n]
  BY <1>2 DEF Untouched, RequestKept, Seen
<1> QED BY <1>1, <1>2 DEF Seen

\* The apply of a node in its term was of its term before.
LEMMA CurrentUntouched ==
    ASSUME Types, Types', TasksElected, Later, NEW n \in Nodes, TaskKept(n), Current(n)'
    PROVE  Current(n) /\ term'[n] = term[n]
<1>1. /\ apply[n].pc \in Busy /\ apply[n].term = term'[n] /\ term'[n] >= term[n]
  BY DEF Current, TaskKept, Later
<1>2. term[n] \in Nat /\ apply[n].term \in Nat
  BY <1>1, Numbers
<1>3. apply[n].term <= term[n]
  BY <1>1, <1>2 DEF TasksElected, TaskElected
<1>4. term'[n] \in Nat
  BY <1>1, <1>2
<1> QED BY <1>1, <1>2, <1>3, <1>4 DEF Current

\* It keeps that entries are of elected terms.
LEMMA EntriesUntouched ==
    ASSUME Types, NEW sent, NEW sent2, EntriesElected(sent), Untouched(sent, sent2),
           Types'
    PROVE  EntriesElected(sent2)'
<1>1. Seen(sent2)' \subseteq Seen(sent)
  BY SeenUntouched
<1>2. \A l \in Seen(sent2)' : \A i \in DOMAIN l : \E m \in Nodes : << l[i].term, m >> \in elected'
  BY <1>1 DEF EntriesElected, Untouched
<1>3. \A n \in Nodes : \A i \in DOMAIN log'[n] : log'[n][i].term <= term'[n]
  <2> SUFFICES ASSUME NEW n \in Nodes, NEW i \in DOMAIN log'[n]
               PROVE  log'[n][i].term <= term'[n]
    OBVIOUS
  <2>1. log' = log /\ term'[n] >= term[n]
    BY DEF Untouched, Later
  <2>2. log[n][i].term \in Nat /\ term[n] \in Nat
    BY <2>1, Numbers
  <2>3. term'[n] \in Nat
    BY DEF Types, TypeOK, Terms
  <2>4. log[n][i].term <= term[n]
    BY <2>1 DEF EntriesElected
  <2> QED BY <2>1, <2>2, <2>3, <2>4
<1>4. ASSUME NEW n \in Nodes, InFlight(n)'
      PROVE  /\ \A i \in DOMAIN sent2[n] : sent2[n][i].term <= apply'[n].term
             /\ IsPart(apply'[n].request, sent2[n])
  <2>1. apply'[n].pc \in Busy
    BY <1>4 DEF InFlight, Busy
  <2>2. apply'[n].term = apply[n].term /\ RequestKept(n, sent, sent2)
    BY <2>1 DEF Untouched, TaskKept
  <2>3. CASE InFlight(n) /\ apply'[n].request = apply[n].request /\ sent2[n] = sent[n]
    BY <2>2, <2>3 DEF EntriesElected
  <2>4. CASE Current(n) /\ IsPart(apply'[n].request, log[n]) /\ sent2[n] = log[n]
    BY <2>2, <2>4 DEF EntriesElected, Current
  <2> QED BY <1>4, <2>2, <2>3, <2>4 DEF RequestKept
<1> QED BY <1>2, <1>3, <1>4 DEF EntriesElected

\* It keeps that logs agree.
LEMMA AgreeUntouched ==
    ASSUME Types, Types', NEW sent, NEW sent2, Untouched(sent, sent2),
           TasksElected, EntriesElected(sent), LogsAgree(sent), Unique',
           \A l \in Seen(sent) : \A i \in DOMAIN l : l[i].term \in Nat
    PROVE  LogsAgree(sent2)'
<1>1. Seen(sent2)' \subseteq Seen(sent)
  BY SeenUntouched
<1>2. \A l, m \in Seen(sent2)' : Agree(l, m)
  BY <1>1 DEF LogsAgree
<1>3. ASSUME NEW n \in Nodes, << term'[n], n >> \in elected', NEW l \in Seen(sent),
             NEW i \in DOMAIN l, l[i].term = term'[n]
      PROVE  i <= Len(log'[n])
  <2>1. PICK m \in Nodes : << l[i].term, m >> \in elected
    BY DEF EntriesElected
  <2>2. m = n
    BY <1>3, <2>1 DEF Untouched, Unique
  <2>3. term'[n] <= term[n]
    BY <1>3, <2>1, <2>2 DEF TasksElected, TaskElected
  <2>4. term'[n] = term[n]
    <3>1. term[n] \in Nat /\ term'[n] \in Nat
      BY DEF Types, TypeOK, Terms
    <3> QED BY <2>3, <3>1 DEF Untouched, Later
  <2> QED BY <1>3, <2>1, <2>2, <2>4 DEF LogsAgree, Untouched
<1> QED BY <1>1, <1>2, <1>3 DEF LogsAgree

\* It keeps the entry of an apply with its holders: a request it builds is of the
\* log of a holder, or of a node that went past the term of the apply.
LEMMA HoldersUntouched ==
    ASSUME Types, Types', NEW sent, NEW sent2, Untouched(sent, sent2), TasksElected, Unique,
           NEW n \in Nodes, Current(n), Current(n)', PendingKept(n, sent), Undisturbed(n)'
    PROVE  HoldersKeep(n, sent2)'
<1> DEFINE i == apply[n].through
           t == apply[n].term
<1>1. /\ log' = log /\ Holders(n)' = Holders(n) /\ apply'[n].term = t /\ apply'[n].through = i
  BY DEF Untouched, TaskKept, Current
<1>2. /\ n \in Holders(n) /\ << t, n >> \in elected /\ t \in Nat
  BY Numbers DEF TasksElected, TaskElected, Current, Holders
<1>3. \A p \in Nodes : term[p] \in Nat /\ term'[p] \in Nat /\ term'[p] >= term[p]
  BY DEF Types, TypeOK, Terms, Untouched, Later
<1>4. \A p \in Nodes \ Holders(n) : term'[p] <= t
  BY <1>1 DEF Undisturbed
<1>5. Undisturbed(n)
  BY <1>2, <1>3, <1>4 DEF Undisturbed
<1>6. HoldersKeep(n, sent)
  BY <1>5 DEF PendingKept
<1>7. \A p \in Holders(n) : Has(log[p], i, log[n][i])
  BY <1>6 DEF HoldersKeep
<1>8. ASSUME NEW m \in Nodes, InFlight(m)', apply'[m].term >= t
      PROVE  Has(sent2[m], i, log[n][i])
  <2>1. apply'[m].pc \in Busy
    BY <1>8 DEF InFlight, Busy
  <2>2. apply'[m].term = apply[m].term /\ RequestKept(m, sent, sent2)
    BY <2>1 DEF Untouched, TaskKept
  <2>3. CASE InFlight(m) /\ sent2[m] = sent[m]
    BY <1>6, <1>8, <2>2, <2>3 DEF HoldersKeep
  <2>4. CASE Current(m) /\ sent2[m] = log[m]
    <3>1. term[m] >= t /\ << term[m], m >> \in elected
      BY <1>8, <2>2, <2>4 DEF Current, TasksElected, TaskElected
    <3>2. m \in Holders(n)
      <4> SUFFICES ASSUME m \notin Holders(n) PROVE FALSE
        OBVIOUS
      <4>1. term[m] = t
        BY <1>2, <1>3, <1>4, <3>1
      <4>2. m = n
        BY <1>2, <3>1, <4>1 DEF Unique
      <4> QED BY <1>2, <4>2
    <3> QED BY <1>7, <2>4, <3>2
  <2> QED BY <1>8, <2>2, <2>3, <2>4 DEF RequestKept
<1> HIDE DEF i, t
<1> QED BY <1>1, <1>7, <1>8 DEF HoldersKeep

\* It keeps all that is known of an apply under way.
LEMMA PendingUntouched ==
    ASSUME Types, Types', NEW sent, NEW sent2, Untouched(sent, sent2), TasksElected, Unique,
           \A n \in Nodes : Current(n) => PendingKept(n, sent), NEW n \in Nodes, Current(n)'
    PROVE  PendingKept(n, sent2)'
<1> DEFINE i == apply[n].through
           t == apply[n].term
<1>1. TaskKept(n) /\ RequestKept(n, sent, sent2) /\ log' = log /\ Later
  BY DEF Untouched
<1>2. Current(n)
  BY <1>1, CurrentUntouched
<1>3. PendingKept(n, sent)
  BY <1>2
<1>4. Holders(n)' = Holders(n) /\ apply'[n].term = t /\ apply'[n].through = i
  BY <1>1 DEF TaskKept, Current
<1>5. \A p \in Nodes : term[p] \in Nat /\ term'[p] \in Nat /\ term'[p] >= term[p]
  BY <1>1 DEF Types, TypeOK, Terms, Later
<1>6. t \in Nat
  BY <1>2, Numbers DEF Current
<1>7. i = Len(log[n]) /\ i >= 1 /\ log[n][i].term = t
  BY <1>3 DEF PendingKept
<1>8. InFlight(n)' => sent2[n] = log[n]
  BY <1>1, <1>3 DEF RequestKept, PendingKept
<1>9. \A p \in Holders(n) : term'[p] >= t
  <2>1. \A p \in Holders(n) : term[p] >= t /\ p \in Nodes
    BY <1>3 DEF PendingKept, Holders
  <2> QED BY <1>5, <1>6, <2>1
<1>10. \A p \in Nodes \ Holders(n) : term'[p] <= t =>
          \A j \in DOMAIN log[p] : j >= i => log[p][j].term # t
  <2>1. \A p \in Nodes \ Holders(n) : term[p] <= t =>
           \A j \in DOMAIN log[p] : j >= i => log[p][j].term # t
    BY <1>3 DEF PendingKept
  <2> QED BY <1>5, <1>6, <2>1
<1>11. Undisturbed(n)' => HoldersKeep(n, sent2)'
  BY <1>2, <1>3, HoldersUntouched
<1>12. Accepted(n)' => apply'[n].response.match = i
  BY <1>1, <1>3 DEF TaskKept, PendingKept, Current
<1>13. MayStepBack(n)' => nextIndex'[n][apply'[n].retry] > 1
  BY <1>1, <1>2 DEF TaskKept, Current
<1> HIDE DEF i, t
<1> QED BY <1>1, <1>4, <1>7, <1>8, <1>9, <1>10, <1>11, <1>12, <1>13 DEF PendingKept

\* It keeps the acknowledged entries.
LEMMA AckedUntouched ==
    ASSUME Types, Types', NEW sent, NEW sent2, Untouched(sent, sent2), acked' = acked,
           AckedKept(sent), \A a \in acked : a.entry.term \in Nat
    PROVE  AckedKept(sent2)'
<1>1. \A p \in Nodes : term[p] \in Nat /\ term'[p] \in Nat /\ term'[p] >= term[p]
  BY DEF Types, TypeOK, Terms, Untouched, Later
<1> SUFFICES ASSUME NEW a \in acked
             PROVE  /\ \A p \in Nodes : Has(log'[p], a.index, a.entry) /\ a.entry.term <= term'[p]
                    /\ \A m \in Nodes : InFlight(m)' /\ apply'[m].term >= a.entry.term =>
                          Has(sent2[m], a.index, a.entry)
  BY DEF AckedKept
<1>2. \A p \in Nodes : Has(log[p], a.index, a.entry) /\ a.entry.term <= term[p]
  BY DEF AckedKept
<1>3. ASSUME NEW m \in Nodes, InFlight(m)', apply'[m].term >= a.entry.term
      PROVE  Has(sent2[m], a.index, a.entry)
  <2>1. apply'[m].pc \in Busy
    BY <1>3 DEF InFlight, Busy
  <2>2. apply'[m].term = apply[m].term /\ RequestKept(m, sent, sent2)
    BY <2>1 DEF Untouched, TaskKept
  <2>3. CASE InFlight(m) /\ sent2[m] = sent[m]
    BY <1>3, <2>2, <2>3 DEF AckedKept
  <2>4. CASE sent2[m] = log[m]
    BY <1>2, <2>4
  <2> QED BY <1>3, <2>2, <2>3, <2>4 DEF RequestKept
<1> QED BY <1>1, <1>2, <1>3 DEF Untouched

\* Entries of logs and of acknowledgements have terms.
LEMMA SeenTerms ==
    ASSUME Types, NEW sent, EntriesElected(sent)
    PROVE  \A l \in Seen(sent) : \A i \in DOMAIN l : l[i].term \in Nat
<1> SUFFICES ASSUME NEW l \in Seen(sent), NEW i \in DOMAIN l PROVE l[i].term \in Nat
  OBVIOUS
<1>1. PICK m \in Nodes : << l[i].term, m >> \in elected
  BY DEF EntriesElected
<1>2. elected \subseteq Terms \X Nodes
  BY DEF Types, TypeOK
<1> QED BY <1>1, <1>2 DEF Terms

\* The same for acknowledgements.
LEMMA AckedTerms ==
    ASSUME Types, NEW sent, AckedKept(sent)
    PROVE  \A a \in acked : a.entry.term \in Nat
<1> SUFFICES ASSUME NEW a \in acked PROVE a.entry.term \in Nat
  OBVIOUS
<1>1. PICK p \in Nodes : TRUE
  BY NodesAssumption
<1>2. Has(log[p], a.index, a.entry)
  BY DEF AckedKept
<1> QED BY <1>2, Numbers DEF Has

\* The parts that a step which leaves the logs alone keeps.
LEMMA LogsUntouched ==
    ASSUME Types, Types', Unique, Unique', NEW sent, NEW sent2, LogInv(sent),
           Untouched(sent, sent2), TasksElected', AckedKept(sent2)', CommitsSafe', NextInLog'
    PROVE  LogInv(sent2)'
<1>1. /\ TasksElected /\ EntriesElected(sent) /\ LogsAgree(sent)
      /\ \A n \in Nodes : Current(n) => PendingKept(n, sent)
  BY DEF LogInv
<1>2. EntriesElected(sent2)'
  BY <1>1, EntriesUntouched
<1>3. LogsAgree(sent2)'
  <2>1. \A l \in Seen(sent) : \A i \in DOMAIN l : l[i].term \in Nat
    BY <1>1, SeenTerms
  <2> QED BY <1>1, <2>1, AgreeUntouched
<1>4. \A n \in Nodes : Current(n)' => PendingKept(n, sent2)'
  BY <1>1, PendingUntouched
<1> QED BY <1>2, <1>3, <1>4 DEF LogInv

----------------------------------------------------------------------------
(* Steps that build no request and answer none.                            *)

\* Roles are lost, terms grow, and a task stays or ends.
Quiet ==
    /\ log' = log /\ nextIndex' = nextIndex /\ acked' = acked /\ elected' = elected /\ Later
    /\ \A m \in Nodes : role'[m] = "Leader" => role[m] = "Leader" /\ term'[m] = term[m]
    /\ \A m \in Nodes :
          \/ apply'[m] = apply[m]
          \/ apply'[m].pc \in {"idle", "push"}
          \/ apply[m].pc = "broadcast" /\ apply'[m].pc = "broadcast"
             /\ apply'[m].through = apply[m].through

\* They are steps that leave the logs alone.
LEMMA QuietUntouched ==
    ASSUME Quiet, NEW sent, LogInv(sent)
    PROVE  Untouched(sent, sent)
<1> SUFFICES ASSUME NEW n \in Nodes, apply'[n].pc \in Busy
             PROVE  TaskKept(n) /\ RequestKept(n, sent, sent)
  BY DEF Quiet, Untouched, TaskKept, RequestKept, InFlight, Busy
<1>1. apply'[n] = apply[n] /\ nextIndex' = nextIndex
  BY DEF Quiet, Busy
<1>2. /\ Holders(n)' = Holders(n) /\ Accepted(n)' = Accepted(n) /\ InFlight(n)' = InFlight(n)
      /\ MayStepBack(n)' = MayStepBack(n)
  BY <1>1 DEF Holders, Accepted, InFlight, MayStepBack
<1>3. Current(n) /\ MayStepBack(n) => nextIndex[n][apply[n].retry] > 1
  BY DEF LogInv, PendingKept
<1> QED BY <1>1, <1>2, <1>3 DEF TaskKept, RequestKept

\* A task stays elected while terms grow.
LEMMA StaysElected ==
    ASSUME Types, Types', NEW n \in Nodes, TaskElected(n), Later, elected \subseteq elected',
           role'[n] = "Leader" => role[n] = "Leader" /\ term'[n] = term[n],
           apply'[n] = apply[n] \/ apply'[n].pc \notin Busy
    PROVE  TaskElected(n)'
<1>1. \A p \in Nodes : term[p] \in Nat /\ term'[p] \in Nat /\ term'[p] >= term[p]
  BY DEF Types, TypeOK, Terms, Later
<1>2. role'[n] = "Leader" => << term'[n], n >> \in elected'
  BY DEF TaskElected
<1>3. CASE apply'[n].pc \notin Busy
  BY <1>2, <1>3 DEF TaskElected, Accepted, Busy
<1>4. CASE apply'[n] = apply[n]
  <2>1. apply[n].pc = "admitted" \/ Accepted(n) => term'[apply[n].retry] >= apply[n].term
    <3> SUFFICES ASSUME apply[n].pc = "admitted" \/ Accepted(n)
                 PROVE  term'[apply[n].retry] >= apply[n].term
      OBVIOUS
    <3>1. apply[n].pc \in Busy \ {"replicate"}
      BY DEF Accepted, Busy
    <3>2. apply[n].retry \in Nodes /\ apply[n].term \in Nat
      BY <3>1, ApplyFields, Numbers DEF Types
    <3>3. term[apply[n].retry] >= apply[n].term
      BY DEF TaskElected
    <3> QED BY <1>1, <3>2, <3>3
  <2>2. apply[n].pc \in Busy => << apply[n].term, n >> \in elected' /\ n \notin apply[n].peers
    BY DEF TaskElected
  <2>3. apply[n].pc \in Busy \ {"replicate"} =>
          apply[n].request.term = apply[n].term /\ apply[n].retry \in apply[n].peers
    BY DEF TaskElected
  <2> QED BY <1>2, <1>4, <2>1, <2>2, <2>3 DEF TaskElected, Accepted
<1> QED BY <1>3, <1>4

\* Nobody was elected in a term it has not reached.
LEMMA ElectedReached ==
    ASSUME Types, Types', Later, elected' = elected, TasksElected
    PROVE  \A m \in Nodes, t \in Nat : << t, m >> \in elected' => t <= term'[m]
<1>1. \A p \in Nodes : term[p] \in Nat /\ term'[p] \in Nat /\ term'[p] >= term[p]
  BY DEF Types, TypeOK, Terms, Later
<1>2. \A m \in Nodes, t \in Nat : << t, m >> \in elected => t <= term[m]
  BY DEF TasksElected
<1> QED BY <1>1, <1>2

\* They keep tasks in the terms their nodes were elected in.
LEMMA QuietElected ==
    ASSUME Types, Types', Quiet, TasksElected
    PROVE  TasksElected'
<1>1. \A n \in Nodes : TaskElected(n)'
  BY StaysElected DEF Quiet, Busy, TasksElected
<1>2. \A m \in Nodes, t \in Nat : << t, m >> \in elected' => t <= term'[m]
  BY ElectedReached DEF Quiet
<1> QED BY <1>1, <1>2 DEF TasksElected

\* Such a step keeps LogInv if it keeps CommitsSafe.
LEMMA QuietKeeps ==
    ASSUME Types, Types', Unique, Unique', Quiet, NEW sent, LogInv(sent), CommitsSafe'
    PROVE  LogInv(sent)'
<1>1. Untouched(sent, sent)
  BY QuietUntouched
<1>2. TasksElected'
  BY QuietElected DEF LogInv
<1>3. AckedKept(sent)'
  <2>1. AckedKept(sent) /\ acked' = acked
    BY DEF LogInv, Quiet
  <2>2. \A a \in acked : a.entry.term \in Nat
    BY <2>1, AckedTerms
  <2> QED BY <1>1, <2>1, <2>2, AckedUntouched
<1>4. NextInLog'
  BY DEF LogInv, NextInLog, Quiet
<1> QED BY <1>1, <1>2, <1>3, <1>4, LogsUntouched

\* And it does if it leaves the commit indexes alone.
LEMMA CommitsQuiet ==
    ASSUME Quiet, CommitsSafe, commitIndex' = commitIndex, committed' = committed,
           \A m \in Nodes : election'[m].pc = "broadcast" => election'[m] = election[m]
    PROVE  CommitsSafe'
<1> SUFFICES ASSUME NEW n \in Nodes PROVE CommitsOf(n)'
  BY DEF CommitsSafe
<1>1. CommitsOf(n)
  BY DEF CommitsSafe
<1>2. Safe(commitIndex[n])' /\ Safe(Len(committed[n]))'
  BY <1>1 DEF CommitsOf, Safe, Quiet
<1>3. (InFlight(n) => Safe(apply[n].request.commit))'
  BY <1>1 DEF CommitsOf, Safe, Quiet, InFlight
<1>4. (election[n].pc = "broadcast" => Safe(election[n].through))'
  BY <1>1 DEF CommitsOf, Safe, Quiet
<1>5. (apply[n].pc = "broadcast" => Safe(apply[n].through))'
  BY <1>1 DEF CommitsOf, Safe, Quiet
<1>6. (\A i \in DOMAIN committed[n] : committed[n][i] = log[n][i].command)'
  BY <1>1 DEF CommitsOf, Quiet
<1> QED BY <1>2, <1>3, <1>4, <1>5, <1>6 DEF CommitsOf

NothingCommitted ==
    /\ commitIndex' = commitIndex /\ committed' = committed
    /\ \A m \in Nodes : election'[m].pc = "broadcast" => election'[m] = election[m]

\* The steps of an election before its end.
LEMMA VotesQuiet ==
    ASSUME Types, NEW n \in Nodes, ~overtaken',
           \/ StartElection(n) \/ CountVote(n) \/ VoteAnswerLost(n) \/ NoQuorum(n) \/ BroadcastLost(n)
           \/ \E p \in Peers(n) : RequestVote(n, p) \/ VoteRequestLost(n, p)
    PROVE  Quiet /\ NothingCommitted
<1>1. CASE StartElection(n)
  <2>1. /\ log' = log /\ nextIndex' = nextIndex /\ acked' = acked /\ elected' = elected
        /\ commitIndex' = commitIndex /\ committed' = committed /\ apply' = apply
    BY <1>1 DEF StartElection, logVars
  <2>2. Later /\ \A m \in Nodes : role'[m] = "Leader" => role[m] = "Leader" /\ term'[m] = term[m]
    BY <1>1 DEF StartElection, Types, TypeOK, Terms, Later
  <2>3. \A m \in Nodes : election'[m].pc = "broadcast" => election'[m] = election[m]
    BY <1>1 DEF StartElection, Types, TypeOK
  <2> QED BY <2>1, <2>2, <2>3 DEF Quiet, NothingCommitted
<1>2. CASE CountVote(n)
  <2>1. /\ log' = log /\ nextIndex' = nextIndex /\ acked' = acked /\ elected' = elected
        /\ commitIndex' = commitIndex /\ committed' = committed /\ apply' = apply
    BY <1>2 DEF CountVote, logVars
  <2>2. Later /\ \A m \in Nodes : role'[m] = "Leader" => role[m] = "Leader" /\ term'[m] = term[m]
    <3>1. election[n].response \in VoteAnswers /\ election[n].request \in VoteRequests
      BY <1>2, ElectionFields DEF CountVote, Types
    <3>2. election[n].response.term \in Nat /\ election[n].request.term \in Nat
      BY <3>1 DEF VoteAnswers, VoteRequests, Terms
    <3>3. \A m \in Nodes : term[m] \in Nat
      BY DEF Types, TypeOK, Terms
    <3>4. ~(/\ election[n].response.term > election[n].request.term
            /\ term[n] >= election[n].response.term)
      BY <1>2 DEF CountVote
    <3> QED BY <1>2, <3>2, <3>3, <3>4 DEF CountVote, Types, TypeOK, Later
  <2>3. \A m \in Nodes : election'[m].pc = "broadcast" => election'[m] = election[m]
    BY <1>2 DEF CountVote, Types, TypeOK, Idle, Asking
  <2> QED BY <2>1, <2>2, <2>3 DEF Quiet, NothingCommitted
<1>3. ASSUME NEW p \in Peers(n), RequestVote(n, p) PROVE Quiet /\ NothingCommitted
  <2>1. /\ log' = log /\ nextIndex' = nextIndex /\ acked' = acked /\ elected' = elected
        /\ commitIndex' = commitIndex /\ committed' = committed /\ apply' = apply
    BY <1>3 DEF RequestVote, logVars
  <2>2. Later /\ \A m \in Nodes : role'[m] = "Leader" => role[m] = "Leader" /\ term'[m] = term[m]
    <3>1. election[n].request \in VoteRequests /\ p \in Nodes
      BY <1>3, ElectionFields DEF RequestVote, Types, Peers
    <3>2. election[n].request.term \in Nat
      BY <3>1 DEF VoteRequests, Terms
    <3>3. \A m \in Nodes : term[m] \in Nat
      BY DEF Types, TypeOK, Terms
    <3>4. PICK t \in Nat : t = election[n].request.term
      BY <3>2
    <3>5. /\ term' = [term EXCEPT ![p] = IF t > term[p] THEN t ELSE @]
          /\ role' = [role EXCEPT ![p] = IF t > term[p] THEN "Follower" ELSE @]
      BY <1>3, <3>4 DEF RequestVote
    <3>6. DOMAIN term = Nodes /\ DOMAIN role = Nodes
      BY DEF Types, TypeOK
    <3>7. /\ term'[p] = IF t > term[p] THEN t ELSE term[p]
          /\ role'[p] = IF t > term[p] THEN "Follower" ELSE role[p]
          /\ \A m \in Nodes : m # p => term'[m] = term[m] /\ role'[m] = role[m]
      BY <3>1, <3>5, <3>6
    <3>8. \A m \in Nodes : m = p \/ m # p
      OBVIOUS
    <3>9. /\ term'[p] >= term[p] /\ (role'[p] = "Leader" => role[p] = "Leader" /\ term'[p] = term[p])
      BY <3>1, <3>3, <3>7
    <3>10. \A m \in Nodes : term[m] >= term[m]
      BY <3>3
    <3> QED BY <3>7, <3>9, <3>10 DEF Later
  <2>3. \A m \in Nodes : election'[m].pc = "broadcast" => election'[m] = election[m]
    BY <1>3 DEF RequestVote, Types, TypeOK
  <2> QED BY <2>1, <2>2, <2>3 DEF Quiet, NothingCommitted
<1>4. CASE VoteAnswerLost(n) \/ NoQuorum(n) \/ BroadcastLost(n) \/ \E p \in Peers(n) : VoteRequestLost(n, p)
  <2>1. UNCHANGED << stateVars, logVars, apply, acked, elected >>
    BY <1>4 DEF VoteAnswerLost, NoQuorum, BroadcastLost, VoteRequestLost
  <2>2. \A m \in Nodes : election'[m].pc = "broadcast" => election'[m] = election[m]
    BY <1>4 DEF VoteAnswerLost, NoQuorum, BroadcastLost, VoteRequestLost, Types, TypeOK, Idle, Asking
  <2>3. Later
    BY <2>1 DEF stateVars, Types, TypeOK, Terms, Later
  <2> QED BY <2>1, <2>2, <2>3 DEF Quiet, NothingCommitted, stateVars, logVars
<1> QED BY <1>1, <1>2, <1>3, <1>4

\* The start of an apply, its failure, and steps of nobody.
LEMMA TasksQuiet ==
    ASSUME Types, NEW n \in Nodes, BeginApply(n) \/ AppendFails(n) \/ UNCHANGED vars
    PROVE  Quiet /\ NothingCommitted
<1>1. UNCHANGED << stateVars, logVars, election, acked, elected >>
  BY DEF BeginApply, AppendFails, vars, stateVars, logVars
<1>2. \A m \in Nodes : apply'[m] = apply[m] \/ apply'[m].pc \in {"idle", "push"}
  BY DEF BeginApply, AppendFails, vars, Types, TypeOK, Idle
<1>3. Later
  BY <1>1 DEF stateVars, Types, TypeOK, Terms, Later
<1> QED BY <1>1, <1>2, <1>3 DEF Quiet, NothingCommitted, stateVars, logVars

----------------------------------------------------------------------------
(* What receivers commit.                                                  *)

\* Less than what may be committed may be.
LEMMA SafeBelow ==
    ASSUME NEW c \in Nat, NEW d \in Nat, d <= c, Safe(c), \A a \in acked : a.index \in Nat
    PROVE  Safe(d)
<1>1. CASE c = 0
  BY <1>1 DEF Safe
<1>2. CASE c # 0
  <2>1. PICK a \in acked : c <= a.index
    BY <1>2 DEF Safe
  <2>2. d <= a.index
    BY <2>1
  <2> QED BY <2>1, <2>2 DEF Safe
<1> QED BY <1>1, <1>2

\* The places of acknowledged entries are numbers.
LEMMA AckedPlaces ==
    ASSUME Types, NEW sent, AckedKept(sent)
    PROVE  \A a \in acked : a.index \in Nat
<1> SUFFICES ASSUME NEW a \in acked PROVE a.index \in Nat
  OBVIOUS
<1>1. PICK p \in Nodes : TRUE
  BY NodesAssumption
<1>2. Has(log[p], a.index, a.entry)
  BY DEF AckedKept
<1> QED BY <1>2, Numbers DEF Has

\* A node that takes for committed what is safe to commit.
LEMMA SafeCommitted ==
    ASSUME NEW done \in Seq(Commands), NEW l \in Seq(Entries), NEW c \in Nat,
           Safe(c), Safe(Len(done)), \A a \in acked : a.index \in Nat,
           \A i \in DOMAIN done : done[i] = l[i].command
    PROVE  /\ Safe(Len(CommitUpTo(done, l, c)))
           /\ \A i \in DOMAIN CommitUpTo(done, l, c) : CommitUpTo(done, l, c)[i] = l[i].command
<1> DEFINE more == CommitUpTo(done, l, c)
           top == Min({c, Len(l)})
<1>1. /\ more \in Seq(Commands) /\ Len(more) \in {Len(done), top}
      /\ \A i \in DOMAIN more : more[i] = (IF i <= Len(done) THEN done[i] ELSE l[i].command)
  BY CommittedUpTo
<1>2. top \in Nat /\ top <= c
  BY LesserOf
<1> HIDE DEF more, top
<1>3. Safe(top)
  BY <1>2, SafeBelow
<1>4. Safe(Len(more))
  BY <1>1, <1>3
<1>5. ASSUME NEW i \in DOMAIN more PROVE more[i] = l[i].command
  <2>1. CASE i <= Len(done)
    <3>1. i \in DOMAIN done
      BY <1>1, <2>1
    <3> QED BY <1>1, <2>1, <3>1
  <2>2. CASE ~(i <= Len(done))
    BY <1>1, <2>2
  <2> QED BY <2>1, <2>2
<1> QED BY <1>4, <1>5 DEF more

\* The commit index a receiver ends with is safe if its own and the leader's are.
LEMMA SafeStored ==
    ASSUME Types, NEW p \in Nodes, NEW request, request.prevIndex \in Nat,
           request.entries \in Seq(Entries), request.commit \in Nat,
           Safe(commitIndex[p]), Safe(request.commit), \A a \in acked : a.index \in Nat
    PROVE  Safe(Stored(p, request).commit)
<1> DEFINE l == Appended(log[p], request.prevIndex, request.entries)
           announced == Min({request.commit, Len(l)})
<1>1. CASE Matches(log[p], request.prevIndex, request.prevTerm)
  <2>1. l \in Seq(Entries)
    <3>1. log[p] \in Seq(Entries) /\ request.prevIndex <= Len(log[p])
      BY <1>1, Numbers DEF Matches
    <3> QED BY <3>1, AppendedTypes
  <2>2. Stored(p, request).commit \in {announced, commitIndex[p]}
    BY <1>1 DEF Stored
  <2> HIDE DEF l
  <2>3. announced \in Nat /\ announced <= request.commit
    BY <2>1, LesserOf
  <2> HIDE DEF announced
  <2>4. Safe(announced)
    BY <2>3, SafeBelow
  <2> QED BY <2>2, <2>4
<1>2. CASE ~Matches(log[p], request.prevIndex, request.prevTerm)
  BY <1>2 DEF Stored
<1> QED BY <1>1, <1>2

----------------------------------------------------------------------------
(* broadcast_commit.                                                       *)

\* A request without entries changes no log.
LEMMA NothingAppended ==
    ASSUME NEW l, NEW prev
    PROVE  Appended(l, prev, << >>) = l
<1>1. {i \in 1..Len(<< >>) : prev + i > Len(l) \/ l[prev + i] # << >>[i]} = {}
  OBVIOUS
<1> QED BY <1>1 DEF Appended

\* It changes no log, takes no term back and makes nobody a leader; what it
\* commits is safe.
LEMMA BroadcastKeeps ==
    ASSUME Types, NEW n \in Nodes, NEW p \in Peers(n), NEW task,
           task.term \in Terms, task.through \in Nat, Broadcast(n, p, task), Safe(task.through),
           CommitsSafe, \A a \in acked : a.index \in Nat, acked' = acked
    PROVE  /\ log' = log /\ Later
           /\ \A m \in Nodes : role'[m] = "Leader" => role[m] = "Leader" /\ term'[m] = term[m]
           /\ \A m \in Nodes : /\ Safe(commitIndex[m])' /\ Safe(Len(committed[m]))'
                               /\ (\A i \in DOMAIN committed[m] :
                                      committed[m][i] = log[m][i].command)'
<1> DEFINE request == [term |-> task.term, prevIndex |-> Len(log[n]),
                       prevTerm |-> LastTerm(log[n]), entries |-> << >>,
                       commit |-> task.through]
           reached == {q \in {p} : request.term >= term[q]}
<1>1. reached \in SUBSET Nodes /\ \A q \in reached : task.term >= term[q]
  BY DEF Peers
<1>2. Follow(reached, task.term) /\ Store(reached, request)
  BY DEF Broadcast
<1>3. /\ request.prevIndex \in Nat /\ request.entries = << >>
      /\ request.entries \in Seq(Entries) /\ request.commit \in Nat
      /\ request.commit = task.through
  BY DEF Types, TypeOK
<1>4. log = [q \in Nodes |-> log[q]] /\ log \in [Nodes -> Seq(Entries)]
      /\ committed \in [Nodes -> Seq(Commands)] /\ commitIndex \in [Nodes -> Nat]
  BY DEF Types, TypeOK
<1> HIDE DEF reached, request
<1>5. Later /\ \A m \in Nodes : role'[m] = "Leader" => role[m] = "Leader" /\ term'[m] = term[m]
  <2>1. task.term \in Nat /\ \A m \in Nodes : term[m] \in Nat
    BY DEF Types, TypeOK, Terms
  <2> QED BY <1>1, <1>2, <2>1 DEF Follow, Later
<1>6. \A q \in Nodes : Stored(q, request).log = log[q]
  BY <1>3, NothingAppended DEF Stored
<1>7. log' = log
  BY <1>2, <1>4, <1>6 DEF Store
<1>8. ASSUME NEW m \in Nodes
      PROVE  /\ Safe(commitIndex[m])' /\ Safe(Len(committed[m]))'
             /\ (\A i \in DOMAIN committed[m] : committed[m][i] = log[m][i].command)'
  <2>1. /\ Safe(commitIndex[m]) /\ Safe(Len(committed[m]))
        /\ \A i \in DOMAIN committed[m] : committed[m][i] = log[m][i].command
    BY DEF CommitsSafe, CommitsOf
  <2>2. CASE m \in reached
    <3> DEFINE c == Stored(m, request).commit
               more == CommitUpTo(committed[m], log[m], c)
    <3>1. commitIndex'[m] = c /\ committed'[m] = more
      BY <1>2, <1>6, <2>2 DEF Store
    <3>2. c \in Nat /\ Safe(c)
      BY <1>3, <2>1, SafeStored, StoredTypes
    <3> HIDE DEF c
    <3>3. committed[m] \in Seq(Commands) /\ log[m] \in Seq(Entries)
      BY <1>4
    <3>4. Safe(Len(more)) /\ \A i \in DOMAIN more : more[i] = log[m][i].command
      BY <2>1, <3>2, <3>3, SafeCommitted
    <3> HIDE DEF more
    <3> QED BY <1>7, <3>1, <3>2, <3>4 DEF Safe
  <2>3. CASE m \notin reached
    <3>1. commitIndex'[m] = commitIndex[m] /\ committed'[m] = committed[m]
      BY <1>2, <2>3 DEF Store
    <3> QED BY <1>7, <2>1, <3>1 DEF Safe
  <2> QED BY <2>2, <2>3
<1> QED BY <1>5, <1>7, <1>8

----------------------------------------------------------------------------
(* Steps that leave the logs alone, one by one.                            *)

\* A task the step is not about.
LEMMA TaskUntouched ==
    ASSUME NEW sent, NEW sent2, LogInv(sent), NEW m \in Nodes, apply'[m] = apply[m],
           nextIndex'[m] = nextIndex[m], sent2[m] = sent[m]
    PROVE  TaskKept(m) /\ RequestKept(m, sent, sent2)
<1>1. /\ Holders(m)' = Holders(m) /\ Accepted(m)' = Accepted(m) /\ InFlight(m)' = InFlight(m)
      /\ MayStepBack(m)' = MayStepBack(m)
  BY DEF Holders, Accepted, InFlight, MayStepBack
<1>2. Current(m) /\ MayStepBack(m) => nextIndex[m][apply[m].retry] > 1
  BY DEF LogInv, PendingKept
<1> QED BY <1>1, <1>2 DEF TaskKept, RequestKept

\* What a node commits that the step is not about.
LEMMA CommitsUntouched ==
    ASSUME NEW m \in Nodes, CommitsOf(m), acked \subseteq acked', log'[m] = log[m],
           commitIndex'[m] = commitIndex[m], committed'[m] = committed[m],
           apply'[m] = apply[m], election'[m] = election[m]
    PROVE  CommitsOf(m)'
<1>1. Safe(commitIndex[m])' /\ Safe(Len(committed[m]))'
  BY DEF CommitsOf, Safe
<1>2. (InFlight(m) => Safe(apply[m].request.commit))'
  BY DEF CommitsOf, Safe, InFlight
<1>3. (election[m].pc = "broadcast" => Safe(election[m].through))'
  BY DEF CommitsOf, Safe
<1>4. (apply[m].pc = "broadcast" => Safe(apply[m].through))'
  BY DEF CommitsOf, Safe
<1>5. (\A i \in DOMAIN committed[m] : committed[m][i] = log[m][i].command)'
  BY DEF CommitsOf
<1> QED BY <1>1, <1>2, <1>3, <1>4, <1>5 DEF CommitsOf

\* A task whose apply is under way has a peer for next_index to be of.
LEMMA RetryIsPeer ==
    ASSUME Types, TasksElected, NEW n \in Nodes, apply[n].pc \in Busy \ {"replicate"}
    PROVE  apply[n].retry \in Peers(n)
<1>1. apply[n].retry \in apply[n].peers /\ n \notin apply[n].peers
  BY DEF TasksElected, TaskElected
<1>2. apply[n].retry \in Nodes
  BY ApplyFields DEF Types
<1> QED BY <1>1, <1>2 DEF Peers

\* A new leader: no log is longer than its own in entries of its term, for no
\* other node was elected in it.
LEMMA BecomeLeaderKeeps ==
    ASSUME Types, Types', Unique, Unique', NEW sent, LogInv(sent), ~overtaken', NEW n \in Nodes,
           BecomeLeader(n)
    PROVE  LogInv(sent)'
<1>1. /\ log' = log /\ apply' = apply /\ acked' = acked /\ term' = term
      /\ commitIndex' = commitIndex /\ committed' = committed
      /\ elected' = elected \cup {<< term[n], n >>}
      /\ \A m \in Nodes : m # n => /\ nextIndex'[m] = nextIndex[m] /\ role'[m] = role[m]
                                   /\ election'[m] = election[m]
      /\ nextIndex'[n] = [p \in Peers(n) |-> Len(log[n]) + 1]
      /\ election'[n] = Announcing(term[n], commitIndex[n], Peers(n))
  BY DEF BecomeLeader, logVars, Types, TypeOK
<1>2. Later
  BY <1>1 DEF Types, TypeOK, Terms, Later
<1>3. TasksElected /\ CommitsSafe /\ NextInLog /\ AckedKept(sent) /\ log[n] \in Seq(Entries)
  BY Numbers DEF LogInv
<1>4. Untouched(sent, sent)
  <2>1. ASSUME NEW m \in Nodes, m # n PROVE TaskKept(m) /\ RequestKept(m, sent, sent)
    BY <1>1, <2>1, TaskUntouched
  <2>2. TaskKept(n) /\ RequestKept(n, sent, sent)
    <3>1. /\ Holders(n)' = Holders(n) /\ Accepted(n)' = Accepted(n)
          /\ InFlight(n)' = InFlight(n) /\ MayStepBack(n)' = MayStepBack(n)
      BY <1>1 DEF Holders, Accepted, InFlight, MayStepBack
    <3>2. ASSUME Current(n), MayStepBack(n) PROVE nextIndex'[n][apply[n].retry] > 1
      <4>1. PendingKept(n, sent)
        BY <3>2 DEF LogInv
      <4>2. Len(log[n]) >= 1
        BY <4>1 DEF PendingKept
      <4>3. apply[n].retry \in Peers(n)
        BY <1>3, <3>2, RetryIsPeer DEF MayStepBack, InFlight, Busy
      <4> QED BY <1>1, <1>3, <4>2, <4>3
    <3> QED BY <1>1, <3>1, <3>2 DEF TaskKept, RequestKept
  <2> QED BY <1>1, <1>2, <2>1, <2>2 DEF Untouched
<1>5. TasksElected'
  <2>1. \A m \in Nodes, t \in Nat : << t, m >> \in elected' => t <= term'[m]
    <3>1. term[n] \in Nat
      BY Numbers
    <3> QED BY <1>1, <1>3, <3>1 DEF TasksElected
  <2>2. \A m \in Nodes : TaskElected(m)'
    BY <1>1, <1>3 DEF TasksElected, TaskElected, Accepted
  <2> QED BY <2>1, <2>2 DEF TasksElected
<1>6. AckedKept(sent)'
  <2>1. \A a \in acked : a.entry.term \in Nat
    BY <1>3, AckedTerms
  <2> QED BY <1>1, <1>3, <1>4, <2>1, AckedUntouched
<1>7. CommitsSafe'
  <2>1. \A m \in Nodes : CommitsOf(m)
    BY <1>3 DEF CommitsSafe
  <2>2. \A m \in Nodes : m # n => CommitsOf(m)'
    BY <1>1, <2>1, CommitsUntouched
  <2>3. CommitsOf(n)'
    <3>1. CommitsOf(n)
      BY <2>1
    <3>2. election'[n].pc = "broadcast" => election'[n].through = commitIndex'[n]
      BY <1>1, AnnouncingIs
    <3>3. /\ Safe(commitIndex[n])' /\ Safe(Len(committed[n]))'
          /\ (election[n].pc = "broadcast" => Safe(election[n].through))'
      BY <1>1, <3>1, <3>2 DEF CommitsOf, Safe
    <3>4. (InFlight(n) => Safe(apply[n].request.commit))'
      BY <1>1, <3>1 DEF CommitsOf, Safe, InFlight
    <3>5. (apply[n].pc = "broadcast" => Safe(apply[n].through))'
      BY <1>1, <3>1 DEF CommitsOf, Safe
    <3>6. (\A i \in DOMAIN committed[n] : committed[n][i] = log[n][i].command)'
      BY <1>1, <3>1 DEF CommitsOf
    <3> QED BY <3>3, <3>4, <3>5, <3>6 DEF CommitsOf
  <2> QED BY <2>2, <2>3 DEF CommitsSafe
<1>8. NextInLog'
  BY <1>1, <1>3 DEF NextInLog
<1> QED BY <1>4, <1>5, <1>6, <1>7, <1>8, LogsUntouched

\* A request built of the leader's log: its log is then the one that was sent.
LEMMA BuiltOfLog ==
    ASSUME NEW l \in Seq(Entries), NEW prev \in Nat, prev <= Len(l), NEW request,
           request.prevIndex = prev, request.prevTerm = LastTerm(SubSeq(l, 1, prev)),
           request.entries = SubSeq(l, prev + 1, Len(l))
    PROVE  IsPart(request, l)
<1> SUFFICES ASSUME prev # 0 PROVE LastTerm(SubSeq(l, 1, prev)) = l[prev].term
  BY DEF IsPart
<1> DEFINE s == SubSeq(l, 1, prev)
<1>1. \A i \in 1..prev : l[i] \in Entries
  OBVIOUS
<1>2. Len(s) = prev /\ s[prev] = l[prev] /\ s # << >>
  BY <1>1, SubSeqProperties
<1> HIDE DEF s
<1>3. LastTerm(s) = l[prev].term
  BY <1>2 DEF LastTerm
<1> QED BY <1>3 DEF s

\* The request is built of the log of the moment: that is what was sent.
LEMMA SendEntriesKeeps ==
    ASSUME Types, Types', Unique, Unique', NEW sent \in [Nodes -> Seq(Entries)], LogInv(sent),
           ~overtaken', NEW n \in Nodes, NEW p \in Peers(n), SendEntries(n, p)
    PROVE  \E sent2 \in [Nodes -> Seq(Entries)] : LogInv(sent2)'
<1> DEFINE prev == nextIndex[n][p] - 1
<1>1. /\ log' = log /\ acked' = acked /\ term' = term /\ role' = role /\ elected' = elected
      /\ nextIndex' = nextIndex /\ commitIndex' = commitIndex /\ committed' = committed
      /\ election' = election /\ apply[n].pc = "replicate" /\ p \in apply[n].peers
      /\ apply[n].term = term[n] /\ role[n] = "Leader"
      /\ \A m \in Nodes : m # n => apply'[m] = apply[m]
  BY DEF SendEntries, stateVars, logVars, Types, TypeOK
<1>2. Later
  BY <1>1 DEF Types, TypeOK, Terms, Later
<1>3. TasksElected /\ CommitsSafe /\ NextInLog /\ AckedKept(sent) /\ log[n] \in Seq(Entries)
  BY Numbers DEF LogInv
<1>4. prev \in Nat /\ prev <= Len(log[n])
  <2>1. nextIndex[n][p] \in Nat \ {0}
    BY DEF Types, TypeOK
  <2>2. nextIndex[n][p] <= Len(log[n]) + 1
    BY <1>1, <1>3 DEF NextInLog
  <2> QED BY <1>3, <2>1, <2>2
<1>5. PICK request :
        /\ request.term = term[n] /\ request.prevIndex = prev
        /\ request.prevTerm = LastTerm(SubSeq(log[n], 1, prev))
        /\ request.entries = SubSeq(log[n], prev + 1, Len(log[n]))
        /\ request.commit = commitIndex[n]
        /\ apply'[n] = [pc |-> "sent", term |-> apply[n].term, through |-> apply[n].through,
                        peers |-> apply[n].peers, acks |-> apply[n].acks, retry |-> p,
                        request |-> request]
  <2> DEFINE r == [term |-> term[n], prevIndex |-> prev,
                   prevTerm |-> LastTerm(SubSeq(log[n], 1, prev)),
                   entries |-> SubSeq(log[n], prev + 1, Len(log[n])),
                   commit |-> commitIndex[n]]
  <2>1. apply'[n] = [pc |-> "sent", term |-> apply[n].term, through |-> apply[n].through,
                     peers |-> apply[n].peers, acks |-> apply[n].acks, retry |-> p,
                     request |-> r]
    <3>1. ~(prev > Len(log[n]))
      BY <1>3, <1>4
    <3> QED BY <3>1 DEF SendEntries, Types, TypeOK
  <2>2. /\ r.term = term[n] /\ r.prevIndex = prev
        /\ r.prevTerm = LastTerm(SubSeq(log[n], 1, prev))
        /\ r.entries = SubSeq(log[n], prev + 1, Len(log[n]))
        /\ r.commit = commitIndex[n]
    OBVIOUS
  <2> HIDE DEF r
  <2> QED BY <2>1, <2>2
<1>6. PICK l \in Seq(Entries) : l = log[n]
  BY <1>3
<1>7. PICK s \in [Nodes -> Seq(Entries)] :
        s[n] = l /\ \A m \in Nodes : m # n => s[m] = sent[m]
  <2> DEFINE s == [sent EXCEPT ![n] = l]
  <2>1. s \in [Nodes -> Seq(Entries)] /\ s[n] = l /\ \A m \in Nodes : m # n => s[m] = sent[m]
    OBVIOUS
  <2> QED BY <2>1
<1> HIDE DEF prev
<1>8. Untouched(sent, s)
  <2>1. ASSUME NEW m \in Nodes, m # n PROVE TaskKept(m) /\ RequestKept(m, sent, s)
    BY <1>1, <1>7, <2>1, TaskUntouched
  <2>2. TaskKept(n)
    <3>1. /\ apply'[n].pc = "sent" /\ apply'[n].term = apply[n].term
          /\ apply'[n].through = apply[n].through /\ apply'[n].peers = apply[n].peers
          /\ apply'[n].retry = p /\ apply'[n].request = request
      BY <1>5
    <3>2. Holders(n)' = Holders(n) /\ ~Accepted(n)'
      BY <1>1, <3>1 DEF Holders, Accepted
    <3>3. ASSUME MayStepBack(n)' PROVE nextIndex[n][p] > 1
      <4>1. prev # 0
        BY <1>5, <3>1, <3>3 DEF MayStepBack
      <4>2. nextIndex[n][p] \in Nat \ {0}
        BY DEF Types, TypeOK
      <4>3. \A k \in Nat \ {0} : k - 1 # 0 => k > 1
        OBVIOUS
      <4>4. nextIndex[n][p] - 1 # 0
        BY <4>1 DEF prev
      <4> QED BY <4>2, <4>3, <4>4
    <3> QED BY <1>1, <3>1, <3>2, <3>3 DEF TaskKept, Busy
  <2>3. RequestKept(n, sent, s)
    <3>1. IsPart(request, log[n])
      BY <1>3, <1>4, <1>5, BuiltOfLog
    <3>2. Current(n)
      BY <1>1 DEF Current, Busy
    <3>3. apply'[n].request = request
      BY <1>5
    <3> QED BY <1>6, <1>7, <3>1, <3>2, <3>3 DEF RequestKept
  <2> QED BY <1>1, <1>2, <2>1, <2>2, <2>3 DEF Untouched
<1>9. TasksElected'
  <2>1. \A m \in Nodes, t \in Nat : << t, m >> \in elected' => t <= term'[m]
    BY <1>1, <1>3 DEF TasksElected
  <2>2. \A m \in Nodes : m # n => TaskElected(m)'
    BY <1>1, <1>2, <1>3, StaysElected DEF TasksElected
  <2>3. TaskElected(n)'
    <3>1. TaskElected(n)
      BY <1>3 DEF TasksElected
    <3>2. /\ apply'[n].pc = "sent" /\ apply'[n].term = apply[n].term
          /\ apply'[n].peers = apply[n].peers /\ apply'[n].retry = p
          /\ apply'[n].request.term = apply[n].term
      BY <1>1, <1>5
    <3> QED BY <1>1, <3>1, <3>2 DEF TaskElected, Accepted, Busy
  <2> QED BY <2>1, <2>2, <2>3 DEF TasksElected
<1>10. AckedKept(s)'
  <2>1. \A a \in acked : a.entry.term \in Nat
    BY <1>3, AckedTerms
  <2> QED BY <1>1, <1>3, <1>8, <2>1, AckedUntouched
<1>11. CommitsSafe'
  <2>1. \A m \in Nodes : CommitsOf(m)
    BY <1>3 DEF CommitsSafe
  <2>2. \A m \in Nodes : m # n => CommitsOf(m)'
    BY <1>1, <2>1, CommitsUntouched
  <2>3. CommitsOf(n)'
    <3>1. CommitsOf(n)
      BY <2>1
    <3>2. (apply[n].pc = "sent" /\ apply[n].request.commit = commitIndex[n])'
      BY <1>1, <1>5
    <3>3. Safe(commitIndex[n])' /\ Safe(Len(committed[n]))' /\ Safe(apply[n].request.commit)'
      BY <1>1, <3>1, <3>2 DEF CommitsOf, Safe
    <3>4. (election[n].pc = "broadcast" => Safe(election[n].through))'
      BY <1>1, <3>1 DEF CommitsOf, Safe
    <3>5. (\A i \in DOMAIN committed[n] : committed[n][i] = log[n][i].command)'
      BY <1>1, <3>1 DEF CommitsOf
    <3> QED BY <3>2, <3>3, <3>4, <3>5 DEF CommitsOf
  <2> QED BY <2>2, <2>3 DEF CommitsSafe
<1>12. NextInLog'
  BY <1>1, <1>3 DEF NextInLog
<1>13. LogInv(s)'
  BY <1>8, <1>9, <1>10, <1>11, <1>12, LogsUntouched
<1> QED BY <1>13

\* The peer admits a request, or refuses it with its newer term.
LEMMA AdmitEntriesKeeps ==
    ASSUME Types, Types', Unique, Unique', NEW sent, LogInv(sent), NEW n \in Nodes,
           AdmitEntries(n)
    PROVE  LogInv(sent)'
<1> DEFINE p == apply[n].retry
           request == apply[n].request
<1>1. /\ log' = log /\ acked' = acked /\ elected' = elected /\ nextIndex' = nextIndex
      /\ commitIndex' = commitIndex /\ committed' = committed /\ election' = election
      /\ apply[n].pc = "sent" /\ \A m \in Nodes : m # n => apply'[m] = apply[m]
  BY DEF AdmitEntries, logVars, Types, TypeOK
<1>2. TasksElected /\ CommitsSafe /\ NextInLog /\ AckedKept(sent)
  BY DEF LogInv
<1>3. p \in Nodes /\ request.term = apply[n].term /\ apply[n].term \in Nat
  BY <1>1, <1>2, ApplyFields, Numbers DEF Types, Busy, TasksElected, TaskElected
<1>4. \A m \in Nodes : term[m] \in Nat
  BY Numbers
<1>5. /\ Later
      /\ \A m \in Nodes : role'[m] = "Leader" => role[m] = "Leader" /\ term'[m] = term[m]
      /\ apply'[n].pc = "admitted" => term'[p] >= apply[n].term
  <2>1. CASE request.term < term[p]
    BY <1>4, <2>1 DEF AdmitEntries, Later, Answered, Types, TypeOK
  <2>2. CASE ~(request.term < term[p])
    <3>1. Follow({p}, request.term)
      BY <2>2 DEF AdmitEntries
    <3> QED BY <1>3, <1>4, <2>2, <3>1 DEF Follow, Later
  <2> QED BY <2>1, <2>2
<1>6. /\ apply'[n].term = apply[n].term /\ apply'[n].through = apply[n].through
      /\ apply'[n].peers = apply[n].peers /\ apply'[n].retry = p /\ apply'[n].request = request
      /\ \/ apply'[n].pc = "admitted"
         \/ /\ apply'[n].pc = "answer" /\ apply'[n].response.term > apply[n].term
            /\ apply'[n].response.success = FALSE
  <2>1. CASE request.term < term[p]
    <3>1. apply'[n] = Answered(apply[n], FALSE, 0, term[p])
      BY <2>1 DEF AdmitEntries, Types, TypeOK
    <3>2. term[p] > apply[n].term
      BY <1>3, <1>4, <2>1
    <3> QED BY <3>1, <3>2 DEF Answered
  <2>2. CASE ~(request.term < term[p])
    BY <2>2 DEF AdmitEntries, Types, TypeOK
  <2> QED BY <2>1, <2>2
<1>7. ~Accepted(n) /\ ~Accepted(n)'
  BY <1>1, <1>6 DEF Accepted
<1>8. MayStepBack(n)' => MayStepBack(n)
  <2>1. apply'[n].pc = "answer" => ~(apply'[n].response.term <= apply'[n].term)
    <3> SUFFICES ASSUME apply'[n].pc = "answer"
                 PROVE  ~(apply'[n].response.term <= apply'[n].term)
      OBVIOUS
    <3>1. apply'[n].response \in Answers
      BY DEF Types, TypeOK, Applies, Broadcasts
    <3>2. apply'[n].response.term \in Nat
      BY <3>1 DEF Answers, Terms
    <3> QED BY <1>3, <1>6, <3>2
  <2>2. MayStepBack(n)' => apply[n].request.prevIndex # 0
    BY <1>6, <2>1 DEF MayStepBack, InFlight
  <2> QED BY <1>1, <2>2 DEF MayStepBack, InFlight
<1>9. Untouched(sent, sent)
  <2>1. ASSUME NEW m \in Nodes, m # n PROVE TaskKept(m) /\ RequestKept(m, sent, sent)
    BY <1>1, <2>1, TaskUntouched
  <2>2. TaskKept(n)
    <3>1. Holders(n)' = Holders(n)
      BY <1>6, <1>7 DEF Holders
    <3>2. ASSUME Current(n), MayStepBack(n)' PROVE nextIndex[n][p] > 1
      BY <1>8, <3>2 DEF LogInv, PendingKept
    <3> QED BY <1>1, <1>6, <1>7, <3>1, <3>2 DEF TaskKept, Busy
  <2>3. RequestKept(n, sent, sent)
    BY <1>1, <1>6 DEF RequestKept, InFlight
  <2> QED BY <1>1, <1>5, <2>1, <2>2, <2>3 DEF Untouched
<1>10. TasksElected'
  <2>1. \A m \in Nodes, t \in Nat : << t, m >> \in elected' => t <= term'[m]
    BY <1>1, <1>2, <1>5, ElectedReached
  <2>2. \A m \in Nodes : m # n => TaskElected(m)'
    BY <1>1, <1>2, <1>5, StaysElected DEF TasksElected
  <2>3. TaskElected(n)'
    <3>1. TaskElected(n)
      BY <1>2 DEF TasksElected
    <3> QED BY <1>1, <1>3, <1>5, <1>6, <1>7, <3>1 DEF TaskElected, Busy
  <2> QED BY <2>1, <2>2, <2>3 DEF TasksElected
<1>11. AckedKept(sent)'
  <2>1. \A a \in acked : a.entry.term \in Nat
    BY <1>2, AckedTerms
  <2> QED BY <1>1, <1>2, <1>9, <2>1, AckedUntouched
<1>12. CommitsSafe'
  <2>1. \A m \in Nodes : CommitsOf(m)
    BY <1>2 DEF CommitsSafe
  <2>2. \A m \in Nodes : m # n => CommitsOf(m)'
    BY <1>1, <2>1, CommitsUntouched
  <2>3. CommitsOf(n)'
    <3>1. CommitsOf(n)
      BY <2>1
    <3>2. Safe(commitIndex[n])' /\ Safe(Len(committed[n]))'
      BY <1>1, <3>1 DEF CommitsOf, Safe
    <3>3. (InFlight(n) => Safe(apply[n].request.commit))'
      BY <1>1, <1>6, <3>1 DEF CommitsOf, Safe, InFlight
    <3>4. (election[n].pc = "broadcast" => Safe(election[n].through))'
      BY <1>1, <3>1 DEF CommitsOf, Safe
    <3>5. (\A i \in DOMAIN committed[n] : committed[n][i] = log[n][i].command)'
      BY <1>1, <3>1 DEF CommitsOf
    <3>6. (apply[n].pc # "broadcast")'
      BY <1>6
    <3> QED BY <3>2, <3>3, <3>4, <3>5, <3>6 DEF CommitsOf
  <2> QED BY <2>2, <2>3 DEF CommitsSafe
<1>13. NextInLog'
  BY <1>1, <1>2, <1>5 DEF NextInLog
<1> QED BY <1>9, <1>10, <1>11, <1>12, <1>13, LogsUntouched

\* An answer that is not of a newer term: next_index moves to the end of the
\* log that was accepted, or back.  What the apply counts on is unchanged.
LEMMA AnswerKeeps ==
    ASSUME Types, Types', Unique, Unique', NEW sent, LogInv(sent), ~overtaken', NEW n \in Nodes,
           HandleAnswer(n), ~(apply[n].response.term > apply[n].request.term)
    PROVE  LogInv(sent)'
<1> DEFINE p == apply[n].retry
           answer == apply[n].response
           old == nextIndex[n][p]
<1>1. /\ log' = log /\ acked' = acked /\ elected' = elected /\ term' = term /\ role' = role
      /\ commitIndex' = commitIndex /\ committed' = committed /\ election' = election
      /\ apply[n].pc = "answer" /\ apply[n].term = term[n]
      /\ \A m \in Nodes : m # n => apply'[m] = apply[m] /\ nextIndex'[m] = nextIndex[m]
  BY DEF HandleAnswer, logVars, Types, TypeOK
<1>2. TasksElected /\ CommitsSafe /\ NextInLog /\ AckedKept(sent) /\ log[n] \in Seq(Entries)
  BY Numbers DEF LogInv
<1>3. Later
  BY <1>1 DEF Types, TypeOK, Terms, Later
<1>4. Current(n)
  BY <1>1 DEF Current, Busy
<1>5. PendingKept(n, sent)
  BY <1>4 DEF LogInv
<1>6. /\ p \in Peers(n) /\ p \in apply[n].peers /\ apply[n].request.term = apply[n].term
      /\ apply[n].term \in Nat /\ answer.term \in Nat /\ answer.match \in Nat
      /\ answer.success \in BOOLEAN /\ old \in Nat \ {0}
  <2>1. answer \in Answers
    BY <1>1, ApplyFields DEF Types
  <2>2. p \in Peers(n) /\ apply[n].term \in Nat
    BY <1>1, <1>2, Numbers, RetryIsPeer DEF Busy
  <2>3. p \in apply[n].peers /\ apply[n].request.term = apply[n].term
    BY <1>1, <1>2 DEF TasksElected, TaskElected, Busy
  <2>4. old \in Nat \ {0}
    BY <2>2 DEF Types, TypeOK
  <2> QED BY <2>1, <2>2, <2>3, <2>4 DEF Answers, Terms
<1>7. answer.success => answer.match = Len(log[n])
  BY <1>1, <1>5 DEF PendingKept, Accepted
<1>8. ~answer.success => old > 1
  BY <1>1, <1>5, <1>6 DEF PendingKept, MayStepBack
<1>9. /\ \A q \in Peers(n) : q # p => nextIndex'[n][q] = nextIndex[n][q]
      /\ nextIndex'[n][p] = (IF answer.success THEN answer.match + 1 ELSE old - 1)
  <2>1. nextIndex'[n] = [nextIndex[n] EXCEPT ![p] =
          IF answer.success THEN answer.match + 1
          ELSE IF old <= 1 THEN old ELSE old - 1]
    BY DEF HandleAnswer, Types
  <2>2. nextIndex[n] \in [Peers(n) -> Nat \ {0}]
    BY DEF Types, TypeOK
  <2>3. ~answer.success => ~(old <= 1)
    BY <1>6, <1>8
  <2> HIDE DEF p, old, answer
  <2> QED BY <1>6, <2>1, <2>2, <2>3
<1>10. /\ apply'[n].pc = "replicate" /\ apply'[n].term = apply[n].term
       /\ apply'[n].through = apply[n].through
       /\ apply'[n].peers = (IF answer.success THEN apply[n].peers \ {p} ELSE apply[n].peers)
  <2>1. ~answer.success => ~(old <= 1)
    BY <1>6, <1>8
  <2> QED BY <2>1 DEF HandleAnswer, Types, TypeOK, Replicating
<1> HIDE DEF answer
<1>11. Untouched(sent, sent)
  <2>1. ASSUME NEW m \in Nodes, m # n PROVE TaskKept(m) /\ RequestKept(m, sent, sent)
    BY <1>1, <2>1, TaskUntouched
  <2>2. TaskKept(n)
    <3>1. Holders(n)' = Holders(n)
      BY <1>1, <1>6, <1>10 DEF Holders, Accepted, answer
    <3>2. ~Accepted(n)' /\ ~MayStepBack(n)'
      BY <1>10 DEF Accepted, MayStepBack, InFlight
    <3> QED BY <1>1, <1>10, <3>1, <3>2 DEF TaskKept, Busy
  <2>3. RequestKept(n, sent, sent)
    BY <1>10 DEF RequestKept, InFlight
  <2> QED BY <1>1, <1>3, <2>1, <2>2, <2>3 DEF Untouched
<1>12. TasksElected'
  <2>1. \A m \in Nodes, t \in Nat : << t, m >> \in elected' => t <= term'[m]
    BY <1>1, <1>2, <1>3, ElectedReached
  <2>2. \A m \in Nodes : m # n => TaskElected(m)'
    BY <1>1, <1>2, <1>3, StaysElected DEF TasksElected
  <2>3. TaskElected(n)'
    <3>1. TaskElected(n)
      BY <1>2 DEF TasksElected
    <3>2. << apply[n].term, n >> \in elected /\ n \notin apply[n].peers
      BY <1>1, <3>1 DEF TaskElected, Busy
    <3>3. role[n] = "Leader" => << term[n], n >> \in elected
      BY <3>1 DEF TaskElected
    <3> QED BY <1>1, <1>10, <3>2, <3>3 DEF TaskElected, Accepted, Busy
  <2> QED BY <2>1, <2>2, <2>3 DEF TasksElected
<1>13. AckedKept(sent)'
  <2>1. \A a \in acked : a.entry.term \in Nat
    BY <1>2, AckedTerms
  <2> QED BY <1>1, <1>2, <1>11, <2>1, AckedUntouched
<1>14. CommitsSafe'
  <2>1. \A m \in Nodes : CommitsOf(m)
    BY <1>2 DEF CommitsSafe
  <2>2. \A m \in Nodes : m # n => CommitsOf(m)'
    BY <1>1, <2>1, CommitsUntouched
  <2>3. CommitsOf(n)'
    BY <1>1, <1>10, <2>1 DEF CommitsOf, Safe, InFlight
  <2> QED BY <2>2, <2>3 DEF CommitsSafe
<1>15. NextInLog'
  <2>1. ASSUME NEW m \in Nodes, role[m] = "Leader", NEW q \in Peers(m)
        PROVE  nextIndex'[m][q] <= Len(log[m]) + 1
    <3>1. nextIndex[m][q] <= Len(log[m]) + 1
      BY <1>2, <2>1 DEF NextInLog
    <3>2. CASE m # n
      BY <1>1, <3>1, <3>2
    <3>3. CASE m = n /\ q # p
      BY <1>9, <3>1, <3>3
    <3>4. CASE m = n /\ q = p
      <4>1. old <= Len(log[n]) + 1
        BY <3>1, <3>4
      <4> QED BY <1>2, <1>6, <1>7, <1>9, <3>4, <4>1
    <3> QED BY <3>2, <3>3, <3>4
  <2> QED BY <1>1, <2>1 DEF NextInLog
<1> QED BY <1>11, <1>12, <1>13, <1>14, <1>15, LogsUntouched

\* Everyone accepted the entry, and no request of its term or a later one is
\* without it: it can be acknowledged.
LEMMA CommitEntryKeeps ==
    ASSUME Types, Types', Unique, Unique', NEW sent, LogInv(sent), ~overtaken', NEW n \in Nodes,
           CommitEntry(n)
    PROVE  LogInv(sent)'
<1> DEFINE i == apply[n].through
           new == [index |-> i, entry |-> log[n][i]]
<1>1. /\ log' = log /\ elected' = elected /\ term' = term /\ role' = role
      /\ nextIndex' = nextIndex /\ election' = election
      /\ apply[n].pc = "replicate" /\ apply[n].term = term[n] /\ apply[n].peers = {}
      /\ apply'[n].pc \in {"idle", "broadcast"}
      /\ apply'[n].pc = "broadcast" => apply'[n].through = i
      /\ commitIndex'[n] = i /\ committed'[n] = CommitUpTo(committed[n], log[n], i)
      /\ \A m \in Nodes : m # n => /\ apply'[m] = apply[m] /\ commitIndex'[m] = commitIndex[m]
                                   /\ committed'[m] = committed[m]
  <2>1. apply'[n] = Announcing(term[n], i, Peers(n))
    BY DEF CommitEntry, Types, TypeOK
  <2>2. /\ apply'[n].pc \in {"idle", "broadcast"}
        /\ apply'[n].pc = "broadcast" => apply'[n].through = i
    BY <2>1, AnnouncingIs
  <2> QED BY <2>2 DEF CommitEntry, Types, TypeOK
<1>2. TasksElected /\ CommitsSafe /\ NextInLog /\ AckedKept(sent) /\ log[n] \in Seq(Entries)
  BY Numbers DEF LogInv
<1>3. Later
  BY <1>1 DEF Types, TypeOK, Terms, Later
<1>4. Current(n) /\ PendingKept(n, sent)
  BY <1>1 DEF LogInv, Current, Busy
<1>5. i = Len(log[n]) /\ i \in Nat /\ i >= 1 /\ log[n][i].term = apply[n].term
  BY <1>2, <1>4 DEF PendingKept
<1>6. acked' = acked \cup {new}
  BY <1>5 DEF CommitEntry
<1>7. Untouched(sent, sent)
  <2>1. ASSUME NEW m \in Nodes, m # n PROVE TaskKept(m) /\ RequestKept(m, sent, sent)
    BY <1>1, <2>1, TaskUntouched
  <2>2. TaskKept(n) /\ RequestKept(n, sent, sent)
    BY <1>1 DEF TaskKept, RequestKept, InFlight, Busy
  <2> QED BY <1>1, <1>3, <2>1, <2>2 DEF Untouched
<1>8. TasksElected'
  <2>1. \A m \in Nodes, t \in Nat : << t, m >> \in elected' => t <= term'[m]
    BY <1>1, <1>2, <1>3, ElectedReached
  <2>2. \A m \in Nodes : TaskElected(m)'
    BY <1>1, <1>2, <1>3, StaysElected DEF TasksElected, Busy
  <2> QED BY <2>1, <2>2 DEF TasksElected
<1>9. \A m \in Nodes : InFlight(m)' => InFlight(m) /\ apply'[m] = apply[m]
  BY <1>1 DEF InFlight
<1>10. AckedKept(sent)'
  <2>1. Holders(n) = Nodes
    BY <1>1 DEF Holders
  <2>2. HoldersKeep(n, sent) /\ \A p \in Nodes : term[p] >= apply[n].term
    BY <1>4, <2>1 DEF PendingKept, Undisturbed
  <2>3. \A p \in Nodes : Has(log[p], i, log[n][i]) /\ log[n][i].term <= term[p]
    <3>1. \A p \in Nodes : Has(log[p], i, log[n][i])
      BY <2>1, <2>2 DEF HoldersKeep
    <3>2. apply[n].term \in Nat /\ \A p \in Nodes : term[p] \in Nat
      BY <1>1, Numbers
    <3> QED BY <1>5, <2>2, <3>1, <3>2
  <2>4. \A m \in Nodes : InFlight(m) /\ apply[m].term >= log[n][i].term =>
           Has(sent[m], i, log[n][i])
    BY <1>5, <2>2 DEF HoldersKeep
  <2>5. new.index = i /\ new.entry = log[n][i]
    OBVIOUS
  <2> HIDE DEF new, i
  <2> SUFFICES ASSUME NEW a \in acked'
               PROVE  /\ \A p \in Nodes : Has(log[p], a.index, a.entry) /\ a.entry.term <= term[p]
                      /\ \A m \in Nodes : InFlight(m) /\ apply[m].term >= a.entry.term =>
                            Has(sent[m], a.index, a.entry)
    BY <1>1, <1>9 DEF AckedKept
  <2>6. CASE a \in acked
    BY <1>2, <2>6 DEF AckedKept
  <2>7. CASE a = new
    BY <2>3, <2>4, <2>5, <2>7
  <2> QED BY <1>6, <2>6, <2>7
<1>11. CommitsSafe'
  <2>1. \A m \in Nodes : CommitsOf(m)
    BY <1>2 DEF CommitsSafe
  <2>2. \A m \in Nodes : m # n => CommitsOf(m)'
    BY <1>1, <1>6, <2>1, CommitsUntouched
  <2>3. CommitsOf(n)'
    <3>1. CommitsOf(n) /\ acked \subseteq acked'
      BY <1>6, <2>1
    <3>2. PICK c \in Nat : c = i
      BY <1>5
    <3>3. \E a \in acked' : c <= a.index
      <4>1. new \in acked' /\ c <= new.index
        BY <1>5, <1>6, <3>2
      <4> QED BY <4>1
    <3> DEFINE more == CommitUpTo(committed[n], log[n], c)
    <3>4. committed[n] \in Seq(Commands)
      BY DEF Types, TypeOK
    <3>5. /\ Len(more) \in {Len(committed[n]), c} /\ more \in Seq(Commands)
          /\ \A j \in DOMAIN more :
                more[j] = (IF j <= Len(committed[n]) THEN committed[n][j] ELSE log[n][j].command)
      <4>1. Min({c, Len(log[n])}) = c
        BY <1>5, <3>2, LesserOf
      <4> QED BY <1>2, <3>4, <4>1, CommittedUpTo
    <3>6. Safe(Len(committed[n])) /\ \A j \in DOMAIN committed[n] : committed[n][j] = log[n][j].command
      BY <3>1 DEF CommitsOf
    <3> HIDE DEF more
    <3>7. \A j \in DOMAIN more : more[j] = log[n][j].command
      <4> SUFFICES ASSUME NEW j \in DOMAIN more PROVE more[j] = log[n][j].command
        OBVIOUS
      <4>1. CASE j <= Len(committed[n])
        <5>1. j \in DOMAIN committed[n]
          BY <3>4, <3>5, <4>1
        <5> QED BY <3>5, <3>6, <4>1, <5>1
      <4>2. CASE ~(j <= Len(committed[n]))
        BY <3>5, <4>2
      <4> QED BY <4>1, <4>2
    <3>8. Safe(commitIndex[n])' /\ Safe(Len(committed[n]))'
      <4>1. commitIndex'[n] = c /\ committed'[n] = more
        BY <1>1, <3>2 DEF more
      <4>2. Len(more) = Len(committed[n]) \/ Len(more) = c
        BY <3>5
      <4> QED BY <3>1, <3>3, <3>6, <4>1, <4>2 DEF Safe
    <3>9. (apply[n].pc = "broadcast" => Safe(apply[n].through))' /\ ~InFlight(n)'
      <4>1. /\ apply'[n].pc \in {"idle", "broadcast"}
            /\ apply'[n].pc = "broadcast" => apply'[n].through = c
        BY <1>1, <3>2
      <4> QED BY <3>3, <4>1 DEF Safe, InFlight
    <3>10. (election[n].pc = "broadcast" => Safe(election[n].through))'
      BY <1>1, <1>6, <3>1 DEF CommitsOf, Safe
    <3>11. (\A j \in DOMAIN committed[n] : committed[n][j] = log[n][j].command)'
      BY <1>1, <3>2, <3>7 DEF more
    <3> QED BY <3>8, <3>9, <3>10, <3>11 DEF CommitsOf
  <2> QED BY <2>2, <2>3 DEF CommitsSafe
<1>12. NextInLog'
  BY <1>1, <1>2 DEF NextInLog
<1> QED BY <1>7, <1>8, <1>10, <1>11, <1>12, LogsUntouched

----------------------------------------------------------------------------
(* The steps that write a log.                                             *)

\* What follows the first p elements of a sequence.
LEMMA RestOf ==
    ASSUME NEW S, NEW s \in Seq(S), NEW p \in Nat, p <= Len(s)
    PROVE  LET rest == SubSeq(s, p + 1, Len(s))
           IN  /\ rest \in Seq(S) /\ Len(rest) = Len(s) - p
               /\ \A i \in 1..Len(rest) : rest[i] = s[p + i]
<1> DEFINE rest == SubSeq(s, p + 1, Len(s))
<1>1. p + 1 \in Int /\ Len(s) \in Int /\ \A i \in (p + 1)..Len(s) : s[i] \in S
  OBVIOUS
<1>2. /\ rest \in Seq(S)
      /\ Len(rest) = IF p + 1 <= Len(s) THEN Len(s) - (p + 1) + 1 ELSE 0
      /\ \A i \in 1..(Len(s) - (p + 1) + 1) : rest[i] = s[p + 1 + i - 1]
  BY <1>1, SubSeqProperties
<1> HIDE DEF rest
<1>3. Len(rest) = Len(s) - p
  BY <1>2
<1>4. ASSUME NEW i \in 1..Len(rest) PROVE rest[i] = s[p + i]
  <2>1. i \in 1..(Len(s) - (p + 1) + 1) /\ p + 1 + i - 1 = p + i
    BY <1>3
  <2> QED BY <1>2, <2>1
<1> QED BY <1>2, <1>3, <1>4 DEF rest

\* A receiver that has what comes before the entries of a request, and agrees
\* with the log it was built of, ends with that log or keeps its own, which then
\* begins with it.
LEMMA AppendedIs ==
    ASSUME NEW l \in Seq(Entries), NEW g \in Seq(Entries), NEW request,
           request.prevIndex \in Nat, IsPart(request, g),
           Matches(l, request.prevIndex, request.prevTerm), Agree(l, g)
    PROVE  /\ Appended(l, request.prevIndex, request.entries) \in {l, g}
           /\ \A i \in DOMAIN g : Has(Appended(l, request.prevIndex, request.entries), i, g[i])
<1> DEFINE prev == request.prevIndex
           e == request.entries
           different == {i \in 1..Len(e) : prev + i > Len(l) \/ l[prev + i] # e[i]}
           a == Appended(l, prev, e)
<1>1. prev \in Nat /\ prev <= Len(g) /\ prev <= Len(l)
  BY DEF IsPart, Matches
<1>2. \A j \in 1..prev : l[j] = g[j]
  <2>1. CASE prev = 0
    BY <2>1
  <2>2. CASE prev # 0
    <3>1. l[prev].term = g[prev].term
      BY <2>2 DEF IsPart, Matches
    <3>2. prev \in DOMAIN l \cap DOMAIN g
      BY <1>1, <2>2
    <3> HIDE DEF prev
    <3> QED BY <3>1, <3>2 DEF Agree
  <2> QED BY <2>1, <2>2
<1>3. /\ e \in Seq(Entries) /\ Len(e) = Len(g) - prev
      /\ \A i \in 1..Len(e) : e[i] = g[prev + i]
  <2>1. e = SubSeq(g, prev + 1, Len(g))
    BY DEF IsPart
  <2> HIDE DEF prev, e
  <2> QED BY <1>1, <2>1, RestOf
<1>4. CASE different = {}
  <2>1. a = l
    BY <1>4 DEF Appended
  <2>2. ASSUME NEW i \in DOMAIN g PROVE Has(l, i, g[i])
    <3>1. CASE i <= prev
      BY <1>1, <1>2, <3>1 DEF Has
    <3>2. CASE ~(i <= prev)
      <4>1. i - prev \in 1..Len(e) /\ prev + (i - prev) = i
        BY <1>1, <1>3, <3>2
      <4>2. ~(prev + (i - prev) > Len(l) \/ l[prev + (i - prev)] # e[i - prev])
        BY <1>4, <4>1
      <4>3. i <= Len(l) /\ l[i] = g[i]
        <5> HIDE DEF prev, e
        <5>1. prev + (i - prev) = i /\ e[i - prev] = g[prev + (i - prev)]
          BY <1>3, <4>1
        <5>2. i <= Len(l)
          BY <4>2, <5>1
        <5> QED BY <4>2, <5>1, <5>2
      <4> QED BY <4>3 DEF Has
    <3> QED BY <3>1, <3>2
  <2> QED BY <2>1, <2>2
<1>5. CASE different # {}
  <2> DEFINE k == Min(different)
             head == SubSeq(l, 1, prev + k - 1)
             tail == SubSeq(e, k, Len(e))
  <2>1. different \in SUBSET Nat
    OBVIOUS
  <2>2. k \in different /\ \A i \in different : k <= i
    BY <1>5, <2>1, MinOfNaturals
  <2>3. k \in 1..Len(e)
    BY <2>2
  <2>4. \A i \in 1..(k - 1) : prev + i <= Len(l) /\ l[prev + i] = g[prev + i]
    <3> SUFFICES ASSUME NEW i \in 1..(k - 1)
                 PROVE  prev + i <= Len(l) /\ l[prev + i] = g[prev + i]
      OBVIOUS
    <3>1. i \in 1..Len(e) /\ ~(k <= i)
      BY <1>3, <2>3
    <3>2. i \notin different
      <4> HIDE DEF different
      <4> QED BY <2>2, <3>1
    <3> QED BY <1>1, <1>3, <3>1, <3>2
  <2>5. a = head \o tail
    BY <1>5 DEF Appended
  <2> HIDE DEF different, k, a, prev, e
  <2>6. prev + k - 1 <= Len(l) /\ \A j \in 1..(prev + k - 1) : l[j] = g[j]
    <3>1. prev + k - 1 <= Len(l)
      <4>1. CASE k = 1
        BY <1>1, <4>1
      <4>2. CASE k # 1
        <5>1. k - 1 \in 1..(k - 1)
          BY <1>3, <2>3, <4>2
        <5> QED BY <1>1, <1>3, <2>3, <2>4, <5>1
      <4> QED BY <4>1, <4>2
    <3>2. ASSUME NEW j \in 1..(prev + k - 1) PROVE l[j] = g[j]
      <4>1. CASE j <= prev
        BY <1>1, <1>2, <4>1
      <4>2. CASE ~(j <= prev)
        <5>1. j - prev \in 1..(k - 1) /\ prev + (j - prev) = j
          BY <1>1, <1>3, <2>3, <4>2
        <5> QED BY <2>4, <5>1
      <4> QED BY <4>1, <4>2
    <3> QED BY <3>1, <3>2
  <2>7. /\ head \in Seq(Entries) /\ Len(head) = prev + k - 1
        /\ \A j \in 1..(prev + k - 1) : head[j] = l[j]
    <3>1. \A i \in 1..(prev + k - 1) : l[i] \in Entries
      BY <1>1, <1>3, <2>3, <2>6
    <3>2. prev + k - 1 \in Nat
      BY <1>1, <1>3, <2>3
    <3> QED BY <3>1, <3>2, SubSeqProperties
  <2>8. /\ tail \in Seq(Entries) /\ Len(tail) = Len(e) - k + 1
        /\ \A j \in 1..(Len(e) - k + 1) : tail[j] = e[k + j - 1]
    <3>1. \A i \in k..Len(e) : e[i] \in Entries
      BY <1>3, <2>3
    <3> QED BY <1>3, <2>3, <3>1, SubSeqProperties
  <2> HIDE DEF head, tail
  <2>9. /\ a \in Seq(Entries) /\ Len(a) = Len(g)
        /\ \A i \in 1..Len(g) :
              a[i] = IF i <= prev + k - 1 THEN head[i] ELSE tail[i - (prev + k - 1)]
    <3>1. /\ head \o tail \in Seq(Entries) /\ Len(head \o tail) = Len(head) + Len(tail)
          /\ \A i \in 1..(Len(head) + Len(tail)) : (head \o tail)[i] =
                IF i <= Len(head) THEN head[i] ELSE tail[i - Len(head)]
      BY <2>7, <2>8, ConcatProperties
    <3>2. Len(head) + Len(tail) = Len(g)
      BY <1>1, <1>3, <2>3, <2>7, <2>8
    <3> QED BY <2>5, <2>7, <3>1, <3>2
  <2>10. ASSUME NEW i \in 1..Len(g) PROVE a[i] = g[i]
    <3>1. CASE i <= prev + k - 1
      BY <1>1, <1>3, <2>3, <2>6, <2>7, <2>9, <3>1
    <3>2. CASE ~(i <= prev + k - 1)
      <4>1. /\ i - (prev + k - 1) \in 1..(Len(e) - k + 1)
            /\ k + (i - (prev + k - 1)) - 1 = i - prev
            /\ i - prev \in 1..Len(e) /\ prev + (i - prev) = i
        BY <1>1, <1>3, <2>3, <3>2
      <4>2. a[i] = tail[i - (prev + k - 1)]
        BY <2>9, <3>2
      <4>3. a[i] = e[i - prev]
        BY <2>8, <4>1, <4>2
      <4> QED BY <1>3, <4>1, <4>3
    <3> QED BY <3>1, <3>2
  <2>11. a = g
    BY <2>9, <2>10, SeqEqual
  <2>12. \A i \in DOMAIN g : Has(g, i, g[i])
    BY DEF Has
  <2> QED BY <2>11, <2>12 DEF a, prev, e
<1> QED BY <1>4, <1>5

\* What StoreEntries does: p, which is in the term of the apply of n, ends with
\* the log that was sent or one that begins with it, or refuses.
StoredBy(n, p, sent) ==
    /\ p \in Peers(n) /\ p \in apply[n].peers /\ p = apply[n].retry
    /\ term' = term /\ role' = role /\ nextIndex' = nextIndex /\ election' = election
    /\ elected' = elected /\ acked' = acked
    /\ apply[n].pc = "admitted" /\ term[p] = apply[n].term
    /\ apply'[n].pc = "answer" /\ apply'[n].term = apply[n].term
    /\ apply'[n].through = apply[n].through /\ apply'[n].peers = apply[n].peers
    /\ apply'[n].retry = p /\ apply'[n].request = apply[n].request
    /\ \A m \in Nodes : m # n => apply'[m] = apply[m]
    /\ \A m \in Nodes : m # p => /\ log'[m] = log[m] /\ commitIndex'[m] = commitIndex[m]
                                 /\ committed'[m] = committed[m]
    /\ apply'[n].response.success =>
          /\ log'[p] \in {log[p], sent[n]}
          /\ \A i \in DOMAIN sent[n] : Has(log'[p], i, sent[n][i])
          /\ apply'[n].response.match = Len(log'[p])
    /\ ~apply'[n].response.success => log'[p] = log[p] /\ apply[n].request.prevIndex # 0

\* StoreEntries is such a step.
LEMMA StoreIs ==
    ASSUME Types, NEW sent \in [Nodes -> Seq(Entries)], LogInv(sent), ~overtaken', NEW n \in Nodes,
           StoreEntries(n)
    PROVE  StoredBy(n, apply[n].retry, sent)
<1> DEFINE p == apply[n].retry
           request == apply[n].request
           after == Stored(p, request)
<1>1. apply[n].pc = "admitted" /\ Store({p}, request) /\ term[p] = request.term
  BY DEF StoreEntries
<1>2. TasksElected /\ EntriesElected(sent) /\ LogsAgree(sent) /\ sent[n] \in Seq(Entries)
  BY DEF LogInv
<1>3. p \in Peers(n) /\ p \in Nodes /\ request \in Requests
  BY <1>1, <1>2, RetryIsPeer, ApplyFields DEF Types, Busy
<1>4. p \in apply[n].peers /\ request.term = apply[n].term
  BY <1>1, <1>2 DEF TasksElected, TaskElected, Busy
<1>5. /\ term' = term /\ role' = role /\ nextIndex' = nextIndex /\ election' = election
      /\ elected' = elected /\ acked' = acked
      /\ \A m \in Nodes : m # n => apply'[m] = apply[m]
      /\ apply'[n] = Answered(apply[n], after.success, after.match, term[p])
  BY DEF StoreEntries, Types, TypeOK
<1>6. /\ apply'[n].pc = "answer" /\ apply'[n].term = apply[n].term
      /\ apply'[n].through = apply[n].through /\ apply'[n].peers = apply[n].peers
      /\ apply'[n].retry = p /\ apply'[n].request = request
      /\ apply'[n].response.success = after.success
      /\ apply'[n].response.match = after.match
  <2> HIDE DEF after, request
  <2> QED BY <1>5 DEF Answered, request
<1>7. log'[p] = after.log
      /\ \A m \in Nodes : m # p => /\ log'[m] = log[m] /\ commitIndex'[m] = commitIndex[m]
                                   /\ committed'[m] = committed[m]
  <2> HIDE DEF p, request
  <2> QED BY <1>1, <1>3 DEF Store
<1>8. CASE Matches(log[p], request.prevIndex, request.prevTerm)
  <2>1. /\ after.log = Appended(log[p], request.prevIndex, request.entries)
        /\ after.success = TRUE /\ after.match = Len(after.log)
    BY <1>8 DEF Stored
  <2>2. Agree(log[p], sent[n]) /\ IsPart(request, sent[n])
    BY <1>1, <1>2, <1>3 DEF LogsAgree, EntriesElected, Seen, InFlight
  <2>3. log[p] \in Seq(Entries) /\ request.prevIndex \in Nat
    BY <1>3, Numbers DEF Requests
  <2> HIDE DEF p, request, after
  <2>4. /\ after.log \in {log[p], sent[n]}
        /\ \A i \in DOMAIN sent[n] : Has(after.log, i, sent[n][i])
    BY <1>2, <1>8, <2>1, <2>2, <2>3, AppendedIs
  <2>5. apply'[n].response.success
    BY <1>6, <2>1, Zenon
  <2>6. /\ p = apply[n].retry /\ request = apply[n].request
    BY DEF p, request
  <2>7. /\ p \in Peers(n) /\ p \in apply[n].peers /\ apply[n].pc = "admitted"
        /\ term[p] = apply[n].term
    BY <1>1, <1>3, <1>4
  <2>8. /\ apply'[n].pc = "answer" /\ apply'[n].term = apply[n].term
        /\ apply'[n].through = apply[n].through /\ apply'[n].peers = apply[n].peers
        /\ apply'[n].retry = p /\ apply'[n].request = apply[n].request
    BY <1>6, <2>6
  <2>9. /\ log'[p] \in {log[p], sent[n]}
        /\ \A i \in DOMAIN sent[n] : Has(log'[p], i, sent[n][i])
        /\ apply'[n].response.match = Len(log'[p])
    BY <1>6, <1>7, <2>1, <2>4
  <2> QED BY <1>5, <1>7, <2>5, <2>6, <2>7, <2>8, <2>9, Zenon DEF StoredBy
<1>9. CASE ~Matches(log[p], request.prevIndex, request.prevTerm)
  <2>1. after.log = log[p] /\ after.success = FALSE
    BY <1>9 DEF Stored
  <2>2. request.prevIndex # 0
    BY <1>9 DEF Matches
  <2> HIDE DEF p, request, after
  <2>3. ~apply'[n].response.success
    BY <1>6, <2>1, Zenon
  <2>4. /\ p = apply[n].retry /\ request = apply[n].request
    BY DEF p, request
  <2> QED BY <1>1, <1>3, <1>4, <1>5, <1>6, <1>7, <2>1, <2>2, <2>3, <2>4 DEF StoredBy
<1> QED BY <1>8, <1>9

\* No log is new after it.
LEMMA StoreSeen ==
    ASSUME NEW sent, NEW n \in Nodes, NEW p, StoredBy(n, p, sent)
    PROVE  Seen(sent)' \subseteq Seen(sent) /\ log[p] \in Seen(sent) /\ log'[p] \in Seen(sent)
<1>1. p \in Nodes /\ InFlight(n) /\ log'[p] \in {log[p], sent[n]}
  BY DEF StoredBy, Peers, InFlight
<1>2. log[p] \in Seen(sent) /\ log'[p] \in Seen(sent)
  BY <1>1 DEF Seen
<1>3. ASSUME NEW m \in Nodes PROVE log'[m] \in Seen(sent)
  BY <1>2 DEF StoredBy, Seen
<1>4. ASSUME NEW m \in Nodes, InFlight(m)' PROVE sent[m] \in Seen(sent)
  <2>1. InFlight(m)
    BY <1>4 DEF StoredBy, InFlight
  <2> QED BY <2>1 DEF Seen
<1> QED BY <1>2, <1>3, <1>4 DEF Seen

\* The receiver is not a leader of its term.
LEMMA StoreFollower ==
    ASSUME Types, Unique, TasksElected, NEW sent, NEW n \in Nodes, NEW p, StoredBy(n, p, sent)
    PROVE  << term[p], p >> \notin elected
<1>1. p \in Nodes /\ p # n /\ term[p] = apply[n].term /\ apply[n].pc \in Busy
  BY DEF StoredBy, Peers, Busy
<1>2. << apply[n].term, n >> \in elected /\ term[p] \in Nat
  BY <1>1, Numbers DEF TasksElected, TaskElected
<1> QED BY <1>1, <1>2 DEF Unique

\* What the receiver has now is of elected terms, not later than its own.
LEMMA StoreEntriesElected ==
    ASSUME NEW sent, EntriesElected(sent), NEW n \in Nodes, NEW p, StoredBy(n, p, sent)
    PROVE  EntriesElected(sent)'
<1>1. \A l \in Seen(sent)' : \A i \in DOMAIN l : \E m \in Nodes : << l[i].term, m >> \in elected'
  BY StoreSeen DEF EntriesElected, StoredBy
<1>2. ASSUME NEW m \in Nodes, NEW i \in DOMAIN log'[m] PROVE log'[m][i].term <= term'[m]
  <2>1. CASE log'[m] = log[m]
    BY <2>1 DEF EntriesElected, StoredBy
  <2>2. CASE log'[m] # log[m]
    <3>1. m = p /\ log'[m] = sent[n] /\ InFlight(n) /\ term'[m] = apply[n].term
      BY <2>2 DEF StoredBy, InFlight
    <3>2. \A j \in DOMAIN sent[n] : sent[n][j].term <= apply[n].term
      BY <3>1 DEF EntriesElected
    <3> QED BY <3>1, <3>2
  <2> QED BY <2>1, <2>2
<1>3. ASSUME NEW m \in Nodes, InFlight(m)'
      PROVE  /\ \A i \in DOMAIN sent[m] : sent[m][i].term <= apply'[m].term
             /\ IsPart(apply'[m].request, sent[m])
  <2>1. InFlight(m) /\ apply'[m] = apply[m]
    BY <1>3 DEF StoredBy, InFlight
  <2> QED BY <2>1 DEF EntriesElected
<1> QED BY <1>1, <1>2, <1>3 DEF EntriesElected

\* Logs agree as before, for no log is new and no leader's changed.
LEMMA StoreLogsAgree ==
    ASSUME Types, Unique, TasksElected, NEW sent, LogsAgree(sent), NEW n \in Nodes, NEW p,
           StoredBy(n, p, sent)
    PROVE  LogsAgree(sent)'
<1>1. Seen(sent)' \subseteq Seen(sent)
  BY StoreSeen
<1>2. ASSUME NEW m \in Nodes, << term[m], m >> \in elected PROVE log'[m] = log[m]
  BY <1>2, StoreFollower DEF StoredBy
<1>3. term' = term /\ elected' = elected
  BY DEF StoredBy
<1> QED BY <1>1, <1>2, <1>3 DEF LogsAgree

\* A request that can be stored has the acknowledged entries.
LEMMA StoreAcked ==
    ASSUME NEW sent, AckedKept(sent), NEW n \in Nodes, NEW p, StoredBy(n, p, sent)
    PROVE  AckedKept(sent)'
<1> SUFFICES ASSUME NEW a \in acked
             PROVE  /\ \A q \in Nodes : Has(log'[q], a.index, a.entry) /\ a.entry.term <= term[q]
                    /\ \A m \in Nodes : InFlight(m)' /\ apply'[m].term >= a.entry.term =>
                          Has(sent[m], a.index, a.entry)
  BY DEF AckedKept, StoredBy
<1>1. \A q \in Nodes : Has(log[q], a.index, a.entry) /\ a.entry.term <= term[q]
  BY DEF AckedKept
<1>2. ASSUME NEW m \in Nodes, InFlight(m)', apply'[m].term >= a.entry.term
      PROVE  Has(sent[m], a.index, a.entry)
  <2>1. InFlight(m) /\ apply'[m] = apply[m]
    BY <1>2 DEF StoredBy, InFlight
  <2> QED BY <1>2, <2>1 DEF AckedKept
<1>3. Has(log'[p], a.index, a.entry)
  <2>1. CASE log'[p] = log[p]
    BY <1>1, <2>1 DEF StoredBy, Peers
  <2>2. CASE log'[p] # log[p]
    <3>1. log'[p] = sent[n] /\ InFlight(n) /\ apply[n].term = term[p] /\ p \in Nodes
      BY <2>2 DEF StoredBy, InFlight, Peers
    <3>2. a.entry.term <= apply[n].term
      BY <1>1, <3>1
    <3>3. Has(sent[n], a.index, a.entry)
      BY <3>1, <3>2 DEF AckedKept
    <3> QED BY <3>1, <3>3
  <2> QED BY <2>1, <2>2
<1> QED BY <1>1, <1>2, <1>3 DEF StoredBy

\* Logs that have the acknowledged entries are equal as far as it is safe to commit.
LEMMA SafePrefix ==
    ASSUME NEW l \in Seq(Entries), NEW g \in Seq(Entries), Agree(l, g),
           \A a \in acked : Has(l, a.index, a.entry) /\ Has(g, a.index, a.entry),
           NEW c \in Nat, Safe(c), NEW i \in 1..c
    PROVE  i \in DOMAIN l /\ i \in DOMAIN g /\ l[i] = g[i]
<1>1. PICK a \in acked : c <= a.index
  BY DEF Safe
<1>2. a.index \in DOMAIN l /\ a.index \in DOMAIN g /\ l[a.index] = g[a.index]
  BY DEF Has
<1>3. a.index \in Nat /\ a.index <= Len(l) /\ a.index <= Len(g) /\ i \in 1..a.index
  BY <1>1, <1>2
<1>4. l[i] = g[i]
  BY <1>2, <1>3 DEF Agree
<1>5. i \in 1..Len(l) /\ i \in 1..Len(g)
  BY <1>3
<1> QED BY <1>4, <1>5

\* The receiver of an accepted request is in the term of the apply.
LEMMA StoreTasks ==
    ASSUME Types, Types', TasksElected, NEW sent, NEW n \in Nodes, NEW p, StoredBy(n, p, sent)
    PROVE  TasksElected'
<1>1. Later
  BY DEF StoredBy, Types, TypeOK, Terms, Later
<1>2. \A m \in Nodes, t \in Nat : << t, m >> \in elected' => t <= term'[m]
  BY <1>1, ElectedReached DEF StoredBy
<1>3. ASSUME NEW m \in Nodes, m # n PROVE TaskElected(m)'
  BY <1>1, <1>3, StaysElected DEF TasksElected, StoredBy
<1>4. TaskElected(n)'
  <2>1. TaskElected(n) /\ apply[n].pc \in Busy \ {"replicate"}
    BY DEF TasksElected, StoredBy, Busy
  <2>2. term'[p] >= apply[n].term
    <3>1. apply[n].term \in Nat /\ term'[p] = apply[n].term
      BY <2>1, Numbers DEF StoredBy
    <3> QED BY <3>1
  <2> QED BY <2>1, <2>2 DEF TaskElected, StoredBy, Accepted, Busy
<1> QED BY <1>2, <1>3, <1>4 DEF TasksElected

\* The apply the receiver answers to.
LEMMA StorePendingOwn ==
    ASSUME Types, NEW sent, NEW n \in Nodes, NEW p, StoredBy(n, p, sent), Current(n),
           PendingKept(n, sent)
    PROVE  PendingKept(n, sent)'
<1> DEFINE i == apply[n].through
           t == apply[n].term
<1>1. /\ p \in Nodes /\ p # n /\ p \in apply[n].peers /\ term[p] = t /\ InFlight(n)
      /\ term' = term /\ log'[n] = log[n] /\ nextIndex' = nextIndex
      /\ apply'[n].pc = "answer" /\ apply'[n].term = t /\ apply'[n].through = i
      /\ apply'[n].peers = apply[n].peers /\ apply'[n].retry = p /\ p = apply[n].retry
      /\ apply'[n].request = apply[n].request /\ ~Accepted(n) /\ ~InFlight(n)'
  BY DEF StoredBy, Peers, InFlight, Accepted
<1>2. /\ p \notin Holders(n)
      /\ Holders(n)' = {q \in Nodes : q \in Holders(n) \/ (apply'[n].response.success /\ q = p)}
  BY <1>1 DEF Holders, Accepted
<1>3. \A q \in Nodes : term[q] \in Nat
  BY Numbers
<1>4. t \in Nat /\ i \in Nat /\ log[n] \in Seq(Entries)
  BY Numbers DEF Current
<1>5. i = Len(log[n]) /\ i >= 1 /\ log[n][i].term = t /\ sent[n] = log[n]
  BY <1>1 DEF PendingKept
<1>6. \A q \in Holders(n)' : term[q] >= t
  <2>1. \A q \in Holders(n) : term[q] >= t
    BY DEF PendingKept
  <2> QED BY <1>1, <1>2, <1>4, <2>1
<1>7. \A q \in Nodes \ Holders(n) : term[q] <= t =>
         \A j \in DOMAIN log[q] : j >= i => log[q][j].term # t
  BY DEF PendingKept
<1>8. \A q \in Nodes \ Holders(n)' : log'[q] = log[q] /\ q \notin Holders(n)
  BY <1>1, <1>2 DEF StoredBy
<1>9. \A q \in Nodes \ Holders(n)' : term[q] <= t =>
         \A j \in DOMAIN log'[q] : j >= i => log'[q][j].term # t
  BY <1>7, <1>8
<1>10. ASSUME Undisturbed(n)' PROVE HoldersKeep(n, sent)'
  <2>1. Undisturbed(n)
    <3>1. \A q \in Nodes \ Holders(n)' : term[q] <= t
      BY <1>1, <1>10 DEF Undisturbed
    <3>2. \A q \in Nodes \ Holders(n) : q = p \/ q \in Nodes \ Holders(n)'
      BY <1>2
    <3> QED BY <1>1, <1>4, <3>1, <3>2 DEF Undisturbed
  <2>2. HoldersKeep(n, sent)
    BY <2>1 DEF PendingKept
  <2>3. ASSUME NEW q \in Holders(n)' PROVE Has(log'[q], i, log[n][i])
    <3>1. CASE q = p
      <4>1. apply'[n].response.success
        BY <1>2, <2>3, <3>1
      <4>2. \A j \in DOMAIN sent[n] : Has(log'[p], j, sent[n][j])
        BY <4>1 DEF StoredBy
      <4> QED BY <1>4, <1>5, <3>1, <4>2
    <3>2. CASE q # p
      <4>1. q \in Holders(n) /\ log'[q] = log[q]
        BY <1>2, <2>3, <3>2 DEF StoredBy
      <4> QED BY <2>2, <4>1 DEF HoldersKeep
    <3> QED BY <3>1, <3>2
  <2>4. ASSUME NEW m \in Nodes, InFlight(m)', apply'[m].term >= t
        PROVE  Has(sent[m], i, log[n][i])
    <3>1. InFlight(m) /\ apply'[m] = apply[m]
      BY <1>1, <2>4 DEF StoredBy, InFlight
    <3> QED BY <2>2, <2>4, <3>1 DEF HoldersKeep
  <2> QED BY <1>1, <2>3, <2>4 DEF HoldersKeep
<1>11. ASSUME Accepted(n)' PROVE apply'[n].response.match = i
  <2>1. /\ log'[p] \in {log[p], sent[n]} /\ apply'[n].response.match = Len(log'[p])
        /\ \A j \in DOMAIN sent[n] : Has(log'[p], j, sent[n][j])
    BY <1>11 DEF StoredBy, Accepted
  <2>2. Has(log'[p], i, log[n][i])
    BY <1>4, <1>5, <2>1
  <2>3. log'[p] # log[p]
    BY <1>1, <1>2, <1>4, <1>5, <1>7, <2>2 DEF Has
  <2> QED BY <1>5, <2>1, <2>3
<1>12. ASSUME MayStepBack(n)' PROVE nextIndex[n][p] > 1
  <2>1. ~apply'[n].response.success
    BY <1>1, <1>12 DEF MayStepBack
  <2>2. MayStepBack(n)
    BY <1>1, <2>1 DEF StoredBy, MayStepBack
  <2> QED BY <1>1, <2>2 DEF PendingKept
<1> HIDE DEF i, t
<1> QED BY <1>1, <1>5, <1>6, <1>9, <1>10, <1>11, <1>12 DEF PendingKept

\* The applies of others.
LEMMA StorePendingOther ==
    ASSUME Types, Unique, TasksElected, NEW sent, EntriesElected(sent), NEW n \in Nodes, NEW p,
           StoredBy(n, p, sent), NEW m \in Nodes, m # n, Current(m), PendingKept(m, sent)
    PROVE  PendingKept(m, sent)'
<1> DEFINE i == apply[m].through
           t == apply[m].term
<1>1. /\ p \in Nodes /\ term[p] = apply[n].term /\ InFlight(n) /\ apply[n].pc \in Busy
      /\ term' = term /\ nextIndex' = nextIndex /\ apply'[m] = apply[m]
      /\ log'[p] = log[p] \/ log'[p] = sent[n]
      /\ \A q \in Nodes : q # p => log'[q] = log[q]
  BY DEF StoredBy, Peers, InFlight, Busy
<1>2. t \in Nat /\ apply[n].term \in Nat /\ \A q \in Nodes : term[q] \in Nat
  BY <1>1, Numbers DEF Current
<1>3. << t, m >> \in elected /\ << apply[n].term, n >> \in elected /\ t = term[m]
  BY <1>1 DEF TasksElected, TaskElected, Current
<1>4. apply[n].term # t
  BY <1>2, <1>3 DEF Unique
<1>5. m # p /\ log'[m] = log[m]
  BY <1>1, <1>3, StoreFollower
<1>6. /\ Holders(m)' = Holders(m) /\ Accepted(m)' = Accepted(m) /\ InFlight(m)' = InFlight(m)
      /\ MayStepBack(m)' = MayStepBack(m)
  BY <1>1 DEF Holders, Accepted, InFlight, MayStepBack
<1>7. \A j \in DOMAIN sent[n] : sent[n][j].term <= apply[n].term
  BY <1>1 DEF EntriesElected
<1>8. ASSUME NEW q \in Nodes \ Holders(m), term[q] <= t, NEW j \in DOMAIN log'[q], j >= i
      PROVE  log'[q][j].term # t
  <2>1. CASE log'[q] = log[q]
    BY <1>8, <2>1 DEF PendingKept
  <2>2. CASE log'[q] # log[q]
    <3>1. q = p /\ log'[q] = sent[n]
      BY <1>1, <2>2
    <3>2. ~(t <= apply[n].term)
      BY <1>1, <1>2, <1>4, <1>8, <3>1
    <3>3. log'[q][j].term <= apply[n].term
      BY <1>7, <3>1
    <3> QED BY <3>2, <3>3
  <2> QED BY <2>1, <2>2
<1>9. ASSUME Undisturbed(m)' PROVE HoldersKeep(m, sent)'
  <2>1. Undisturbed(m)
    BY <1>1, <1>6, <1>9 DEF Undisturbed
  <2>2. HoldersKeep(m, sent)
    BY <2>1 DEF PendingKept
  <2>3. ASSUME NEW q \in Holders(m) PROVE Has(log'[q], i, log[m][i])
    <3>1. CASE log'[q] = log[q]
      BY <2>2, <3>1 DEF HoldersKeep
    <3>2. CASE log'[q] # log[q]
      <4>1. q = p /\ log'[q] = sent[n]
        BY <1>1, <3>2 DEF Holders
      <4>2. apply[n].term >= t
        BY <1>1, <4>1 DEF PendingKept
      <4> QED BY <1>1, <2>2, <4>1, <4>2 DEF HoldersKeep
    <3> QED BY <3>1, <3>2
  <2>4. ASSUME NEW k \in Nodes, InFlight(k)', apply'[k].term >= t
        PROVE  Has(sent[k], i, log[m][i])
    <3>1. InFlight(k) /\ apply'[k] = apply[k]
      BY <2>4 DEF StoredBy, InFlight
    <3> QED BY <2>2, <2>4, <3>1 DEF HoldersKeep
  <2> QED BY <1>1, <1>5, <1>6, <2>3, <2>4 DEF HoldersKeep
<1> HIDE DEF i, t
<1>10. /\ i = Len(log[m]) /\ i >= 1 /\ log[m][i].term = t /\ (InFlight(m) => sent[m] = log[m])
       /\ \A q \in Holders(m) : term[q] >= t
       /\ Accepted(m) => apply[m].response.match = i
       /\ MayStepBack(m) => nextIndex[m][apply[m].retry] > 1
  BY DEF PendingKept, i, t
<1>11. i = apply'[m].through /\ t = apply'[m].term
  BY <1>1 DEF i, t
<1> QED BY <1>1, <1>5, <1>6, <1>8, <1>9, <1>10, <1>11 DEF PendingKept

\* What the receiver commits.
LEMMA StoreCommits ==
    ASSUME Types, Types', NEW sent, LogInv(sent), NEW n \in Nodes, StoreEntries(n),
           StoredBy(n, apply[n].retry, sent), AckedKept(sent)'
    PROVE  CommitsSafe'
<1>0. PICK p : p = apply[n].retry
  OBVIOUS
<1> DEFINE request == apply[n].request
           c == Stored(p, request).commit
<1>1. /\ p \in Nodes /\ p # n /\ acked' = acked /\ election' = election
      /\ \A m \in Nodes : m # n => apply'[m] = apply[m]
      /\ apply[n].pc = "admitted" /\ apply'[n].pc = "answer"
      /\ \A m \in Nodes : m # p => /\ log'[m] = log[m] /\ commitIndex'[m] = commitIndex[m]
                                   /\ committed'[m] = committed[m]
  BY <1>0 DEF StoredBy, Peers
<1>2. /\ \A m \in Nodes : CommitsOf(m)
      /\ AckedKept(sent) /\ LogsAgree(sent)
  BY DEF LogInv, CommitsSafe
<1>3. \A a \in acked : a.index \in Nat
  BY <1>2, AckedPlaces
<1>4. request \in Requests
  BY <1>1, ApplyFields DEF Types, Busy
<1>5. /\ commitIndex'[p] = c
      /\ committed'[p] = CommitUpTo(committed[p], log'[p], c)
  <2>1. Store({p}, request)
    BY <1>0 DEF StoreEntries
  <2> HIDE DEF request
  <2> QED BY <1>1, <2>1 DEF Store, c
<1>6. c \in Nat /\ Safe(c)
  <2>1. Safe(commitIndex[p]) /\ Safe(request.commit)
    BY <1>1, <1>2 DEF CommitsOf, InFlight
  <2>2. /\ request.prevIndex \in Nat /\ request.entries \in Seq(Entries)
        /\ request.commit \in Nat
    BY <1>4 DEF Requests
  <2> HIDE DEF request
  <2>3. Safe(Stored(p, request).commit)
    BY <1>1, <1>3, <2>1, <2>2, SafeStored
  <2>4. Stored(p, request).commit \in Nat
    <3>1. commitIndex' \in [Nodes -> Nat]
      BY DEF Types, TypeOK
    <3> QED BY <1>1, <1>5, <3>1
  <2> QED BY <2>3, <2>4 DEF c
<1> HIDE DEF request, c
<1>7. log[p] \in Seq(Entries) /\ log'[p] \in Seq(Entries) /\ committed[p] \in Seq(Commands)
  BY <1>1 DEF Types, TypeOK
<1>8. \A i \in DOMAIN committed[p] : committed[p][i] = log'[p][i].command
  <2>1. Agree(log[p], log'[p])
    BY <1>0, <1>2, StoreSeen DEF LogsAgree
  <2>2. \A a \in acked : Has(log[p], a.index, a.entry) /\ Has(log'[p], a.index, a.entry)
    BY <1>1, <1>2 DEF AckedKept
  <2> SUFFICES ASSUME NEW i \in DOMAIN committed[p]
               PROVE  committed[p][i] = log'[p][i].command
    OBVIOUS
  <2>3. /\ Safe(Len(committed[p])) /\ committed[p][i] = log[p][i].command
    BY <1>1, <1>2 DEF CommitsOf
  <2>4. Len(committed[p]) \in Nat /\ i \in 1..Len(committed[p])
    BY <1>7
  <2>5. log[p][i] = log'[p][i]
    BY <1>7, <2>1, <2>2, <2>3, <2>4, SafePrefix
  <2> QED BY <2>3, <2>5
<1>9. Safe(Len(committed'[p])) /\ \A i \in DOMAIN committed'[p] : committed'[p][i] = log'[p][i].command
  <2>1. Safe(Len(committed[p]))
    BY <1>1, <1>2 DEF CommitsOf
  <2>2. PICK l \in Seq(Entries) : l = log'[p]
    BY <1>7
  <2>3. /\ Safe(Len(CommitUpTo(committed[p], l, c)))
        /\ \A i \in DOMAIN CommitUpTo(committed[p], l, c) :
              CommitUpTo(committed[p], l, c)[i] = l[i].command
    BY <1>3, <1>6, <1>7, <1>8, <2>1, <2>2, SafeCommitted
  <2> QED BY <1>5, <2>2, <2>3
<1>10. ASSUME NEW m \in Nodes, m # n, m # p PROVE CommitsOf(m)'
  BY <1>1, <1>2, <1>10, CommitsUntouched
<1>11. CommitsOf(p)'
  <2>1. CommitsOf(p)
    BY <1>1, <1>2
  <2>2. Safe(commitIndex[p])' /\ Safe(Len(committed[p]))'
    <3>1. commitIndex'[p] = c
      BY <1>5
    <3> QED BY <1>1, <1>6, <1>9, <3>1 DEF Safe
  <2>3. (InFlight(p) => Safe(apply[p].request.commit))'
    BY <1>1, <2>1 DEF CommitsOf, Safe, InFlight
  <2>4. (election[p].pc = "broadcast" => Safe(election[p].through))'
    BY <1>1, <2>1 DEF CommitsOf, Safe
  <2>5. (apply[p].pc = "broadcast" => Safe(apply[p].through))'
    BY <1>1, <2>1 DEF CommitsOf, Safe
  <2> QED BY <1>9, <2>2, <2>3, <2>4, <2>5 DEF CommitsOf
<1>12. CommitsOf(n)'
  <2>1. CommitsOf(n)
    BY <1>2
  <2>2. Safe(commitIndex[n])' /\ Safe(Len(committed[n]))'
    BY <1>1, <2>1 DEF CommitsOf, Safe
  <2>3. (election[n].pc = "broadcast" => Safe(election[n].through))'
    BY <1>1, <2>1 DEF CommitsOf, Safe
  <2>4. (\A i \in DOMAIN committed[n] : committed[n][i] = log[n][i].command)'
    BY <1>1, <2>1 DEF CommitsOf
  <2> QED BY <1>1, <2>2, <2>3, <2>4 DEF CommitsOf, InFlight
<1> QED BY <1>10, <1>11, <1>12 DEF CommitsSafe

\* The receiver ends with a longer log, or the one it had.
LEMMA StoreEntriesKeeps ==
    ASSUME Types, Types', Unique, NEW sent \in [Nodes -> Seq(Entries)], LogInv(sent),
           ~overtaken', NEW n \in Nodes, StoreEntries(n)
    PROVE  LogInv(sent)'
<1>1. PICK p : p = apply[n].retry
  OBVIOUS
<1>2. StoredBy(n, p, sent)
  BY <1>1, StoreIs
<1>3. /\ TasksElected /\ EntriesElected(sent) /\ LogsAgree(sent) /\ AckedKept(sent)
      /\ \A m \in Nodes : Current(m) => PendingKept(m, sent)
      /\ NextInLog
  BY DEF LogInv
<1>4. TasksElected'
  BY <1>2, <1>3, StoreTasks
<1>5. EntriesElected(sent)'
  BY <1>2, <1>3, StoreEntriesElected
<1>6. LogsAgree(sent)'
  BY <1>2, <1>3, StoreLogsAgree
<1>7. AckedKept(sent)'
  BY <1>2, <1>3, StoreAcked
<1>8. ASSUME NEW m \in Nodes, Current(m)' PROVE PendingKept(m, sent)'
  <2>1. Current(m)
    BY <1>2, <1>8 DEF StoredBy, Current, Busy
  <2>2. PendingKept(m, sent)
    BY <1>3, <2>1
  <2> QED BY <1>2, <1>3, <2>1, <2>2, StorePendingOwn, StorePendingOther
<1>9. CommitsSafe'
  BY <1>1, <1>2, <1>7, StoreCommits
<1>10. NextInLog'
  <2> SUFFICES ASSUME NEW m \in Nodes, role'[m] = "Leader"
               PROVE  \A q \in Peers(m) : nextIndex'[m][q] <= Len(log'[m]) + 1
    BY DEF NextInLog
  <2>1. role[m] = "Leader" /\ nextIndex' = nextIndex
    BY <1>2 DEF StoredBy
  <2>2. << term[m], m >> \in elected
    BY <1>3, <2>1 DEF TasksElected, TaskElected
  <2>3. << term[p], p >> \notin elected
    BY <1>2, <1>3, StoreFollower
  <2>4. log'[m] = log[m]
    BY <1>2, <2>2, <2>3 DEF StoredBy
  <2> QED BY <1>3, <2>1, <2>4 DEF NextInLog
<1> QED BY <1>4, <1>5, <1>6, <1>7, <1>8, <1>9, <1>10 DEF LogInv

\* What PushEntry does: the leader n of its term has one entry e more.
PushedBy(n, e) ==
    /\ role[n] = "Leader" /\ apply[n].pc = "push"
    /\ term' = term /\ role' = role /\ nextIndex' = nextIndex /\ election' = election
    /\ elected' = elected /\ acked' = acked /\ commitIndex' = commitIndex /\ committed' = committed
    /\ e.term = term[n]
    /\ log'[n] = Append(log[n], e)
    /\ apply'[n].pc = "replicate" /\ apply'[n].term = term[n]
    /\ apply'[n].through = Len(log[n]) + 1 /\ apply'[n].peers = Peers(n)
    /\ \A m \in Nodes : m # n => log'[m] = log[m] /\ apply'[m] = apply[m]

\* PushEntry is such a step.
LEMMA PushIs ==
    ASSUME Types, ~overtaken', NEW n \in Nodes, PushEntry(n)
    PROVE  \E e \in Entries : PushedBy(n, e)
<1> DEFINE e == [term |-> term[n], command |-> apply[n].command]
<1>1. e \in Entries /\ e.term = term[n]
  <2>1. apply[n].command \in Commands /\ term[n] \in Terms
    BY ApplyFields DEF PushEntry, Types, TypeOK
  <2> QED BY <2>1 DEF Entries
<1>2. log'[n] = Append(log[n], e)
  BY DEF PushEntry, Types, TypeOK
<1> HIDE DEF e
<1>3. PushedBy(n, e)
  BY <1>1, <1>2 DEF PushEntry, PushedBy, stateVars, Types, TypeOK
<1> QED BY <1>1, <1>3

\* The longer log, and where its entries were.
LEMMA PushedLog ==
    ASSUME Types, NEW n \in Nodes, NEW e \in Entries, PushedBy(n, e)
    PROVE  /\ Len(log[n]) \in Nat /\ Len(log'[n]) = Len(log[n]) + 1
           /\ log'[n] \in Seq(Entries) /\ log'[n][Len(log[n]) + 1] = e
           /\ \A i \in DOMAIN log'[n] :
                 \/ i \in DOMAIN log[n] /\ log'[n][i] = log[n][i]
                 \/ i = Len(log[n]) + 1
           /\ \A i \in DOMAIN log[n] : i \in DOMAIN log'[n] /\ log'[n][i] = log[n][i]
<1>1. log[n] \in Seq(Entries) /\ log'[n] = Append(log[n], e)
  BY Numbers DEF PushedBy
<1>2. /\ Len(log'[n]) = Len(log[n]) + 1 /\ log'[n] \in Seq(Entries)
      /\ \A i \in 1..Len(log[n]) : log'[n][i] = log[n][i]
      /\ log'[n][Len(log[n]) + 1] = e
  BY <1>1, AppendProperties
<1> QED BY <1>1, <1>2

\* The other logs are as they were, and no new request is under way.
LEMMA PushSeen ==
    ASSUME Types, NEW sent, NEW n \in Nodes, NEW e \in Entries, PushedBy(n, e)
    PROVE  /\ Seen(sent)' \subseteq Seen(sent) \cup {log'[n]} /\ log[n] \in Seen(sent)
           /\ \A m \in Nodes : InFlight(m)' => m # n /\ InFlight(m) /\ apply'[m] = apply[m]
<1>1. \A m \in Nodes : InFlight(m)' => m # n /\ InFlight(m) /\ apply'[m] = apply[m]
  BY DEF PushedBy, InFlight
<1>2. ASSUME NEW m \in Nodes, m # n PROVE log'[m] \in Seen(sent)
  BY <1>2 DEF PushedBy, Seen
<1>3. ASSUME NEW m \in Nodes, InFlight(m)' PROVE sent[m] \in Seen(sent)
  BY <1>1, <1>3 DEF Seen
<1> QED BY <1>1, <1>2, <1>3 DEF Seen

\* The places of a log are numbers.
LEMMA SeenPlaces ==
    ASSUME Types, NEW sent \in [Nodes -> Seq(Entries)], NEW l \in Seen(sent)
    PROVE  DOMAIN l \subseteq Nat
<1>1. l \in Seq(Entries)
  BY Numbers DEF Seen
<1> QED BY <1>1

\* The apply starts in the term its node leads.
LEMMA PushTasks ==
    ASSUME Types, Types', TasksElected, NEW n \in Nodes, NEW e \in Entries, PushedBy(n, e)
    PROVE  TasksElected'
<1>1. Later
  BY DEF PushedBy, Types, TypeOK, Terms, Later
<1>2. \A m \in Nodes, t \in Nat : << t, m >> \in elected' => t <= term'[m]
  BY <1>1, ElectedReached DEF PushedBy
<1>3. ASSUME NEW m \in Nodes, m # n PROVE TaskElected(m)'
  BY <1>1, <1>3, StaysElected DEF TasksElected, PushedBy
<1>4. TaskElected(n)'
  <2>1. << term[n], n >> \in elected
    BY DEF TasksElected, TaskElected, PushedBy
  <2> QED BY <2>1 DEF TaskElected, PushedBy, Accepted, Busy, Peers
<1> QED BY <1>2, <1>3, <1>4 DEF TasksElected

\* The new entry is of that term.
LEMMA PushEntriesElected ==
    ASSUME Types, TasksElected, NEW sent, EntriesElected(sent), NEW n \in Nodes,
           NEW e \in Entries, PushedBy(n, e)
    PROVE  EntriesElected(sent)'
<1>1. << e.term, n >> \in elected /\ e.term = term[n] /\ elected' = elected /\ term' = term
  BY DEF TasksElected, TaskElected, PushedBy
<1>2. term[n] \in Nat
  BY Numbers
<1>3. ASSUME NEW l \in Seen(sent)', NEW i \in DOMAIN l
      PROVE  \E m \in Nodes : << l[i].term, m >> \in elected
  <2>1. CASE l \in Seen(sent)
    BY <2>1 DEF EntriesElected
  <2>2. CASE l = log'[n]
    <3>1. log[n] \in Seen(sent)
      BY DEF Seen
    <3>2. \A j \in DOMAIN log[n] : \E m \in Nodes : << log[n][j].term, m >> \in elected
      BY <3>1 DEF EntriesElected
    <3>3. (i \in DOMAIN log[n] /\ l[i] = log[n][i]) \/ l[i] = e
      BY <1>3, <2>2, PushedLog
    <3> QED BY <1>1, <3>2, <3>3
  <2> QED BY <2>1, <2>2, PushSeen
<1>4. ASSUME NEW m \in Nodes, NEW i \in DOMAIN log'[m] PROVE log'[m][i].term <= term[m]
  <2>1. CASE m = n
    BY <1>1, <1>2, <2>1, PushedLog DEF EntriesElected
  <2>2. CASE m # n
    BY <2>2 DEF EntriesElected, PushedBy
  <2> QED BY <2>1, <2>2
<1>5. ASSUME NEW m \in Nodes, InFlight(m)'
      PROVE  /\ \A i \in DOMAIN sent[m] : sent[m][i].term <= apply'[m].term
             /\ IsPart(apply'[m].request, sent[m])
  <2>1. InFlight(m) /\ apply'[m] = apply[m]
    BY <1>5, PushSeen
  <2> QED BY <2>1 DEF EntriesElected
<1> QED BY <1>1, <1>3, <1>4, <1>5 DEF EntriesElected

\* No log has an entry of the leader's term at the new place.
LEMMA PushLogsAgree ==
    ASSUME Types, Unique, TasksElected, NEW sent \in [Nodes -> Seq(Entries)],
           EntriesElected(sent), LogsAgree(sent),
           NEW n \in Nodes, NEW e \in Entries, PushedBy(n, e)
    PROVE  LogsAgree(sent)'
<1> DEFINE old == log[n]
           new == log'[n]
           k == Len(log[n]) + 1
<1>1. << e.term, n >> \in elected /\ e.term = term[n] /\ elected' = elected /\ term' = term
  BY DEF TasksElected, TaskElected, PushedBy
<1>2. /\ Len(old) \in Nat /\ Len(new) = k /\ new[k] = e /\ old \in Seen(sent)
      /\ \A i \in DOMAIN new : (i \in DOMAIN old /\ new[i] = old[i]) \/ i = k
      /\ \A i \in DOMAIN old : i \in DOMAIN new /\ new[i] = old[i]
      /\ DOMAIN old = 1..Len(old)
  <2>1. old \in Seen(sent)
    BY PushSeen
  <2>2. DOMAIN old = 1..Len(old)
    BY Numbers
  <2> QED BY <2>1, <2>2, PushedLog
<1>3. \A l \in Seen(sent) : \A i \in DOMAIN l : l[i].term = e.term => i <= Len(old)
  BY <1>1 DEF LogsAgree
<1>4. \A l, m \in Seen(sent) : Agree(l, m)
  BY DEF LogsAgree
<1>5. \A l \in Seen(sent)' : l \in Seen(sent) \/ l = new
  BY PushSeen
<1>6. term[n] \in Nat /\ \A m \in Nodes : term[m] \in Nat
  BY Numbers
<1>7. \A m \in Nodes : m # n => log'[m] = log[m]
  BY DEF PushedBy
<1> HIDE DEF k
<1>8. ASSUME NEW l \in Seen(sent), NEW i \in DOMAIN l \cap DOMAIN new, l[i].term = new[i].term
      PROVE  \A j \in 1..i : l[j] = new[j]
  <2>1. i # k
    BY <1>2, <1>3, <1>8 DEF k
  <2>2. i \in DOMAIN old /\ new[i] = old[i] /\ i \in Nat /\ i <= Len(old)
    BY <1>2, <1>8, <2>1
  <2>3. \A j \in 1..i : l[j] = old[j]
    BY <1>2, <1>4, <1>8, <2>2 DEF Agree
  <2>4. \A j \in 1..i : new[j] = old[j]
    BY <1>2, <2>2
  <2> QED BY <2>3, <2>4
<1>9. ASSUME NEW l \in Seen(sent)', NEW m \in Seen(sent)' PROVE Agree(l, m)
  <2>1. CASE l \in Seen(sent) /\ m \in Seen(sent)
    BY <1>4, <2>1
  <2>2. CASE l \in Seen(sent) /\ m = new
    BY <1>8, <2>2 DEF Agree
  <2>3. CASE l = new /\ m \in Seen(sent)
    BY <1>8, <2>3 DEF Agree
  <2>4. CASE l = new /\ m = new
    BY <2>4 DEF Agree
  <2> QED BY <1>5, <2>1, <2>2, <2>3, <2>4
<1>10. ASSUME NEW m \in Nodes, << term[m], m >> \in elected, NEW l \in Seen(sent)',
              NEW i \in DOMAIN l, l[i].term = term[m]
       PROVE  i <= Len(log'[m])
  <2>1. CASE l \in Seen(sent)
    <3>1. i <= Len(log[m])
      BY <1>10, <2>1 DEF LogsAgree
    <3>2. Len(log[m]) \in Nat
      BY Numbers
    <3>3. Len(log'[m]) \in Nat /\ Len(log'[m]) >= Len(log[m]) /\ i \in Nat
      <4>1. m # n => log'[m] = log[m]
        BY <1>7
      <4>2. DOMAIN l \subseteq Nat
        BY <2>1, SeenPlaces
      <4> QED BY <1>2, <3>2, <4>1, <4>2 DEF k
    <3> QED BY <3>1, <3>2, <3>3
  <2>2. CASE l = new /\ m = n
    BY <1>2, <1>10, <2>2, PushedLog
  <2>3. CASE l = new /\ m # n
    <3>1. i # k
      BY <1>1, <1>2, <1>6, <1>10, <2>3 DEF Unique
    <3>2. i \in DOMAIN old /\ new[i] = old[i]
      BY <1>2, <1>10, <2>3, <3>1
    <3> QED BY <1>2, <1>7, <1>10, <2>3, <3>2 DEF LogsAgree
  <2> QED BY <1>5, <1>10, <2>1, <2>2, <2>3
<1> QED BY <1>1, <1>9, <1>10 DEF LogsAgree

\* The new entry: only its leader holds it, and no request under way is of the
\* term or a later one, unless a node that does not hold it went past the term.
LEMMA PushPendingOwn ==
    ASSUME Types, Unique, TasksElected, NEW sent, LogsAgree(sent), NEW n \in Nodes,
           NEW e \in Entries, PushedBy(n, e)
    PROVE  PendingKept(n, sent)'
<1> DEFINE k == Len(log[n]) + 1
           t == term[n]
<1>1. << t, n >> \in elected /\ term' = term
  BY DEF TasksElected, TaskElected, PushedBy
<1>2. Holders(n)' = {n} /\ ~InFlight(n)' /\ ~Accepted(n)' /\ ~MayStepBack(n)'
  BY DEF Holders, InFlight, Accepted, MayStepBack, PushedBy, Peers
<1>3. \A m \in Nodes : term[m] \in Nat
  BY Numbers
<1>4. /\ Len(log[n]) \in Nat /\ k = Len(log'[n]) /\ k >= 1 /\ log'[n][k].term = t
      /\ k \in DOMAIN log'[n]
  BY PushedLog DEF PushedBy
<1>5. apply'[n].term = t /\ apply'[n].through = k
  BY DEF PushedBy
<1>6. ASSUME NEW q \in Nodes \ {n}, NEW j \in DOMAIN log'[q], j >= k
      PROVE  log'[q][j].term # t
  <2>1. log'[q] = log[q] /\ log[q] \in Seen(sent)
    BY DEF PushedBy, Seen
  <2>2. log[q][j].term = t => j <= Len(log[n])
    BY <1>1, <1>6, <2>1 DEF LogsAgree
  <2>3. j \in Nat
    BY <2>1, Numbers
  <2> QED BY <1>4, <1>6, <2>1, <2>2, <2>3
<1>7. ASSUME Undisturbed(n)' PROVE HoldersKeep(n, sent)'
  <2>1. \A q \in Nodes \ {n} : term[q] <= t
    BY <1>1, <1>2, <1>5, <1>7 DEF Undisturbed
  <2>2. ASSUME NEW m \in Nodes, InFlight(m)', apply'[m].term >= t PROVE FALSE
    <3>1. m # n /\ InFlight(m) /\ apply'[m] = apply[m]
      BY <2>2, PushSeen
    <3>2. apply[m].pc \in Busy /\ << apply[m].term, m >> \in elected /\ apply[m].term \in Nat
      BY <3>1, Numbers DEF InFlight, Busy, TasksElected, TaskElected
    <3>3. apply[m].term <= term[m]
      BY <3>2 DEF TasksElected
    <3>4. apply[m].term = t
      BY <1>3, <2>1, <2>2, <3>1, <3>2, <3>3
    <3> QED BY <1>1, <3>1, <3>2, <3>4 DEF Unique
  <2> QED BY <1>2, <1>4, <1>5, <2>2 DEF HoldersKeep, Has
<1> HIDE DEF k, t
<1>8. \A q \in Holders(n)' : term'[q] >= apply'[n].term
  BY <1>1, <1>2, <1>3, <1>5 DEF t
<1>9. \A q \in Nodes \ Holders(n)' : \A j \in DOMAIN log'[q] : j >= k => log'[q][j].term # t
  BY <1>2, <1>6
<1> QED BY <1>2, <1>4, <1>5, <1>7, <1>8, <1>9 DEF PendingKept

\* The other applies are of other terms.
LEMMA PushPendingOther ==
    ASSUME Types, Unique, TasksElected, NEW sent, NEW n \in Nodes, NEW e \in Entries,
           PushedBy(n, e), NEW m \in Nodes, m # n, Current(m), PendingKept(m, sent)
    PROVE  PendingKept(m, sent)'
<1> DEFINE i == apply[m].through
           t == apply[m].term
<1>1. /\ term' = term /\ nextIndex' = nextIndex /\ apply'[m] = apply[m] /\ log'[m] = log[m]
      /\ \A q \in Nodes : q # n => log'[q] = log[q]
  BY DEF PushedBy
<1>2. << t, m >> \in elected /\ << e.term, n >> \in elected /\ t \in Nat
  BY Numbers DEF TasksElected, TaskElected, Current, PushedBy
<1>3. e.term # t
  BY <1>2 DEF Unique
<1>4. /\ Holders(m)' = Holders(m) /\ Accepted(m)' = Accepted(m) /\ InFlight(m)' = InFlight(m)
      /\ MayStepBack(m)' = MayStepBack(m)
  BY <1>1 DEF Holders, Accepted, InFlight, MayStepBack
<1>5. /\ \A j \in DOMAIN log[n] : j \in DOMAIN log'[n] /\ log'[n][j] = log[n][j]
      /\ \A j \in DOMAIN log'[n] : (j \in DOMAIN log[n] /\ log'[n][j] = log[n][j]) \/ log'[n][j] = e
  BY PushedLog
<1>6. ASSUME NEW q \in Nodes \ Holders(m), term[q] <= t, NEW j \in DOMAIN log'[q], j >= i
      PROVE  log'[q][j].term # t
  <2>1. \A k \in DOMAIN log[q] : k >= i => log[q][k].term # t
    BY <1>6 DEF PendingKept
  <2>2. CASE q = n
    BY <1>3, <1>5, <1>6, <2>1, <2>2
  <2>3. CASE q # n
    BY <1>1, <1>6, <2>1, <2>3
  <2> QED BY <2>2, <2>3
<1>7. ASSUME Undisturbed(m)' PROVE HoldersKeep(m, sent)'
  <2>1. Undisturbed(m)
    BY <1>1, <1>4, <1>7 DEF Undisturbed
  <2>2. HoldersKeep(m, sent)
    BY <2>1 DEF PendingKept
  <2>3. ASSUME NEW q \in Holders(m) PROVE Has(log'[q], i, log[m][i])
    <3>1. Has(log[q], i, log[m][i]) /\ q \in Nodes
      BY <2>2 DEF HoldersKeep, Holders
    <3>2. CASE q = n
      BY <1>5, <3>1, <3>2 DEF Has
    <3>3. CASE q # n
      BY <1>1, <3>1, <3>3
    <3> QED BY <3>2, <3>3
  <2>4. ASSUME NEW k \in Nodes, InFlight(k)', apply'[k].term >= t
        PROVE  Has(sent[k], i, log[m][i])
    <3>1. InFlight(k) /\ apply'[k] = apply[k]
      BY <2>4, PushSeen
    <3> QED BY <2>2, <2>4, <3>1 DEF HoldersKeep
  <2> QED BY <1>1, <1>4, <2>3, <2>4 DEF HoldersKeep
<1> HIDE DEF i, t
<1>8. /\ i = Len(log[m]) /\ i >= 1 /\ log[m][i].term = t /\ (InFlight(m) => sent[m] = log[m])
      /\ \A q \in Holders(m) : term[q] >= t
      /\ Accepted(m) => apply[m].response.match = i
      /\ MayStepBack(m) => nextIndex[m][apply[m].retry] > 1
  BY DEF PendingKept, i, t
<1>9. i = apply'[m].through /\ t = apply'[m].term
  BY <1>1 DEF i, t
<1> QED BY <1>1, <1>4, <1>6, <1>7, <1>8, <1>9 DEF PendingKept

\* The acknowledged entries stay.
LEMMA PushAcked ==
    ASSUME Types, NEW sent, AckedKept(sent), NEW n \in Nodes, NEW e \in Entries, PushedBy(n, e)
    PROVE  AckedKept(sent)'
<1> SUFFICES ASSUME NEW a \in acked
             PROVE  /\ \A q \in Nodes : Has(log'[q], a.index, a.entry) /\ a.entry.term <= term[q]
                    /\ \A m \in Nodes : InFlight(m)' /\ apply'[m].term >= a.entry.term =>
                          Has(sent[m], a.index, a.entry)
  BY DEF AckedKept, PushedBy
<1>1. \A q \in Nodes : Has(log[q], a.index, a.entry) /\ a.entry.term <= term[q]
  BY DEF AckedKept
<1>2. ASSUME NEW m \in Nodes, InFlight(m)', apply'[m].term >= a.entry.term
      PROVE  Has(sent[m], a.index, a.entry)
  <2>1. InFlight(m) /\ apply'[m] = apply[m]
    BY <1>2, PushSeen
  <2> QED BY <1>2, <2>1 DEF AckedKept
<1>3. Has(log'[n], a.index, a.entry)
  BY <1>1, PushedLog DEF Has
<1> QED BY <1>1, <1>2, <1>3 DEF PushedBy

\* Nothing is committed, and what was is where it was.
LEMMA PushCommits ==
    ASSUME Types, NEW sent, AckedKept(sent), CommitsSafe, NEW n \in Nodes, NEW e \in Entries,
           PushedBy(n, e)
    PROVE  CommitsSafe'
<1>1. \A m \in Nodes : CommitsOf(m)
  BY DEF CommitsSafe
<1>2. ASSUME NEW m \in Nodes, m # n PROVE CommitsOf(m)'
  BY <1>1, <1>2, CommitsUntouched DEF PushedBy
<1>3. CommitsOf(n)'
  <2>1. CommitsOf(n)
    BY <1>1
  <2>2. Safe(commitIndex[n])' /\ Safe(Len(committed[n]))'
    BY <2>1 DEF CommitsOf, Safe, PushedBy
  <2>3. (election[n].pc = "broadcast" => Safe(election[n].through))'
    BY <2>1 DEF CommitsOf, Safe, PushedBy
  <2>4. ASSUME NEW i \in DOMAIN committed[n] PROVE committed[n][i] = log'[n][i].command
    <3>1. committed[n] \in Seq(Commands) /\ log[n] \in Seq(Entries)
      BY DEF Types, TypeOK
    <3>2. Agree(log[n], log[n])
      BY DEF Agree
    <3>3. \A a \in acked : Has(log[n], a.index, a.entry)
      BY DEF AckedKept
    <3>4. /\ Len(committed[n]) \in Nat /\ i \in 1..Len(committed[n]) /\ Safe(Len(committed[n]))
          /\ committed[n][i] = log[n][i].command
      BY <2>1, <3>1 DEF CommitsOf
    <3>5. i \in DOMAIN log[n]
      BY <3>1, <3>2, <3>3, <3>4, SafePrefix
    <3> QED BY <3>4, <3>5, PushedLog
  <2> QED BY <2>2, <2>3, <2>4 DEF CommitsOf, InFlight, PushedBy
<1> QED BY <1>2, <1>3 DEF CommitsSafe

\* The leader's log grows.
LEMMA PushEntryKeeps ==
    ASSUME Types, Types', Unique, NEW sent \in [Nodes -> Seq(Entries)], LogInv(sent),
           ~overtaken', NEW n \in Nodes, PushEntry(n)
    PROVE  LogInv(sent)'
<1>1. PICK e \in Entries : PushedBy(n, e)
  BY PushIs
<1>2. /\ TasksElected /\ EntriesElected(sent) /\ LogsAgree(sent) /\ AckedKept(sent)
      /\ \A m \in Nodes : Current(m) => PendingKept(m, sent)
      /\ CommitsSafe /\ NextInLog
  BY DEF LogInv
<1>3. TasksElected'
  BY <1>1, <1>2, PushTasks
<1>4. EntriesElected(sent)'
  BY <1>1, <1>2, PushEntriesElected
<1>5. LogsAgree(sent)'
  BY <1>1, <1>2, PushLogsAgree
<1>6. AckedKept(sent)'
  BY <1>1, <1>2, PushAcked
<1>7. ASSUME NEW m \in Nodes, Current(m)' PROVE PendingKept(m, sent)'
  <2>1. CASE m = n
    BY <1>1, <1>2, <2>1, PushPendingOwn
  <2>2. CASE m # n
    <3>1. Current(m)
      BY <1>1, <1>7, <2>2 DEF PushedBy, Current
    <3> QED BY <1>1, <1>2, <2>2, <3>1, PushPendingOther
  <2> QED BY <2>1, <2>2
<1>8. CommitsSafe'
  BY <1>1, <1>2, PushCommits
<1>9. NextInLog'
  <2> SUFFICES ASSUME NEW m \in Nodes, role'[m] = "Leader", NEW q \in Peers(m)
               PROVE  nextIndex'[m][q] <= Len(log'[m]) + 1
    BY DEF NextInLog
  <2>1. nextIndex'[m][q] = nextIndex[m][q] /\ nextIndex[m][q] <= Len(log[m]) + 1
    BY <1>1, <1>2 DEF PushedBy, NextInLog
  <2>2. nextIndex[m][q] \in Nat
    BY DEF Types, TypeOK
  <2>3. Len(log[m]) \in Nat /\ Len(log'[m]) \in {Len(log[m]), Len(log[m]) + 1}
    <3>1. log[m] \in Seq(Entries)
      BY Numbers
    <3> QED BY <1>1, <3>1, PushedLog DEF PushedBy
  <2> QED BY <2>1, <2>2, <2>3
<1> QED BY <1>3, <1>4, <1>5, <1>6, <1>7, <1>8, <1>9 DEF LogInv

----------------------------------------------------------------------------
(* Every step.                                                             *)

\* An answer of a newer term ends the apply.
LEMMA NewerAnswerQuiet ==
    ASSUME Types, TasksElected, NEW n \in Nodes, HandleAnswer(n), ~overtaken',
           apply[n].response.term > apply[n].request.term
    PROVE  Quiet /\ NothingCommitted
<1> DEFINE p == apply[n].retry
           t == apply[n].response.term
<1>1. /\ log' = log /\ acked' = acked /\ elected' = elected /\ election' = election
      /\ commitIndex' = commitIndex /\ committed' = committed
  BY DEF HandleAnswer, logVars
<1>2. nextIndex' = nextIndex
  <2>1. p \in Peers(n)
    BY RetryIsPeer DEF HandleAnswer, Busy
  <2>2. nextIndex' = [nextIndex EXCEPT ![n][p] = @]
    BY DEF HandleAnswer
  <2>3. nextIndex[n] \in [Peers(n) -> Nat \ {0}] /\ nextIndex = [m \in Nodes |-> nextIndex[m]]
    BY DEF Types, TypeOK
  <2>4. [nextIndex[n] EXCEPT ![p] = @] = nextIndex[n]
    BY <2>1, <2>3
  <2> QED BY <2>2, <2>3, <2>4
<1>3. t \in Nat /\ \A m \in Nodes : term[m] \in Nat
  <2>1. apply[n].response \in Answers
    BY ApplyFields DEF HandleAnswer, Types
  <2> QED BY <2>1, Numbers DEF Answers, Terms
<1>4. ~(term[n] >= t)
  BY DEF HandleAnswer
<1>5. Later /\ \A m \in Nodes : role'[m] = "Leader" => role[m] = "Leader" /\ term'[m] = term[m]
  BY <1>3, <1>4 DEF HandleAnswer, Types, TypeOK, Later
<1>6. \A m \in Nodes : apply'[m] = apply[m] \/ apply'[m].pc \in {"idle", "push"}
  BY DEF HandleAnswer, Types, TypeOK, Idle
<1> QED BY <1>1, <1>2, <1>5, <1>6 DEF Quiet, NothingCommitted

\* Quiet steps that commit nothing keep the invariant.
LEMMA QuietStepKeeps ==
    ASSUME Types, Types', Unique, Unique', NEW sent, LogInv(sent), Quiet, NothingCommitted
    PROVE  LogInv(sent)'
<1>1. CommitsSafe'
  BY CommitsQuiet DEF LogInv, NothingCommitted
<1> QED BY <1>1, QuietKeeps

\* What a call of its broadcast makes of a task.
GoesOn(before, after) ==
    /\ before.pc = "broadcast"
    /\ \/ after.pc = "idle"
       \/ after.pc = "broadcast" /\ after.through = before.through

\* A call of a broadcast of an election or an apply.
LEMMA BroadcastTaskKeeps ==
    ASSUME Types, Types', Unique, Unique', NEW sent, LogInv(sent), NEW n \in Nodes,
           NEW p \in Peers(n),
           BroadcastAsNewLeader(n, p) \/ BroadcastCommit(n, p)
    PROVE  LogInv(sent)'
<1>1. PICK task \in {election[n], apply[n]} :
        /\ task.pc = "broadcast" /\ Broadcast(n, p, task)
  BY DEF BroadcastAsNewLeader, BroadcastCommit
<1>2. task.term \in Terms /\ task.through \in Nat
  BY <1>1, ElectionFields, ApplyFields DEF Types
<1>3. AckedKept(sent) /\ CommitsSafe /\ \A a \in acked : a.index \in Nat
  BY AckedPlaces DEF LogInv
<1>4. Safe(task.through)
  BY <1>1, <1>3 DEF CommitsSafe, CommitsOf
<1>5. acked' = acked /\ nextIndex' = nextIndex /\ elected' = elected
  BY DEF BroadcastAsNewLeader, BroadcastCommit
<1>6. /\ log' = log /\ Later
      /\ \A m \in Nodes : role'[m] = "Leader" => role[m] = "Leader" /\ term'[m] = term[m]
      /\ \A m \in Nodes : /\ Safe(commitIndex[m])' /\ Safe(Len(committed[m]))'
                          /\ (\A i \in DOMAIN committed[m] :
                                 committed[m][i] = log[m][i].command)'
  BY <1>1, <1>2, <1>3, <1>4, <1>5, BroadcastKeeps
<1>7. /\ \A m \in Nodes : apply'[m] = apply[m] \/ GoesOn(apply[m], apply'[m])
      /\ \A m \in Nodes : election'[m] = election[m] \/ GoesOn(election[m], election'[m])
  <2>1. CASE BroadcastAsNewLeader(n, p)
    <3>1. /\ apply' = apply /\ \A m \in Nodes : m # n => election'[m] = election[m]
          /\ election[n].pc = "broadcast"
          /\ election'[n] = Announcing(election[n].term, election[n].through, election[n].peers \ {p})
      BY <2>1 DEF BroadcastAsNewLeader, Types, TypeOK
    <3>2. GoesOn(election[n], election'[n])
      BY <3>1, AnnouncingIs DEF GoesOn
    <3> QED BY <3>1, <3>2
  <2>2. CASE BroadcastCommit(n, p)
    <3>1. /\ election' = election /\ \A m \in Nodes : m # n => apply'[m] = apply[m]
          /\ apply[n].pc = "broadcast"
          /\ apply'[n] = Announcing(apply[n].term, apply[n].through, apply[n].peers \ {p})
      BY <2>2 DEF BroadcastCommit, Types, TypeOK
    <3>2. GoesOn(apply[n], apply'[n])
      BY <3>1, AnnouncingIs DEF GoesOn
    <3> QED BY <3>1, <3>2
  <2> QED BY <2>1, <2>2
<1>8. Quiet
  BY <1>5, <1>6, <1>7 DEF Quiet, GoesOn
<1>9. CommitsSafe'
  <2> SUFFICES ASSUME NEW m \in Nodes PROVE CommitsOf(m)'
    BY DEF CommitsSafe
  <2>1. CommitsOf(m)
    BY <1>3 DEF CommitsSafe
  <2>2. (InFlight(m) => Safe(apply[m].request.commit))'
    BY <1>5, <1>7, <2>1 DEF CommitsOf, Safe, InFlight, GoesOn
  <2>3. (election[m].pc = "broadcast" => Safe(election[m].through))'
    BY <1>5, <1>7, <2>1 DEF CommitsOf, Safe, GoesOn
  <2>4. (apply[m].pc = "broadcast" => Safe(apply[m].through))'
    BY <1>5, <1>7, <2>1 DEF CommitsOf, Safe, GoesOn
  <2> QED BY <1>6, <2>2, <2>3, <2>4 DEF CommitsOf
<1> QED BY <1>8, <1>9, QuietKeeps

\* Every step of an election keeps it.
LEMMA ElectionKeepsLogs ==
    ASSUME Types, Types', Unique, Unique', NEW sent, LogInv(sent), ~overtaken', NEW n \in Nodes,
           Election(n)
    PROVE  LogInv(sent)'
<1>1. CASE \/ StartElection(n) \/ CountVote(n) \/ VoteAnswerLost(n) \/ NoQuorum(n) \/ BroadcastLost(n)
           \/ \E p \in Peers(n) : RequestVote(n, p) \/ VoteRequestLost(n, p)
  BY <1>1, VotesQuiet, QuietStepKeeps
<1>2. CASE BecomeLeader(n)
  BY <1>2, BecomeLeaderKeeps
<1>3. CASE \E p \in Peers(n) : BroadcastAsNewLeader(n, p)
  BY <1>3, BroadcastTaskKeeps
<1> QED BY <1>1, <1>2, <1>3 DEF Election

\* Every step of an apply keeps it, for what was sent before or after it.
LEMMA ApplyKeepsLogs ==
    ASSUME Types, Types', Unique, Unique', NEW sent \in [Nodes -> Seq(Entries)], LogInv(sent),
           ~overtaken', NEW n \in Nodes, Apply(n)
    PROVE  \E sent2 \in [Nodes -> Seq(Entries)] : LogInv(sent2)'
<1>1. CASE BeginApply(n) \/ AppendFails(n)
  <2>1. LogInv(sent)'
    BY <1>1, TasksQuiet, QuietStepKeeps
  <2> QED BY <2>1
<1>2. CASE PushEntry(n)
  <2>1. LogInv(sent)'
    BY <1>2, PushEntryKeeps
  <2> QED BY <2>1
<1>3. CASE \E p \in Peers(n) : SendEntries(n, p)
  BY <1>3, SendEntriesKeeps
<1>4. CASE AdmitEntries(n)
  <2>1. LogInv(sent)'
    BY <1>4, AdmitEntriesKeeps
  <2> QED BY <2>1
<1>5. CASE StoreEntries(n)
  <2>1. LogInv(sent)'
    BY <1>5, StoreEntriesKeeps
  <2> QED BY <2>1
<1>6. CASE HandleAnswer(n)
  <2>1. CASE apply[n].response.term > apply[n].request.term
    <3>1. Quiet /\ NothingCommitted
      BY <1>6, <2>1, NewerAnswerQuiet DEF LogInv
    <3>2. LogInv(sent)'
      BY <3>1, QuietStepKeeps
    <3> QED BY <3>2
  <2>2. CASE ~(apply[n].response.term > apply[n].request.term)
    <3>1. LogInv(sent)'
      BY <1>6, <2>2, AnswerKeeps
    <3> QED BY <3>1
  <2> QED BY <2>1, <2>2
<1>7. CASE CommitEntry(n)
  <2>1. LogInv(sent)'
    BY <1>7, CommitEntryKeeps
  <2> QED BY <2>1
<1>8. CASE \E p \in Peers(n) : BroadcastCommit(n, p)
  <2>1. LogInv(sent)'
    BY <1>8, BroadcastTaskKeeps
  <2> QED BY <2>1
<1> QED BY <1>1, <1>2, <1>3, <1>4, <1>5, <1>6, <1>7, <1>8 DEF Apply

\* Every step keeps it, given that terms have one leader.
LEMMA LogStep == VInv /\ LogsInv /\ [Next]_vars => LogsInv'
<1> SUFFICES ASSUME VInv, LogsInv, [Next]_vars PROVE LogsInv'
  OBVIOUS
<1>1. VInv'
  BY VStep
<1>2. Types /\ Types'
  BY TypesStep DEF LogsInv
<1>3. ASSUME ~overtaken' PROVE \E sent \in [Nodes -> Seq(Entries)] : LogInv(sent)'
  <2>1. ~overtaken
    <3>1. CASE UNCHANGED vars
      BY <1>3, <3>1 DEF vars
    <3>2. CASE \E n \in Nodes : Election(n) \/ Apply(n)
      BY <1>3, <3>2, OvertakenStays DEF VInv
    <3> QED BY <3>1, <3>2 DEF Next
  <2>2. Unique
    BY <2>1, LeadersUnique
  <2>3. Unique'
    <3>1. VInv' => (~overtaken' => Unique')
      BY LeadersUnique, PTL
    <3> QED BY <1>1, <1>3, <3>1
  <2>4. PICK sent \in [Nodes -> Seq(Entries)] : LogInv(sent)
    BY <2>1 DEF LogsInv
  <2>5. CASE UNCHANGED vars
    <3>1. PICK n \in Nodes : TRUE
      BY NodesAssumption
    <3>2. LogInv(sent)'
      BY <1>2, <2>2, <2>3, <2>4, <2>5, <3>1, TasksQuiet, QuietStepKeeps
    <3> QED BY <3>2
  <2>6. ASSUME NEW n \in Nodes, Election(n)
        PROVE  \E s \in [Nodes -> Seq(Entries)] : LogInv(s)'
    <3>1. LogInv(sent)'
      BY <1>2, <1>3, <2>2, <2>3, <2>4, <2>6, ElectionKeepsLogs
    <3> QED BY <3>1
  <2>7. ASSUME NEW n \in Nodes, Apply(n)
        PROVE  \E s \in [Nodes -> Seq(Entries)] : LogInv(s)'
    BY <1>2, <1>3, <2>2, <2>3, <2>4, <2>7, ApplyKeepsLogs
  <2> QED BY <2>5, <2>6, <2>7 DEF Next
<1> QED BY <1>2, <1>3 DEF LogsInv

\* It holds initially, when nothing was sent.
LEMMA InitLogs == Init => LogsInv
<1> SUFFICES ASSUME Init PROVE LogsInv
  OBVIOUS
<1> DEFINE none == [n \in Nodes |-> << >>]
<1>1. none \in [Nodes -> Seq(Entries)]
  OBVIOUS
<1>2. /\ \A n \in Nodes : apply[n].pc = "idle" /\ election[n].pc = "idle" /\ role[n] = "Follower"
      /\ \A n \in Nodes : log[n] = << >> /\ committed[n] = << >> /\ commitIndex[n] = 0
      /\ elected = {} /\ acked = {}
  BY DEF Init, Idle
<1>3. \A l \in Seen(none) : l = << >>
  BY <1>2 DEF Seen, InFlight
<1> HIDE DEF none
<1>4. TasksElected
  BY <1>2 DEF TasksElected, TaskElected, Accepted, Busy
<1>5. EntriesElected(none)
  BY <1>2, <1>3 DEF EntriesElected, InFlight
<1>6. LogsAgree(none)
  BY <1>2, <1>3 DEF LogsAgree, Agree
<1>7. \A n \in Nodes : ~Current(n)
  BY <1>2 DEF Current, Busy
<1>8. AckedKept(none)
  BY <1>2 DEF AckedKept
<1>9. CommitsSafe
  BY <1>2 DEF CommitsSafe, CommitsOf, Safe, InFlight
<1>10. NextInLog
  BY <1>2 DEF NextInLog
<1>11. LogInv(none)
  BY <1>4, <1>5, <1>6, <1>7, <1>8, <1>9, <1>10 DEF LogInv
<1> QED BY <1>1, <1>11, InitTypes DEF LogsInv

\* The logs, requests and acknowledgements stay consistent while no task was
\* overtaken.
THEOREM LogInvariant == Spec => []LogsInv
BY InitLogs, VotingInvariant, LogStep, PTL DEF Spec

\* An entry whose apply returned Ok is in the log of every node and stays there
\* (replicate_to_quorum gives up at the first peer it cannot reach).
THEOREM AckedStaysEverywhere == Spec => []AckedOnEveryNode
<1>1. LogsInv => AckedOnEveryNode
  <2> SUFFICES ASSUME LogsInv, ~overtaken, NEW a \in acked, NEW n \in Nodes
               PROVE  a.index <= Len(log[n]) /\ log[n][a.index] = a.entry
    BY DEF AckedOnEveryNode
  <2>1. Has(log[n], a.index, a.entry)
    BY DEF LogsInv, LogInv, AckedKept
  <2>2. log[n] \in Seq(Entries)
    BY Numbers DEF LogsInv
  <2> QED BY <2>1, <2>2 DEF Has
<1> QED BY <1>1, LogInvariant, PTL

\* What a node took for committed (the commit index of append_entries_rpc and of
\* apply_inner) is at the same place in every log.
THEOREM CommittedStaysInLogs == Spec => []CommittedInEveryLog
<1>1. LogsInv => CommittedInEveryLog
  <2> SUFFICES ASSUME LogsInv, ~overtaken, NEW n \in Nodes, NEW m \in Nodes,
                      NEW i \in 1..Len(committed[n])
               PROVE  i <= Len(log[m]) /\ log[m][i].command = committed[n][i]
    BY DEF CommittedInEveryLog
  <2>1. PICK sent \in [Nodes -> Seq(Entries)] : LogInv(sent)
    BY DEF LogsInv
  <2>2. /\ committed[n] \in Seq(Commands)
        /\ log[n] \in Seq(Entries) /\ log[m] \in Seq(Entries)
    BY DEF LogsInv, Types, TypeOK
  <2>3. Safe(Len(committed[n])) /\ committed[n][i] = log[n][i].command
    BY <2>1, <2>2 DEF LogInv, CommitsSafe, CommitsOf
  <2>4. \A a \in acked : Has(log[n], a.index, a.entry) /\ Has(log[m], a.index, a.entry)
    BY <2>1 DEF LogInv, AckedKept
  <2>5. Agree(log[n], log[m])
    BY <2>1 DEF LogInv, LogsAgree, Seen
  <2>6. i \in DOMAIN log[m] /\ log[n][i] = log[m][i]
    <3>1. PICK c \in Nat : Safe(c) /\ i \in 1..c
      BY <2>2, <2>3
    <3>2. PICK l \in Seq(Entries), g \in Seq(Entries) : l = log[n] /\ g = log[m]
      BY <2>2
    <3>3. Agree(l, g) /\ \A a \in acked : Has(l, a.index, a.entry) /\ Has(g, a.index, a.entry)
      BY <2>4, <2>5, <3>2
    <3>4. ASSUME NEW j \in 1..c
          PROVE  j \in DOMAIN l /\ j \in DOMAIN g /\ l[j] = g[j]
      BY <3>1, <3>3, SafePrefix
    <3> QED BY <3>1, <3>2, <3>4
  <2> QED BY <2>2, <2>3, <2>6
<1> QED BY <1>1, LogInvariant, PTL

\* commit_index and the next_index of a leader point into the log, so that
\* build_append_request and apply_committed_entries find what they index.
THEOREM IndexesStayWithinLog == Spec => []IndexesWithinLog
<1>1. LogsInv => IndexesWithinLog
  <2> SUFFICES ASSUME LogsInv, ~overtaken, NEW n \in Nodes
               PROVE  /\ commitIndex[n] <= Len(log[n])
                      /\ role[n] = "Leader" =>
                            \A p \in Peers(n) : nextIndex[n][p] <= Len(log[n]) + 1
    BY DEF IndexesWithinLog
  <2>1. PICK sent \in [Nodes -> Seq(Entries)] : LogInv(sent)
    BY DEF LogsInv
  <2>2. commitIndex[n] \in Nat /\ log[n] \in Seq(Entries)
    BY DEF LogsInv, Types, TypeOK
  <2>3. Safe(commitIndex[n])
    BY <2>1 DEF LogInv, CommitsSafe, CommitsOf
  <2>4. \A a \in acked : a.index \in DOMAIN log[n]
    BY <2>1 DEF LogInv, AckedKept, Has
  <2>5. commitIndex[n] <= Len(log[n])
    <3>1. CASE commitIndex[n] = 0
      BY <2>2, <3>1
    <3>2. CASE commitIndex[n] # 0
      <4>1. PICK a \in acked : commitIndex[n] <= a.index
        BY <2>3, <3>2 DEF Safe
      <4> QED BY <2>2, <2>4, <4>1
    <3> QED BY <3>1, <3>2
  <2> QED BY <2>1, <2>5 DEF LogInv, NextInLog
<1> QED BY <1>1, LogInvariant, PTL

----------------------------------------------------------------------------
(* Each command at one place: whatever tasks are overtaken, an entry that  *)
(* is sent is stored at the index it was sent from.                        *)

Carries(request, i, c) ==
    \E k \in DOMAIN request.entries :
        i = request.prevIndex + k /\ request.entries[k].command = c

\* Command c is at place i of a log, or of one that may become a log.
Placed(i, c) ==
    \E n \in Nodes :
        \/ i \in DOMAIN log[n] /\ log[n][i].command = c
        \/ InFlight(n) /\ Carries(apply[n].request, i, c)

OnePlace ==
    /\ \A i, j \in Nat, c \in Commands : Placed(i, c) /\ Placed(j, c) => i = j
    /\ \A i \in Nat, c \in Commands : Placed(i, c) => c <= issued
    /\ \A n \in Nodes : apply[n].pc = "push" =>
          /\ apply[n].command <= issued
          /\ \A i \in Nat : ~Placed(i, apply[n].command)
    /\ \A n, m \in Nodes :
          apply[n].pc = "push" /\ apply[m].pc = "push" /\ apply[n].command = apply[m].command
              => n = m

\* A step that places nothing new.
NothingPlaced ==
    /\ issued' = issued
    /\ \A n \in Nodes : apply'[n].pc = "push" => apply'[n] = apply[n]
    /\ \A n \in Nodes : \A i \in DOMAIN log'[n] : Placed(i, log'[n][i].command)
    /\ \A n \in Nodes : InFlight(n)' =>
          \A i \in Nat, c \in Commands : Carries(apply'[n].request, i, c) => Placed(i, c)

\* It keeps every command at its place.
LEMMA NothingPlacedKeeps ==
    ASSUME Types, OnePlace, NothingPlaced
    PROVE  OnePlace'
<1>1. ASSUME NEW i \in Nat, NEW c \in Commands, Placed(i, c)' PROVE Placed(i, c)
  <2>1. PICK n \in Nodes : \/ i \in DOMAIN log'[n] /\ log'[n][i].command = c
                           \/ InFlight(n)' /\ Carries(apply'[n].request, i, c)
    BY <1>1 DEF Placed, Carries
  <2> QED BY <2>1 DEF NothingPlaced
<1>2. \A n \in Nodes : apply'[n].pc = "push" =>
         apply[n].pc = "push" /\ apply'[n].command = apply[n].command
  BY DEF NothingPlaced
<1>3. \A i, j \in Nat, c \in Commands : Placed(i, c)' /\ Placed(j, c)' => i = j
  BY <1>1 DEF OnePlace
<1>4. \A i \in Nat, c \in Commands : Placed(i, c)' => c <= issued'
  BY <1>1 DEF OnePlace, NothingPlaced
<1>5. ASSUME NEW n \in Nodes, (apply[n].pc = "push")'
      PROVE  (apply[n].command <= issued /\ \A i \in Nat : ~Placed(i, apply[n].command))'
  <2>1. apply[n].pc = "push" /\ apply'[n].command = apply[n].command /\ issued' = issued
    BY <1>2, <1>5 DEF NothingPlaced
  <2>2. PICK c \in Commands : c = apply[n].command /\ c = apply'[n].command
    BY <2>1, ApplyFields DEF Types
  <2>3. c <= issued /\ \A i \in Nat : ~Placed(i, c)
    BY <2>1, <2>2 DEF OnePlace
  <2>4. \A i \in Nat : ~Placed(i, c)'
    BY <1>1, <2>3
  <2> QED BY <2>1, <2>2, <2>3, <2>4 DEF Placed
<1>6. \A n, m \in Nodes :
         apply'[n].pc = "push" /\ apply'[m].pc = "push" /\ apply'[n].command = apply'[m].command
             => n = m
  BY <1>2 DEF OnePlace
<1> QED BY <1>3, <1>4, <1>5, <1>6 DEF OnePlace

\* One that changes no log and starts no request places nothing.
LEMMA SameLogsPlaceNothing ==
    ASSUME Types, issued' = issued, log' = log,
           \A n \in Nodes : apply'[n].pc = "push" => apply'[n] = apply[n],
           \A n \in Nodes : InFlight(n)' => InFlight(n) /\ apply'[n].request = apply[n].request
    PROVE  NothingPlaced
BY DEF NothingPlaced, Placed

\* Every entry the receiver ends with was at its place in its log or in the request.
LEMMA AppendedFrom ==
    ASSUME NEW l \in Seq(Entries), NEW e \in Seq(Entries), NEW prev \in Nat, prev <= Len(l)
    PROVE  \A i \in DOMAIN Appended(l, prev, e) :
              \/ i \in DOMAIN l /\ Appended(l, prev, e)[i] = l[i]
              \/ \E k \in DOMAIN e : i = prev + k /\ Appended(l, prev, e)[i] = e[k]
<1> DEFINE different == {i \in 1..Len(e) : prev + i > Len(l) \/ l[prev + i] # e[i]}
           a == Appended(l, prev, e)
<1>1. CASE different = {}
  <2>1. a = l
    BY <1>1 DEF Appended
  <2> QED BY <2>1
<1>2. CASE different # {}
  <2> DEFINE k == Min(different)
             head == SubSeq(l, 1, prev + k - 1)
             tail == SubSeq(e, k, Len(e))
  <2>1. different \in SUBSET Nat
    OBVIOUS
  <2>2. k \in different /\ \A i \in different : k <= i
    BY <1>2, <2>1, MinOfNaturals
  <2>3. k \in 1..Len(e)
    BY <2>2
  <2>4. a = head \o tail
    BY <1>2 DEF Appended
  <2>5. prev + k - 1 <= Len(l)
    <3>1. CASE k = 1
      BY <3>1
    <3>2. CASE k # 1
      <4>1. k - 1 \in 1..Len(e) /\ ~(k <= k - 1)
        BY <2>3, <3>2
      <4>2. k - 1 \notin different
        <5> HIDE DEF different
        <5> QED BY <2>2, <4>1
      <4>3. ~(prev + (k - 1) > Len(l))
        BY <4>1, <4>2
      <4> HIDE DEF k
      <4> QED BY <2>3, <4>3
    <3> QED BY <3>1, <3>2
  <2> HIDE DEF different, k, a
  <2>6. /\ head \in Seq(Entries) /\ Len(head) = prev + k - 1
        /\ \A j \in 1..(prev + k - 1) : head[j] = l[j]
    <3>1. \A i \in 1..(prev + k - 1) : l[i] \in Entries
      BY <2>3, <2>5
    <3>2. prev + k - 1 \in Nat
      BY <2>3
    <3> QED BY <3>1, <3>2, SubSeqProperties
  <2>7. /\ tail \in Seq(Entries) /\ Len(tail) = Len(e) - k + 1
        /\ \A j \in 1..(Len(e) - k + 1) : tail[j] = e[k + j - 1]
    <3>1. \A i \in k..Len(e) : e[i] \in Entries
      BY <2>3
    <3> QED BY <2>3, <3>1, SubSeqProperties
  <2> HIDE DEF head, tail
  <2>8. /\ Len(a) = Len(head) + Len(tail) /\ a \in Seq(Entries)
        /\ \A i \in 1..(Len(head) + Len(tail)) : a[i] =
              IF i <= Len(head) THEN head[i] ELSE tail[i - Len(head)]
    BY <2>4, <2>6, <2>7, ConcatProperties
  <2>9. /\ DOMAIN a = 1..(Len(head) + Len(tail))
         /\ Len(head) \in Nat /\ Len(tail) \in Nat /\ Len(l) \in Nat
    BY <2>6, <2>7, <2>8
  <2>10. ASSUME NEW i \in DOMAIN a, i <= Len(head)
        PROVE  i \in DOMAIN l /\ a[i] = l[i]
    <3>1. i \in 1..(prev + k - 1) /\ i \in 1..Len(l)
      BY <2>5, <2>6, <2>10, <2>9
    <3>2. a[i] = head[i]
      BY <2>8, <2>10, <2>9
    <3> QED BY <2>6, <3>1, <3>2
  <2>11. ASSUME NEW i \in DOMAIN a, ~(i <= Len(head))
         PROVE  \E j \in DOMAIN e : i = prev + j /\ a[i] = e[j]
    <3>1. /\ i \in Nat /\ i > prev + k - 1 /\ i <= prev + Len(e)
          /\ Len(head) = prev + k - 1 /\ Len(e) \in Nat
      BY <2>3, <2>6, <2>7, <2>9, <2>11
    <3>2. PICK h \in Nat, len \in Nat : h = Len(head) /\ len = Len(e)
      BY <2>9, <3>1
    <3>3. /\ i \in Nat /\ k \in Nat /\ k >= 1 /\ k <= len
          /\ h = prev + k - 1 /\ i > h /\ i <= prev + len
      BY <2>3, <3>1, <3>2
    <3>4. /\ i - h \in 1..(len - k + 1) /\ k + (i - h) - 1 = i - prev
          /\ i - prev \in 1..len /\ i = prev + (i - prev)
      <4>1. i - h \in Int /\ 1 <= i - h /\ i - h <= len - k + 1
        BY <3>3
      <4>2. i - prev \in Int /\ 1 <= i - prev /\ i - prev <= len
        BY <3>3
      <4>3. k + (i - h) - 1 = i - prev /\ i = prev + (i - prev)
        BY <3>3
      <4> QED BY <3>3, <4>1, <4>2, <4>3
    <3>5. a[i] = tail[i - Len(head)]
      BY <2>8, <2>11, <2>9
    <3>6. a[i] = e[i - prev]
      BY <2>7, <3>2, <3>5, <3>4
    <3> QED BY <3>2, <3>6, <3>4
  <2>12. \A i \in DOMAIN a : \/ i \in DOMAIN l /\ a[i] = l[i]
                             \/ \E j \in DOMAIN e : i = prev + j /\ a[i] = e[j]
    BY <2>10, <2>11
  <2> QED BY <2>12 DEF a
<1> QED BY <1>1, <1>2

\* A broadcast changes no log.
LEMMA BroadcastSameLogs ==
    ASSUME Types, NEW n \in Nodes, NEW p \in Nodes, NEW task, Broadcast(n, p, task)
    PROVE  log' = log
<1> DEFINE request == [term |-> task.term, prevIndex |-> Len(log[n]),
                       prevTerm |-> LastTerm(log[n]), entries |-> << >>,
                       commit |-> task.through]
           reached == {q \in {p} : request.term >= term[q]}
<1>1. Store(reached, request)
  BY DEF Broadcast
<1>2. request.entries = << >>
  OBVIOUS
<1> HIDE DEF request, reached
<1>3. ASSUME NEW q \in Nodes PROVE Stored(q, request).log = log[q]
  <2>1. Appended(log[q], request.prevIndex, request.entries) = log[q]
    BY <1>2, NothingAppended
  <2> QED BY <2>1 DEF Stored
<1>4. log' = [q \in Nodes |-> log[q]]
  BY <1>1, <1>3 DEF Store
<1> QED BY <1>4 DEF Types, TypeOK

\* Elections place nothing.
LEMMA ElectionPlacesNothing ==
    ASSUME Types, NEW n \in Nodes, Election(n)
    PROVE  NothingPlaced
<1>1. issued' = issued /\ apply' = apply
  BY DEF Election, StartElection, RequestVote, VoteRequestLost, CountVote, VoteAnswerLost,
         NoQuorum, BroadcastLost, BecomeLeader, BroadcastAsNewLeader, stateVars
<1>2. log' = log
  <2>1. ASSUME NEW p \in Peers(n), BroadcastAsNewLeader(n, p) PROVE log' = log
    BY <2>1, BroadcastSameLogs DEF BroadcastAsNewLeader, Peers
  <2>2. CASE ~ \E p \in Peers(n) : BroadcastAsNewLeader(n, p)
    BY <2>2 DEF Election, StartElection, RequestVote, VoteRequestLost, CountVote,
                VoteAnswerLost, NoQuorum, BroadcastLost, BecomeLeader, logVars
  <2> QED BY <2>1, <2>2
<1> QED BY <1>1, <1>2, SameLogsPlaceNothing DEF InFlight

\* The receiver's step places nothing.
LEMMA StoreEntriesPlacesNothing ==
    ASSUME Types, NEW n \in Nodes, StoreEntries(n)
    PROVE  NothingPlaced
<1>1. /\ apply[n].pc = "admitted" /\ apply[n].retry \in Nodes /\ apply[n].request \in Requests
      /\ InFlight(n)
  BY ApplyFields DEF StoreEntries, Types, Busy, InFlight
<1>2. PICK p \in Nodes, request \in Requests : p = apply[n].retry /\ request = apply[n].request
  BY <1>1
<1>3. /\ Store({p}, request) /\ issued' = issued
      /\ apply' = [apply EXCEPT ![n] =
            Answered(@, Stored(p, request).success, Stored(p, request).match, term[p])]
  BY <1>2 DEF StoreEntries
<1>4. \A m \in Nodes : apply'[m] = apply[m] \/ apply'[m].pc = "answer"
  BY <1>3 DEF Answered, Types, TypeOK
<1>5. log' = [m \in Nodes |-> IF m = p THEN Stored(p, request).log ELSE log[m]]
  BY <1>3 DEF Store
<1>6. ASSUME NEW i \in DOMAIN Stored(p, request).log
      PROVE  Placed(i, Stored(p, request).log[i].command)
  <2>1. CASE Matches(log[p], request.prevIndex, request.prevTerm)
    <3>1. /\ log[p] \in Seq(Entries) /\ request.entries \in Seq(Entries)
          /\ request.prevIndex \in Nat /\ request.prevIndex <= Len(log[p])
      BY <2>1 DEF Matches, Requests, Types, TypeOK
    <3>2. Stored(p, request).log = Appended(log[p], request.prevIndex, request.entries)
      BY <2>1 DEF Stored
    <3>3. CASE i \in DOMAIN log[p] /\ Stored(p, request).log[i] = log[p][i]
      BY <3>3 DEF Placed
    <3>4. CASE \E k \in DOMAIN request.entries :
                  i = request.prevIndex + k /\ Stored(p, request).log[i] = request.entries[k]
      <4>1. Carries(request, i, Stored(p, request).log[i].command)
        BY <3>4 DEF Carries
      <4> QED BY <1>1, <1>2, <4>1 DEF Placed
    <3> QED BY <1>6, <3>1, <3>2, <3>3, <3>4, AppendedFrom
  <2>2. CASE ~Matches(log[p], request.prevIndex, request.prevTerm)
    <3>1. Stored(p, request).log = log[p]
      BY <2>2 DEF Stored
    <3> QED BY <1>6, <3>1 DEF Placed
  <2> QED BY <2>1, <2>2
<1>7. ASSUME NEW m \in Nodes, NEW i \in DOMAIN log'[m]
      PROVE  Placed(i, log'[m][i].command)
  <2>1. CASE m = p
    BY <1>5, <1>6, <1>7, <2>1
  <2>2. CASE m # p
    <3>1. log'[m] = log[m]
      BY <1>5, <2>2
    <3> QED BY <1>7, <3>1 DEF Placed
  <2> QED BY <2>1, <2>2
<1>8. ASSUME NEW m \in Nodes, InFlight(m)' PROVE InFlight(m) /\ apply'[m] = apply[m]
  BY <1>4, <1>8 DEF InFlight
<1>9. \A m \in Nodes : InFlight(m)' =>
         \A i \in Nat, c \in Commands : Carries(apply'[m].request, i, c) => Placed(i, c)
  BY <1>8 DEF Placed
<1>10. \A m \in Nodes : apply'[m].pc = "push" => apply'[m] = apply[m]
  BY <1>4
<1> QED BY <1>3, <1>7, <1>9, <1>10 DEF NothingPlaced

\* A request carries entries of its sender's log at their places.
LEMMA SendEntriesPlacesNothing ==
    ASSUME Types, NEW n \in Nodes, NEW q \in Peers(n), SendEntries(n, q)
    PROVE  NothingPlaced
<1> DEFINE prev == nextIndex[n][q] - 1
<1>1. /\ issued' = issued /\ log' = log /\ \A m \in Nodes : m # n => apply'[m] = apply[m]
      /\ log[n] \in Seq(Entries) /\ prev \in Nat
  BY DEF SendEntries, logVars, Types, TypeOK
<1>2. \/ apply'[n] = Idle
      \/ /\ prev <= Len(log[n]) /\ apply'[n].pc = "sent"
         /\ apply'[n].request.prevIndex = prev
         /\ apply'[n].request.entries = SubSeq(log[n], prev + 1, Len(log[n]))
  <2>1. CASE prev > Len(log[n])
    BY <2>1 DEF SendEntries, Types, TypeOK
  <2>2. CASE ~(prev > Len(log[n]))
    <3>1. prev <= Len(log[n])
      BY <1>1, <2>2
    <3>2. /\ apply'[n].pc = "sent" /\ apply'[n].request.prevIndex = prev
          /\ apply'[n].request.entries = SubSeq(log[n], prev + 1, Len(log[n]))
      BY <2>2 DEF SendEntries, Types, TypeOK
    <3> QED BY <3>1, <3>2
  <2> QED BY <2>1, <2>2
<1> HIDE DEF prev
<1>3. ASSUME NEW i \in Nat, NEW c, prev <= Len(log[n]),
             NEW k \in DOMAIN SubSeq(log[n], prev + 1, Len(log[n])), i = prev + k,
             SubSeq(log[n], prev + 1, Len(log[n]))[k].command = c
      PROVE  Placed(i, c)
  <2>1. \A j \in (prev + 1)..Len(log[n]) : log[n][j] \in Entries
    BY <1>1
  <2>2. /\ Len(SubSeq(log[n], prev + 1, Len(log[n]))) = Len(log[n]) - prev
        /\ SubSeq(log[n], prev + 1, Len(log[n])) \in Seq(Entries)
        /\ \A j \in 1..(Len(log[n]) - prev) :
              SubSeq(log[n], prev + 1, Len(log[n]))[j] = log[n][prev + j]
    BY <1>1, <1>3, <2>1, SubSeqProperties
  <2>3. k \in 1..(Len(log[n]) - prev)
    BY <1>3, <2>2
  <2>4. i \in DOMAIN log[n] /\ log[n][i].command = c
    BY <1>1, <1>3, <2>2, <2>3
  <2> QED BY <2>4 DEF Placed
<1>4. ASSUME NEW m \in Nodes, InFlight(m)', NEW i \in Nat, NEW c \in Commands,
             Carries(apply'[m].request, i, c)
      PROVE  Placed(i, c)
  <2>1. CASE m = n
    <3>1. /\ prev <= Len(log[n]) /\ apply'[n].request.prevIndex = prev
          /\ apply'[n].request.entries = SubSeq(log[n], prev + 1, Len(log[n]))
      BY <1>2, <1>4, <2>1 DEF InFlight, Idle
    <3>2. PICK k \in DOMAIN SubSeq(log[n], prev + 1, Len(log[n])) :
             i = prev + k /\ SubSeq(log[n], prev + 1, Len(log[n]))[k].command = c
      BY <1>4, <2>1, <3>1 DEF Carries
    <3> QED BY <1>3, <3>1, <3>2
  <2>2. CASE m # n
    BY <1>1, <1>4, <2>2 DEF InFlight, Placed
  <2> QED BY <2>1, <2>2
<1>5. \A m \in Nodes : apply'[m].pc = "push" => apply'[m] = apply[m]
  BY <1>1, <1>2 DEF Idle
<1>6. \A m \in Nodes : \A i \in DOMAIN log'[m] : Placed(i, log'[m][i].command)
  BY <1>1 DEF Placed
<1> QED BY <1>1, <1>4, <1>5, <1>6 DEF NothingPlaced

\* The steps of an apply that change no log and send nothing.
LEMMA ApplyPlacesNothing ==
    ASSUME Types, NEW n \in Nodes,
           \/ AdmitEntries(n) \/ HandleAnswer(n) \/ AppendFails(n) \/ CommitEntry(n)
           \/ \E p \in Peers(n) : BroadcastCommit(n, p)
    PROVE  NothingPlaced
<1>1. issued' = issued /\ \A m \in Nodes : m # n => apply'[m] = apply[m]
  BY DEF AdmitEntries, HandleAnswer, AppendFails, CommitEntry, BroadcastCommit, Types, TypeOK
<1>2. log' = log
  <2>1. ASSUME NEW p \in Peers(n), BroadcastCommit(n, p) PROVE log' = log
    BY <2>1, BroadcastSameLogs DEF BroadcastCommit, Peers
  <2>2. CASE AdmitEntries(n) \/ HandleAnswer(n) \/ AppendFails(n) \/ CommitEntry(n)
    BY <2>2 DEF AdmitEntries, HandleAnswer, AppendFails, CommitEntry, logVars
  <2> QED BY <2>1, <2>2
<1>3. apply'[n].pc # "push" /\ (InFlight(n)' => InFlight(n) /\ apply'[n].request = apply[n].request)
  <2>1. CASE AdmitEntries(n)
    BY <2>1 DEF AdmitEntries, Answered, InFlight, Types, TypeOK
  <2>2. CASE HandleAnswer(n)
    BY <2>2 DEF HandleAnswer, Replicating, Idle, InFlight, Types, TypeOK
  <2>3. CASE AppendFails(n)
    BY <2>3 DEF AppendFails, Idle, InFlight, Types, TypeOK
  <2>4. CASE CommitEntry(n)
    <3>1. apply'[n] = Announcing(term[n], apply[n].through, Peers(n))
      BY <2>4 DEF CommitEntry, Types, TypeOK
    <3>2. apply'[n].pc \in {"idle", "broadcast"}
      BY <3>1, AnnouncingIs
    <3> QED BY <3>2 DEF InFlight
  <2>5. ASSUME NEW p \in Peers(n), BroadcastCommit(n, p)
        PROVE  apply'[n].pc # "push" /\ ~InFlight(n)'
    <3>1. apply'[n] = Announcing(apply[n].term, apply[n].through, apply[n].peers \ {p})
      BY <2>5 DEF BroadcastCommit, Types, TypeOK
    <3>2. apply'[n].pc \in {"idle", "broadcast"}
      BY <3>1, AnnouncingIs
    <3> QED BY <3>2 DEF InFlight
  <2> QED BY <2>1, <2>2, <2>3, <2>4, <2>5
<1>4. /\ \A m \in Nodes : apply'[m].pc = "push" => apply'[m] = apply[m]
      /\ \A m \in Nodes : InFlight(m)' => InFlight(m) /\ apply'[m].request = apply[m].request
  BY <1>1, <1>3 DEF InFlight
<1> QED BY <1>1, <1>2, <1>4, SameLogsPlaceNothing

\* A new command has no place yet.
LEMMA BeginApplyKeepsPlaces ==
    ASSUME Types, OnePlace, NEW n \in Nodes, BeginApply(n)
    PROVE  OnePlace'
<1>1. /\ issued' = issued + 1 /\ issued \in Nat /\ log' = log /\ apply[n].pc = "idle"
      /\ apply'[n] = [pc |-> "push", term |-> term[n], command |-> issued + 1]
      /\ \A m \in Nodes : m # n => apply'[m] = apply[m]
  BY DEF BeginApply, logVars, Types, TypeOK
<1>2. ASSUME NEW i \in Nat, NEW c, Placed(i, c)' PROVE Placed(i, c)
  <2>1. PICK m \in Nodes : \/ i \in DOMAIN log[m] /\ log[m][i].command = c
                           \/ InFlight(m)' /\ Carries(apply'[m].request, i, c)
    BY <1>1, <1>2 DEF Placed, Carries
  <2>2. InFlight(m)' => InFlight(m) /\ apply'[m] = apply[m]
    BY <1>1 DEF InFlight
  <2> QED BY <2>1, <2>2 DEF Placed
<1>3. \A c \in Commands : c <= issued => c <= issued' /\ c # issued + 1
  BY <1>1 DEF Commands
<1>4. \A i, j \in Nat, c \in Commands : Placed(i, c)' /\ Placed(j, c)' => i = j
  BY <1>2 DEF OnePlace
<1>5. \A i \in Nat, c \in Commands : Placed(i, c)' => c <= issued'
  BY <1>2, <1>3 DEF OnePlace
<1>6. issued + 1 \in Commands
  BY <1>1 DEF BeginApply, Commands
<1>7. ASSUME NEW m \in Nodes, (apply[m].pc = "push")'
      PROVE  (apply[m].command <= issued /\ \A i \in Nat : ~Placed(i, apply[m].command))'
  <2>1. PICK c \in Commands : c = apply'[m].command /\ c <= issued' /\ \A i \in Nat : ~Placed(i, c)
    <3>1. CASE m = n
      <4>1. \A i \in Nat : ~Placed(i, issued + 1)
        BY <1>3, <1>6 DEF OnePlace
      <4> QED BY <1>1, <1>6, <3>1, <4>1
    <3>2. CASE m # n
      <4>1. apply[m].pc = "push" /\ apply'[m].command = apply[m].command
        BY <1>1, <1>7, <3>2
      <4>2. apply[m].command \in Commands
        BY <4>1, ApplyFields DEF Types
      <4> QED BY <1>3, <4>1, <4>2 DEF OnePlace
    <3> QED BY <3>1, <3>2
  <2>2. \A i \in Nat : ~Placed(i, c)'
    BY <1>2, <2>1
  <2> QED BY <2>1, <2>2 DEF Placed
<1>8. ASSUME NEW m \in Nodes, NEW k \in Nodes, (apply[m].pc = "push" /\ apply[k].pc = "push")',
             (apply[m].command = apply[k].command)'
      PROVE  m = k
  <2>1. \A j \in Nodes : j # n /\ apply'[j].pc = "push" =>
           apply[j].pc = "push" /\ apply'[j].command = apply[j].command /\ apply[j].command # issued + 1
    <3> SUFFICES ASSUME NEW j \in Nodes, j # n, apply'[j].pc = "push"
                 PROVE  /\ apply[j].pc = "push" /\ apply'[j].command = apply[j].command
                        /\ apply[j].command # issued + 1
      OBVIOUS
    <3>1. apply[j].pc = "push" /\ apply'[j].command = apply[j].command
      BY <1>1
    <3>2. apply[j].command \in Commands /\ apply[j].command <= issued
      BY <3>1, ApplyFields DEF Types, OnePlace
    <3> QED BY <1>3, <3>1, <3>2
  <2>2. CASE m # n /\ k # n
    BY <1>8, <2>1, <2>2 DEF OnePlace
  <2>3. CASE m = n \/ k = n
    BY <1>1, <1>8, <2>1, <2>3
  <2> QED BY <2>2, <2>3
<1> QED BY <1>4, <1>5, <1>7, <1>8 DEF OnePlace

\* It gets one when it is pushed, the end of one log.
LEMMA PushEntryKeepsPlaces ==
    ASSUME Types, OnePlace, NEW n \in Nodes, PushEntry(n)
    PROVE  OnePlace'
<1>1. PICK c \in Commands : c = apply[n].command /\ apply[n].pc = "push"
  BY ApplyFields DEF PushEntry, Types
<1>2. /\ issued' = issued /\ apply'[n].pc = "replicate"
      /\ \A m \in Nodes : m # n => apply'[m] = apply[m] /\ log'[m] = log[m]
      /\ log[n] \in Seq(Entries)
  BY DEF PushEntry, Types, TypeOK
<1>3. PICK e : e.command = c /\ log'[n] = Append(log[n], e)
  BY <1>1 DEF PushEntry, Types, TypeOK
<1>4. /\ DOMAIN log'[n] = 1..(Len(log[n]) + 1)
      /\ \A i \in 1..Len(log[n]) : i \in DOMAIN log[n] /\ log'[n][i] = log[n][i]
      /\ log'[n][Len(log[n]) + 1] = e
  BY <1>2, <1>3, AppendProperties
<1>5. ASSUME NEW i \in Nat, NEW d, Placed(i, d)'
      PROVE  Placed(i, d) \/ (d = c /\ i = Len(log[n]) + 1)
  <2>1. PICK m \in Nodes : \/ i \in DOMAIN log'[m] /\ log'[m][i].command = d
                           \/ InFlight(m)' /\ Carries(apply'[m].request, i, d)
    BY <1>5 DEF Placed, Carries
  <2>2. CASE m = n
    <3>1. i \in DOMAIN log'[n] /\ log'[n][i].command = d
      BY <1>2, <2>1, <2>2 DEF InFlight
    <3>2. i \in 1..Len(log[n]) \/ i = Len(log[n]) + 1
      BY <1>2, <1>4, <3>1
    <3> QED BY <1>3, <1>4, <3>1, <3>2 DEF Placed
  <2>3. CASE m # n
    BY <1>2, <2>1, <2>3 DEF InFlight, Placed
  <2> QED BY <2>2, <2>3
<1>6. c <= issued /\ \A i \in Nat : ~Placed(i, c)
  BY <1>1 DEF OnePlace
<1>7. \A i, j \in Nat, d \in Commands : Placed(i, d)' /\ Placed(j, d)' => i = j
  BY <1>5, <1>6 DEF OnePlace
<1>8. \A i \in Nat, d \in Commands : Placed(i, d)' => d <= issued'
  BY <1>2, <1>5, <1>6 DEF OnePlace
<1>9. \A m \in Nodes : apply'[m].pc = "push" =>
         m # n /\ apply[m].pc = "push" /\ apply'[m].command = apply[m].command
  BY <1>2
<1>10. ASSUME NEW m \in Nodes, (apply[m].pc = "push")'
       PROVE  (apply[m].command <= issued /\ \A i \in Nat : ~Placed(i, apply[m].command))'
  <2>1. m # n /\ apply[m].pc = "push" /\ apply'[m].command = apply[m].command
    BY <1>9, <1>10
  <2>2. PICK d \in Commands : d = apply[m].command /\ d = apply'[m].command
    BY <2>1, ApplyFields DEF Types
  <2>3. d # c /\ d <= issued /\ \A i \in Nat : ~Placed(i, d)
    BY <1>1, <2>1, <2>2 DEF OnePlace
  <2>4. \A i \in Nat : ~Placed(i, d)'
    BY <1>5, <2>3
  <2> QED BY <1>2, <2>2, <2>3, <2>4 DEF Placed
<1>11. \A m, k \in Nodes :
          apply'[m].pc = "push" /\ apply'[k].pc = "push" /\ apply'[m].command = apply'[k].command
              => m = k
  BY <1>9 DEF OnePlace
<1> QED BY <1>7, <1>8, <1>10, <1>11 DEF OnePlace

\* Every step keeps each command at one place.
LEMMA PlacesStep == Types /\ OnePlace /\ [Next]_vars => OnePlace'
<1> SUFFICES ASSUME Types, OnePlace, [Next]_vars PROVE OnePlace'
  OBVIOUS
<1>1. ASSUME NEW n \in Nodes, Election(n) PROVE OnePlace'
  BY <1>1, ElectionPlacesNothing, NothingPlacedKeeps
<1>2. ASSUME NEW n \in Nodes, Apply(n) PROVE OnePlace'
  <2>1. CASE BeginApply(n)
    BY <2>1, BeginApplyKeepsPlaces
  <2>2. CASE PushEntry(n)
    BY <2>2, PushEntryKeepsPlaces
  <2>3. ASSUME NEW q \in Peers(n), SendEntries(n, q) PROVE OnePlace'
    BY <2>3, SendEntriesPlacesNothing, NothingPlacedKeeps
  <2>4. CASE StoreEntries(n)
    BY <2>4, StoreEntriesPlacesNothing, NothingPlacedKeeps
  <2>5. CASE \/ AdmitEntries(n) \/ HandleAnswer(n) \/ AppendFails(n) \/ CommitEntry(n)
             \/ \E p \in Peers(n) : BroadcastCommit(n, p)
    BY <2>5, ApplyPlacesNothing, NothingPlacedKeeps
  <2> QED BY <1>2, <2>1, <2>2, <2>3, <2>4, <2>5 DEF Apply
<1>3. CASE UNCHANGED vars
  BY <1>3 DEF vars, OnePlace, Placed, InFlight, Carries
<1> QED BY <1>1, <1>2, <1>3 DEF Next

----------------------------------------------------------------------------
(* What the users of the log see.                                          *)

\* apply_committed_entries never takes a command back, and gets to the commit
\* index or the end of the log.
LEMMA CommittedReaches ==
    ASSUME NEW done \in Seq(Commands), NEW l \in Seq(Entries), NEW commit \in Nat
    PROVE  /\ Len(done) <= Len(CommitUpTo(done, l, commit))
           /\ Min({commit, Len(l)}) <= Len(CommitUpTo(done, l, commit))
<1> DEFINE top == Min({commit, Len(l)})
           more == [i \in 1..(top - Len(done)) |-> l[Len(done) + i].command]
<1>1. top \in Nat /\ top <= Len(l) /\ Len(done) \in Nat
  BY LesserOf
<1>2. CommitUpTo(done, l, commit) = done \o more
  BY DEF CommitUpTo
<1> HIDE DEF top
<1>3. CASE top - Len(done) \in Nat
  <2> DEFINE k == top - Len(done)
  <2>1. \A i \in 1..k : l[Len(done) + i].command \in Commands
    <3> SUFFICES ASSUME NEW i \in 1..k
                 PROVE  l[Len(done) + i].command \in Commands
      OBVIOUS
    <3>1. Len(done) + i \in 1..Len(l)
      BY <1>1, <1>3
    <3>2. l[Len(done) + i] \in Entries
      BY <3>1
    <3> QED BY <3>2 DEF Entries
  <2>2. more \in [1..k -> Commands]
    BY <2>1
  <2>3. more \in Seq(Commands) /\ Len(more) = k
    <3> HIDE DEF more, k
    <3>1. k \in Nat
      BY <1>3 DEF k
    <3> QED BY <2>2, <3>1
  <2> HIDE DEF more
  <2>4. Len(done \o more) = Len(done) + Len(more)
    BY <2>3, ConcatProperties
  <2>5. Len(done \o more) = top /\ Len(done) <= top
    BY <1>1, <1>3, <2>3, <2>4
  <2> QED BY <1>1, <1>2, <2>5 DEF top
<1>4. CASE top - Len(done) \notin Nat
  <2>1. more = << >> /\ top <= Len(done)
    BY <1>1, <1>4
  <2>2. done \o << >> = done
    OBVIOUS
  <2>3. CommitUpTo(done, l, commit) = done
    BY <1>2, <2>1, <2>2
  <2> QED BY <1>1, <2>1, <2>3 DEF top
<1> QED BY <1>3, <1>4

Longer(new, old) == Len(old) <= Len(new) /\ \A i \in 1..Len(old) : new[i] = old[i]

\* CommitUpTo only adds.
LEMMA CommittedLonger ==
    ASSUME NEW done \in Seq(Commands), NEW l \in Seq(Entries), NEW commit \in Nat
    PROVE  Longer(CommitUpTo(done, l, commit), done)
<1>1. /\ CommitUpTo(done, l, commit) \in Seq(Commands)
      /\ Len(done) <= Len(CommitUpTo(done, l, commit))
  BY CommittedUpTo, CommittedReaches
<1>2. ASSUME NEW i \in 1..Len(done) PROVE CommitUpTo(done, l, commit)[i] = done[i]
  <2>1. i \in DOMAIN CommitUpTo(done, l, commit) /\ i <= Len(done)
    BY <1>1
  <2> QED BY <2>1, CommittedUpTo
<1> QED BY <1>1, <1>2 DEF Longer

MoreCommitted == \A n \in Nodes : Longer(committed'[n], committed[n])

\* The nodes a request reaches commit more.
LEMMA StoreCommitsMore ==
    ASSUME Types, NEW S \in SUBSET Nodes, NEW request, request.prevIndex \in Nat,
           request.entries \in Seq(Entries), request.commit \in Nat, Store(S, request)
    PROVE  MoreCommitted
<1> SUFFICES ASSUME NEW n \in Nodes PROVE Longer(committed'[n], committed[n])
  BY DEF MoreCommitted
<1>1. committed[n] \in Seq(Commands)
  BY DEF Types, TypeOK
<1>2. CASE n \in S
  <2>1. Stored(n, request).log \in Seq(Entries) /\ Stored(n, request).commit \in Nat
    BY StoredTypes
  <2>2. committed'[n] = CommitUpTo(committed[n], Stored(n, request).log, Stored(n, request).commit)
    BY <1>2 DEF Store
  <2> QED BY <1>1, <2>1, <2>2, CommittedLonger
<1>3. CASE n \notin S
  <2>1. committed'[n] = committed[n]
    BY <1>3 DEF Store
  <2> QED BY <1>1, <2>1 DEF Longer
<1> QED BY <1>2, <1>3

\* So are those of a broadcast.
LEMMA BroadcastCommitsMore ==
    ASSUME Types, NEW n \in Nodes, NEW p \in Peers(n), NEW task,
           task.through \in Nat, Broadcast(n, p, task)
    PROVE  MoreCommitted
<1> DEFINE request == [term |-> task.term, prevIndex |-> Len(log[n]),
                       prevTerm |-> LastTerm(log[n]), entries |-> << >>,
                       commit |-> task.through]
           reached == {q \in {p} : request.term >= term[q]}
<1>1. reached \in SUBSET Nodes
  BY DEF Peers
<1>2. Store(reached, request)
  BY DEF Broadcast
<1>3. request.prevIndex \in Nat /\ request.entries \in Seq(Entries) /\ request.commit \in Nat
  BY DEF Types, TypeOK
<1> HIDE DEF reached, request
<1> QED BY <1>1, <1>2, <1>3, StoreCommitsMore

\* Some node took what was acknowledged for committed.
AckedCommitted ==
    \A a \in acked : a.index \in Nat /\ \E n \in Nodes : a.index <= Len(committed[n])

LEMMA CommittedLengths ==
    Types /\ Types' =>
        \A n \in Nodes : Len(committed[n]) \in Nat /\ Len(committed'[n]) \in Nat
<1> SUFFICES ASSUME Types, Types', NEW n \in Nodes
             PROVE  Len(committed[n]) \in Nat /\ Len(committed'[n]) \in Nat
  OBVIOUS
<1>1. committed[n] \in Seq(Commands)
  BY DEF Types, TypeOK
<1>2. committed'[n] \in Seq(Commands)
  BY DEF Types, TypeOK
<1> QED BY <1>1, <1>2

\* And it has for ever, as nodes only commit more.
LEMMA AckedStaysCommitted ==
    ASSUME Types, Types', AckedCommitted, MoreCommitted, acked' = acked
    PROVE  AckedCommitted'
<1> SUFFICES ASSUME NEW a \in acked
             PROVE  a.index \in Nat /\ \E n \in Nodes : a.index <= Len(committed'[n])
  BY DEF AckedCommitted
<1>1. PICK n \in Nodes : a.index \in Nat /\ a.index <= Len(committed[n])
  BY DEF AckedCommitted
<1>2. /\ Len(committed[n]) <= Len(committed'[n])
      /\ Len(committed[n]) \in Nat /\ Len(committed'[n]) \in Nat
  BY CommittedLengths DEF MoreCommitted, Longer
<1> QED BY <1>1, <1>2

\* The leader that acknowledges a command commits it.
LEMMA CommitEntryCommitsMore ==
    ASSUME Types, Types', AckedCommitted, NEW n \in Nodes, CommitEntry(n)
    PROVE  MoreCommitted /\ acked \subseteq acked' /\ AckedCommitted'
<1> DEFINE through == apply[n].through
<1>1. through \in Nat /\ log[n] \in Seq(Entries) /\ committed[n] \in Seq(Commands)
  BY ApplyFields DEF CommitEntry, Types, TypeOK, Busy
<1>2. /\ committed'[n] = CommitUpTo(committed[n], log[n], through)
      /\ \A m \in Nodes : m # n => committed'[m] = committed[m]
      /\ acked' = IF through <= Len(log[n])
                  THEN acked \cup {[index |-> through, entry |-> log[n][through]]} ELSE acked
  BY DEF CommitEntry, Types, TypeOK
<1> HIDE DEF through
<1>3. MoreCommitted
  <2>1. Longer(committed'[n], committed[n])
    BY <1>1, <1>2, CommittedLonger
  <2>2. ASSUME NEW m \in Nodes, m # n PROVE Longer(committed'[m], committed[m])
    <3>1. committed'[m] = committed[m] /\ committed[m] \in Seq(Commands)
      BY <1>2, <2>2 DEF Types, TypeOK
    <3> QED BY <3>1 DEF Longer
  <2> QED BY <2>1, <2>2 DEF MoreCommitted
<1>4. CASE through <= Len(log[n])
  <2>1. Min({through, Len(log[n])}) = through
    BY <1>1, <1>4, LesserOf
  <2>2. through <= Len(committed'[n])
    BY <1>1, <1>2, <2>1, CommittedReaches
  <2>3. ASSUME NEW a \in acked
        PROVE  a.index \in Nat /\ \E m \in Nodes : a.index <= Len(committed'[m])
    <3>1. PICK m \in Nodes : a.index \in Nat /\ a.index <= Len(committed[m])
      BY DEF AckedCommitted
    <3>2. /\ Len(committed[m]) <= Len(committed'[m])
          /\ Len(committed[m]) \in Nat /\ Len(committed'[m]) \in Nat
      BY <1>3, CommittedLengths DEF MoreCommitted, Longer
    <3> QED BY <3>1, <3>2
  <2> QED BY <1>1, <1>2, <1>3, <1>4, <2>2, <2>3 DEF AckedCommitted
<1>5. CASE ~(through <= Len(log[n]))
  <2>1. acked' = acked
    BY <1>2, <1>5
  <2> QED BY <1>3, <2>1, AckedStaysCommitted
<1> QED BY <1>4, <1>5

\* Every step commits more or nothing, and forgets no acknowledgement.
LEMMA CommittedStep ==
    ASSUME Types, Types', AckedCommitted, [Next]_vars
    PROVE  MoreCommitted /\ acked \subseteq acked' /\ AckedCommitted'
<1> DEFINE Goal == MoreCommitted /\ acked \subseteq acked' /\ AckedCommitted'
<1>1. ASSUME committed' = committed, acked' = acked PROVE Goal
  <2>1. MoreCommitted
    BY <1>1 DEF MoreCommitted, Longer, Types, TypeOK
  <2> QED BY <1>1, <2>1, AckedStaysCommitted
<1>2. ASSUME MoreCommitted, acked' = acked PROVE Goal
  BY <1>2, AckedStaysCommitted
<1>3. ASSUME NEW n \in Nodes, Election(n) PROVE Goal
  <2>1. ASSUME NEW p \in Peers(n), BroadcastAsNewLeader(n, p) PROVE Goal
    <3>1. /\ acked' = acked /\ Broadcast(n, p, election[n])
          /\ election[n].through \in Nat
      BY <2>1, ElectionFields DEF BroadcastAsNewLeader, Types
    <3> HIDE DEF Goal
    <3> QED BY <1>2, <3>1, BroadcastCommitsMore
  <2>2. CASE ~ \E p \in Peers(n) : BroadcastAsNewLeader(n, p)
    <3>1. committed' = committed /\ acked' = acked
      BY <1>3, <2>2 DEF Election, StartElection, RequestVote, VoteRequestLost, CountVote,
                        VoteAnswerLost, NoQuorum, BroadcastLost, BecomeLeader, logVars
    <3> HIDE DEF Goal
    <3> QED BY <1>1, <3>1
  <2> QED BY <2>1, <2>2
<1>4. ASSUME NEW n \in Nodes, Apply(n) PROVE Goal
  <2>1. ASSUME NEW p \in Peers(n), BroadcastCommit(n, p) PROVE Goal
    <3>1. /\ acked' = acked /\ Broadcast(n, p, apply[n])
          /\ apply[n].through \in Nat
      BY <2>1, ApplyFields DEF BroadcastCommit, Types
    <3> HIDE DEF Goal
    <3> QED BY <1>2, <3>1, BroadcastCommitsMore
  <2>2. CASE CommitEntry(n)
    BY <2>2, CommitEntryCommitsMore
  <2>3. CASE StoreEntries(n)
    <3>1. /\ apply[n].retry \in Nodes /\ apply[n].request \in Requests
          /\ Store({apply[n].retry}, apply[n].request) /\ acked' = acked
      BY <2>3, ApplyFields DEF StoreEntries, Types, Busy
    <3>2. PICK p \in Nodes, request \in Requests : p = apply[n].retry /\ request = apply[n].request
      BY <3>1
    <3>3. /\ {p} \in SUBSET Nodes /\ request.prevIndex \in Nat
          /\ request.entries \in Seq(Entries) /\ request.commit \in Nat
      BY DEF Requests
    <3>4. Store({p}, request)
      BY <3>1, <3>2
    <3>5. MoreCommitted
      BY <3>3, <3>4, StoreCommitsMore
    <3> HIDE DEF Goal
    <3> QED BY <1>2, <3>1, <3>5
  <2>4. CASE \/ BeginApply(n) \/ PushEntry(n) \/ AdmitEntries(n) \/ HandleAnswer(n)
             \/ AppendFails(n) \/ \E p \in Peers(n) : SendEntries(n, p)
    <3>1. committed' = committed /\ acked' = acked
      BY <2>4 DEF BeginApply, PushEntry, AdmitEntries, HandleAnswer, AppendFails,
                  SendEntries, logVars
    <3> HIDE DEF Goal
    <3> QED BY <1>1, <3>1
  <2> QED BY <1>4, <2>1, <2>2, <2>3, <2>4 DEF Apply
<1>5. CASE UNCHANGED vars
  <2>1. committed' = committed /\ acked' = acked
    BY <1>5 DEF vars
  <2>2. Goal
    <3> HIDE DEF Goal
    <3> QED BY <1>1, <2>1
  <2> QED BY <2>2
<1> QED BY <1>3, <1>4, <1>5 DEF Next

LogUsers == OnePlace /\ AckedCommitted

LEMMA InitLogUsers == Init => LogUsers
<1> SUFFICES ASSUME Init PROVE LogUsers
  OBVIOUS
<1>1. /\ acked = {} /\ \A n \in Nodes : log[n] = << >> /\ apply[n].pc = "idle"
  BY DEF Init, Idle
<1>2. \A i, c : ~Placed(i, c)
  BY <1>1 DEF Placed, InFlight
<1> QED BY <1>1, <1>2 DEF LogUsers, OnePlace, AckedCommitted

\* It holds always.
LEMMA LogUsersInvariant == Spec => []LogUsers
<1>1. LogUsers /\ Types /\ Types' /\ [Next]_vars => LogUsers'
  BY PlacesStep, CommittedStep DEF LogUsers
<1>2. LogsInv => Types
  BY DEF LogsInv
<1> QED BY <1>1, <1>2, InitLogUsers, LogInvariant, PTL DEF Spec

\* Until a task goes on in a term it did not start in, no command is at two places
\* of the logs and of the requests that can still be stored: a retry one entry
\* earlier and a new leader's requests bring it to the place it has.
THEOREM CommandsKeepTheirPlace == Spec => [](~overtaken => OnePlace)
<1>1. LogUsers => (~overtaken => OnePlace)
  BY DEF LogUsers
<1> QED BY <1>1, LogUsersInvariant, PTL

\* No node committed more than the foremost.
LEMMA ForemostIs ==
    ASSUME Types, CommittedInEveryLog, ~overtaken
    PROVE  Foremost \in Nodes /\ \A m \in Nodes : Len(committed[m]) <= Len(committed[Foremost])
<1> DEFINE lengths == {Len(committed[m]) : m \in Nodes}
<1>1. PICK p \in Nodes : TRUE
  BY NodesAssumption
<1>2. \A m \in Nodes : Len(committed[m]) \in Nat /\ Len(log[m]) \in Nat
  BY DEF Types, TypeOK
<1>3. ASSUME NEW m \in Nodes PROVE Len(committed[m]) <= Len(log[p])
  <2>1. CASE Len(committed[m]) = 0
    BY <1>2, <2>1
  <2>2. CASE Len(committed[m]) # 0
    <3>1. Len(committed[m]) \in 1..Len(committed[m])
      BY <1>2, <2>2
    <3> QED BY <3>1 DEF CommittedInEveryLog
  <2> QED BY <2>1, <2>2
<1>4. lengths \in SUBSET Nat /\ lengths # {} /\ \A x \in lengths : x <= Len(log[p])
  BY <1>1, <1>2, <1>3
<1>5. Max(lengths) \in lengths /\ \A x \in lengths : x <= Max(lengths)
  <2> HIDE DEF lengths
  <2> QED BY <1>1, <1>2, <1>4, MaxOfNaturals
<1>6. \E n \in Nodes : \A m \in Nodes : Len(committed[m]) <= Len(committed[n])
  BY <1>5
<1> QED BY <1>6 DEF Foremost

\* What the logs say of acknowledgements, from the invariant of the log.
LEMMA AckedInLogs == LogsInv /\ ~overtaken => \A a \in acked : a.index # 0
<1> SUFFICES ASSUME LogsInv, ~overtaken, NEW a \in acked PROVE a.index # 0
  OBVIOUS
<1>1. PICK p \in Nodes : TRUE
  BY NodesAssumption
<1>2. a.index \in DOMAIN log[p]
  BY DEF LogsInv, LogInv, AckedKept, Has
<1>3. log[p] \in Seq(Entries)
  BY Numbers DEF LogsInv
<1> QED BY <1>2, <1>3

Agreed == Types /\ CommittedInEveryLog /\ OnePlace /\ AckedCommitted

\* The foremost committed what all others did, each command once, and every
\* acknowledged command at its place.
Decided ==
    ~overtaken =>
        /\ Foremost \in Nodes /\ committed[Foremost] \in Seq(Commands)
        /\ \A n \in Nodes : Longer(committed[Foremost], committed[n])
        /\ \A i \in 1..Len(committed[Foremost]) :
              /\ committed[Foremost][i] \in 1..issued
              /\ \A j \in 1..Len(committed[Foremost]) :
                    committed[Foremost][i] = committed[Foremost][j] => i = j
        /\ \A a \in acked : /\ a.index \in 1..Len(committed[Foremost])
                            /\ committed[Foremost][a.index] = a.entry.command

\* It has while no task was overtaken.
LEMMA ForemostDecides == LogsInv /\ Agreed /\ AckedOnEveryNode => Decided
<1> SUFFICES ASSUME LogsInv, Agreed, AckedOnEveryNode, ~overtaken PROVE Decided
  BY DEF Decided
<1>1. PICK f \in Nodes : f = Foremost
  BY ForemostIs DEF Agreed
<1>2. \A m \in Nodes : /\ committed[m] \in Seq(Commands) /\ Len(committed[m]) <= Len(committed[f])
                       /\ log[m] \in Seq(Entries)
  BY <1>1, ForemostIs DEF Agreed, Types, TypeOK
<1>3. \A n \in Nodes : \A i \in 1..Len(committed[n]) :
         i <= Len(log[f]) /\ log[f][i].command = committed[n][i]
  BY DEF Agreed, CommittedInEveryLog
<1>4. ASSUME NEW n \in Nodes PROVE Longer(committed[f], committed[n])
  <2>1. \A i \in 1..Len(committed[n]) : i \in 1..Len(committed[f])
    BY <1>2
  <2> QED BY <1>2, <1>3, <2>1 DEF Longer
<1>5. \A i \in 1..Len(committed[f]) : committed[f][i] \in Commands /\ Placed(i, committed[f][i])
  <2> SUFFICES ASSUME NEW i \in 1..Len(committed[f])
               PROVE  committed[f][i] \in Commands /\ Placed(i, committed[f][i])
    OBVIOUS
  <2>1. committed[f][i] \in Commands
    BY <1>2
  <2>2. i \in DOMAIN log[f] /\ log[f][i].command = committed[f][i]
    BY <1>2, <1>3
  <2> QED BY <2>1, <2>2 DEF Placed
<1>6. \A i \in 1..Len(committed[f]) :
         /\ committed[f][i] \in 1..issued
         /\ \A j \in 1..Len(committed[f]) : committed[f][i] = committed[f][j] => i = j
  <2> SUFFICES ASSUME NEW i \in 1..Len(committed[f])
               PROVE  /\ committed[f][i] \in 1..issued
                      /\ \A j \in 1..Len(committed[f]) : committed[f][i] = committed[f][j] => i = j
    OBVIOUS
  <2>1. PICK c \in Commands : c = committed[f][i] /\ Placed(i, c) /\ i \in Nat
    BY <1>5
  <2>2. c <= issued /\ issued \in Nat /\ c \in Nat /\ c >= 1
    BY <2>1 DEF Agreed, OnePlace, Types, TypeOK, Commands
  <2>3. ASSUME NEW j \in 1..Len(committed[f]), c = committed[f][j] PROVE i = j
    <3>1. j \in Nat /\ Placed(j, c)
      BY <1>5, <2>3
    <3> QED BY <2>1, <3>1 DEF Agreed, OnePlace
  <2> QED BY <2>1, <2>2, <2>3
<1>7. ASSUME NEW a \in acked
      PROVE  a.index \in 1..Len(committed[f]) /\ committed[f][a.index] = a.entry.command
  <2>1. PICK n \in Nodes : a.index \in Nat /\ a.index <= Len(committed[n])
    BY DEF Agreed, AckedCommitted
  <2>2. a.index \in 1..Len(committed[f])
    BY <1>2, <2>1, AckedInLogs
  <2>3. log[f][a.index] = a.entry
    BY DEF AckedOnEveryNode
  <2> QED BY <1>3, <2>2, <2>3
<1> QED BY <1>1, <1>2, <1>4, <1>6, <1>7 DEF Decided

\* What is decided is decided, in every state.
LEMMA LogDecides == Spec => []Decided
<1>1. LogsInv /\ LogUsers /\ CommittedInEveryLog => Agreed
  BY DEF Agreed, LogsInv, LogUsers
<1> QED BY <1>1, ForemostDecides, LogInvariant, LogUsersInvariant, CommittedStaysInLogs,
           AckedStaysEverywhere, PTL

\* A step that is not overtaken follows a state that was not.
LEMMA StepNotOvertaken ==
    ASSUME VInv, [Next]_vars, ~overtaken'
    PROVE  ~overtaken
<1>1. CASE Next
  BY <1>1, OvertakenStays DEF Next, VInv
<1>2. CASE UNCHANGED vars
  BY <1>2 DEF vars
<1> QED BY <1>1, <1>2

\* A new command changes nothing else a user sees.
LEMMA BeginApplyGives ==
    ASSUME NEW n \in Nodes, BeginApply(n)
    PROVE  Contract!Give
<1>1. issued' = issued + 1 /\ committed' = committed /\ acked' = acked
  BY DEF BeginApply, logVars
<1>2. committed[Foremost]' = committed[Foremost]
  BY <1>1 DEF Foremost
<1> QED BY <1>1, <1>2 DEF Contract!Give

\* Only BeginApply counts commands.
LEMMA OthersGiveNothing ==
    ASSUME [Next]_vars, ~ \E n \in Nodes : BeginApply(n)
    PROVE  issued' = issued
<1>1. ASSUME NEW n \in Nodes, Election(n) PROVE issued' = issued
  BY <1>1 DEF Election, StartElection, RequestVote, VoteRequestLost, CountVote,
              VoteAnswerLost, NoQuorum, BroadcastLost, BecomeLeader, BroadcastAsNewLeader
<1>2. ASSUME NEW n \in Nodes, Apply(n) PROVE issued' = issued
  BY <1>2 DEF Apply, PushEntry, SendEntries, AdmitEntries, StoreEntries, HandleAnswer,
              AppendFails, CommitEntry, BroadcastCommit
<1>3. CASE UNCHANGED vars
  BY <1>3 DEF vars
<1> QED BY <1>1, <1>2, <1>3 DEF Next

\* Every other step is one of Progress: the foremost still has what was decided
\* before, and what it committed since is past it.
LEMMA StepProgresses ==
    ASSUME VInv, Types, Types', AckedCommitted, Decided, Decided', [Next]_vars, ~overtaken',
           issued' = issued
    PROVE  Contract!Progress
<1>1. ~overtaken
  BY StepNotOvertaken
<1>2. MoreCommitted /\ acked \subseteq acked'
  BY CommittedStep
<1>3. Foremost \in Nodes /\ committed[Foremost] \in Seq(Commands)
  BY <1>1 DEF Decided
<1>4. /\ Foremost' \in Nodes /\ committed[Foremost]' \in Seq(Commands)
      /\ \A n \in Nodes : Longer(committed[Foremost]', committed'[n])
      /\ \A i \in 1..Len(committed[Foremost]') :
            /\ committed[Foremost]'[i] \in 1..issued'
            /\ \A j \in 1..Len(committed[Foremost]') :
                  committed[Foremost]'[i] = committed[Foremost]'[j] => i = j
      /\ \A a \in acked' : /\ a.index \in 1..Len(committed[Foremost]')
                           /\ committed[Foremost]'[a.index] = a.entry.command
  BY DEF Decided, Longer
<1>5. PICK f \in Nodes, d \in Seq(Commands) : f = Foremost /\ d = committed[Foremost]'
  BY <1>3, <1>4
<1>6. Longer(d, committed[f])
  <2>1. Longer(committed'[f], committed[f]) /\ Longer(d, committed'[f])
    BY <1>2, <1>4, <1>5 DEF MoreCommitted
  <2>2. committed[f] \in Seq(Commands) /\ committed'[f] \in Seq(Commands)
    BY DEF Types, TypeOK
  <2>3. Len(committed[f]) <= Len(d)
    BY <2>1, <2>2 DEF Longer
  <2>4. ASSUME NEW i \in 1..Len(committed[f]) PROVE d[i] = committed[f][i]
    <3>1. i \in 1..Len(committed'[f])
      BY <2>1, <2>2 DEF Longer
    <3> QED BY <2>1, <3>1 DEF Longer
  <2> QED BY <2>3, <2>4 DEF Longer
<1>7. Contract!Decide
  BY <1>4, <1>5, <1>6 DEF Contract!Decide, Contract!BeginsWith, Longer
<1>8. Contract!Learn
  BY <1>2, <1>4 DEF Contract!Learn, Contract!BeginsWith, MoreCommitted, Longer
<1>9. Contract!Acknowledge
  BY <1>2, <1>4 DEF Contract!Acknowledge
<1> QED BY <1>7, <1>8, <1>9 DEF Contract!Progress

\* The nodes implement one replicated log until a task goes on in a term it did not
\* start in: they take the same commands for committed in the same order, each once and
\* only what somebody gave to an apply, and what an apply answered Ok for is decided.
THEOREM NodesReplicateOneLog == Spec => ImplementsReplicatedLog
<1>1. Init => Contract!Init
  <2> SUFFICES ASSUME Init PROVE Contract!Init
    OBVIOUS
  <2>1. /\ committed = [n \in Nodes |-> << >>] /\ issued = 0 /\ acked = {} /\ ~overtaken
    BY DEF Init
  <2>2. Types
    BY InitTypes
  <2>3. CommittedInEveryLog
    BY <2>1 DEF CommittedInEveryLog
  <2>4. committed[Foremost] = << >>
    BY <2>1, <2>2, <2>3, ForemostIs
  <2> QED BY <2>1, <2>4 DEF Contract!Init
<1>2. VInv /\ Types /\ Types' /\ AckedCommitted /\ Decided /\ Decided' /\ [Next]_vars =>
         [~overtaken' => Contract!Next]_(Contract!vars)
  <2> SUFFICES ASSUME VInv, Types, Types', AckedCommitted, Decided, Decided', [Next]_vars
               PROVE  [~overtaken' => Contract!Next]_(Contract!vars)
    OBVIOUS
  <2>1. ASSUME NEW n \in Nodes, BeginApply(n) PROVE Contract!Next
    BY <2>1, BeginApplyGives DEF Contract!Next
  <2>2. ASSUME ~ \E n \in Nodes : BeginApply(n), ~overtaken' PROVE Contract!Next
    BY <2>2, OthersGiveNothing, StepProgresses DEF Contract!Next
  <2> QED BY <2>1, <2>2
<1>3. LogsInv /\ LogUsers => Types /\ AckedCommitted
  BY DEF LogsInv, LogUsers
<1> QED BY <1>1, <1>2, <1>3, VotingInvariant, LogInvariant, LogUsersInvariant,
           LogDecides, PTL DEF Spec, ImplementsReplicatedLog
=============================================================================
