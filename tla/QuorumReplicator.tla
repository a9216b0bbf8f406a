-------------------------- MODULE QuorumReplicator --------------------------
(***************************************************************************)
(* The consensus log of crates/replication/src/lib.rs (QuorumReplicator).  *)
(* Elections and applies are tasks that await one call to a peer after the *)
(* other; between the steps of one the handlers of the same node, and its  *)
(* other task, run.  The transport is external: a call may fail before or  *)
(* after it reached the peer, and an apply may be dropped by its timeout.  *)
(*                                                                         *)
(* Simplified: nodes are started and stay so; an apply carries one command *)
(* and membership is fixed (nothing appends a configuration change); one   *)
(* election and one apply at a time per node; no snapshots.  What a node   *)
(* does with committed entries, apply_committed_entries and the storage,   *)
(* is left out: the model ends where an entry is committed.                *)
(***************************************************************************)
EXTENDS Integers, Sequences, FiniteSets, FiniteSetsExt

CONSTANTS
    Nodes,
    NoNode,     \* voted_for = None
    MaxTerm,    \* bound on elections
    MaxCommands \* bound on commands given to apply

ASSUME NodesAssumption == IsFiniteSet(Nodes) /\ Nodes # {}
ASSUME SentinelAssumption == NoNode \notin Nodes
ASSUME BoundAssumption == MaxTerm \in Nat /\ MaxCommands \in Nat

Terms == 0..MaxTerm
Commands == 1..MaxCommands

VARIABLES
    term, role, votedFor, \* ConsensusState: current_term, role, voted_for
    commitIndex,          \* ConsensusState::commit_index
    nextIndex,            \* ConsensusState::peer_next_index
    log,                  \* log: the entry at position i has index i
    committed,            \* history: the commands each node took for committed
    election,             \* per node: its start_election
    apply,                \* per node: its apply_inner
    issued,               \* history: commands given to apply
    ballots,              \* history: who voted in which term for whom
    elected,              \* history: who became leader in which term
    acked,                \* history: entries a leader committed, with their place
    overtaken             \* history: a task went on in a term it did not start in

vars == << term, role, votedFor, commitIndex, nextIndex, log, committed,
           election, apply, issued, ballots, elected, acked, overtaken >>
stateVars == << term, role, votedFor, commitIndex, nextIndex >>
logVars == << log, committed >>

Peers(n) == Nodes \ {n}

QuorumSize == (Cardinality(Nodes) \div 2) + 1

LastTerm(l) == IF l = << >> THEN 0 ELSE l[Len(l)].term

\* A node that has taken the commands of before for committed, when its log is l
\* and its commit index becomes commit.
CommitUpTo(before, l, commit) ==
    before \o [i \in 1..(Min({commit, Len(l)}) - Len(before)) |->
                 l[Len(before) + i].command]

Idle == [pc |-> "idle"]

\* A task in broadcast_commit, which read the term and has peers left to call.
Announcing(t, through, peers) ==
    IF peers = {} THEN Idle
    ELSE [pc |-> "broadcast", term |-> t, through |-> through, peers |-> peers]

Init ==
    /\ term = [n \in Nodes |-> 0]
    /\ role = [n \in Nodes |-> "Follower"]
    /\ votedFor = [n \in Nodes |-> NoNode]
    /\ commitIndex = [n \in Nodes |-> 0]
    /\ nextIndex = [n \in Nodes |-> [p \in Peers(n) |-> 1]]
    /\ log = [n \in Nodes |-> << >>]
    /\ committed = [n \in Nodes |-> << >>]
    /\ election = [n \in Nodes |-> Idle]
    /\ apply = [n \in Nodes |-> Idle]
    /\ issued = 0
    /\ ballots = {}
    /\ elected = {}
    /\ acked = {}
    /\ overtaken = FALSE

----------------------------------------------------------------------------
(* start_election: the votes.                                              *)

StartElection(n) ==
    /\ election[n].pc = "idle" /\ term[n] < MaxTerm
    /\ term' = [term EXCEPT ![n] = @ + 1]
    /\ role' = [role EXCEPT ![n] = "Candidate"]
    /\ votedFor' = [votedFor EXCEPT ![n] = n]
    /\ election' = [election EXCEPT ![n] =
          [pc |-> "ask", peers |-> Peers(n), votes |-> {n},
           request |-> [term |-> term[n] + 1, lastIndex |-> Len(log[n]),
                        lastTerm |-> LastTerm(log[n])]]]
    /\ ballots' = ballots \cup {<< n, term[n] + 1, n >>}
    /\ UNCHANGED << commitIndex, nextIndex, logVars, apply, issued, elected, acked, overtaken >>

IsUpToDate(request, l) ==
    \/ request.lastTerm > LastTerm(l)
    \/ request.lastTerm = LastTerm(l) /\ request.lastIndex >= Len(l)

\* Mutant: a vote given to another does not count.
RequestVoteAgain(n, p) ==
    LET request == election[n].request
        newer == request.term > term[p]
        granted == /\ request.term >= term[p]
                   /\ IsUpToDate(request, log[p])
    IN  /\ election[n].pc = "ask" /\ p \in election[n].peers
        /\ term' = [term EXCEPT ![p] = IF newer THEN request.term ELSE @]
        /\ role' = [role EXCEPT ![p] = IF newer THEN "Follower" ELSE @]
        /\ votedFor' = [votedFor EXCEPT ![p] = IF granted THEN n
                                               ELSE IF newer THEN NoNode ELSE @]
        /\ election' = [election EXCEPT ![n] =
              [pc |-> "answer", peers |-> @.peers \ {p}, votes |-> @.votes,
               request |-> request, response |-> [term |-> term'[p], granted |-> granted, voter |-> p]]]
        /\ ballots' = IF granted THEN ballots \cup {<< p, request.term, n >>} ELSE ballots
        /\ UNCHANGED << commitIndex, nextIndex, logVars, apply, issued, elected,
                        acked, overtaken >>

\* request_vote_rpc at p.
RequestVote(n, p) ==
    LET request == election[n].request
        newer == request.term > term[p]
        granted == /\ request.term >= term[p]
                   /\ newer \/ votedFor[p] \in {NoNode, n}
                   /\ IsUpToDate(request, log[p])
    IN  /\ election[n].pc = "ask" /\ p \in election[n].peers
        /\ term' = [term EXCEPT ![p] = IF newer THEN request.term ELSE @]
        /\ role' = [role EXCEPT ![p] = IF newer THEN "Follower" ELSE @]
        /\ votedFor' = [votedFor EXCEPT ![p] = IF granted THEN n
                                               ELSE IF newer THEN NoNode ELSE @]
        /\ election' = [election EXCEPT ![n] =
              [pc |-> "answer", peers |-> @.peers \ {p}, votes |-> @.votes,
               request |-> request, response |-> [term |-> term'[p], granted |-> granted, voter |-> p]]]
        /\ ballots' = IF granted THEN ballots \cup {<< p, request.term, n >>} ELSE ballots
        /\ UNCHANGED << commitIndex, nextIndex, logVars, apply, issued, elected,
                        acked, overtaken >>

Asking(e, peers, votes) ==
    [pc |-> "ask", peers |-> peers, votes |-> votes, request |-> e.request]

\* The call failed before it reached p.
VoteRequestLost(n, p) ==
    /\ election[n].pc = "ask" /\ p \in election[n].peers
    /\ election' = [election EXCEPT ![n] = Asking(@, @.peers \ {p}, @.votes)]
    /\ UNCHANGED << stateVars, logVars, apply, issued, ballots, elected, acked, overtaken >>

\* A newer term in the answer ends the election; the node's term becomes the
\* one of the answer, even where it went past it meanwhile.
CountVote(n) ==
    LET answer == election[n].response
        newer == answer.term > election[n].request.term
    IN  /\ election[n].pc = "answer"
        /\ term' = [term EXCEPT ![n] = IF newer THEN answer.term ELSE @]
        /\ role' = [role EXCEPT ![n] = IF newer THEN "Follower" ELSE @]
        /\ votedFor' = [votedFor EXCEPT ![n] = IF newer THEN NoNode ELSE @]
        /\ overtaken' = (overtaken \/ (newer /\ term[n] >= answer.term))
        /\ election' = [election EXCEPT ![n] =
              IF newer THEN Idle
              ELSE Asking(@, @.peers, @.votes \cup (IF answer.granted THEN {answer.voter} ELSE {}))]
        /\ UNCHANGED << commitIndex, nextIndex, logVars, apply, issued, ballots, elected, acked >>

VoteAnswerLost(n) ==
    /\ election[n].pc = "answer"
    /\ election' = [election EXCEPT ![n] = Asking(@, @.peers, @.votes)]
    /\ UNCHANGED << stateVars, logVars, apply, issued, ballots, elected, acked, overtaken >>

NoQuorum(n) ==
    /\ election[n].pc = "ask" /\ election[n].peers = {}
    /\ Cardinality(election[n].votes) < QuorumSize
    /\ election' = [election EXCEPT ![n] = Idle]
    /\ UNCHANGED << stateVars, logVars, apply, issued, ballots, elected, acked, overtaken >>

\* Mutant: next_index starts one too far.
BecomeLeaderTooFar(n) ==
    /\ election[n].pc = "ask" /\ election[n].peers = {}
    /\ Cardinality(election[n].votes) >= QuorumSize
    /\ role' = [role EXCEPT ![n] = "Leader"]
    /\ votedFor' = [votedFor EXCEPT ![n] = n]
    /\ nextIndex' = [nextIndex EXCEPT ![n] = [p \in Peers(n) |-> Len(log[n]) + 2]]
    /\ elected' = elected \cup {<< term[n], n >>}
    /\ overtaken' = (overtaken \/ term[n] # election[n].request.term)
    /\ election' = [election EXCEPT ![n] =
          Announcing(term[n], commitIndex[n], Peers(n))]
    /\ UNCHANGED << term, commitIndex, logVars, apply, issued, ballots, acked >>

\* become_leader does not look at the term, nor at the role; broadcast_commit
\* then reads the term.
BecomeLeader(n) ==
    /\ election[n].pc = "ask" /\ election[n].peers = {}
    /\ Cardinality(election[n].votes) >= QuorumSize
    /\ role' = [role EXCEPT ![n] = "Leader"]
    /\ votedFor' = [votedFor EXCEPT ![n] = n]
    /\ nextIndex' = [nextIndex EXCEPT ![n] = [p \in Peers(n) |-> Len(log[n]) + 1]]
    /\ elected' = elected \cup {<< term[n], n >>}
    /\ overtaken' = (overtaken \/ term[n] # election[n].request.term)
    /\ election' = [election EXCEPT ![n] =
          Announcing(term[n], commitIndex[n], Peers(n))]
    /\ UNCHANGED << term, commitIndex, logVars, apply, issued, ballots, acked >>

----------------------------------------------------------------------------
(* append_entries_rpc: the state first, the log in a second step.          *)

Matches(l, prevIndex, prevTerm) ==
    prevIndex = 0 \/ (prevIndex <= Len(l) /\ l[prevIndex].term = prevTerm)

\* The log of the receiver: from the first entry that is missing or differs
\* the leader's replace its own.
Appended(l, prevIndex, entries) ==
    LET different == {i \in 1..Len(entries) :
                        prevIndex + i > Len(l) \/ l[prevIndex + i] # entries[i]}
    IN  IF different = {} THEN l
        ELSE SubSeq(l, 1, prevIndex + Min(different) - 1)
             \o SubSeq(entries, Min(different), Len(entries))

\* Mutant: the receiver commits all it has.
StoredCommitsAll(p, request) ==
    LET l == Appended(log[p], request.prevIndex, request.entries)
    IN  IF Matches(log[p], request.prevIndex, request.prevTerm)
        THEN [log |-> l, commit |-> Len(l), success |-> TRUE, match |-> Len(l)]
        ELSE [log |-> log[p], commit |-> commitIndex[p], success |-> FALSE, match |-> 0]

\* What p answers to a request of a term it has not passed: after it, the log,
\* the commit index and the answer.
Stored(p, request) ==
    LET l == Appended(log[p], request.prevIndex, request.entries)
        announced == Min({request.commit, Len(l)})
        commit == IF announced > commitIndex[p] THEN announced ELSE commitIndex[p]
    IN  IF Matches(log[p], request.prevIndex, request.prevTerm)
        THEN [log |-> l, commit |-> commit, success |-> TRUE, match |-> Len(l)]
        ELSE [log |-> log[p], commit |-> commitIndex[p], success |-> FALSE, match |-> 0]

\* Mutant: the term is counted up instead of adopted.
FollowIncrements(S, t) ==
    /\ term' = [n \in Nodes |-> IF n \in S THEN term[n] + 1 ELSE term[n]]
    /\ role' = [n \in Nodes |-> IF n \in S THEN "Follower" ELSE role[n]]
    /\ votedFor' = [n \in Nodes |-> IF n \in S /\ t > term[n] THEN NoNode ELSE votedFor[n]]

\* The receivers S of requests of term t, under the first lock.
Follow(S, t) ==
    /\ term' = [n \in Nodes |-> IF n \in S THEN t ELSE term[n]]
    /\ role' = [n \in Nodes |-> IF n \in S THEN "Follower" ELSE role[n]]
    /\ votedFor' = [n \in Nodes |-> IF n \in S /\ t > term[n] THEN NoNode ELSE votedFor[n]]

\* Afterwards.
Store(S, request) ==
    LET after(n) == Stored(n, request)
    IN  /\ log' = [n \in Nodes |-> IF n \in S THEN after(n).log ELSE log[n]]
        /\ commitIndex' = [n \in Nodes |-> IF n \in S THEN after(n).commit ELSE commitIndex[n]]
        /\ committed' = [n \in Nodes |->
              IF n \in S THEN CommitUpTo(committed[n], after(n).log, after(n).commit)
              ELSE committed[n]]

\* A call that arrives: without entries, and with no look at the answer.  The end of
\* the log is read for each call.  A peer that went past the term refuses it.
\* (The handler is one step here: without entries it changes no log.)
Broadcast(n, p, task) ==
    LET request == [term |-> task.term, prevIndex |-> Len(log[n]),
                    prevTerm |-> LastTerm(log[n]), entries |-> << >>,
                    commit |-> task.through]
        reached == {q \in {p} : request.term >= term[q]}
    IN  Follow(reached, request.term) /\ Store(reached, request)

BroadcastAsNewLeader(n, p) ==
    /\ election[n].pc = "broadcast" /\ p \in election[n].peers
    /\ Broadcast(n, p, election[n])
    /\ election' = [election EXCEPT ![n] = Announcing(@.term, @.through, @.peers \ {p})]
    /\ UNCHANGED << nextIndex, apply, issued, ballots, elected, acked, overtaken >>

\* The calls that are left do not arrive.
BroadcastLost(n) ==
    /\ election[n].pc = "broadcast"
    /\ election' = [election EXCEPT ![n] = Idle]
    /\ UNCHANGED << stateVars, logVars, apply, issued, ballots, elected, acked, overtaken >>

----------------------------------------------------------------------------
(* apply_inner.                                                            *)

\* The check of the role and the read of the term.
BeginApply(n) ==
    /\ apply[n].pc = "idle" /\ issued < MaxCommands /\ role[n] = "Leader"
    /\ issued' = issued + 1
    /\ apply' = [apply EXCEPT ![n] = [pc |-> "push", term |-> term[n], command |-> issued + 1]]
    /\ UNCHANGED << stateVars, logVars, election, ballots, elected, acked, overtaken >>

\* The entry is pushed, whatever the role and the term became.
PushEntry(n) ==
    /\ apply[n].pc = "push"
    /\ log' = [log EXCEPT ![n] = Append(@, [term |-> apply[n].term, command |-> apply[n].command])]
    /\ apply' = [apply EXCEPT ![n] =
          [pc |-> "replicate", term |-> @.term, through |-> Len(log[n]) + 1,
           peers |-> Peers(n), acks |-> 1, retry |-> NoNode]]
    /\ overtaken' = (overtaken \/ role[n] # "Leader" \/ term[n] # apply[n].term)
    /\ UNCHANGED << stateVars, committed, election, issued, ballots, elected, acked >>

\* build_append_request with the term and the commit index of the moment.
SendEntries(n, p) ==
    LET prev == nextIndex[n][p] - 1
    IN  /\ apply[n].pc = "replicate" /\ p \in apply[n].peers
        /\ apply[n].retry \in {NoNode, p}
        /\ overtaken' = (overtaken \/ role[n] # "Leader" \/ term[n] # apply[n].term)
        /\ apply' = [apply EXCEPT ![n] =
              IF prev > Len(log[n]) THEN Idle
              ELSE [pc |-> "sent", term |-> @.term, through |-> @.through,
                    peers |-> @.peers, acks |-> @.acks, retry |-> p,
                    request |->
                      [term |-> term[n], prevIndex |-> prev,
                       prevTerm |-> LastTerm(SubSeq(log[n], 1, prev)),
                       entries |-> SubSeq(log[n], prev + 1, Len(log[n])),
                       commit |-> commitIndex[n]]]]
        /\ UNCHANGED << stateVars, logVars, election, issued, ballots, elected, acked >>

Answered(task, success, match, t) ==
    [pc |-> "answer", term |-> task.term, through |-> task.through,
     peers |-> task.peers, acks |-> task.acks, retry |-> task.retry,
     request |-> task.request,
     response |-> [success |-> success, match |-> match, term |-> t]]

\* The first lock of the handler at the peer.
AdmitEntries(n) ==
    LET p == apply[n].retry
        request == apply[n].request
    IN  /\ apply[n].pc = "sent"
        /\ IF request.term < term[p]
           THEN /\ apply' = [apply EXCEPT ![n] = Answered(@, FALSE, 0, term[p])]
                /\ UNCHANGED << term, role, votedFor >>
           ELSE /\ apply' = [apply EXCEPT ![n] =
                    [pc |-> "admitted", term |-> @.term, through |-> @.through,
                     peers |-> @.peers, acks |-> @.acks, retry |-> @.retry,
                     request |-> request]]
                /\ Follow({p}, request.term)
        /\ UNCHANGED << commitIndex, nextIndex, logVars, election, issued, ballots, elected,
                        acked, overtaken >>

\* The prefix, the log and the commit index.  They have locks of their own: what
\* another handler does in between is of this leader, or else of a later one, and
\* then the term has grown (overtaken).
StoreEntries(n) ==
    LET p == apply[n].retry
        request == apply[n].request
        after == Stored(p, request)
    IN  /\ apply[n].pc = "admitted"
        /\ Store({p}, request)
        /\ apply' = [apply EXCEPT ![n] = Answered(@, after.success, after.match, term[p])]
        /\ overtaken' = (overtaken \/ term[p] # request.term)
        /\ UNCHANGED << term, role, votedFor, nextIndex, election, issued, ballots, elected, acked >>

Replicating(task, peers, acks, retry) ==
    [pc |-> "replicate", term |-> task.term, through |-> task.through,
     peers |-> peers, acks |-> acks, retry |-> retry]

\* The answer: a newer term ends the apply; success moves next_index and may
\* count; a refusal tries one entry earlier until there is none.
HandleAnswer(n) ==
    LET p == apply[n].retry
        answer == apply[n].response
        newer == answer.term > apply[n].request.term
        exhausted == nextIndex[n][p] <= 1
    IN  /\ apply[n].pc = "answer"
        /\ term' = [term EXCEPT ![n] = IF newer THEN answer.term ELSE @]
        /\ role' = [role EXCEPT ![n] = IF newer THEN "Follower" ELSE @]
        /\ votedFor' = [votedFor EXCEPT ![n] = IF newer THEN NoNode ELSE @]
        /\ overtaken' = (overtaken \/ IF newer THEN term[n] >= answer.term
                                      ELSE term[n] # apply[n].term)
        /\ nextIndex' = [nextIndex EXCEPT ![n][p] =
              IF newer THEN @
              ELSE IF answer.success THEN answer.match + 1
              ELSE IF exhausted THEN @ ELSE @ - 1]
        /\ apply' = [apply EXCEPT ![n] =
              IF newer THEN Idle
              ELSE IF answer.success
                   THEN Replicating(@, @.peers \ {p},
                          @.acks + (IF answer.match >= @.through THEN 1 ELSE 0), NoNode)
              ELSE IF exhausted THEN Replicating(@, @.peers \ {p}, @.acks, NoNode)
              ELSE Replicating(@, @.peers, @.acks, p)]
        /\ UNCHANGED << commitIndex, logVars, election, issued, ballots, elected, acked >>

\* Mutant: a call that failed is one ack less.
AppendFailsSkips(n) ==
    /\ apply[n].pc \in {"sent", "answer"}
    /\ apply' = [apply EXCEPT ![n] =
          Replicating(@, @.peers \ {@.retry}, @.acks, NoNode)]
    /\ UNCHANGED << stateVars, logVars, election, issued, ballots, elected, acked, overtaken >>

\* The call failed, before or after the peer handled it, or the timeout of
\* apply_batch dropped the task, or the quorum is not reached, or the calls that
\* are left of a broadcast do not arrive.
AppendFails(n) ==
    /\ \/ apply[n].pc \in {"sent", "answer", "broadcast"}
       \/ /\ apply[n].pc = "replicate" /\ apply[n].peers = {}
          /\ apply[n].acks < QuorumSize
    /\ apply' = [apply EXCEPT ![n] = Idle]
    /\ UNCHANGED << stateVars, logVars, election, issued, ballots, elected, acked, overtaken >>

\* commit_index becomes the place of this entry, whatever it was.  (apply returns
\* Ok if its loop over the committed entries then meets no error.)
CommitEntry(n) ==
    LET through == apply[n].through
    IN  /\ apply[n].pc = "replicate" /\ apply[n].peers = {}
        /\ apply[n].acks >= QuorumSize
        /\ commitIndex' = [commitIndex EXCEPT ![n] = through]
        /\ committed' = [committed EXCEPT ![n] = CommitUpTo(@, log[n], through)]
        /\ acked' = IF through <= Len(log[n])
                    THEN acked \cup {[index |-> through, entry |-> log[n][through]]}
                    ELSE acked
        /\ overtaken' = (overtaken \/ role[n] # "Leader" \/ term[n] # apply[n].term)
        /\ apply' = [apply EXCEPT ![n] =
              Announcing(term[n], through, Peers(n))]
        /\ UNCHANGED << term, role, votedFor, nextIndex, log, election, issued, ballots, elected >>

BroadcastCommit(n, p) ==
    /\ apply[n].pc = "broadcast" /\ p \in apply[n].peers
    /\ Broadcast(n, p, apply[n])
    /\ apply' = [apply EXCEPT ![n] = Announcing(@.term, @.through, @.peers \ {p})]
    /\ UNCHANGED << nextIndex, election, issued, ballots, elected, acked, overtaken >>

----------------------------------------------------------------------------
Election(n) ==
    \/ StartElection(n)
    \/ \E p \in Peers(n) : RequestVote(n, p)
    \/ \E p \in Peers(n) : VoteRequestLost(n, p)
    \/ CountVote(n)
    \/ VoteAnswerLost(n)
    \/ NoQuorum(n)
    \/ BecomeLeader(n)
    \/ \E p \in Peers(n) : BroadcastAsNewLeader(n, p)
    \/ BroadcastLost(n)

Apply(n) ==
    \/ BeginApply(n)
    \/ PushEntry(n)
    \/ \E p \in Peers(n) : SendEntries(n, p)
    \/ AdmitEntries(n)
    \/ StoreEntries(n)
    \/ HandleAnswer(n)
    \/ AppendFails(n)
    \/ CommitEntry(n)
    \/ \E p \in Peers(n) : BroadcastCommit(n, p)

Next == \E n \in Nodes : Election(n) \/ Apply(n)

Spec == Init /\ [][Next]_vars

----------------------------------------------------------------------------
Entries == [term : Terms, command : Commands]

VoteRequests == [term : Terms, lastIndex : Nat, lastTerm : Terms]
VoteAnswers == [term : Terms, granted : BOOLEAN, voter : Nodes]
Requests == [term : Terms, prevIndex : Nat, prevTerm : Terms, entries : Seq(Entries),
             commit : Nat]
Answers == [success : BOOLEAN, match : Nat, term : Terms]

Broadcasts == [pc : {"broadcast"}, term : Terms, through : Nat, peers : SUBSET Nodes]

Elections ==
    [pc : {"idle"}] \cup Broadcasts
    \cup [pc : {"ask"}, peers : SUBSET Nodes, votes : SUBSET Nodes, request : VoteRequests]
    \cup [pc : {"answer"}, peers : SUBSET Nodes, votes : SUBSET Nodes,
          request : VoteRequests, response : VoteAnswers]

Applies ==
    [pc : {"idle"}] \cup Broadcasts \cup [pc : {"push"}, term : Terms, command : Commands]
    \cup [pc : {"replicate"}, term : Terms, through : Nat, peers : SUBSET Nodes,
          acks : Nat, retry : Nodes \cup {NoNode}]
    \cup [pc : {"sent", "admitted"}, term : Terms, through : Nat, peers : SUBSET Nodes,
          acks : Nat, retry : Nodes, request : Requests]
    \cup [pc : {"answer"}, term : Terms, through : Nat, peers : SUBSET Nodes,
          acks : Nat, retry : Nodes, request : Requests, response : Answers]

\* The types of the state of replication/src/lib.rs:1390-1400 and of its tasks.
TypeOK ==
    /\ term \in [Nodes -> Terms]
    /\ role \in [Nodes -> {"Follower", "Candidate", "Leader"}]
    /\ votedFor \in [Nodes -> Nodes \cup {NoNode}]
    /\ commitIndex \in [Nodes -> Nat]
    /\ \A n \in Nodes : nextIndex[n] \in [Peers(n) -> Nat \ {0}]
    /\ log \in [Nodes -> Seq(Entries)]
    /\ committed \in [Nodes -> Seq(Commands)]
    /\ election \in [Nodes -> Elections]
    /\ apply \in [Nodes -> Applies]
    /\ issued \in Nat
    /\ ballots \subseteq Nodes \X Terms \X Nodes
    /\ elected \subseteq Terms \X Nodes

\* No term has two leaders (start_election counts votes of one term and each
\* node gives one vote in it), unless a task went on in a term it did not start
\* in: then become_leader makes a leader of a term it was not elected in, or a
\* late answer takes back a term and the vote cast in it.
OneLeaderPerTerm ==
    ~overtaken => \A x, y \in elected : x[1] = y[1] => x = y

\* Unless a task goes on in a term it did not start in, an entry whose apply
\* returned Ok is in the log of every node and stays there: an unreachable peer
\* fails the apply (the ? of replicate_to_quorum), so the quorum counted afterwards
\* is always everyone, and no later leader lacks it.
AckedOnEveryNode ==
    ~overtaken =>
        \A a \in acked, n \in Nodes :
            a.index <= Len(log[n]) /\ log[n][a.index] = a.entry

\* What a node took for committed is at the same place of every log, for ever: a
\* follower takes min(leader_commit, length of its whole log), a leader the place
\* of its own entry, and logs are cut by later leaders.
CommittedInEveryLog ==
    ~overtaken =>
        \A n, m \in Nodes : \A i \in 1..Len(committed[n]) :
            i <= Len(log[m]) /\ log[m][i].command = committed[n][i]

\* The places build_append_request and apply_committed_entries index the log at
\* exist, though match_index is the length of the peer's whole log and logs are cut.
IndexesWithinLog ==
    ~overtaken =>
        \A n \in Nodes :
            /\ commitIndex[n] <= Len(log[n])
            /\ role[n] = "Leader" => \A p \in Peers(n) : nextIndex[n][p] <= Len(log[n]) + 1

----------------------------------------------------------------------------
(* What the users of the log see: ReplicatedLog.                           *)

\* The node that took most for committed.
Foremost == CHOOSE n \in Nodes : \A m \in Nodes : Len(committed[m]) <= Len(committed[n])

Contract == INSTANCE ReplicatedLog WITH
    given <- issued,
    decided <- committed[Foremost],
    committed <- committed,
    acknowledged <- {[index |-> a.index, command |-> a.entry.command] : a \in acked}

\* Until a task goes on in a term it did not start in, the nodes implement one
\* replicated log: they take the same commands for committed in the same order, no
\* command at two places, and one whose apply returned Ok is decided for good.
ImplementsReplicatedLog ==
    Contract!Init /\ [][~overtaken' => Contract!Next]_(Contract!vars)
=============================================================================
