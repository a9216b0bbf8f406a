------------------------- MODULE MCQuorumReplicator ------------------------
(* Instances of QuorumReplicator for TLC. *)
EXTENDS QuorumReplicator, TLC

\* Every property speaks of states no task was overtaken in, and those stay
\* behind: nothing is lost by not going further.
NotOvertaken == ~overtaken

\* No step, and no property checked here, looks at who voted for whom.
Counted(e) ==
    IF e.pc = "ask" THEN [e EXCEPT !.votes = Cardinality(@)]
    ELSE IF e.pc = "answer"
         THEN [e EXCEPT !.votes = Cardinality(@), !.response.voter = NoNode]
    ELSE e

\* A node that leads no more has no use for next_index: BecomeLeader sets it anew.
Following(n) == IF role[n] = "Leader" THEN nextIndex[n] ELSE << >>

\* An apply that can only end: its term is past, and what it does next with the term
\* of now overtakes it.
Over(n) ==
    \/ apply[n].pc = "idle"
    \/ apply[n].pc = "replicate" /\ apply[n].term # term[n]
    \/ /\ apply[n].pc = "answer" /\ apply[n].term # term[n]
       /\ apply[n].response.term <= Max({term[n], apply[n].request.term})

Task(n) == IF issued = MaxCommands /\ Over(n) THEN Idle ELSE apply[n]

WhatIsRead ==
    << term, role, votedFor, commitIndex, [n \in Nodes |-> Following(n)], log, committed,
       [n \in Nodes |-> Counted(election[n])], [n \in Nodes |-> Task(n)], issued,
       elected, acked, overtaken >>

\* A candidate looks at an answer of its own term, and gives up, before anything
\* else happens: these steps touch its election only, which nothing else reads, so
\* that every behaviour is one of these up to the order of steps that commute.
Undecided(n) ==
    \/ election[n].pc = "answer" /\ election[n].response.term <= election[n].request.term
    \/ /\ election[n].pc = "ask" /\ election[n].peers = {}
       /\ Cardinality(election[n].votes) < QuorumSize

Prompt == \A n \in Nodes : Undecided(n) => election'[n] # election[n]

\* A task that ends with nothing done has freed its node for the next one.  When
\* there is none any more it may as well wait for ever: no property looks at tasks.
Freed ==
    \A n \in Nodes :
        LET last == \/ apply[n].pc # "idle" /\ apply'[n].pc = "idle" /\ issued = MaxCommands
                    \/ /\ election[n].pc = "broadcast" /\ election'[n].pc = "idle"
                       /\ term[n] = MaxTerm
        IN  last => << stateVars, log >>' # << stateVars, log >>

PromptAndFreed == Prompt /\ Freed

Symmetry == Permutations(Nodes)
=============================================================================
