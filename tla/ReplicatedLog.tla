---------------------------- MODULE ReplicatedLog ---------------------------
(***************************************************************************)
(* What a consensus log promises those who use it, without a word on       *)
(* terms, votes, leaders or indexes: one sequence of decided commands that *)
(* only grows, each command in it at most once and one that somebody gave; *)
(* every node takes a prefix of it for committed, and goes on along it; a  *)
(* command whose apply returned Ok is decided, at the place it was         *)
(* acknowledged.  How often a storage is handed a committed command is not *)
(* said here.                                                              *)
(***************************************************************************)
EXTENDS Naturals, Sequences

CONSTANT Nodes

VARIABLES
    given,        \* commands 1..given were given to some apply
    decided,      \* the commands, in the order every node commits them
    committed,    \* per node: the commands it knows to be decided
    acknowledged  \* answers of Ok: a command and its place

vars == << given, decided, committed, acknowledged >>

BeginsWith(s, t) == Len(t) <= Len(s) /\ \A i \in 1..Len(t) : s[i] = t[i]

Init ==
    /\ given = 0
    /\ decided = << >>
    /\ committed = [n \in Nodes |-> << >>]
    /\ acknowledged = {}

Give ==
    /\ given' = given + 1
    /\ UNCHANGED << decided, committed, acknowledged >>

\* Commands that were given and are not decided yet.
Decide ==
    /\ BeginsWith(decided', decided)
    /\ \A i \in 1..Len(decided') :
          /\ decided'[i] \in 1..given
          /\ \A j \in 1..Len(decided') : decided'[i] = decided'[j] => i = j

Learn ==
    \A n \in Nodes : BeginsWith(committed'[n], committed[n]) /\ BeginsWith(decided', committed'[n])

Acknowledge ==
    /\ acknowledged \subseteq acknowledged'
    /\ \A a \in acknowledged' :
          a.index \in 1..Len(decided') /\ decided'[a.index] = a.command

\* A leader may decide, commit and acknowledge in one step.
Progress == Decide /\ Learn /\ Acknowledge /\ UNCHANGED given

Next == Give \/ Progress

Spec == Init /\ [][Next]_vars
=============================================================================
