----------------------- MODULE MCStorageTransaction ------------------------
(* Instances of StorageTransaction for TLC. *)
EXTENDS StorageTransaction, TLC

\* A session with nothing to wait for, whose next step touches nothing of another.
Ready(t) ==
    \/ tx[t].pc \in {"discard", "check"} /\ tx[t].todo = {}
    \/ tx[t].pc \in {"committed", "conflict", "stale", "failed"}

\* It takes that step at once: the step commutes with those of others.
Prompt == (\E t \in Txs : Ready(t)) => \E t \in Txs : Ready(t) /\ tx'[t] # tx[t]

\* A commit is given all records or the catalog, and readers read edges.
Given(t) == tx'[t].pc \in {"discard", "wait"} /\ tx[t].pc \in {"open", "idle"}

Selected ==
    /\ \A t \in Txs : Given(t) => DOMAIN tx'[t].writes \in {Records, Catalog}
    /\ \A r \in Readers : reader'[r].pc = "fill" => reader'[r].key \in Edges

PromptAndSelected == Prompt /\ Selected
=============================================================================
