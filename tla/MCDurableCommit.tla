-------------------------- MODULE MCDurableCommit --------------------------
(* Instances of DurableCommit for TLC. *)
EXTENDS DurableCommit, TLC

Symmetry == Permutations(Keys)
============================================================================
