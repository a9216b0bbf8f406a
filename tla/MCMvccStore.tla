---------------------------- MODULE MCMvccStore ----------------------------
(* Instances of MvccStore for TLC. *)
EXTENDS MvccStore, TLC

CONSTANTS k1, k2

\* One key has a namespace of its own, so that a namespaced prune leaves the
\* other alone.
MCNamespaces == {{k1}}

\* Labels and readers are interchangeable; keys are not (namespaces name them).
Symmetry == Permutations(Labels) \cup Permutations(Readers)
=============================================================================
