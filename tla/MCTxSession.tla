---------------------------- MODULE MCTxSession ----------------------------
EXTENDS TxSession, TLC
CONSTANTS p1, p2

\* A bookmark of another node that is ahead in both parts.
Foreign == {<<2, 2>>}
Symmetry == Permutations(Callers)
=============================================================================
