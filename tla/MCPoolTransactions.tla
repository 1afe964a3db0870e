------------------------- MODULE MCPoolTransactions -------------------------
EXTENDS PoolTransactions, TLC

\* Callers and connections are interchangeable (used without liveness).
Symmetry == Permutations(Callers) \cup Permutations(Slots)
=============================================================================
