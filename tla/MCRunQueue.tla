----------------------------- MODULE MCRunQueue -----------------------------
EXTENDS RunQueue, TLC

Symmetry == Permutations(Runs) \cup Permutations(CancelCalls)
=============================================================================
