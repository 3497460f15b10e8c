-------------------------- MODULE MCDaemonLifecycle --------------------------
EXTENDS DaemonLifecycle, TLC

Symmetry == Permutations(Daemons) \cup Permutations(Stoppers)
=============================================================================
