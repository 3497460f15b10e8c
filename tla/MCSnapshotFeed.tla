--------------------------- MODULE MCSnapshotFeed ---------------------------
EXTENDS SnapshotFeed, TLC

Symmetry == Permutations(Clients)
=============================================================================
