--------------------------- MODULE MCPublishedTable ---------------------------
EXTENDS PublishedTable, TLC

Symmetry == Permutations(Runs) \cup Permutations(CancelCalls)

\* While a publish is due nothing depends on the last one: the next replaces it.
LastShown == <<vars, IF dirty THEN <<>> ELSE shown>>
=============================================================================
