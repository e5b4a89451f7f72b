--------------------------- MODULE MCNetworkIngress ---------------------------
\* NetworkIngress for TLC: requests are interchangeable, and so are ids.
EXTENDS NetworkIngress, TLC

Symmetry == Permutations(Tasks) \cup Permutations(WorkspaceIds)
=============================================================================
