------------------------- MODULE MCWorkspaceManager -------------------------
\* WorkspaceManager for TLC: requests are interchangeable, and so are ids.
EXTENDS WorkspaceManager, TLC

Symmetry == Permutations(Tasks) \cup Permutations(WorkspaceIds)
=============================================================================
