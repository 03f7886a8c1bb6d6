------------------------- MODULE MCUserArrayMemory -------------------------
EXTENDS UserArrayMemory, TLC

\* Addresses are interchangeable; no liveness is checked.
Addresses == Permutations(Blocks) \cup Permutations(Records)
=============================================================================
