------------------------- MODULE MCRecursiveDelete -------------------------
EXTENDS RecursiveDelete, TLC

Symmetry == Permutations(Requests) \cup Permutations(Entries)
=============================================================================
