------------------------------ MODULE MCDataset ------------------------------
EXTENDS Dataset, TLC

Symmetry == Permutations(Handles) \cup Permutations(Names)
=============================================================================
