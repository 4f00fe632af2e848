----------------------------- MODULE MCTableFile -----------------------------
EXTENDS TableFile, TLC

Symmetry == Permutations(Values)
==============================================================================
