----------------------------- MODULE MCTableRows -----------------------------
EXTENDS TableRows

Symmetry == Permutations(Values)
==============================================================================
