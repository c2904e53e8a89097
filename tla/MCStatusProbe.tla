--------------------------- MODULE MCStatusProbe ---------------------------
EXTENDS StatusProbe, TLC

Symmetry == Permutations(Probers)
=============================================================================
