----------------------------- MODULE MCSigning -----------------------------
EXTENDS Signing, TLC
Symmetry == Permutations(Requests)
=============================================================================
