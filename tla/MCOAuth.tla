------------------------------ MODULE MCOAuth -------------------------------
EXTENDS OAuth, TLC

Symmetry == Permutations(Requests) \cup Permutations(Codes)
=============================================================================
