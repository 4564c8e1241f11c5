----------------------------- MODULE MCTokenRefresh -----------------------------
EXTENDS TokenRefresh, TLC

Symmetry == Permutations(Doc) \cup Permutations(Defines)
================================================================================
