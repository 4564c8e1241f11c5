----------------------------- MODULE MCTokenFlights -----------------------------
EXTENDS TokenFlights, TLC

Symmetry == Permutations(Request) \cup Permutations(Flight) \cup Permutations(Text)
================================================================================
