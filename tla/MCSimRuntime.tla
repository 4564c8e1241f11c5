----------------------------- MODULE MCSimRuntime -----------------------------
EXTENDS SimRuntime, TLC

CONSTANTS m, a, b

MCRoots == <<m>>
Symmetry == Permutations(Proc \ {m})
==============================================================================
