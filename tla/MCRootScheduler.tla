--------------------------- MODULE MCRootScheduler ---------------------------
(* Model-checking instances of RootScheduler. *)
EXTENDS RootScheduler, TLC

TaskSymmetry == Permutations(Task)
==============================================================================
