------------------------------ MODULE MCCollector ------------------------------
(* Collector for TLC: addresses are interchangeable. *)
EXTENDS Collector, TLC

MCSymmetry == Permutations(Object)

================================================================================
