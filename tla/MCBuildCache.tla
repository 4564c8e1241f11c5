------------------------------ MODULE MCBuildCache ------------------------------
(* BuildCache for TLC. *)
EXTENDS BuildCache

================================================================================
