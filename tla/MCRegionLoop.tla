----------------------------- MODULE MCRegionLoop -----------------------------
(* RegionLoop for TLC: turns schedule callbacks in one region of each kind. *)
EXTENDS RegionLoop

MCTargets == {2, 5, 8, OBSERVED, POST_OBSERVED_PLI, 18, PRE_POSTPONED, POSTPONED}

================================================================================
