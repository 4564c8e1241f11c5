----------------------------- MODULE MCDiscovery -----------------------------
(* Root a owns f, root b owns g; both may discover both files. *)
EXTENDS Discovery

CONSTANTS a, b, f, g

MCOwner == [x \in File |-> IF x = f THEN a ELSE b]
==============================================================================
