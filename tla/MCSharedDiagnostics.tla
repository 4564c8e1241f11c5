------------------------- MODULE MCSharedDiagnostics -------------------------
(* Two roots, b nested in a: u lies in b and both discover it; the header h    *)
(* lies in a and can be included by both.                                      *)
EXTENDS SharedDiagnostics

CONSTANTS a, b, u, h, e1, e2

MCReach == [r \in Root |-> Unit]
MCInside == [f \in File |-> IF f = u THEN Root ELSE {a}]
MCDepth == [r \in Root |-> IF r = a THEN 1 ELSE 2]
\* Two findings at the same place.
MCRange == [d \in Finding |-> 1]
==============================================================================
