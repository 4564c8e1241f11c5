------------------------------ MODULE LatestWins ------------------------------
(***************************************************************************)
(* What the ordered publication of diagnostics promises its callers: per    *)
(* document, the client moves forward through the payloads the server        *)
(* computed, may skip some, and ends with the newest one.                    *)
(***************************************************************************)
EXTENDS Naturals

CONSTANTS
  Uri,     \* documents
  Number   \* numbers a payload can have

VARIABLES
  computed,   \* number of the newest payload computed, per document (0: none)
  shown       \* number of the payload the client shows, per document

vars == <<computed, shown>>

Init ==
  /\ computed = [u \in Uri |-> 0]
  /\ shown = [u \in Uri |-> 0]

\* One computation yields payloads for some documents, all with one number.
Compute(us, n) ==
  /\ \A u \in Uri : computed[u] < n
  /\ computed' = [u \in Uri |-> IF u \in us THEN n ELSE computed[u]]
  /\ UNCHANGED shown

\* The client receives a payload that is newer than the one it shows.
Show(u, n) ==
  /\ shown[u] < n
  /\ n <= computed[u]
  /\ shown' = [shown EXCEPT ![u] = n]
  /\ UNCHANGED computed

Next ==
  \/ \E us \in SUBSET Uri, n \in Number : Compute(us, n)
  \/ \E u \in Uri, n \in Number : Show(u, n)

Spec == Init /\ [][Next]_vars
==============================================================================
