---------------------------- MODULE MCWakeStore ----------------------------
\* WakeStore for TLC: a delivery, its retry, and a request without a key.
EXTENDS WakeStore, TLC
CONSTANTS q1, q2, q3, hook
MCKey == q1 :> hook @@ q2 :> hook @@ q3 :> NoKey
\* The delivery and its retry differ in nothing, nor do the two markers.
Symmetry == Permutations({q1, q2}) \cup Permutations(Markers)
=============================================================================
