------------------------------- MODULE MCDrove -------------------------------
\* Drove for TLC: two wakes, one of them for what a start by hand is for too.
EXTENDS Drove, TLC
CONSTANTS v, w
MCTarget == v :> "a" @@ w :> "b" @@ "hand" :> "a"
=============================================================================
