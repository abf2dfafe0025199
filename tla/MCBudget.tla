------------------------------ MODULE MCBudget ------------------------------
\* Budget for TLC: three runs of one unit under a ceiling of two, so that the
\* third is refused while two are in flight, and each may spend twice its promise.
EXTENDS Budget
MCObserved == {0}
=============================================================================
