------------------------------- MODULE MCPool -------------------------------
\* Pool for TLC.  One failure in three samples is between the grow and the
\* shrink ratio, one in two shrinks, two in three collapse, so a window of three
\* reaches every branch of the recompute.
EXTENDS Pool
MCObserved == {0, 3}
=============================================================================
