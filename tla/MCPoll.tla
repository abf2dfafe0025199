-------------------------------- MODULE MCPoll --------------------------------
\* Poll for TLC: two sources, the first of which may not be readable.
EXTENDS Poll, TLC
MCSources == <<"bad", "good">>
MCOrigin == [i \in Items |-> IF i = 3 THEN "bad" ELSE "good"]
=============================================================================
