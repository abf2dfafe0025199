------------------------------- MODULE MCHold -------------------------------
\* Hold for TLC: the reply in chat may be for either request, the command is
\* for the first.
EXTENDS Hold, TLC
CONSTANTS q1, q2, chat1, shell1
MCAbout == chat1 :> {q1, q2} @@ shell1 :> {q1}
MCAboutOne == chat1 :> {q1} @@ shell1 :> {q1}
=============================================================================
