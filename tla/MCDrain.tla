------------------------------ MODULE MCDrain ------------------------------
\* Drain for TLC: a wake with a goal and one without on the same lane, so that
\* the lane found busy for one defers the other.
EXTENDS Drain, TLC
CONSTANTS goal, plain
MCSubject == goal :> "s" @@ plain :> "s"
=============================================================================
