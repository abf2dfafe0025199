----------------------------- MODULE MCLifecycle -----------------------------
(* Two daemon processes on one state directory and a run. *)
EXTENDS Lifecycle, TLC
CONSTANTS old, new, one
MCDaemons == {old, new}
MCRuns == {one}
Symmetry == Permutations(MCDaemons)
==============================================================================
