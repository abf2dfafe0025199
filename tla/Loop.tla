---------------------------------- MODULE Loop ----------------------------------
(***************************************************************************)
(* bothy/daemon.py: what its loops have in common.  Each is a thread that  *)
(* makes a pass, in a handler that audits the pass that raised, and waits. *)
(***************************************************************************)
VARIABLES
    pc,     \* where the thread is: "idle", "handler", "dead" and inside a pass
    disk    \* files can be written

\* The handler.  If the audit of the failure raises too, nothing catches it, and
\* the thread ends.
Handled ==
    /\ pc = "handler"
    /\ pc' = IF disk THEN "idle" ELSE "dead"
    /\ UNCHANGED disk
=============================================================================
