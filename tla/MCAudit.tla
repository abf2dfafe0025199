------------------------------- MODULE MCAudit -------------------------------
(* Two writers, for example the daemon and an operator's command. *)
EXTENDS Audit
CONSTANTS daemon, command
MCWriters == {daemon, command}
==============================================================================
