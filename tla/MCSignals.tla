------------------------------ MODULE MCSignals ------------------------------
(***************************************************************************)
(* Model-checking instance of Signals: an operator sends SIGHUP, SIGUSR1  *)
(* or SIGTERM, and child processes exit.                                   *)
(***************************************************************************)
EXTENDS Signals

MCSendable == {"SIGHUP", "SIGUSR1", "SIGTERM", "SIGPIPE"}

\* Signals that do not end the process.
ReloadSignals == {"SIGHUP", "SIGUSR2"}

=============================================================================
