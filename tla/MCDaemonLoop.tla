---------------------------- MODULE MCDaemonLoop ----------------------------
(* Small instances of DaemonLoop for TLC. *)
EXTENDS DaemonLoop

=============================================================================
