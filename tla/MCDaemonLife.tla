---------------------------- MODULE MCDaemonLife ----------------------------
(* Instances of DaemonLife for TLC.                                          *)
EXTENDS DaemonLife

=============================================================================
