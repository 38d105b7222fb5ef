------------------------ MODULE MCDispatcherRestart ------------------------
(* Small instances of the dispatcher with restarts for TLC. *)
EXTENDS DispatcherRestart
=============================================================================
