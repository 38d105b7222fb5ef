------------------------- MODULE MCDispatcherStatus -------------------------
(* Small instances of the dispatcher with its counters for TLC. *)
EXTENDS DispatcherStatus
=============================================================================
