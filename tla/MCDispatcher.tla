---------------------------- MODULE MCDispatcher ----------------------------
(* Small instances of the dispatcher for TLC. *)
EXTENDS Dispatcher, TLC

Symmetry == Permutations(Workers) \cup Permutations(Slots)
=============================================================================
