----------------------------- MODULE MCTaskGrid -----------------------------
(* Small instances of the grid for TLC. *)
EXTENDS TaskGrid
=============================================================================
