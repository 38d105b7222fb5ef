------------------------------ MODULE MCWorker ------------------------------
(* Small instances of the worker for TLC.  Its liveness is checked together *)
(* with its safety, so that there is no symmetry; the model values are in   *)
(* the configurations.                                                     *)
EXTENDS Worker, TLC
=============================================================================
