--------------------------- MODULE MCNameService ---------------------------
(* Small instances of the name service for TLC. *)
EXTENDS NameService, TLC

CONSTANTS w1, w2, reverse, sum

MCWorkers == {w1, w2}
MCTypes   == {reverse, sum}
MCTypeOf  == (w1 :> reverse) @@ (w2 :> sum)
=============================================================================
