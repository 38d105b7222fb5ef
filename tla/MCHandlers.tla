----------------------------- MODULE MCHandlers -----------------------------
(* Small instances of the handlers for TLC. *)
EXTENDS Handlers

\* One part of every kind, and lists of up to three parts of a few.
MCNumbers  == -2..50
MCFew      == {Blank, Junk, NaN, -2, 3}
MCPayloads == {<<p>> : p \in Parts} \cup UNION {[1..k -> MCFew] : k \in 2..3}
=============================================================================
