------------------------------ MODULE TaskBoard ------------------------------
(***************************************************************************)
(* What the dispatcher promises to a client, without queue, threads or     *)
(* workers: a task that was accepted stays open until it gets an outcome,  *)
(* and the outcome never changes.                                          *)
(***************************************************************************)
CONSTANT TaskIds

VARIABLE outcome   \* outcome[t]: what the board says of task t

Outcomes == {"absent", "open", "COMPLETED", "FAILED"}

TypeOK == outcome \in [TaskIds -> Outcomes]

Init == outcome = [t \in TaskIds |-> "absent"]

Accept(t) == outcome[t] = "absent" /\ outcome' = [outcome EXCEPT ![t] = "open"]

Settle(t, o) == outcome[t] = "open" /\ outcome' = [outcome EXCEPT ![t] = o]

Next == \E t \in TaskIds :
           \/ Accept(t)
           \/ \E o \in {"COMPLETED", "FAILED"} : Settle(t, o)

Spec == Init /\ [][Next]_outcome
=============================================================================
