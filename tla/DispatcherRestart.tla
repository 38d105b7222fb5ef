-------------------------- MODULE DispatcherRestart --------------------------
(***************************************************************************)
(* The dispatcher with restarts.  Its store, its queue and its id counter  *)
(* are in memory only (src/dispatcher/dispatcher.py, Dispatcher.__init__), *)
(* while the workers go on with what they were given and report it to the  *)
(* next dispatcher at the same address.                                    *)
(***************************************************************************)
EXTENDS Dispatcher

CONSTANT MaxLives    \* bound: starts of the dispatcher

VARIABLES
  life,     \* which start of the dispatcher this is
  since     \* since[w][s]: the life in which execution s at w was handed out

restartVars == <<vars, life, since>>

RestartInit ==
  /\ Init
  /\ life = 1
  /\ since = [w \in Workers |-> [s \in Slots |-> 0]]

HandedOut(w, s) == job[w][s].pc = "idle" /\ job'[w][s].pc = "working"

\* A step as before; what it hands out belongs to this life.
Ordinary ==
  /\ Next
  /\ since' = [w \in Workers |-> [s \in Slots |->
                 IF HandedOut(w, s) THEN life ELSE since[w][s]]]
  /\ UNCHANGED life

\* All of the dispatcher's state is gone, its ReturnResult handlers with it, and
\* ids start at 1 again.  The workers keep what they execute.
Restart ==
  /\ life < MaxLives
  /\ life' = life + 1
  /\ store' = [t \in TaskIds |-> NoRecord]
  /\ queue' = <<>> /\ nextId' = 1 /\ posting' = {}
  /\ loop' = LoopIdle /\ sweep' = SweepIdle
  /\ snap' = [t \in TaskIds |-> NotDue]
  /\ job' = [w \in Workers |-> [s \in Slots |->
               IF job[w][s].pc = "returning" THEN JobIdle ELSE job[w][s]]]
  /\ UNCHANGED since

RestartNext == Ordinary \/ Restart

RestartSpec == RestartInit /\ [][RestartNext]_restartVars
-----------------------------------------------------------------------------
\* A settled task keeps its outcome until the next restart, though executions of
\* an earlier life may still report under its id.
SettledInThisLife ==
  [][~Restart =>
       \A t \in TaskIds :
         Settled(t) => Settled(t)' /\ store'[t].status = store[t].status]_restartVars

\* docs/interfaces.md calls the task id unique, and return_result goes by it (and
\* by the worker) alone.  After a restart the ids are given out again: the result
\* of an old execution is accepted for the new task of the same id.
ResultOfThisTask ==
  \A w \in Workers, s \in Slots : job[w][s].pc = "returning" => since[w][s] = life
=============================================================================
