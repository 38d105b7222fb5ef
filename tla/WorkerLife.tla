----------------------------- MODULE WorkerLife -----------------------------
(***************************************************************************)
(* What the rest of the grid sees of its worker processes: their entries   *)
(* at the name service, how far each is in its life, and how many tasks it *)
(* has taken and not finished.  The module Worker, with all the threads of *)
(* one process, implements this; the workers of the module TaskGrid are    *)
(* this and nothing else.                                                  *)
(***************************************************************************)
EXTENDS Integers

CONSTANTS
  Workers,
  Capacity,   \* of every worker
  HeartbeatTimeout, OfflineTimeout  \* of the name service

VARIABLES
  registry,  \* the name service's
  phase,     \* phase[w]: how far worker process w is in its life
  tasks      \* tasks[w]: the tasks it has taken and not finished

lifeVars == <<registry, phase, tasks>>

NS == INSTANCE NameService
        WITH Types <- {"type"}, TypeOf <- [w \in Workers |-> "type"], MaxLoad <- Capacity

Phases == {"off", "starting", "running", "leaving", "stopping"}

\* The server runs and the stop event is not set.
Accepting(w) == phase[w] \in {"running", "leaving"}

Init ==
  /\ NS!Init
  /\ phase = [w \in Workers |-> "off"]
  /\ tasks = [w \in Workers |-> 0]
-----------------------------------------------------------------------------
\* A process is started and gets through to the name service ...
Register(w) ==
  /\ phase[w] = "off"
  /\ phase' = [phase EXCEPT ![w] = "starting"]
  /\ NS!RegisterWorker(w)
  /\ UNCHANGED tasks

\* ... and, the reply being there, starts its server.
StartServer(w) ==
  /\ phase[w] = "starting"
  /\ phase' = [phase EXCEPT ![w] = "running"]
  /\ UNCHANGED <<registry, tasks>>

\* A heartbeat; answered "unknown worker", the worker registers again.  It says
\* what the load was when it was sent, and one that is under way when the
\* process stops is still handled.
Beat(w) ==
  /\ phase[w] # "off"
  /\ \/ \E load \in 0..Capacity : NS!Heartbeat(w, load)
     \/ ~NS!Registered(w) /\ NS!RegisterWorker(w)
  /\ UNCHANGED <<phase, tasks>>

\* SIGTERM ...
Shutdown(w) ==
  /\ phase[w] = "running"
  /\ phase' = [phase EXCEPT ![w] = "leaving"]
  /\ UNCHANGED <<registry, tasks>>

\* ... the worker deregisters, if it gets through; again at another SIGTERM ...
Deregister(w) ==
  /\ phase[w] \in {"leaving", "stopping"}
  /\ NS!DeregisterWorker(w)
  /\ UNCHANGED <<phase, tasks>>

\* ... and sets the stop event, whether it got through or not.
SetStop(w) ==
  /\ phase[w] = "leaving"
  /\ phase' = [phase EXCEPT ![w] = "stopping"]
  /\ UNCHANGED <<registry, tasks>>

\* The process is gone, and all it was executing: the end of a shutdown, a
\* registration given up, or a kill.
Gone(w) ==
  /\ phase[w] # "off"
  /\ phase' = [phase EXCEPT ![w] = "off"]
  /\ tasks' = [tasks EXCEPT ![w] = 0]
  /\ UNCHANGED registry
-----------------------------------------------------------------------------
\* ProcessTask answers accepted=true.
Take(w) ==
  /\ Accepting(w) /\ tasks[w] < Capacity
  /\ tasks' = [tasks EXCEPT ![w] = @ + 1]
  /\ UNCHANGED <<registry, phase>>

\* A task is done, its result sent or lost.
Done(w) ==
  /\ tasks[w] > 0
  /\ tasks' = [tasks EXCEPT ![w] = @ - 1]
  /\ UNCHANGED <<registry, phase>>

\* The name service's own steps, and its restart.
NameServiceStep ==
  /\ NS!HealthCheck \/ NS!Tick \/ NS!Restart
  /\ UNCHANGED <<phase, tasks>>

Next ==
  \/ \E w \in Workers :
       \/ Register(w) \/ StartServer(w) \/ Beat(w) \/ Shutdown(w) \/ Deregister(w)
       \/ SetStop(w) \/ Gone(w) \/ Take(w) \/ Done(w)
  \/ NameServiceStep

Spec == Init /\ [][Next]_lifeVars
=============================================================================
