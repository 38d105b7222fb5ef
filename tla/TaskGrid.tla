------------------------------ MODULE TaskGrid ------------------------------
(***************************************************************************)
(* The whole grid: the dispatcher, the name service it asks for workers,   *)
(* and worker processes that register, beat, execute, shut down and die.   *)
(* What the module Dispatcher leaves open is decided here by the other     *)
(* processes: which workers a lookup offers and whom it prefers, and       *)
(* whether a worker can take a task.                                       *)
(*                                                                         *)
(* A call between two processes is one step where nothing can come between *)
(* its parts that the callee would notice; ProcessTask, whose reply races  *)
(* the timeout checker, is the two steps it is in the module Dispatcher.   *)
(* The workers are those of the module WorkerLife, which the module Worker *)
(* implements with the threads of a process.                               *)
(***************************************************************************)
EXTENDS Dispatcher

CONSTANTS
  HeartbeatTimeout, OfflineTimeout,  \* of the name service, in ticks
  MaxFaults                          \* bound: kills, shutdowns, restarts

ASSUME TaskGridAssumption ==
  /\ HeartbeatTimeout \in Nat /\ OfflineTimeout \in Nat
  /\ HeartbeatTimeout < OfflineTimeout /\ MaxFaults \in Nat
  /\ IsFiniteSet(Slots)

VARIABLES
  registry,  \* the name service's
  phase,     \* phase[w]: how far worker process w is in its life
  orphans,   \* the ReturnResult handlers no worker waits for any more
  faults     \* bound: how often something was stopped

gridVars == <<vars, registry, phase, orphans, faults>>

NS == INSTANCE NameService
        WITH Types <- {"type"}, TypeOf <- [w \in Workers |-> "type"],
             MaxLoad <- Cardinality(Slots)

\* The tasks a worker has taken and not finished: _current_load is lowered when
\* the ReturnResult call has come back.
Counted(w) == {s \in Slots : job[w][s].pc # "idle" /\ <<w, s>> \notin orphans}
Executing == [w \in Workers |-> Cardinality(Counted(w))]

Life == INSTANCE WorkerLife WITH Capacity <- Cardinality(Slots), tasks <- Executing

\* The heartbeat thread starts before the server and runs until the stop event.
Beating(w) == phase[w] \in {"starting", "running", "leaving"}

GridInit ==
  /\ Init
  /\ NS!Init
  /\ phase = [w \in Workers |-> "off"]
  /\ orphans = {}
  /\ faults = 0
-----------------------------------------------------------------------------
(* The dispatcher's calls. *)

Offered == NS!LookupWorker("type")

\* A step of the dispatcher alone.
Alone(A) == A /\ UNCHANGED <<registry, phase, orphans, faults>>

\* _select_worker: a worker of the least load, as last reported.
LeastLoaded(ws) == {w \in ws : \A v \in ws : registry[w].load <= registry[v].load}

Select(t) ==
  /\ Alone(AssignWorker(t, Offered))
  /\ loop'.worker \in LeastLoaded(Candidates(Offered, loop.exclude))

NobodyThere == Offered = {} /\ Alone(NoWorkerFirst \/ NoAlternative)

\* Mutant: a task is taken after the stop event, too.
TakeTaskStopping(t) ==
  loop.pc = "calling" /\ phase[loop.worker] \notin {"off", "starting"} /\ Alone(ProcessTask(t))

TakeTask(t) == loop.pc = "calling" /\ Life!Accepting(loop.worker) /\ Alone(ProcessTask(t))

GridLoopStep ==
  \/ Alone(Dequeue \/ NameserviceDown \/ Requeue \/ RequeueEnqueue)
  \/ NobodyThere
  \/ \E t \in TaskIds : Select(t) \/ TakeTask(t) \/ Alone(MarkProcessing(t))

\* The handler of a ReturnResult call ends; the worker, if it still waits for
\* the reply, is done with the task.
AnswerResult(w, s) ==
  /\ StoreResult(w, s)
  /\ orphans' = orphans \ {<<w, s>>}
  /\ UNCHANGED <<registry, phase, faults>>

\* An execution ends with a call that is refused or lost, or one that is handled.
EndStep(w, s) ==
  \/ Alone((\E ok \in BOOLEAN : ReportResult(w, s, ok)) \/ LoseResult(w, s))
  \/ AnswerResult(w, s)

\* The worker gives up waiting after 10 seconds; the handler goes on.
ReturnTimesOut(w, s) ==
  /\ job[w][s].pc = "returning" /\ <<w, s>> \notin orphans
  /\ orphans' = orphans \cup {<<w, s>>}
  /\ UNCHANGED <<vars, registry, phase, faults>>

\* The other threads of the dispatcher, and the ends of executions.
OtherStep ==
  \/ Alone(PostStep)
  \/ Alone(Scan) \/ \E t \in TaskIds : Alone(SweepStep(t))
  \/ \E w \in Workers, s \in Slots : EndStep(w, s) \/ ReturnTimesOut(w, s)
-----------------------------------------------------------------------------
(* The worker processes. *)

\* A step between a worker and the name service, or of a worker alone.
Elsewhere(A) == UNCHANGED <<vars, orphans, faults>> /\ A

\* Mutant: a worker the name service has forgotten does not register again.
BeatOnly(w) ==
  Elsewhere(phase[w] # "off" /\ UNCHANGED phase /\ NS!Heartbeat(w, Executing[w]))

\* Mutant: whoever beats gets an entry, registered or not.
BeatUnchecked(w) ==
  /\ phase[w] # "off"
  /\ registry' = [registry EXCEPT ![w] = [@ EXCEPT !.age = 0, !.load = Executing[w]]]
  /\ UNCHANGED <<vars, phase, orphans, faults>>

Beat(w) == Elsewhere(Life!Beat(w))

Start(w)   == Elsewhere(Life!Register(w) \/ Life!StartServer(w))
SetStop(w) == Elsewhere(Life!SetStop(w))

Shutdown(w) ==
  /\ faults < MaxFaults
  /\ faults' = faults + 1 /\ UNCHANGED <<vars, orphans>>
  /\ Life!Shutdown(w)

\* The process is gone, and all it was executing; the handlers it called go on.
Gone(w) ==
  /\ WorkerDies(w) \/ (UNCHANGED vars /\ \A s \in Slots : job[w][s].pc # "working")
  /\ orphans' = orphans \cup {<<w, s>> : s \in {x \in Slots : job[w][x].pc = "returning"}}
  /\ Life!Gone(w)

\* The end of a shutdown, with or without work left.
Exit(w) == phase[w] = "stopping" /\ Gone(w) /\ UNCHANGED faults

\* A kill, or the end of a process whose registration was not answered.
Kill(w) ==
  /\ faults < MaxFaults
  /\ faults' = faults + 1
  /\ Gone(w)

WorkerStep(w) ==
  \/ Start(w) \/ Beat(w) \/ Shutdown(w) \/ Elsewhere(Life!Deregister(w)) \/ SetStop(w)
  \/ Exit(w) \/ Kill(w)
-----------------------------------------------------------------------------
(* The name service and the clock. *)

HealthCheck == NS!HealthCheck /\ UNCHANGED <<vars, phase, orphans, faults>>

\* The name service is restarted, with an empty registry.
NameServiceRestart ==
  /\ faults < MaxFaults
  /\ NS!Restart
  /\ faults' = faults + 1
  /\ UNCHANGED <<vars, phase, orphans>>

\* Heartbeats come every 10 seconds and get through, within the timeout of 30.
Punctual(w) == Beating(w) => NS!Registered(w) /\ registry[w].age < HeartbeatTimeout

GridTick ==
  /\ \A w \in Workers : Punctual(w)
  /\ Tick
  /\ NS!Tick
  /\ UNCHANGED <<phase, orphans, faults>>

GridNext ==
  \/ GridLoopStep
  \/ OtherStep
  \/ \E w \in Workers : WorkerStep(w)
  \/ HealthCheck
  \/ NameServiceRestart
  \/ GridTick

GridSpec == GridInit /\ [][GridNext]_gridVars
-----------------------------------------------------------------------------
\* The threads of all processes are scheduled and the clock runs.  Of the
\* network: a lookup, a ProcessTask call and its reply that are tried again and
\* again get through at last.  Nothing is assumed of what a lookup offers.
GridFairSpec ==
  /\ GridSpec
  /\ WF_gridVars(GridLoopStep)
  /\ \A t \in TaskIds :
       /\ WF_gridVars(Alone(PostStore(t))) /\ WF_gridVars(Alone(PostEnqueue(t)))
       /\ WF_gridVars(Alone(SweepStep(t)))
       /\ SF_gridVars(Select(t)) /\ SF_gridVars(TakeTask(t))
       /\ SF_gridVars(Alone(MarkProcessing(t)))
  /\ WF_gridVars(Alone(Scan))
  /\ \A w \in Workers :
       /\ \A s \in Slots : WF_gridVars(EndStep(w, s))
       /\ WF_gridVars(Elsewhere(Life!StartServer(w))) /\ WF_gridVars(Beating(w) /\ Beat(w))
       /\ WF_gridVars(SetStop(w)) /\ WF_gridVars(Exit(w))
  /\ WF_gridVars(HealthCheck) /\ WF_gridVars(GridTick)
-----------------------------------------------------------------------------
GridTypeOK ==
  /\ TypeOK
  /\ NS!TypeOK
  /\ phase \in [Workers -> Life!Phases]
  /\ orphans \subseteq Workers \X Slots
  /\ \A p \in orphans : job[p[1]][p[2]].pc = "returning"
  /\ faults \in 0..MaxFaults

\* The workers of the grid are those of WorkerLife: what the dispatcher believes of
\* an execution, and when it ends the calls, never takes a worker out of its life or
\* over its capacity.
ImplementsLife == Life!Spec

\* A worker that lives and beats in time is on offer, whatever its entry was
\* before: written off after a kill, not yet noticed dead, or forgotten.  Only the
\* name service that was restarted does not know it, until its next heartbeat.
BeatingOffered == \A w \in Workers : Beating(w) /\ NS!Registered(w) => w \in Offered

\* The dispatch loop fails a retry for which nobody is on offer.  That takes a fault:
\* as long as nothing was killed, shut down or restarted, the worker that made the
\* first attempt stays on offer, silent only as long as its next heartbeat takes.
RetryFindsWorker ==
  faults = 0 /\ loop.pc = "select" /\ loop.retry > 0 => Offered # {}

\* Every accepted task gets an outcome that lasts, if one worker at last keeps
\* running: whatever was killed, shut down or restarted before, with the task at a
\* worker, in the queue or in a call, the grid finds its way back.
GridSettles ==
  (\E w \in Workers : <>[](phase[w] = "running")) => EventuallySettled
=============================================================================
