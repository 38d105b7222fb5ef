------------------------------- MODULE Worker -------------------------------
(***************************************************************************)
(* One worker process (src/worker/worker.py) and its entry at the name     *)
(* service.  Its threads share _current_load, _task_threads and the stop   *)
(* event:                                                                  *)
(*   - the main thread: registration, start-up, and, in the signal         *)
(*     handler, the graceful shutdown                        (main)        *)
(*   - the heartbeat thread                                  (beat)        *)
(*   - the ProcessTask handlers and the task threads they start    (run)   *)
(* A call to the name service is two steps, what the name service does and *)
(* the reply; either may fail to happen, and the caller goes on after its  *)
(* timeout of 5 seconds.  The process may be killed at any step and        *)
(* started again, and so may the name service.                             *)
(***************************************************************************)
EXTENDS Integers, FiniteSets

CONSTANTS
  Me,                \* WORKER_ID
  Capacity,          \* WORKER_CAPACITY
  Slots,             \* bound: ProcessTask calls that may be in progress
  TaskIds,           \* task ids the dispatcher sends, each any number of times
  NoTask,
  MaxAttempts,       \* max_retries of _register_with_nameservice
  HeartbeatTimeout, OfflineTimeout

ASSUME WorkerAssumption ==
  /\ Capacity \in Nat \ {0} /\ MaxAttempts \in Nat \ {0}
  /\ NoTask \notin TaskIds
  /\ IsFiniteSet(Slots)
  /\ HeartbeatTimeout \in Nat /\ OfflineTimeout \in Nat
  /\ HeartbeatTimeout < OfflineTimeout

VARIABLES
  registry,  \* of the name service
  main,      \* pc of the main thread, and its registration attempt
  beat,      \* pc of the heartbeat thread, and the load it read
  stop,      \* _stop_event
  load,      \* _current_load
  threads,   \* _task_threads: the slot of each task id, or none
  run        \* run[s]: the ProcessTask handler and task thread in slot s

vars == <<registry, main, beat, stop, load, threads, run>>

NS == INSTANCE NameService
        WITH Workers <- {Me}, Types <- {"type"}, TypeOf <- [w \in {Me} |-> "type"],
             MaxLoad <- Capacity

NoSlot   == "none"
BeatOff  == [pc |-> "off", load |-> 0]
RunIdle  == [pc |-> "idle", task |-> NoTask]
Stopping == {"deregister", "deregistered", "draining", "drained", "undrained"}

\* The gRPC server takes calls from its start to its stop, the last thing the
\* shutdown does before the exit.
Serving == main.pc \in {"running"} \cup Stopping

\* All threads but the main thread are daemons and end with the process.
Threadless ==
  /\ beat' = BeatOff
  /\ load' = 0
  /\ threads' = [t \in TaskIds |-> NoSlot]
  /\ run' = [s \in Slots |-> RunIdle]
  /\ stop' = FALSE

Init ==
  /\ NS!Init
  /\ main = [pc |-> "off", attempt |-> 0]
  /\ beat = BeatOff
  /\ stop = FALSE
  /\ load = 0
  /\ threads = [t \in TaskIds |-> NoSlot]
  /\ run = [s \in Slots |-> RunIdle]
-----------------------------------------------------------------------------
(* The main thread. *)

Start ==
  /\ main.pc = "off"
  /\ main' = [pc |-> "register", attempt |-> 1]
  /\ UNCHANGED <<registry, beat, stop, load, threads, run>>

RegisterHandled ==
  /\ main.pc = "register"
  /\ NS!RegisterWorker(Me)
  /\ main' = [main EXCEPT !.pc = "registered"]
  /\ UNCHANGED <<beat, stop, load, threads, run>>

\* The reply arrives, and the heartbeat thread is started.
StartHeartbeat ==
  /\ main.pc = "registered"
  /\ main' = [pc |-> "starting", attempt |-> 0]
  /\ beat' = [pc |-> "sleep", load |-> 0]
  /\ UNCHANGED <<registry, stop, load, threads, run>>

\* No reply: the next attempt after a pause, or the end after the last one.
RegisterFails ==
  /\ main.pc \in {"register", "registered"}
  /\ main' = IF main.attempt < MaxAttempts
             THEN [pc |-> "register", attempt |-> main.attempt + 1]
             ELSE [pc |-> "off", attempt |-> 0]
  /\ UNCHANGED <<registry, beat, stop, load, threads, run>>

\* The gRPC server is started and the signal handlers are set.
StartServer ==
  /\ main.pc = "starting"
  /\ main' = [main EXCEPT !.pc = "running"]
  /\ UNCHANGED <<registry, beat, stop, load, threads, run>>

\* SIGTERM or SIGINT: _handle_shutdown deregisters ...  Another signal starts it
\* again, above the handler that is running and will never be resumed.
Shutdown ==
  /\ main.pc \in {"running"} \cup Stopping
  /\ main' = [main EXCEPT !.pc = "deregister"]
  /\ UNCHANGED <<registry, beat, stop, load, threads, run>>

DeregisterHandled ==
  /\ main.pc = "deregister"
  /\ NS!DeregisterWorker(Me)
  /\ main' = [main EXCEPT !.pc = "deregistered"]
  /\ UNCHANGED <<beat, stop, load, threads, run>>

DeregisterFails ==
  /\ main.pc = "deregister"
  /\ main' = [main EXCEPT !.pc = "deregistered"]
  /\ UNCHANGED <<registry, beat, stop, load, threads, run>>

\* Mutant: the handler waits for the tasks without setting the event first.
DrainUnstopped ==
  /\ main.pc = "deregistered"
  /\ main' = [main EXCEPT !.pc = "draining"]
  /\ UNCHANGED <<registry, beat, stop, load, threads, run>>

\* ... sets the stop event ...
SetStop ==
  /\ main.pc = "deregistered"
  /\ stop' = TRUE
  /\ main' = [main EXCEPT !.pc = "draining"]
  /\ UNCHANGED <<registry, beat, load, threads, run>>

\* ... waits until no task is left, or 30 seconds ...
Drained ==
  /\ main.pc = "draining" /\ load = 0
  /\ main' = [main EXCEPT !.pc = "drained"]
  /\ UNCHANGED <<registry, beat, stop, load, threads, run>>

DrainTimesOut ==
  /\ main.pc = "draining" /\ load > 0
  /\ main' = [main EXCEPT !.pc = "undrained"]
  /\ UNCHANGED <<registry, beat, stop, load, threads, run>>

\* ... stops the server and exits.
Exit ==
  /\ main.pc \in {"drained", "undrained"}
  /\ main' = [pc |-> "off", attempt |-> 0]
  /\ Threadless
  /\ UNCHANGED registry

\* The process is killed.
Kill ==
  /\ main.pc # "off"
  /\ main' = [pc |-> "off", attempt |-> 0]
  /\ Threadless
  /\ UNCHANGED registry
-----------------------------------------------------------------------------
(* The heartbeat thread. *)

\* The pause is over: read the load.  Once the stop event is set the loop ends.
ReadLoad ==
  /\ beat.pc = "sleep" /\ ~stop
  /\ beat' = [pc |-> "beat", load |-> load]
  /\ UNCHANGED <<registry, main, stop, load, threads, run>>

StopBeating ==
  /\ beat.pc = "sleep" /\ stop
  /\ beat' = BeatOff
  /\ UNCHANGED <<registry, main, stop, load, threads, run>>

HeartbeatHandled ==
  /\ beat.pc = "beat"
  /\ NS!Heartbeat(Me, beat.load)
  /\ beat' = [pc |-> "sleep", load |-> 0]
  /\ UNCHANGED <<main, stop, load, threads, run>>

\* Mutant: the answer "unknown worker" is only logged.
UnknownIgnored ==
  /\ beat.pc = "beat"
  /\ NS!HeartbeatUnknown(Me)
  /\ beat' = [pc |-> "sleep", load |-> 0]
  /\ UNCHANGED <<main, stop, load, threads, run>>

\* The name service does not know the worker: _reregister_once.
HeartbeatRefused ==
  /\ beat.pc = "beat"
  /\ NS!HeartbeatUnknown(Me)
  /\ beat' = [pc |-> "reregister", load |-> 0]
  /\ UNCHANGED <<main, stop, load, threads, run>>

ReregisterHandled ==
  /\ beat.pc = "reregister"
  /\ NS!RegisterWorker(Me)
  /\ beat' = [pc |-> "sleep", load |-> 0]
  /\ UNCHANGED <<main, stop, load, threads, run>>

\* The call does not get through, or its answer does not get back.
BeatFails ==
  /\ beat.pc \in {"beat", "reregister"}
  /\ beat' = [pc |-> "sleep", load |-> 0]
  /\ UNCHANGED <<registry, main, stop, load, threads, run>>
-----------------------------------------------------------------------------
(* ProcessTask and the task threads. *)

\* Mutant: off by one in the capacity check.
ReadyAtCapacity == load <= Capacity /\ ~stop

\* Mutant: the stop event is not looked at.
ReadyWhileStopping == load < Capacity

IsReady == load < Capacity /\ ~stop

\* The capacity check and what it reserves, under one lock.  A call that fails
\* it is answered accepted=false and changes nothing.
ReserveTask(s, t) ==
  /\ Serving /\ run[s].pc = "idle"
  /\ IsReady
  /\ load' = load + 1
  /\ threads' = [threads EXCEPT ![t] = s]
  /\ run' = [run EXCEPT ![s] = [pc |-> "reserved", task |-> t]]
  /\ UNCHANGED <<registry, main, beat, stop>>

StartThread(s) ==
  /\ run[s].pc = "reserved"
  /\ run' = [run EXCEPT ![s].pc = "working"]
  /\ UNCHANGED <<registry, main, beat, stop, load, threads>>

\* process_task returned or raised; _send_result calls the dispatcher once.
FinishWork(s) ==
  /\ run[s].pc = "working"
  /\ run' = [run EXCEPT ![s].pc = "sending"]
  /\ UNCHANGED <<registry, main, beat, stop, load, threads>>

\* Mutants: half of the reservation is not undone.
ReleaseLoad(s) == load' = load - 1 /\ UNCHANGED threads
ReleaseReference(s) ==
  /\ threads' = [threads EXCEPT ![run[s].task] = NoSlot]
  /\ UNCHANGED load

\* The load goes down, and whatever thread is filed under the id is dropped.
Release(s) ==
  /\ load' = load - 1
  /\ threads' = [threads EXCEPT ![run[s].task] = NoSlot]

\* thread.start() raised, or the result was sent (or given up).
EndThread(s) ==
  /\ run[s].pc \in {"reserved", "sending"}
  /\ Release(s)
  /\ run' = [run EXCEPT ![s] = RunIdle]
  /\ UNCHANGED <<registry, main, beat, stop>>
-----------------------------------------------------------------------------
(* The name service around it. *)

NameServiceStep ==
  /\ NS!HealthCheck \/ NS!Tick \/ NS!Restart
  /\ UNCHANGED <<main, beat, stop, load, threads, run>>

MainStep ==
  \/ Start \/ RegisterHandled \/ StartHeartbeat \/ RegisterFails \/ StartServer
  \/ Shutdown \/ DeregisterHandled \/ DeregisterFails \/ SetStop
  \/ Drained \/ DrainTimesOut \/ Exit \/ Kill

BeatStep ==
  \/ ReadLoad \/ StopBeating \/ HeartbeatHandled \/ HeartbeatRefused
  \/ ReregisterHandled \/ BeatFails

TaskStep(s) ==
  \/ \E t \in TaskIds : ReserveTask(s, t)
  \/ StartThread(s) \/ FinishWork(s) \/ EndThread(s)

Next == MainStep \/ BeatStep \/ (\E s \in Slots : TaskStep(s)) \/ NameServiceStep

Spec == Init /\ [][Next]_vars

\* The heartbeat thread is scheduled and its calls end by their timeout; the
\* health checker and the clock run.  The network is not down for good: a call
\* that is made again and again gets through at last.
HeartbeatFairness ==
  /\ WF_vars(ReadLoad)
  /\ WF_vars(HeartbeatHandled \/ HeartbeatRefused \/ ReregisterHandled \/ BeatFails)
  /\ SF_vars(HeartbeatRefused) /\ SF_vars(ReregisterHandled)

NameServiceFairness ==
  /\ WF_vars(NS!HealthCheck /\ UNCHANGED <<main, beat, stop, load, threads, run>>)
  /\ WF_vars(NS!Tick /\ UNCHANGED <<main, beat, stop, load, threads, run>>)

FairSpec == Spec /\ HeartbeatFairness /\ NameServiceFairness
-----------------------------------------------------------------------------
MainState ==
  [pc : {"register", "registered"}, attempt : 1..MaxAttempts]
  \cup [pc : {"off", "starting", "running"} \cup Stopping, attempt : {0}]

BeatState ==
  [pc : {"off", "sleep", "reregister"}, load : {0}]
  \cup [pc : {"beat"}, load : 0..Capacity]

RunState == {RunIdle} \cup [pc : {"reserved", "working", "sending"}, task : TaskIds]

TypeOK ==
  /\ NS!TypeOK
  /\ main \in MainState
  /\ beat \in BeatState
  /\ stop \in BOOLEAN
  /\ load \in 0..Capacity
  /\ threads \in [TaskIds -> Slots \cup {NoSlot}]
  /\ run \in [Slots -> RunState]

InProgress == {s \in Slots : run[s].pc # "idle"}

\* The load the worker reports and refuses by is exactly the number of tasks it
\* has reserved and not released, though handlers, task threads and the shutdown
\* interleave and the same task id may be given to it twice.
LoadExact == load = Cardinality(InProgress)

\* A shutdown that did not time out abandons nothing: when the wait ended with
\* no load left, no task is in progress, and none is taken until the exit.
DrainedCleanly == main.pc = "drained" => InProgress = {}

\* _task_threads is filed by task id, and the same id may be in progress twice,
\* the second entry replacing the first.  What is in it is always a thread in
\* progress for this id: no dead thread stays behind, though a live one may be
\* missing.
ThreadsCurrent ==
  \A t \in TaskIds : threads[t] # NoSlot =>
    run[threads[t]].pc # "idle" /\ run[threads[t]].task = t

\* A worker that is gone without deregistering, crashed or killed, does not stay
\* on offer: its entry ends up OFFLINE or is gone.
CrashNoticed ==
  <>[](main.pc = "off") => <>[](registry[Me].status \in {"OFFLINE", "UNSPECIFIED"})

\* A name service that was restarted, and has forgotten every worker, hears of a
\* running one again.
Reregistered == <>[](main.pc = "running") => []<>NS!Registered(Me)
-----------------------------------------------------------------------------
(* What the grid sees of the process. *)

LifePhase ==
  IF main.pc \in {"off", "register"} THEN "off"
  ELSE IF main.pc \in {"registered", "starting"} THEN "starting"
  ELSE IF main.pc = "running" THEN "running"
  ELSE IF stop THEN "stopping" ELSE "leaving"

Life == INSTANCE WorkerLife
          WITH Workers <- {Me}, phase <- [w \in {Me} |-> LifePhase], tasks <- [w \in {Me} |-> load]

\* The threads of the process keep to the life the grid knows: whatever they
\* interleave, no task is taken before the server runs, after the stop event or
\* above the capacity, none outlives the process, the registry hears of the
\* process only while it lives, and it is deregistered only by a shutdown.
ImplementsLife == Life!Spec
-----------------------------------------------------------------------------
(* What the documents say of the worker and its code does not do. *)

\* docs/adr/ADR-005.md has a worker deregister at SIGTERM, so that an orderly
\* shutdown is noticed at once.  A heartbeat of the other thread that comes after
\* the deregistration, before the stop event, registers it again.
DeregisteredForGood ==
  [][main.pc \in Stopping \ {"deregister"} /\ ~NS!Registered(Me) => ~NS!Registered(Me)']_vars
=============================================================================
