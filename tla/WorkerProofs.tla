---------------------------- MODULE WorkerProofs ----------------------------
(* Theorems about the worker, for any capacity, any finite number of calls  *)
(* in progress, and any task ids.                                          *)
EXTENDS Worker, FiniteSetTheorems, TLAPS

\* TypeOK is not inductive: that the load does not become negative needs that it
\* is the number of tasks in progress.  The load stays 0 after the wait of the
\* shutdown because the stop event was set before it.
Drain ==
  /\ main.pc \in {"draining", "drained", "undrained"} => stop
  /\ main.pc = "drained" => load = 0

LoadInv == TypeOK /\ LoadExact /\ Drain

-----------------------------------------------------------------------------
(* The entry at the name service. *)

LEMMA EntryTypes ==
  /\ NS!NoEntry \in NS!Entry
  /\ \A st \in {"ACTIVE", "UNHEALTHY", "OFFLINE"}, a \in NS!Ages, n \in 0..Capacity :
       [status |-> st, age |-> a, load |-> n] \in NS!Entry
  /\ \A e \in NS!Entry : e.status # "UNSPECIFIED" =>
       /\ e.status \in {"ACTIVE", "UNHEALTHY", "OFFLINE"}
       /\ e.age \in NS!Ages
       /\ e.load \in 0..Capacity
       /\ e = [status |-> e.status, age |-> e.age, load |-> e.load]
BY DEF NS!Entry, NS!NoEntry

LEMMA AgeZero == 0 \in NS!Ages
BY WorkerAssumption DEF NS!Ages, NS!Silent

LEMMA RegisterTyped ==
  ASSUME NS!TypeOK, NS!RegisterWorker(Me) PROVE NS!TypeOK'
<1>1. [status |-> "ACTIVE", age |-> 0, load |-> 0] \in NS!Entry
  BY EntryTypes, AgeZero, WorkerAssumption
<1> QED
  BY <1>1 DEF NS!TypeOK, NS!RegisterWorker

LEMMA HeartbeatTyped ==
  ASSUME NS!TypeOK, NEW n \in 0..Capacity, NS!Heartbeat(Me, n) PROVE NS!TypeOK'
<1>1. registry[Me] \in NS!Entry /\ registry[Me].status # "UNSPECIFIED"
  BY DEF NS!TypeOK, NS!Heartbeat, NS!Registered
<1>2. NS!Heard(registry[Me].status) \in {"ACTIVE", "UNHEALTHY", "OFFLINE"}
  BY <1>1, EntryTypes DEF NS!Heard
<1>3. [status |-> NS!Heard(registry[Me].status), age |-> 0, load |-> n] \in NS!Entry
  BY <1>2, EntryTypes, AgeZero
<1> QED
  BY <1>3 DEF NS!TypeOK, NS!Heartbeat

LEMMA DeregisterTyped ==
  ASSUME NS!TypeOK, NS!DeregisterWorker(Me) PROVE NS!TypeOK'
BY EntryTypes DEF NS!TypeOK, NS!DeregisterWorker

LEMMA NameServiceTyped ==
  ASSUME NS!TypeOK, NS!HealthCheck \/ NS!Tick \/ NS!Restart PROVE NS!TypeOK'
<1>0. registry[Me] \in NS!Entry
  BY DEF NS!TypeOK
<1>1. CASE NS!HealthCheck
  <2>1. ASSUME NS!Registered(Me) PROVE NS!Checked(registry[Me]) \in NS!Entry
    <3>1. \A x \in {"UNHEALTHY", "OFFLINE"} :
            [registry[Me] EXCEPT !.status = x] = [status |-> x, age |-> registry[Me].age,
                                                  load |-> registry[Me].load]
      BY <1>0, <2>1, EntryTypes DEF NS!Registered
    <3> QED
      BY <3>1, <1>0, <2>1, EntryTypes DEF NS!Registered, NS!Checked
  <2> QED
    BY <1>1, <2>1, EntryTypes DEF NS!HealthCheck, NS!TypeOK
<1>2. CASE NS!Tick
  <2>1. ASSUME NS!Registered(Me), registry[Me].age < NS!Silent
        PROVE  [registry[Me] EXCEPT !.age = @ + 1] \in NS!Entry
    <3>1. registry[Me].age + 1 \in NS!Ages
      BY <1>0, <2>1, EntryTypes, WorkerAssumption
      DEF NS!Registered, NS!Ages, NS!Silent
    <3>2. [registry[Me] EXCEPT !.age = @ + 1] =
            [status |-> registry[Me].status, age |-> registry[Me].age + 1,
             load |-> registry[Me].load]
      BY <1>0, <2>1, EntryTypes DEF NS!Registered
    <3> QED
      BY <3>1, <3>2, <1>0, <2>1, EntryTypes DEF NS!Registered
  <2> QED
    BY <1>0, <1>2, <2>1 DEF NS!Tick, NS!TypeOK
<1>3. CASE NS!Restart
  BY <1>3, EntryTypes DEF NS!Restart, NS!TypeOK
<1> QED
  BY <1>1, <1>2, <1>3
-----------------------------------------------------------------------------
(* Slots taken and released. *)

LEMMA CountType ==
  /\ IsFiniteSet(InProgress)
  /\ Cardinality(InProgress) \in Nat
BY FS_Subset, FS_CardinalityType, WorkerAssumption DEF InProgress

LEMMA CountSame ==
  ASSUME NEW s \in Slots, run \in [Slots -> RunState], run[s].pc # "idle",
         NEW p \in {"working", "sending"}, run' = [run EXCEPT ![s].pc = p]
  PROVE  InProgress' = InProgress
BY DEF InProgress

LEMMA CountUp ==
  ASSUME NEW s \in Slots, NEW t \in TaskIds, run \in [Slots -> RunState],
         run[s].pc = "idle",
         run' = [run EXCEPT ![s] = [pc |-> "reserved", task |-> t]]
  PROVE  Cardinality(InProgress') = Cardinality(InProgress) + 1
<1>1. InProgress' = InProgress \cup {s} /\ s \notin InProgress
  BY DEF InProgress
<1> QED
  BY <1>1, CountType, FS_AddElement

LEMMA CountDown ==
  ASSUME NEW s \in Slots, run \in [Slots -> RunState], run[s].pc # "idle",
         run' = [run EXCEPT ![s] = RunIdle]
  PROVE  /\ Cardinality(InProgress') = Cardinality(InProgress) - 1
         /\ Cardinality(InProgress) > 0
<1>1. InProgress' = InProgress \ {s} /\ s \in InProgress
  BY DEF InProgress, RunIdle
<1>2. Cardinality(InProgress') = Cardinality(InProgress) - 1
  BY <1>1, CountType, FS_RemoveElement
<1>3. Cardinality(InProgress) # 0
  BY <1>1, CountType, FS_EmptySet
<1> QED
  BY <1>2, <1>3, CountType

LEMMA CountNone ==
  ASSUME \A s \in Slots : run[s].pc = "idle"
  PROVE  Cardinality(InProgress) = 0
<1>1. InProgress = {}
  BY DEF InProgress
<1> QED
  BY <1>1, FS_EmptySet
-----------------------------------------------------------------------------
(* The states of the local variables. *)

LEMMA RunStates ==
  /\ RunIdle \in RunState
  /\ \A t \in TaskIds, p \in {"reserved", "working", "sending"} :
       [pc |-> p, task |-> t] \in RunState
  /\ \A r \in RunState : r.pc # "idle" =>
       r.task \in TaskIds /\ r = [pc |-> r.pc, task |-> r.task]
BY DEF RunState, RunIdle

LEMMA MainStates ==
  /\ \A p \in {"off", "starting", "running"} \cup Stopping :
       [pc |-> p, attempt |-> 0] \in MainState
  /\ \A p \in {"register", "registered"}, n \in 1..MaxAttempts :
       [pc |-> p, attempt |-> n] \in MainState
  /\ \A m \in MainState :
       /\ m = [pc |-> m.pc, attempt |-> m.attempt]
       /\ m.pc \in {"register", "registered"} => m.attempt \in 1..MaxAttempts
       /\ m.pc \notin {"register", "registered"} => m.attempt = 0
BY DEF MainState, Stopping

LEMMA BeatStates ==
  /\ BeatOff \in BeatState
  /\ \A p \in {"off", "sleep", "reregister"} : [pc |-> p, load |-> 0] \in BeatState
  /\ \A n \in 0..Capacity : [pc |-> "beat", load |-> n] \in BeatState
  /\ \A b \in BeatState : b.pc = "beat" => b.load \in 0..Capacity
BY DEF BeatState, BeatOff

LEMMA InvInit == Init => LoadInv
<1> SUFFICES ASSUME Init PROVE LoadInv
  OBVIOUS
<1>1. TypeOK
  <2>1. NS!TypeOK
    BY EntryTypes DEF Init, NS!Init, NS!TypeOK
  <2>2. main \in MainState /\ beat \in BeatState
    BY MainStates, BeatStates DEF Init
  <2>3. load \in 0..Capacity
    BY WorkerAssumption DEF Init
  <2>5. stop \in BOOLEAN
    BY DEF Init
  <2>4. threads \in [TaskIds -> Slots \cup {NoSlot}] /\ run \in [Slots -> RunState]
    BY RunStates DEF Init
  <2> QED
    BY <2>1, <2>2, <2>3, <2>4, <2>5 DEF TypeOK
<1>2. LoadExact
  BY CountNone DEF Init, LoadExact, RunIdle
<1> QED
  BY <1>1, <1>2 DEF LoadInv, Drain, Init

\* A step of the main thread before the exit, and a step of the heartbeat thread,
\* leave the tasks alone.
LEMMA MainMoves ==
  ASSUME LoadInv, main' \in MainState, NS!TypeOK', beat' \in BeatState,
         stop' \in BOOLEAN, UNCHANGED <<load, threads, run>>, Drain'
  PROVE  LoadInv'
BY DEF LoadInv, TypeOK, LoadExact, InProgress

LEMMA BeatMoves ==
  ASSUME LoadInv, beat' \in BeatState, NS!TypeOK',
         UNCHANGED <<main, stop, load, threads, run>>
  PROVE  LoadInv'
BY DEF LoadInv, TypeOK, LoadExact, InProgress, Drain

\* The end of the process ends its threads.
LEMMA EndMoves ==
  ASSUME LoadInv, main' = [pc |-> "off", attempt |-> 0], Threadless, UNCHANGED registry
  PROVE  LoadInv'
<1>1. NS!TypeOK'
  BY DEF LoadInv, TypeOK, NS!TypeOK
<1>2. main' \in MainState /\ beat' \in BeatState
  BY MainStates, BeatStates DEF Threadless
<1>3. load' \in 0..Capacity
  BY WorkerAssumption DEF Threadless
<1>3a. stop' \in BOOLEAN
  BY DEF Threadless
<1>4. threads' \in [TaskIds -> Slots \cup {NoSlot}] /\ run' \in [Slots -> RunState]
  BY RunStates DEF Threadless
<1>5. TypeOK'
  BY <1>1, <1>2, <1>3, <1>3a, <1>4 DEF TypeOK
<1>6. \A s \in Slots : run'[s].pc = "idle"
  BY DEF Threadless, RunIdle
<1>7. Cardinality(InProgress') = 0
  <2>1. InProgress' = {}
    BY <1>6 DEF InProgress
  <2> QED
    BY <2>1, FS_EmptySet
<1>8. LoadExact' /\ Drain'
  BY <1>7 DEF LoadExact, Drain, Threadless
<1> QED
  BY <1>5, <1>8 DEF LoadInv

LEMMA MainPreserves == LoadInv /\ MainStep => LoadInv'
<1> SUFFICES ASSUME LoadInv, MainStep PROVE LoadInv'
  OBVIOUS
<1> USE DEF LoadInv
<1>0. /\ TypeOK /\ NS!TypeOK /\ Drain
      /\ main \in MainState /\ beat \in BeatState /\ stop \in BOOLEAN
  BY DEF TypeOK
<1>a. UNCHANGED registry => NS!TypeOK'
  BY <1>0 DEF NS!TypeOK
<1>1. CASE Start
  <2>1. main' \in MainState
    BY <1>1, MainStates, WorkerAssumption DEF Start
  <2> QED
    BY <1>0, <1>1, <1>a, <2>1, MainMoves DEF Start, Drain
<1>2. CASE RegisterHandled
  <2>1. main' \in MainState
    BY <1>0, <1>2, MainStates DEF RegisterHandled
  <2>2. NS!TypeOK'
    BY <1>0, <1>2, RegisterTyped DEF RegisterHandled
  <2> QED
    BY <1>0, <1>2, <2>1, <2>2, MainMoves DEF RegisterHandled, Drain
<1>3. CASE StartHeartbeat
  <2>1. main' \in MainState /\ beat' \in BeatState
    BY <1>3, MainStates, BeatStates DEF StartHeartbeat
  <2> QED
    BY <1>0, <1>3, <1>a, <2>1, MainMoves DEF StartHeartbeat, Drain
<1>4. CASE RegisterFails
  <2>1. main' \in MainState
    BY <1>0, <1>4, MainStates, WorkerAssumption DEF RegisterFails
  <2> QED
    BY <1>0, <1>4, <1>a, <2>1, MainMoves DEF RegisterFails, Drain
<1>5. CASE StartServer
  <2>1. main' \in MainState
    BY <1>0, <1>5, MainStates DEF StartServer
  <2> QED
    BY <1>0, <1>5, <1>a, <2>1, MainMoves DEF StartServer, Drain
<1>6. CASE Shutdown
  <2>1. main' \in MainState
    BY <1>0, <1>6, MainStates DEF Shutdown, Stopping
  <2> QED
    BY <1>0, <1>6, <1>a, <2>1, MainMoves DEF Shutdown, Drain
<1>7. CASE DeregisterHandled
  <2>1. main' \in MainState
    BY <1>0, <1>7, MainStates DEF DeregisterHandled, Stopping
  <2>2. NS!TypeOK'
    BY <1>0, <1>7, DeregisterTyped DEF DeregisterHandled
  <2> QED
    BY <1>0, <1>7, <2>1, <2>2, MainMoves DEF DeregisterHandled, Drain
<1>8. CASE DeregisterFails
  <2>1. main' \in MainState
    BY <1>0, <1>8, MainStates DEF DeregisterFails, Stopping
  <2> QED
    BY <1>0, <1>8, <1>a, <2>1, MainMoves DEF DeregisterFails, Drain
<1>9. CASE SetStop
  <2>1. main' \in MainState
    BY <1>0, <1>9, MainStates DEF SetStop, Stopping
  <2> QED
    BY <1>0, <1>9, <1>a, <2>1, MainMoves DEF SetStop, Drain
<1>10. CASE Drained
  <2>1. main' \in MainState
    BY <1>0, <1>10, MainStates DEF Drained, Stopping
  <2> QED
    BY <1>0, <1>10, <1>a, <2>1, MainMoves DEF Drained, Drain
<1>11. CASE DrainTimesOut
  <2>1. main' \in MainState
    BY <1>0, <1>11, MainStates DEF DrainTimesOut, Stopping
  <2> QED
    BY <1>0, <1>11, <1>a, <2>1, MainMoves DEF DrainTimesOut, Drain
<1>12. CASE Exit \/ Kill
  BY <1>12, EndMoves DEF Exit, Kill
<1> QED
  BY <1>1, <1>2, <1>3, <1>4, <1>5, <1>6, <1>7, <1>8, <1>9, <1>10, <1>11, <1>12 DEF MainStep

LEMMA BeatPreserves == LoadInv /\ BeatStep => LoadInv'
<1> SUFFICES ASSUME LoadInv, BeatStep PROVE LoadInv'
  OBVIOUS
<1>0. NS!TypeOK /\ beat \in BeatState /\ load \in 0..Capacity
  BY DEF LoadInv, TypeOK
<1>a. UNCHANGED registry => NS!TypeOK'
  BY <1>0 DEF NS!TypeOK
<1>1. CASE ReadLoad \/ StopBeating \/ BeatFails
  <2>1. beat' \in BeatState
    BY <1>0, <1>1, BeatStates DEF ReadLoad, StopBeating, BeatFails
  <2> QED
    BY <1>1, <1>a, <2>1, BeatMoves DEF ReadLoad, StopBeating, BeatFails
<1>2. CASE HeartbeatHandled
  <2>1. NS!TypeOK'
    BY <1>0, <1>2, BeatStates, HeartbeatTyped DEF HeartbeatHandled
  <2> QED
    BY <1>2, <2>1, BeatStates, BeatMoves DEF HeartbeatHandled
<1>3. CASE HeartbeatRefused
  BY <1>3, <1>a, BeatStates, BeatMoves DEF HeartbeatRefused, NS!HeartbeatUnknown
<1>4. CASE ReregisterHandled
  BY <1>0, <1>4, RegisterTyped, BeatStates, BeatMoves DEF ReregisterHandled
<1> QED
  BY <1>1, <1>2, <1>3, <1>4 DEF BeatStep

LEMMA TaskPreserves ==
  ASSUME LoadInv, NEW s \in Slots, TaskStep(s) PROVE LoadInv'
<1> USE DEF LoadInv
<1>0. /\ NS!TypeOK /\ main \in MainState /\ beat \in BeatState /\ stop \in BOOLEAN
      /\ load \in 0..Capacity /\ threads \in [TaskIds -> Slots \cup {NoSlot}]
      /\ run \in [Slots -> RunState] /\ run[s] \in RunState
      /\ load = Cardinality(InProgress)
  BY DEF TypeOK, LoadExact
<1>a. UNCHANGED registry => NS!TypeOK'
  BY <1>0 DEF NS!TypeOK
<1>1. ASSUME NEW t \in TaskIds, ReserveTask(s, t) PROVE LoadInv'
  <2>1. load' = Cardinality(InProgress')
    BY <1>0, <1>1, CountUp DEF ReserveTask
  <2>2. load' \in 0..Capacity
    BY <1>0, <1>1, WorkerAssumption DEF ReserveTask, IsReady
  <2>3. run' \in [Slots -> RunState]
    BY <1>0, <1>1, RunStates DEF ReserveTask
  <2>4. threads' \in [TaskIds -> Slots \cup {NoSlot}]
    BY <1>0, <1>1 DEF ReserveTask
  <2> QED
    BY <1>0, <1>1, <1>a, <2>1, <2>2, <2>3, <2>4
    DEF ReserveTask, IsReady, TypeOK, LoadExact, Drain
<1>2. CASE StartThread(s) \/ FinishWork(s)
  <2>1. PICK p \in {"working", "sending"} :
          run[s].pc # "idle" /\ run' = [run EXCEPT ![s].pc = p]
    BY <1>2 DEF StartThread, FinishWork
  <2>2. InProgress' = InProgress
    BY <1>0, <2>1, CountSame
  <2>3. [run[s] EXCEPT !.pc = p] \in RunState
    <3>1. run[s].task \in TaskIds /\ run[s] = [pc |-> run[s].pc, task |-> run[s].task]
      BY <1>0, <2>1, RunStates
    <3>2. [run[s] EXCEPT !.pc = p] = [pc |-> p, task |-> run[s].task]
      BY <3>1
    <3>3. [pc |-> p, task |-> run[s].task] \in RunState
      BY <3>1, RunStates
    <3> QED
      BY <3>2, <3>3
  <2>4. run' \in [Slots -> RunState]
    BY <1>0, <2>1, <2>3
  <2> QED
    BY <1>0, <1>2, <1>a, <2>2, <2>4
    DEF StartThread, FinishWork, TypeOK, LoadExact, Drain
<1>3. CASE EndThread(s)
  <2>1. /\ run[s].pc # "idle"
        /\ run' = [run EXCEPT ![s] = RunIdle] /\ load' = load - 1
        /\ threads' = [threads EXCEPT ![run[s].task] = NoSlot]
        /\ UNCHANGED <<registry, main, beat, stop>>
    BY <1>3 DEF EndThread, Release
  <2>2. load' = Cardinality(InProgress') /\ load > 0
    BY <1>0, <2>1, CountDown
  <2>3. load' \in 0..Capacity
    BY <1>0, <2>1, <2>2, WorkerAssumption
  <2>4. run' \in [Slots -> RunState]
    BY <1>0, <2>1, RunStates
  <2>5. threads' \in [TaskIds -> Slots \cup {NoSlot}]
    BY <1>0, <2>1
  <2> QED
    BY <1>0, <1>a, <2>1, <2>2, <2>3, <2>4, <2>5 DEF TypeOK, LoadExact, Drain
<1> QED
  BY <1>1, <1>2, <1>3 DEF TaskStep

LEMMA InvStep == LoadInv /\ [Next]_vars => LoadInv'
<1> SUFFICES ASSUME LoadInv, [Next]_vars PROVE LoadInv'
  OBVIOUS
<1>1. CASE MainStep
  BY <1>1, MainPreserves
<1>2. CASE BeatStep
  BY <1>2, BeatPreserves
<1>3. ASSUME NEW s \in Slots, TaskStep(s) PROVE LoadInv'
  BY <1>3, TaskPreserves
<1>4. CASE NameServiceStep
  <2>1. NS!TypeOK'
    BY <1>4, NameServiceTyped DEF NameServiceStep, LoadInv, TypeOK
  <2> QED
    BY <1>4, <2>1 DEF NameServiceStep, LoadInv, TypeOK, LoadExact, InProgress, Drain
<1>5. CASE UNCHANGED vars
  BY <1>5 DEF vars, LoadInv, TypeOK, NS!TypeOK, LoadExact, InProgress, Drain
<1> QED
  BY <1>1, <1>2, <1>3, <1>4, <1>5 DEF Next

LEMMA InvAlways == Spec => []LoadInv
BY InvInit, InvStep, PTL DEF Spec

\* Every variable keeps its type, the load in particular: never negative, never
\* above the capacity, though ten handlers and as many task threads change it.
THEOREM TypeCorrect == Spec => []TypeOK
<1>1. LoadInv => TypeOK
  BY DEF LoadInv
<1> QED
  BY <1>1, InvAlways, PTL

\* The load is the number of tasks in progress.
THEOREM LoadIsExact == Spec => []LoadExact
<1>1. LoadInv => LoadExact
  BY DEF LoadInv
<1> QED
  BY <1>1, InvAlways, PTL

\* A shutdown whose wait ended without a timeout leaves no task in progress.
THEOREM ShutdownDrains == Spec => []DrainedCleanly
<1>1. LoadInv => DrainedCleanly
  BY CountType, FS_EmptySet DEF LoadInv, LoadExact, Drain, DrainedCleanly
<1> QED
  BY <1>1, InvAlways, PTL

LEMMA ThreadsStep == TypeOK /\ ThreadsCurrent /\ [Next]_vars => ThreadsCurrent'
<1> SUFFICES ASSUME TypeOK, ThreadsCurrent, [Next]_vars,
                    NEW u \in TaskIds, threads'[u] # NoSlot
             PROVE  run'[threads'[u]].pc # "idle" /\ run'[threads'[u]].task = u
  BY DEF ThreadsCurrent
<1>0. threads \in [TaskIds -> Slots \cup {NoSlot}] /\ run \in [Slots -> RunState]
  BY DEF TypeOK
<1>1. CASE UNCHANGED <<threads, run>>
  BY <1>1 DEF ThreadsCurrent
<1>2. CASE Threadless
  BY <1>2 DEF Threadless
<1>3. ASSUME NEW s \in Slots, NEW t \in TaskIds, ReserveTask(s, t)
      PROVE  run'[threads'[u]].pc # "idle" /\ run'[threads'[u]].task = u
  <2>1. /\ run[s].pc = "idle"
        /\ threads' = [threads EXCEPT ![t] = s]
        /\ run' = [run EXCEPT ![s] = [pc |-> "reserved", task |-> t]]
    BY <1>3 DEF ReserveTask
  <2>2. CASE u = t
    BY <1>0, <2>1, <2>2
  <2>3. CASE u # t
    <3>1. threads'[u] = threads[u] /\ threads[u] \in Slots
      BY <1>0, <2>1, <2>3
    <3>2. run[threads[u]].pc # "idle" /\ run[threads[u]].task = u
      BY <3>1 DEF ThreadsCurrent
    <3>3. run'[threads[u]] = run[threads[u]]
      BY <1>0, <2>1, <3>1, <3>2
    <3> QED
      BY <3>1, <3>2, <3>3
  <2> QED
    BY <2>2, <2>3
<1>4. ASSUME NEW s \in Slots, StartThread(s) \/ FinishWork(s)
      PROVE  run'[threads'[u]].pc # "idle" /\ run'[threads'[u]].task = u
  <2>1. PICK p \in {"working", "sending"} :
          run' = [run EXCEPT ![s].pc = p] /\ threads' = threads
    BY <1>4 DEF StartThread, FinishWork
  <2>2. run[threads[u]].pc # "idle" /\ run[threads[u]].task = u /\ threads[u] \in Slots
    BY <1>0, <2>1 DEF ThreadsCurrent
  <2>3. run[threads[u]] = [pc |-> run[threads[u]].pc, task |-> u]
    BY <1>0, <2>2, RunStates
  <2>4. run'[threads[u]] = IF threads[u] = s THEN [run[s] EXCEPT !.pc = p] ELSE run[threads[u]]
    BY <1>0, <2>1, <2>2
  <2> QED
    BY <2>1, <2>2, <2>3, <2>4
<1>5. ASSUME NEW s \in Slots, EndThread(s)
      PROVE  run'[threads'[u]].pc # "idle" /\ run'[threads'[u]].task = u
  <2>1. /\ run[s].pc # "idle" /\ run' = [run EXCEPT ![s] = RunIdle]
        /\ threads' = [threads EXCEPT ![run[s].task] = NoSlot]
    BY <1>5 DEF EndThread, Release
  <2>2. threads'[u] = threads[u] /\ u # run[s].task /\ threads[u] \in Slots
    BY <1>0, <2>1
  <2>3. run[threads[u]].pc # "idle" /\ run[threads[u]].task = u
    BY <2>2 DEF ThreadsCurrent
  <2>4. run'[threads[u]] = run[threads[u]]
    BY <1>0, <2>1, <2>2, <2>3
  <2> QED
    BY <2>2, <2>3, <2>4
<1>6. UNCHANGED vars => UNCHANGED <<threads, run>>
  BY DEF vars
<1>7. MainStep => UNCHANGED <<threads, run>> \/ Threadless
  BY DEF MainStep, Start, RegisterHandled, StartHeartbeat, RegisterFails, StartServer,
         Shutdown, DeregisterHandled, DeregisterFails, SetStop, Drained, DrainTimesOut,
         Exit, Kill
<1>8. BeatStep \/ NameServiceStep => UNCHANGED <<threads, run>>
  BY DEF BeatStep, ReadLoad, StopBeating, HeartbeatHandled, HeartbeatRefused,
         ReregisterHandled, BeatFails, NameServiceStep
<1> QED
  BY <1>1, <1>2, <1>3, <1>4, <1>5, <1>6, <1>7, <1>8 DEF Next, TaskStep

\* What _task_threads holds for an id is a thread in progress for it.
THEOREM DirectoryCurrent == Spec => []ThreadsCurrent
<1>1. Init => ThreadsCurrent
  BY DEF Init, ThreadsCurrent
<1> QED
  BY <1>1, ThreadsStep, TypeCorrect, PTL DEF Spec
-----------------------------------------------------------------------------
(* The process and the life the grid knows.  What is needed beside LoadInv: *)
(* the heartbeat thread runs only once the process is registered, tasks are *)
(* held only while the server runs, the stop event is set only by the       *)
(* shutdown, and nothing registers the worker while its heartbeat thread is *)
(* about to: a registration of the main thread is over by then.             *)

Kept ==
  /\ main.pc \in {"off", "register", "registered"} => beat.pc = "off"
  /\ load > 0 => Serving
  /\ stop => main.pc \in Stopping
  /\ beat.pc = "reregister" => ~NS!Registered(Me)

KeptInv == LoadInv /\ Kept

\* The main thread's steps, seen from the heartbeat thread and the tasks.
LEMMA KeptByMain ==
  ASSUME KeptInv, MainStep PROVE Kept'
<1> USE DEF KeptInv, LoadInv, Kept, Serving, Stopping, NS!Registered
<1>1. CASE Start \/ StartServer \/ Shutdown
  BY <1>1, MainStates DEF Start, StartServer, Shutdown, TypeOK
<1>2. CASE RegisterHandled \/ RegisterFails
  BY <1>2, MainStates DEF TypeOK, RegisterHandled, RegisterFails
<1>3. CASE StartHeartbeat
  BY <1>3 DEF StartHeartbeat
<1>4. CASE DeregisterHandled \/ DeregisterFails \/ SetStop
  BY <1>4, MainStates DEF DeregisterHandled, DeregisterFails, SetStop, TypeOK,
     NS!TypeOK, NS!DeregisterWorker, NS!NoEntry
<1>5. CASE Drained \/ DrainTimesOut
  BY <1>5, MainStates DEF Drained, DrainTimesOut, TypeOK
<1>6. CASE Exit \/ Kill
  BY <1>6 DEF Exit, Kill, Threadless, BeatOff
<1> QED
  BY <1>1, <1>2, <1>3, <1>4, <1>5, <1>6 DEF MainStep

LEMMA KeptStep == KeptInv /\ [Next]_vars => KeptInv'
<1> SUFFICES ASSUME KeptInv, [Next]_vars PROVE Kept'
  BY InvStep DEF KeptInv
<1> USE DEF KeptInv, Kept, Serving, NS!Registered
<1>1. CASE MainStep
  BY <1>1, KeptByMain
<1>2. CASE BeatStep
  BY <1>2 DEF BeatStep, ReadLoad, StopBeating, HeartbeatHandled, HeartbeatRefused,
     ReregisterHandled, BeatFails, BeatOff, NS!HeartbeatUnknown
<1>3. ASSUME NEW s \in Slots, TaskStep(s) PROVE Kept'
  <2>1. CASE \E t \in TaskIds : ReserveTask(s, t)
    BY <2>1 DEF ReserveTask
  <2>2. CASE StartThread(s) \/ FinishWork(s)
    BY <2>2 DEF StartThread, FinishWork
  <2>3. CASE EndThread(s)
    BY <2>3, CountDown, RunStates DEF EndThread, Release, LoadInv, LoadExact, TypeOK
  <2> QED
    BY <1>3, <2>1, <2>2, <2>3 DEF TaskStep
<1>4. CASE NameServiceStep
  BY <1>4 DEF NameServiceStep, NS!HealthCheck, NS!Tick, NS!Restart, NS!NoEntry,
     LoadInv, TypeOK, NS!TypeOK
<1>5. CASE UNCHANGED vars
  BY <1>5 DEF vars
<1> QED
  BY <1>1, <1>2, <1>3, <1>4, <1>5 DEF Next

LEMMA KeptAlways == Spec => []KeptInv
<1>1. Init => KeptInv
  BY InvInit DEF KeptInv, Kept, Init, BeatOff
<1> QED
  BY <1>1, KeptStep, PTL DEF Spec

\* Of the pc and the stop event, all that the phase is made of.
LEMMA PhaseOf ==
  ASSUME KeptInv
  PROVE  /\ main.pc \in {"off", "register"} => LifePhase = "off" /\ load = 0
         /\ main.pc \in {"registered", "starting"} => LifePhase = "starting" /\ load = 0
         /\ main.pc = "running" => LifePhase = "running" /\ ~stop
         /\ main.pc \in Stopping => LifePhase = IF stop THEN "stopping" ELSE "leaving"
         /\ main.pc \in {"off", "register", "registered", "starting", "running"} \cup Stopping
         /\ load \in 0..Capacity
BY DEF KeptInv, LoadInv, Kept, Serving, Stopping, LifePhase, TypeOK, MainState

\* What a step makes of the two functions of the refinement mapping.
LEMMA AtMe ==
  ASSUME NEW a, NEW b
  PROVE  /\ [w \in {Me} |-> a][Me] = a
         /\ [[w \in {Me} |-> a] EXCEPT ![Me] = b] = [w \in {Me} |-> b]
OBVIOUS

LEMMA LifeStutter ==
  ASSUME UNCHANGED <<registry, LifePhase, load>>
  PROVE  UNCHANGED Life!lifeVars
BY DEF Life!lifeVars

\* An action of one worker of WorkerLife is a step of it.
LEMMA LifeStep ==
  ASSUME \/ Life!Register(Me) \/ Life!StartServer(Me) \/ Life!Beat(Me) \/ Life!Shutdown(Me)
         \/ Life!Deregister(Me) \/ Life!SetStop(Me) \/ Life!Gone(Me) \/ Life!Take(Me)
         \/ Life!Done(Me)
  PROVE  Life!Next
BY DEF Life!Next

LEMMA MainRefines ==
  ASSUME KeptInv, MainStep PROVE [Life!Next]_(Life!lifeVars)
<1> USE PhaseOf
<1>0. main \in MainState
  BY DEF KeptInv, LoadInv, TypeOK
<1>1. CASE Start
  BY <1>1, LifeStutter DEF Start, LifePhase
<1>2. CASE RegisterHandled
  <2>1. LifePhase = "off" /\ LifePhase' = "starting"
    BY <1>0, <1>2, MainStates DEF RegisterHandled, LifePhase
  <2>2. Life!NS!RegisterWorker(Me)
    BY <1>2 DEF RegisterHandled, Life!NS!RegisterWorker, NS!RegisterWorker
  <2>3. Life!Register(Me)
    BY <1>2, <2>1, <2>2, AtMe DEF Life!Register, RegisterHandled
  <2> QED
    BY <2>3, LifeStep
<1>3. CASE StartHeartbeat
  BY <1>3, LifeStutter DEF StartHeartbeat, LifePhase
<1>4. CASE RegisterFails
  <2>1. CASE main.pc = "register"
    BY <1>4, <2>1, LifeStutter DEF RegisterFails, LifePhase
  <2>2. CASE main.pc = "registered"
    <3>1. LifePhase = "starting" /\ LifePhase' = "off" /\ load = 0 /\ load' = 0
      BY <1>4, <2>2 DEF RegisterFails, LifePhase
    <3>2. Life!Gone(Me)
      BY <1>4, <3>1, AtMe DEF Life!Gone, RegisterFails
    <3> QED
      BY <3>2, LifeStep
  <2> QED
    BY <1>4, <2>1, <2>2 DEF RegisterFails
<1>5. CASE StartServer
  <2>1. LifePhase = "starting" /\ LifePhase' = "running"
    BY <1>0, <1>5, MainStates DEF StartServer, LifePhase
  <2>2. Life!StartServer(Me)
    BY <1>5, <2>1, AtMe DEF Life!StartServer, StartServer
  <2> QED
    BY <2>2, LifeStep
<1>6. CASE Shutdown
  <2>1. main'.pc \in Stopping
    BY <1>0, <1>6, MainStates DEF Shutdown, Stopping
  <2>2. CASE main.pc = "running"
    <3>1. LifePhase = "running" /\ LifePhase' = "leaving"
      BY <1>6, <2>1, <2>2 DEF Shutdown, LifePhase, Stopping
    <3>2. Life!Shutdown(Me)
      BY <1>6, <3>1, AtMe DEF Life!Shutdown, Shutdown
    <3> QED
      BY <3>2, LifeStep
  <2>3. CASE main.pc \in Stopping
    BY <1>6, <2>1, <2>3, LifeStutter DEF Shutdown, LifePhase, Stopping
  <2> QED
    BY <1>6, <2>2, <2>3 DEF Shutdown
<1>7. CASE DeregisterHandled
  <2>1. main.pc \in Stopping /\ main'.pc \in Stopping
    BY <1>0, <1>7, MainStates DEF DeregisterHandled, Stopping
  <2>2. LifePhase \in {"leaving", "stopping"} /\ LifePhase' = LifePhase
    BY <1>7, <2>1 DEF DeregisterHandled, LifePhase, Stopping
  <2>3. Life!NS!DeregisterWorker(Me)
    BY <1>7 DEF DeregisterHandled, Life!NS!DeregisterWorker, NS!DeregisterWorker,
       Life!NS!NoEntry, NS!NoEntry
  <2>4. Life!Deregister(Me)
    BY <1>7, <2>2, <2>3, AtMe DEF Life!Deregister, DeregisterHandled
  <2> QED
    BY <2>4, LifeStep
<1>8. CASE DeregisterFails \/ Drained \/ DrainTimesOut
  <2>1. main.pc \in Stopping /\ main'.pc \in Stopping
    BY <1>0, <1>8, MainStates DEF DeregisterFails, Drained, DrainTimesOut, Stopping
  <2> QED
    BY <1>8, <2>1, LifeStutter
    DEF DeregisterFails, Drained, DrainTimesOut, LifePhase, Stopping
<1>9. CASE SetStop
  <2>1. main.pc \in Stopping /\ main'.pc \in Stopping
    BY <1>0, <1>9, MainStates DEF SetStop, Stopping
  <2>2. LifePhase' = "stopping"
    BY <1>9, <2>1 DEF SetStop, LifePhase, Stopping
  <2>3. CASE stop
    BY <1>9, <2>1, <2>2, <2>3, LifeStutter DEF SetStop
  <2>4. CASE ~stop
    <3>1. Life!SetStop(Me)
      BY <1>9, <2>1, <2>2, <2>4, AtMe DEF Life!SetStop, SetStop
    <3> QED
      BY <3>1, LifeStep
  <2> QED
    BY <2>3, <2>4
<1>10. CASE Exit \/ Kill
  <2>1. LifePhase' = "off" /\ load' = 0 /\ UNCHANGED registry
    BY <1>10 DEF Exit, Kill, Threadless, LifePhase
  <2>2. CASE LifePhase = "off"
    BY <2>1, <2>2, LifeStutter DEF LifePhase
  <2>3. CASE LifePhase # "off"
    <3>1. Life!Gone(Me)
      BY <2>1, <2>3, AtMe DEF Life!Gone
    <3> QED
      BY <3>1, LifeStep
  <2> QED
    BY <2>2, <2>3
<1> QED
  BY <1>1, <1>2, <1>3, <1>4, <1>5, <1>6, <1>7, <1>8, <1>9, <1>10 DEF MainStep

LEMMA BeatRefines ==
  ASSUME KeptInv, BeatStep PROVE [Life!Next]_(Life!lifeVars)
<1>1. CASE ReadLoad \/ StopBeating \/ HeartbeatRefused \/ BeatFails
  BY <1>1, LifeStutter DEF ReadLoad, StopBeating, HeartbeatRefused, BeatFails, LifePhase,
     NS!HeartbeatUnknown
<1>2. CASE HeartbeatHandled \/ ReregisterHandled
  <2>1. beat.pc # "off" /\ LifePhase # "off" /\ beat.load \in 0..Capacity
    BY <1>2, WorkerAssumption DEF HeartbeatHandled, ReregisterHandled, KeptInv, Kept, LoadInv,
       TypeOK, BeatState, LifePhase, MainState, Stopping
  <2>2. UNCHANGED <<LifePhase, load>>
    BY <1>2 DEF HeartbeatHandled, ReregisterHandled, LifePhase
  <2>3. CASE HeartbeatHandled
    <3>1. Life!NS!Heartbeat(Me, beat.load)
      BY <2>3 DEF HeartbeatHandled, Life!NS!Heartbeat, NS!Heartbeat, Life!NS!Registered,
         NS!Registered, Life!NS!Heard, NS!Heard
    <3>2. Life!Beat(Me)
      BY <2>1, <2>2, <3>1, AtMe DEF Life!Beat
    <3> QED
      BY <3>2, LifeStep
  <2>4. CASE ReregisterHandled
    <3>1. Life!NS!RegisterWorker(Me)
      BY <2>4 DEF ReregisterHandled, Life!NS!RegisterWorker, NS!RegisterWorker
    <3>2. Life!Beat(Me)
      BY <2>1, <2>2, <2>4, <3>1, AtMe DEF Life!Beat, ReregisterHandled, KeptInv, Kept,
         NS!Registered, Life!NS!Registered
    <3> QED
      BY <3>2, LifeStep
  <2> QED
    BY <1>2, <2>3, <2>4
<1> QED
  BY <1>1, <1>2 DEF BeatStep

LEMMA TaskRefines ==
  ASSUME KeptInv, NEW s \in Slots, TaskStep(s) PROVE [Life!Next]_(Life!lifeVars)
<1> USE PhaseOf
<1>1. CASE \E t \in TaskIds : ReserveTask(s, t)
  <2>1. /\ LifePhase \in {"running", "leaving"} /\ UNCHANGED <<registry, LifePhase>>
        /\ load < Capacity /\ load' = load + 1
    BY <1>1 DEF ReserveTask, IsReady, Serving, LifePhase
  <2>2. Life!Take(Me)
    BY <2>1, AtMe DEF Life!Take, Life!Accepting
  <2> QED
    BY <2>2, LifeStep
<1>2. CASE StartThread(s) \/ FinishWork(s)
  BY <1>2, LifeStutter DEF StartThread, FinishWork, LifePhase
<1>3. CASE EndThread(s)
  <2>1. load > 0
    BY <1>3, CountDown, RunStates DEF EndThread, KeptInv, LoadInv, LoadExact, TypeOK
  <2>2. UNCHANGED <<registry, LifePhase>> /\ load' = load - 1
    BY <1>3 DEF EndThread, Release, LifePhase
  <2>3. Life!Done(Me)
    BY <2>1, <2>2, AtMe DEF Life!Done
  <2> QED
    BY <2>3, LifeStep
<1> QED
  BY <1>1, <1>2, <1>3 DEF TaskStep

LEMMA NameServiceRefines ==
  ASSUME NameServiceStep PROVE [Life!Next]_(Life!lifeVars)
<1>1. UNCHANGED <<LifePhase, load>>
  BY DEF NameServiceStep, LifePhase
<1>2. Life!NS!HealthCheck \/ Life!NS!Tick \/ Life!NS!Restart
  BY DEF NameServiceStep, NS!HealthCheck, NS!Tick, NS!Restart, NS!NoEntry, NS!Registered,
     NS!Checked, NS!Silent, Life!NS!HealthCheck, Life!NS!Tick, Life!NS!Restart,
     Life!NS!NoEntry, Life!NS!Registered, Life!NS!Checked, Life!NS!Silent
<1> QED
  BY <1>1, <1>2 DEF Life!Next, Life!NameServiceStep

LEMMA LifeRefined == KeptInv /\ [Next]_vars => [Life!Next]_(Life!lifeVars)
<1>1. UNCHANGED vars => UNCHANGED Life!lifeVars
  BY LifeStutter DEF vars, LifePhase
<1> QED
  BY <1>1, MainRefines, BeatRefines, TaskRefines, NameServiceRefines DEF Next

\* The process, with all its threads, is a worker of WorkerLife: the grid need not
\* know more of it.
THEOREM WorkerImplementsLife == Spec => ImplementsLife
<1>1. Init => Life!Init
  BY DEF Init, NS!Init, NS!NoEntry, Life!Init, Life!NS!Init, Life!NS!NoEntry, LifePhase
<1> QED
  BY <1>1, LifeRefined, KeptAlways, PTL DEF Spec, ImplementsLife, Life!Spec
=============================================================================
