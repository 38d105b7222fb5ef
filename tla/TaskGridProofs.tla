--------------------------- MODULE TaskGridProofs ---------------------------
(* The dispatcher, the name service and the workers of the grid are the     *)
(* ones of their own modules, so that what is proved of them there holds in *)
(* the grid, for any number of workers, tasks and faults and any timeouts.  *)
EXTENDS TaskGrid, DispatcherProofs, FiniteSetTheorems

LEMMA StepOfDispatcher == [GridNext]_gridVars => [Next]_vars
<1> SUFFICES ASSUME [GridNext]_gridVars PROVE [Next]_vars
  OBVIOUS
<1>1. CASE GridLoopStep
  <2>1. Offered \in SUBSET Workers
    BY DEF Offered, NS!LookupWorker
  <2>2. CASE Alone(Dequeue \/ NameserviceDown \/ Requeue \/ RequeueEnqueue)
    BY <2>2 DEF Alone, Next, LoopStep, CallStep
  <2>3. CASE NobodyThere
    <3>1. LookupStep(Offered)
      BY <2>3 DEF NobodyThere, Alone, LookupStep
    <3> QED BY <2>1, <3>1 DEF Next, LoopStep
  <2>4. ASSUME NEW t \in TaskIds, Select(t) PROVE Next
    <3>1. LookupStep(Offered)
      BY <2>4 DEF Select, Alone, LookupStep
    <3> QED BY <2>1, <3>1 DEF Next, LoopStep
  <2>5. ASSUME NEW t \in TaskIds, TakeTask(t) \/ Alone(MarkProcessing(t)) PROVE Next
    BY <2>5 DEF TakeTask, Alone, Next, LoopStep, CallStep
  <2> QED BY <1>1, <2>2, <2>3, <2>4, <2>5 DEF GridLoopStep
<1>2. CASE OtherStep
  BY <1>2 DEF OtherStep, EndStep, AnswerResult, ReturnTimesOut, JobStep, Alone, Next
<1>3. ASSUME NEW w \in Workers, WorkerStep(w) PROVE [Next]_vars
  <2>1. CASE Exit(w) \/ Kill(w)
    BY <2>1 DEF Exit, Kill, Gone, Next
  <2>2. CASE \/ Start(w) \/ Beat(w) \/ Shutdown(w) \/ Elsewhere(Life!Deregister(w))
             \/ SetStop(w)
    BY <2>2 DEF Start, Beat, Shutdown, SetStop, Elsewhere
  <2> QED BY <1>3, <2>1, <2>2 DEF WorkerStep
<1>4. CASE HealthCheck \/ NameServiceRestart
  BY <1>4 DEF HealthCheck, NameServiceRestart
<1>5. CASE GridTick
  BY <1>5 DEF GridTick, Next
<1>6. CASE UNCHANGED gridVars
  BY <1>6 DEF gridVars
<1> QED BY <1>1, <1>2, <1>3, <1>4, <1>5, <1>6 DEF GridNext


\* The dispatcher of the grid is the one of the module Dispatcher by the way its
\* steps are written; what is proved there holds here.
LEMMA GridIsDispatcher == GridSpec => Spec
<1>1. GridInit => Init
  BY DEF GridInit
<1> QED BY <1>1, StepOfDispatcher, PTL DEF GridSpec, Spec

LEMMA GridTyped == GridSpec => []TypeOK
BY GridIsDispatcher, TypeCorrect, PTL
-----------------------------------------------------------------------------
(* The variables the grid adds to those of its parts. *)

OwnTypeOK ==
  /\ phase \in [Workers -> Life!Phases]
  /\ orphans \subseteq Workers \X Slots
  /\ \A w \in Workers, s \in Slots : <<w, s>> \in orphans => job[w][s].pc = "returning"
  /\ faults \in 0..MaxFaults

\* Orphans are added and removed with their handlers.
LEMMA OrphanStep ==
  ASSUME TypeOK, OwnTypeOK, [GridNext]_gridVars
  PROVE  /\ orphans' \subseteq Workers \X Slots
         /\ \A w \in Workers, s \in Slots : <<w, s>> \in orphans' => job'[w][s].pc = "returning"
<1> DEFINE Calling == \A w \in Workers, s \in Slots :
                        <<w, s>> \in orphans => job[w][s].pc = "returning"
<1>0. Calling /\ orphans \subseteq Workers \X Slots
  BY DEF OwnTypeOK
<1>1. CASE UNCHANGED <<job, orphans>>
  BY <1>0, <1>1
<1>2. ASSUME NEW t \in TaskIds, TakeTask(t) PROVE Calling' /\ UNCHANGED orphans
  <2>1. loop.worker \in Workers
    BY <1>2 DEF TakeTask, TypeOK, LoopState, LoopIdle
  <2>2. PICK s \in Slots : /\ job[loop.worker][s].pc = "idle"
                           /\ \E j : job' = [job EXCEPT ![loop.worker][s] = j]
    BY <1>2 DEF TakeTask, Alone, ProcessTask
  <2>3. UNCHANGED orphans
    BY <1>2 DEF TakeTask, Alone
  <2> QED
    BY <1>0, <2>1, <2>2, <2>3 DEF TypeOK
<1>3. ASSUME NEW w \in Workers, NEW s \in Slots, EndStep(w, s)
      PROVE  Calling' /\ orphans' \subseteq orphans
  <2>1. PICK j : job' = [job EXCEPT ![w][s] = j]
    BY <1>3 DEF EndStep, AnswerResult, Alone, ReportResult, LoseResult, StoreResult
  <2>2. CASE job[w][s].pc = "working"
    <3>1. UNCHANGED orphans
      BY <1>3, <2>2 DEF EndStep, AnswerResult, Alone, StoreResult
    <3> QED
      BY <1>0, <2>1, <2>2, <3>1 DEF TypeOK
  <2>3. CASE job[w][s].pc # "working"
    <3>1. orphans' = orphans \ {<<w, s>>}
      BY <1>3, <2>3 DEF EndStep, AnswerResult, Alone, ReportResult, LoseResult
    <3> QED
      BY <1>0, <2>1, <3>1 DEF TypeOK
  <2> QED
    BY <2>2, <2>3
<1>4. ASSUME NEW w \in Workers, NEW s \in Slots, ReturnTimesOut(w, s)
      PROVE  Calling' /\ orphans' \subseteq Workers \X Slots
  <2>1. UNCHANGED job
    BY <1>4 DEF ReturnTimesOut, vars
  <2> QED
    BY <1>0, <1>4, <2>1 DEF ReturnTimesOut
<1>5. ASSUME NEW w \in Workers, Gone(w) PROVE Calling' /\ orphans' \subseteq Workers \X Slots
  <2>1. orphans' = orphans \cup {<<w, s>> : s \in {x \in Slots : job[w][x].pc = "returning"}}
    BY <1>5 DEF Gone
  <2>2. \A v \in Workers, s \in Slots :
          job[v][s].pc = "returning" => job'[v][s].pc = "returning"
    <3>1. CASE UNCHANGED vars
      BY <3>1 DEF vars
    <3>2. CASE WorkerDies(w)
      BY <3>2 DEF WorkerDies, TypeOK
    <3> QED
      BY <1>5, <3>1, <3>2 DEF Gone
  <2>3. Calling'
    <3> SUFFICES ASSUME NEW v \in Workers, NEW s \in Slots, <<v, s>> \in orphans'
                 PROVE  job'[v][s].pc = "returning"
      OBVIOUS
    <3>1. <<v, s>> \in orphans \/ job[v][s].pc = "returning"
      BY <2>1
    <3> QED
      BY <1>0, <2>2, <3>1
  <2> QED
    BY <1>0, <2>1, <2>3
<1>6. ASSUME NEW w \in Workers, WorkerStep(w), ~Gone(w) PROVE UNCHANGED <<job, orphans>>
  BY <1>6 DEF WorkerStep, Start, Beat, Shutdown, SetStop, Exit, Kill, Elsewhere, vars
<1>7. CASE GridLoopStep
  <2>1. CASE \E t \in TaskIds : TakeTask(t)
    BY <1>0, <1>2, <2>1
  <2>2. CASE ~\E t \in TaskIds : TakeTask(t)
    <3>1. UNCHANGED <<job, orphans>>
      BY <1>7, <2>2 DEF GridLoopStep, NobodyThere, Alone, Dequeue, NameserviceDown, Requeue,
         RequeueEnqueue, NoWorkerFirst, NoAlternative, Select, AssignWorker, MarkProcessing
    <3> QED
      BY <1>1, <3>1
  <2> QED
    BY <2>1, <2>2
<1>8. CASE OtherStep
  <2>1. CASE Alone(PostStep) \/ Alone(Scan)
    BY <1>1, <2>1 DEF Alone, PostStep, PostAllocate, PostStore, PostEnqueue, Scan
  <2>2. ASSUME NEW t \in TaskIds, Alone(SweepStep(t)) PROVE UNCHANGED <<job, orphans>>
    BY <2>2 DEF Alone, SweepStep, TimeOut, RetryTask, RetryQueued, RetryEnqueue, GiveUp
  <2> QED
    BY <1>0, <1>1, <1>3, <1>4, <1>8, <2>1, <2>2 DEF OtherStep
<1>9. CASE HealthCheck \/ NameServiceRestart \/ GridTick \/ UNCHANGED gridVars
  BY <1>1, <1>9 DEF HealthCheck, NameServiceRestart, GridTick, Tick, gridVars, vars
<1> QED
  BY <1>1, <1>5, <1>6, <1>7, <1>8, <1>9 DEF GridNext

LEMMA OwnTypeStep ==
  ASSUME TypeOK, OwnTypeOK, [GridNext]_gridVars
  PROVE  OwnTypeOK'
<1>0. phase \in [Workers -> Life!Phases] /\ faults \in 0..MaxFaults
  BY DEF OwnTypeOK
<1> DEFINE Own == phase \in [Workers -> Life!Phases] /\ faults \in 0..MaxFaults
<1> USE TaskGridAssumption DEF Life!Phases
<1>1. ASSUME GridLoopStep \/ OtherStep PROVE Own'
  BY <1>0, <1>1 DEF GridLoopStep, OtherStep, NobodyThere, Select, TakeTask, Alone, EndStep,
     AnswerResult, ReturnTimesOut
<1>2. ASSUME NEW w \in Workers, WorkerStep(w) PROVE Own'
  <2>1. CASE Start(w) \/ Beat(w) \/ Elsewhere(Life!Deregister(w)) \/ SetStop(w)
    BY <1>0, <2>1 DEF Start, Beat, SetStop, Elsewhere, Life!Register, Life!StartServer,
       Life!Beat, Life!Deregister, Life!SetStop
  <2>2. CASE Shutdown(w) \/ Exit(w) \/ Kill(w)
    BY <1>0, <2>2 DEF Shutdown, Exit, Kill, Gone, Life!Shutdown, Life!Gone
  <2> QED
    BY <1>2, <2>1, <2>2 DEF WorkerStep
<1>3. ASSUME HealthCheck \/ NameServiceRestart \/ GridTick \/ UNCHANGED gridVars PROVE Own'
  BY <1>0, <1>3 DEF HealthCheck, NameServiceRestart, GridTick, gridVars
<1>4. Own'
  BY <1>0, <1>1, <1>2, <1>3 DEF GridNext
<1> QED
  BY <1>4, OrphanStep DEF OwnTypeOK

LEMMA OwnTyped == GridSpec => []OwnTypeOK
<1>1. GridInit => OwnTypeOK
  BY TaskGridAssumption DEF GridInit, OwnTypeOK, Life!Phases
<1> QED
  BY <1>1, OwnTypeStep, GridTyped, PTL DEF GridSpec
-----------------------------------------------------------------------------
(* The tasks a worker has taken, counted. *)

LEMMA CountedFinite ==
  ASSUME NEW w \in Workers
  PROVE  /\ IsFiniteSet(Counted(w)) /\ Cardinality(Counted(w)) \in Nat
         /\ Executing[w] = Cardinality(Counted(w))
<1>1. Counted(w) \subseteq Slots /\ IsFiniteSet(Slots)
  BY TaskGridAssumption DEF Counted
<1> QED
  BY <1>1, FS_Subset, FS_CardinalityType DEF Executing

\* A step changes the count of the worker whose job it is, and no other.
LEMMA OneCount ==
  ASSUME NEW w \in Workers, \A v \in Workers \ {w} : Counted(v)' = Counted(v),
         NEW n, Cardinality(Counted(w)') = n
  PROVE  Executing' = [Executing EXCEPT ![w] = n]
<1>1. Executing' = [v \in Workers |-> Cardinality(Counted(v)')]
  BY DEF Executing
<1>2. Executing = [v \in Workers |-> Cardinality(Counted(v))]
  BY DEF Executing
<1> QED
  BY <1>1, <1>2

LEMMA CountTaken ==
  ASSUME NEW w \in Workers, NEW s \in Slots, \A v \in Workers \ {w} : Counted(v)' = Counted(v),
         s \notin Counted(w), Counted(w)' = Counted(w) \cup {s}
  PROVE  /\ Executing[w] < Cardinality(Slots)
         /\ Executing' = [Executing EXCEPT ![w] = @ + 1]
<1>1. Cardinality(Counted(w)') = Cardinality(Counted(w)) + 1
  BY CountedFinite, FS_AddElement
<1>2. IsFiniteSet(Slots) /\ Counted(w)' \subseteq Slots
  BY TaskGridAssumption DEF Counted
<1>3. Cardinality(Counted(w)') <= Cardinality(Slots) /\ Cardinality(Slots) \in Nat
  BY <1>2, FS_Subset, FS_CardinalityType
<1>4. Executing' = [Executing EXCEPT ![w] = Cardinality(Counted(w)) + 1]
  BY <1>1, OneCount
<1>5. Cardinality(Counted(w)) \in Nat /\ Executing[w] = Cardinality(Counted(w))
  BY CountedFinite
<1>6. Executing[w] < Cardinality(Slots)
  BY <1>1, <1>3, <1>5
<1> QED
  BY <1>4, <1>5, <1>6

LEMMA CountDone ==
  ASSUME NEW w \in Workers, NEW s \in Slots, \A v \in Workers \ {w} : Counted(v)' = Counted(v),
         s \in Counted(w), Counted(w)' = Counted(w) \ {s}
  PROVE  /\ Executing[w] > 0
         /\ Executing' = [Executing EXCEPT ![w] = @ - 1]
<1>1. Cardinality(Counted(w)') = Cardinality(Counted(w)) - 1
  BY CountedFinite, FS_RemoveElement
<1>2. Cardinality(Counted(w)) # 0
  BY CountedFinite, FS_EmptySet
<1>3. Executing' = [Executing EXCEPT ![w] = Cardinality(Counted(w)) - 1]
  BY <1>1, OneCount
<1>4. Cardinality(Counted(w)) \in Nat /\ Executing[w] = Cardinality(Counted(w))
  BY CountedFinite
<1>5. Executing[w] > 0
  BY <1>2, <1>4
<1> QED
  BY <1>3, <1>4, <1>5

LEMMA CountKept ==
  ASSUME \A v \in Workers : Counted(v)' = Counted(v)
  PROVE  UNCHANGED Executing
BY DEF Executing
-----------------------------------------------------------------------------
LEMMA NothingTaken ==
  ASSUME UNCHANGED <<job, registry, phase, orphans>>
  PROVE  UNCHANGED Life!lifeVars
BY DEF Life!lifeVars, Executing, Counted

\* An execution ends for its worker with the reply to its ReturnResult call, or when
\* that is refused or lost; the handler of an orphaned call ends unnoticed.
LEMMA EndOfExecution ==
  ASSUME TypeOK, OwnTypeOK, NEW w \in Workers, NEW s \in Slots, EndStep(w, s)
  PROVE  [Life!Next]_(Life!lifeVars)
<1>0. UNCHANGED <<registry, phase>>
  BY DEF EndStep, AnswerResult, Alone
<1>1. PICK j : job' = [job EXCEPT ![w][s] = j]
  BY DEF EndStep, AnswerResult, Alone, ReportResult, LoseResult, StoreResult
<1>2. \A v \in Workers, x \in Slots :
        v # w \/ x # s => job'[v][x] = job[v][x] /\ (<<v, x>> \in orphans' <=> <<v, x>> \in orphans)
  BY <1>1 DEF EndStep, AnswerResult, Alone, TypeOK
<1>3. \A v \in Workers \ {w} : Counted(v)' = Counted(v)
  BY <1>2 DEF Counted
<1>4. job'[w][s] = j
  BY <1>1 DEF TypeOK
<1>5. CASE s \in Counted(w) /\ j.pc = "idle"
  <2>1. Counted(w)' = Counted(w) \ {s}
    BY <1>2, <1>4, <1>5 DEF Counted
  <2>2. Life!Done(w)
    BY <1>0, <1>3, <1>5, <2>1, CountDone DEF Life!Done
  <2> QED
    BY <2>2 DEF Life!Next
<1>6. CASE s \in Counted(w) /\ j.pc # "idle"
  <2>1. <<w, s>> \notin orphans'
    BY <1>6 DEF EndStep, AnswerResult, Alone, Counted
  <2>2. Counted(w)' = Counted(w)
    BY <1>2, <1>4, <1>6, <2>1 DEF Counted
  <2> QED
    BY <1>0, <1>3, <2>2, CountKept DEF Life!lifeVars
<1>7. CASE s \notin Counted(w)
  <2>1. <<w, s>> \in orphans
    BY <1>7 DEF EndStep, AnswerResult, Alone, ReportResult, LoseResult, StoreResult, Counted
  <2>2. AnswerResult(w, s)
    BY <2>1 DEF OwnTypeOK, EndStep, Alone, ReportResult, LoseResult
  <2>3. j.pc = "idle"
    BY <1>4, <2>2 DEF AnswerResult, StoreResult, JobIdle, TypeOK
  <2>4. Counted(w)' = Counted(w)
    BY <1>2, <1>4, <1>7, <2>3 DEF Counted
  <2> QED
    BY <1>0, <1>3, <2>4, CountKept DEF Life!lifeVars
<1> QED
  BY <1>5, <1>6, <1>7

\* A worker that gives up waiting for the reply is done with the task.
LEMMA EndOfWaiting ==
  ASSUME NEW w \in Workers, NEW s \in Slots, ReturnTimesOut(w, s)
  PROVE  Life!Next
<1>1. UNCHANGED <<job, registry, phase>>
  BY DEF ReturnTimesOut, vars
<1>2. s \in Counted(w) /\ Counted(w)' = Counted(w) \ {s}
  BY <1>1 DEF ReturnTimesOut, Counted
<1>3. \A v \in Workers \ {w} : Counted(v)' = Counted(v)
  BY <1>1 DEF ReturnTimesOut, Counted
<1>4. Life!Done(w)
  BY <1>1, <1>2, <1>3, CountDone DEF Life!Done
<1> QED
  BY <1>4 DEF Life!Next

\* Seen from the workers, the dispatcher gives them tasks and hears of their ends.
LEMMA StepOfLife ==
  TypeOK /\ OwnTypeOK /\ [GridNext]_gridVars => [Life!Next]_(Life!lifeVars)
<1> SUFFICES ASSUME TypeOK, OwnTypeOK, [GridNext]_gridVars PROVE [Life!Next]_(Life!lifeVars)
  OBVIOUS
<1>1. CASE GridLoopStep
  <2>1. ASSUME NEW t \in TaskIds, TakeTask(t) PROVE Life!Next
    <3>1. PICK w \in Workers : w = loop.worker
      BY <2>1 DEF TakeTask, TypeOK, LoopState, LoopIdle
    <3> DEFINE j == [JobIdle EXCEPT !.pc = "working", !.task = t]
    <3>0. j.pc = "working"
      BY DEF JobIdle
    <3> HIDE DEF j
    <3>2. PICK s \in Slots : job[w][s].pc = "idle" /\ job' = [job EXCEPT ![w][s] = j]
      BY <2>1, <3>1 DEF TakeTask, Alone, ProcessTask, j
    <3>3. UNCHANGED <<registry, phase, orphans>> /\ Life!Accepting(w)
      BY <2>1, <3>1 DEF TakeTask, Alone
    <3>4. <<w, s>> \notin orphans /\ job'[w][s] = j
      BY <3>2 DEF OwnTypeOK, TypeOK
    <3>5. \A v \in Workers, x \in Slots : v # w \/ x # s => job'[v][x] = job[v][x]
      BY <3>2 DEF TypeOK
    <3>6. s \notin Counted(w) /\ Counted(w)' = Counted(w) \cup {s}
      BY <3>0, <3>2, <3>3, <3>4, <3>5 DEF Counted
    <3>7. \A v \in Workers \ {w} : Counted(v)' = Counted(v)
      BY <3>3, <3>5 DEF Counted
    <3>8. /\ Executing[w] < Cardinality(Slots)
          /\ Executing' = [Executing EXCEPT ![w] = @ + 1]
      BY <3>6, <3>7, CountTaken
    <3>9. Life!Take(w)
      BY <3>3, <3>8 DEF Life!Take
    <3> QED
      BY <3>9 DEF Life!Next
  <2>2. CASE Alone(Dequeue \/ NameserviceDown \/ Requeue \/ RequeueEnqueue) \/ NobodyThere
    BY <2>2, NothingTaken DEF NobodyThere, Alone, Dequeue, NameserviceDown, Requeue,
       RequeueEnqueue, NoWorkerFirst, NoAlternative
  <2>3. ASSUME NEW t \in TaskIds, Select(t) \/ Alone(MarkProcessing(t))
        PROVE  UNCHANGED Life!lifeVars
    BY <2>3, NothingTaken DEF Select, Alone, AssignWorker, MarkProcessing
  <2> QED
    BY <1>1, <2>1, <2>2, <2>3 DEF GridLoopStep
<1>2. CASE OtherStep
  <2>1. CASE Alone(PostStep) \/ Alone(Scan)
    BY <2>1, NothingTaken DEF Alone, PostStep, PostAllocate, PostStore, PostEnqueue, Scan
  <2>2. ASSUME NEW t \in TaskIds, Alone(SweepStep(t)) PROVE UNCHANGED Life!lifeVars
    BY <2>2, NothingTaken DEF Alone, SweepStep, TimeOut, RetryTask, RetryQueued,
       RetryEnqueue, GiveUp
  <2> QED
    BY <1>2, <2>1, <2>2, EndOfExecution, EndOfWaiting DEF OtherStep
<1>3. ASSUME NEW w \in Workers, WorkerStep(w) PROVE Life!Next
  BY <1>3 DEF WorkerStep, Start, Beat, Shutdown, SetStop, Exit, Kill, Gone, Elsewhere,
     Life!Next
<1>4. CASE HealthCheck \/ NameServiceRestart \/ GridTick
  <2>1. NS!HealthCheck \/ NS!Restart \/ NS!Tick
    BY <1>4 DEF HealthCheck, NameServiceRestart, GridTick
  <2>2. Life!NS!HealthCheck \/ Life!NS!Restart \/ Life!NS!Tick
    BY <2>1 DEF NS!HealthCheck, NS!Tick, NS!Restart, NS!NoEntry, NS!Registered,
       NS!Checked, NS!Silent, Life!NS!HealthCheck, Life!NS!Tick, Life!NS!Restart,
       Life!NS!NoEntry, Life!NS!Registered, Life!NS!Checked, Life!NS!Silent
  <2>3. UNCHANGED <<phase, Executing>>
    BY <1>4 DEF HealthCheck, NameServiceRestart, GridTick, Tick, vars, Executing, Counted
  <2> QED
    BY <2>2, <2>3 DEF Life!Next, Life!NameServiceStep
<1>5. CASE UNCHANGED gridVars
  BY <1>5, NothingTaken DEF gridVars, vars
<1> QED
  BY <1>1, <1>2, <1>3, <1>4, <1>5 DEF GridNext

\* The registry has no other callers than the workers.
LEMMA LifeOfRegistry == [Life!Next]_(Life!lifeVars) => [NS!Next]_registry
<1> SUFFICES ASSUME [Life!Next]_(Life!lifeVars) PROVE [NS!Next]_registry
  OBVIOUS
<1> USE DEF NS!Next, NS!NoEntry, NS!Registered, Life!NS!NoEntry, Life!NS!Registered
<1>1. ASSUME NEW w \in Workers, Life!Register(w) PROVE NS!Next
  BY <1>1 DEF Life!Register, Life!NS!RegisterWorker, NS!RegisterWorker
<1>2. ASSUME NEW w \in Workers, Life!Beat(w) PROVE NS!Next
  <2>1. CASE Life!NS!RegisterWorker(w)
    BY <2>1 DEF Life!NS!RegisterWorker, NS!RegisterWorker
  <2>2. ASSUME NEW n \in 0..Cardinality(Slots), Life!NS!Heartbeat(w, n) PROVE NS!Next
    <3>1. NS!Heartbeat(w, n)
      BY <2>2 DEF Life!NS!Heartbeat, NS!Heartbeat, Life!NS!Heard, NS!Heard
    <3> QED
      BY <3>1
  <2> QED
    BY <1>2, <2>1, <2>2 DEF Life!Beat
<1>3. ASSUME NEW w \in Workers, Life!Deregister(w) PROVE NS!Next
  BY <1>3 DEF Life!Deregister, Life!NS!DeregisterWorker, NS!DeregisterWorker
<1>4. ASSUME NEW w \in Workers,
             \/ Life!StartServer(w) \/ Life!Shutdown(w) \/ Life!SetStop(w) \/ Life!Gone(w)
             \/ Life!Take(w) \/ Life!Done(w)
      PROVE  UNCHANGED registry
  BY <1>4 DEF Life!StartServer, Life!Shutdown, Life!SetStop, Life!Gone, Life!Take, Life!Done
<1>5. CASE Life!NameServiceStep
  BY <1>5 DEF Life!NameServiceStep, NS!HealthCheck, NS!Tick, NS!Restart,
     NS!Checked, NS!Silent, Life!NS!HealthCheck, Life!NS!Tick, Life!NS!Restart,
     Life!NS!Checked, Life!NS!Silent
<1>6. CASE UNCHANGED Life!lifeVars
  BY <1>6 DEF Life!lifeVars
<1> QED
  BY <1>1, <1>2, <1>3, <1>4, <1>5, <1>6 DEF Life!Next
-----------------------------------------------------------------------------
\* Whatever the dispatcher believes of an execution, the workers of the grid live as
\* the module WorkerLife has it: none takes a task outside its life or above its
\* capacity.
THEOREM GridImplementsLife == GridSpec => ImplementsLife
<1>1. GridInit => Life!Init
  <2>1. ASSUME Init PROVE Executing = [w \in Workers |-> 0]
    <3>1. \A w \in Workers : Counted(w) = {}
      BY <2>1 DEF Init, JobIdle, Counted
    <3> QED
      BY <3>1, FS_EmptySet DEF Executing
  <2> QED
    BY <2>1 DEF GridInit, Life!Init, NS!Init, NS!NoEntry, Life!NS!Init, Life!NS!NoEntry
<1> QED
  BY <1>1, StepOfLife, GridTyped, OwnTyped, PTL DEF GridSpec, ImplementsLife, Life!Spec

\* Its name service is the one of the module NameService, as only the workers call it.
LEMMA GridIsNameService == GridSpec => NS!Spec
<1>1. GridInit => NS!Init
  BY DEF GridInit
<1> QED
  BY <1>1, GridTyped, OwnTyped, StepOfLife, LifeOfRegistry, PTL DEF GridSpec, NS!Spec

\* So no task is lost in the grid either, with any number of workers that may die,
\* be shut down or be forgotten at any time.
THEOREM GridTasksNeverLost == GridSpec => []NoTaskLost
BY GridIsDispatcher, TasksNeverLost, PTL

\* And an outcome, once no thread of the dispatcher holds the task, lasts.
THEOREM GridOutcomesLast == GridSpec => SettledStable /\ BoardSafety
BY GridIsDispatcher, SettledTasksStable, ImplementsTaskBoard, PTL
-----------------------------------------------------------------------------
(* The name service of the grid, with the theorems of its own module. *)

Names == INSTANCE NameServiceProofs
           WITH Types <- {"type"}, TypeOf <- [w \in Workers |-> "type"],
                MaxLoad <- Cardinality(Slots)

LEMMA NamesAssumption == Names!NameServiceAssumption
BY TaskGridAssumption, FS_CardinalityType DEF Names!NameServiceAssumption

LEMMA SameNameService ==
  /\ NS!Init => Names!Init
  /\ NS!Next => Names!Next
<1> USE DEF NS!NoEntry, Names!NoEntry, NS!Registered, Names!Registered
<1>1. NS!Init => Names!Init
  BY DEF NS!Init, Names!Init
<1>2. NS!Next => Names!Next
  BY DEF NS!Next, NS!RegisterWorker, NS!Heartbeat, NS!Heard, NS!HeartbeatUnknown,
     NS!DeregisterWorker, NS!HealthCheck, NS!Checked, NS!Restart, NS!Tick, NS!Silent,
     Names!Next, Names!RegisterWorker, Names!Heartbeat, Names!Heard,
     Names!HeartbeatUnknown, Names!DeregisterWorker, Names!HealthCheck, Names!Checked,
     Names!Restart, Names!Tick, Names!Silent
<1> QED
  BY <1>1, <1>2

LEMMA SamePromises ==
  /\ Names!TypeOK => NS!TypeOK
  /\ Names!HeardIsOffered => NS!HeardIsOffered
<1>1. Names!TypeOK => NS!TypeOK
  BY DEF NS!TypeOK, NS!Entry, NS!NoEntry, NS!Ages, NS!Silent, Names!TypeOK, Names!Entry,
     Names!NoEntry, Names!Ages, Names!Silent
<1>2. Names!HeardIsOffered => NS!HeardIsOffered
  BY DEF NS!HeardIsOffered, NS!LookupWorker, Names!HeardIsOffered, Names!LookupWorker
<1> QED
  BY <1>1, <1>2

LEMMA RegistryTyped == NS!Spec => []NS!TypeOK
<1>1. Names!Spec => []Names!TypeOK
  BY Names!TypeCorrect, NamesAssumption, PTL
<1> QED
  BY <1>1, SameNameService, SamePromises, PTL DEF NS!Spec, Names!Spec

\* Every worker heard of lately is on offer to the dispatcher of the grid, unless it
\* has been written off: what is proved of the name service holds here.
THEOREM GridHeardOffered == GridSpec => []NS!HeardIsOffered
<1>1. Names!Spec => []Names!HeardIsOffered
  BY Names!HeardWorkersOffered, NamesAssumption, PTL
<1> QED
  BY <1>1, SameNameService, SamePromises, GridIsNameService, PTL
     DEF NS!Spec, Names!Spec
-----------------------------------------------------------------------------
\* Every variable of the grid keeps its type.
THEOREM GridTypeCorrect == GridSpec => []GridTypeOK
<1>1. TypeOK /\ NS!TypeOK /\ OwnTypeOK => GridTypeOK
  <2> SUFFICES ASSUME OwnTypeOK, NEW p \in orphans PROVE job[p[1]][p[2]].pc = "returning"
    BY DEF GridTypeOK, OwnTypeOK
  <2>1. PICK w \in Workers, s \in Slots : p = <<w, s>>
    BY DEF OwnTypeOK
  <2> QED
    BY <2>1 DEF OwnTypeOK
<1> QED
  BY <1>1, GridTyped, OwnTyped, GridIsNameService, RegistryTyped, PTL
-----------------------------------------------------------------------------
(* A worker that beats in time is on offer.  That is not inductive: the age   *)
(* of its entry must stay within the heartbeat timeout, or the checker takes  *)
(* it off.  It does, as the clock waits for its heartbeat; and the worker     *)
(* cannot have inherited an old entry, as a process begins with registering.  *)

InTime(w) == Beating(w) /\ NS!Registered(w) =>
               registry[w].status = "ACTIVE" /\ registry[w].age <= HeartbeatTimeout

AllInTime == \A w \in Workers : InTime(w)

\* What one worker's own steps do to its entry and its phase.
LEMMA InTimeWorker ==
  ASSUME NS!TypeOK, phase \in [Workers -> Life!Phases], AllInTime,
         NEW w \in Workers, WorkerStep(w)
  PROVE  AllInTime'
<1> USE TaskGridAssumption DEF AllInTime, InTime, Beating, NS!Registered, NS!TypeOK
<1>1. CASE Start(w)
  BY <1>1 DEF Start, Elsewhere, Life!Register, Life!StartServer, Life!NS!RegisterWorker
<1>2. CASE Beat(w)
  <2>1. CASE Life!NS!RegisterWorker(w)
    BY <1>2, <2>1 DEF Beat, Elsewhere, Life!Beat, Life!NS!RegisterWorker
  <2>2. ASSUME NEW n \in 0..Cardinality(Slots), Life!NS!Heartbeat(w, n) PROVE AllInTime'
    <3>1. UNCHANGED phase
      BY <1>2 DEF Beat, Elsewhere, Life!Beat
    <3>2. /\ NS!Registered(w)
          /\ registry' = [registry EXCEPT ![w] = [status |-> NS!Heard(registry[w].status),
                                                  age |-> 0, load |-> n]]
      BY <2>2 DEF Life!NS!Heartbeat, Life!NS!Registered, Life!NS!Heard, NS!Heard
    <3> QED
      BY <3>1, <3>2 DEF NS!Heard
  <2> QED
    BY <1>2, <2>1, <2>2 DEF Beat, Elsewhere, Life!Beat
<1>3. CASE Elsewhere(Life!Deregister(w))
  BY <1>3 DEF Elsewhere, Life!Deregister, Life!NS!DeregisterWorker, Life!NS!NoEntry
<1>4. CASE Shutdown(w) \/ SetStop(w) \/ Exit(w) \/ Kill(w)
  BY <1>4 DEF Shutdown, SetStop, Exit, Kill, Gone, Elsewhere, Life!Shutdown, Life!SetStop,
     Life!Gone
<1> QED
  BY <1>1, <1>2, <1>3, <1>4 DEF WorkerStep

LEMMA InTimeStep ==
  ASSUME GridTypeOK, AllInTime, [GridNext]_gridVars
  PROVE  AllInTime'
<1>0. NS!TypeOK /\ phase \in [Workers -> Life!Phases]
  BY DEF GridTypeOK
<1> USE TaskGridAssumption DEF AllInTime, InTime, Beating, NS!Registered, NS!TypeOK
<1>1. CASE GridLoopStep \/ OtherStep \/ UNCHANGED gridVars
  <2>1. UNCHANGED <<registry, phase>>
    BY <1>1 DEF GridLoopStep, OtherStep, NobodyThere, Select, TakeTask, Alone, gridVars,
       EndStep, AnswerResult, ReturnTimesOut
  <2> QED
    BY <2>1
<1>2. ASSUME NEW w \in Workers, WorkerStep(w) PROVE AllInTime'
  BY <1>0, <1>2, InTimeWorker
<1>3. CASE HealthCheck
  <2> SUFFICES ASSUME NEW w \in Workers, Beating(w)', NS!Registered(w)'
               PROVE  registry'[w].status = "ACTIVE" /\ registry'[w].age <= HeartbeatTimeout
    OBVIOUS
  <2>1. UNCHANGED phase /\ registry'[w] = IF NS!Registered(w) THEN NS!Checked(registry[w])
                                          ELSE NS!NoEntry
    BY <1>3 DEF HealthCheck, NS!HealthCheck
  <2>2. NS!Registered(w)
    BY <2>1 DEF NS!NoEntry
  <2>3. registry[w].status = "ACTIVE" /\ registry[w].age <= HeartbeatTimeout
        /\ registry[w].age \in Nat
    BY <1>0, <2>1, <2>2 DEF NS!Entry, NS!NoEntry, NS!Ages, NS!Silent
  <2>4. NS!Checked(registry[w]) = registry[w]
    BY <2>3 DEF NS!Checked
  <2> QED
    BY <2>1, <2>2, <2>3, <2>4
<1>4. CASE NameServiceRestart
  BY <1>4 DEF NameServiceRestart, NS!Restart, NS!NoEntry
<1>5. CASE GridTick
  <2> SUFFICES ASSUME NEW w \in Workers, Beating(w)', NS!Registered(w)'
               PROVE  registry'[w].status = "ACTIVE" /\ registry'[w].age <= HeartbeatTimeout
    OBVIOUS
  <2>1. /\ UNCHANGED phase /\ Punctual(w)
        /\ registry'[w] = IF NS!Registered(w) /\ registry[w].age < NS!Silent
                          THEN [registry[w] EXCEPT !.age = @ + 1] ELSE registry[w]
    BY <1>5 DEF GridTick, NS!Tick
  <2>2. NS!Registered(w) /\ registry[w].age < HeartbeatTimeout
    BY <2>1 DEF Punctual
  <2>3. /\ registry[w].status = "ACTIVE" /\ registry[w].age \in Nat
        /\ registry[w] \in [status : {"ACTIVE", "UNHEALTHY", "OFFLINE"}, age : NS!Ages,
                            load : 0..Cardinality(Slots)]
    BY <1>0, <2>1, <2>2 DEF NS!Entry, NS!NoEntry, NS!Ages, NS!Silent
  <2> QED
    BY <2>1, <2>2, <2>3
<1> QED
  BY <1>1, <1>2, <1>3, <1>4, <1>5 DEF GridNext

\* A worker that lives and beats in time is on offer, whatever became of its earlier
\* processes, for any number of workers, kills and restarts and any two timeouts.
THEOREM GridBeatingOffered == GridSpec => []BeatingOffered
<1>1. GridInit => AllInTime
  BY DEF GridInit, AllInTime, InTime, Beating
<1>2. AllInTime => BeatingOffered
  BY DEF AllInTime, InTime, BeatingOffered, Offered, NS!LookupWorker
<1> QED
  BY <1>1, <1>2, InTimeStep, GridTypeCorrect, PTL DEF GridSpec
-----------------------------------------------------------------------------
(* A retry finds a worker while nothing was stopped.  What is inductive goes  *)
(* further back: the registry and the life of the processes agree, and as     *)
(* soon as a task was handed to anyone, some process lives.                   *)

\* Something in the dispatcher shows that a task was handed to a worker before.
Attempted ==
  \/ loop.retry > 0 \/ sweep.pc = "timeout"
  \/ \E t \in TaskIds : store[t].sent # 0 \/ store[t].retry > 0 \/ snap[t].due

\* Nothing was stopped, so that who lives is registered and nobody else is.
AllLive ==
  \A w \in Workers : /\ phase[w] \in {"off", "starting", "running"}
                     /\ NS!Registered(w) <=> phase[w] # "off"

RetryInv == faults = 0 => AllLive /\ (Attempted => \E w \in Workers : phase[w] # "off")

\* A step that writes a status writes neither a dispatch time nor a retry.
OnlyStatus == UNCHANGED store \/ \E t, x : store' = [store EXCEPT ![t].status = x]

LEMMA StatusKeepsAttempts ==
  ASSUME store \in [TaskIds -> TaskRecord], OnlyStatus
  PROVE  \A u \in TaskIds : store'[u].sent = store[u].sent /\ store'[u].retry = store[u].retry
<1>1. CASE UNCHANGED store
  BY <1>1
<1>2. ASSUME NEW t, NEW x, store' = [store EXCEPT ![t].status = x], NEW u \in TaskIds
      PROVE  store'[u].sent = store[u].sent /\ store'[u].retry = store[u].retry
  <2>1. /\ [store[u] EXCEPT !.status = x].sent = store[u].sent
        /\ [store[u] EXCEPT !.status = x].retry = store[u].retry
    BY DEF TaskRecord
  <2>2. store'[u] = store[u] \/ store'[u] = [store[u] EXCEPT !.status = x]
    BY <1>2
  <2> QED
    BY <2>1, <2>2
<1> QED
  BY <1>1, <1>2 DEF OnlyStatus

\* Only the handing over of a task to a worker on offer makes a first attempt.
LEMMA AttemptMade ==
  ASSUME TypeOK, [GridNext]_gridVars, ~Attempted, \A t \in TaskIds : ~Select(t)
  PROVE  ~Attempted'
<1>1. /\ loop.retry = 0 /\ sweep.pc # "timeout"
      /\ \A t \in TaskIds : store[t].sent = 0 /\ store[t].retry = 0 /\ ~snap[t].due
  BY DispatcherAssumption DEF Attempted, TypeOK, LoopState, LoopIdle, TaskRecord, Ages, Overdue
<1>2. /\ store \in [TaskIds -> TaskRecord] /\ snap \in [TaskIds -> SnapEntry]
      /\ queue \in Seq(TaskIds)
  BY DEF TypeOK
<1> DEFINE NotTried == \A t \in TaskIds : store[t].sent = 0 /\ store[t].retry = 0
<1> DEFINE NoneDue  == \A t \in TaskIds : ~snap[t].due
<1>3. CASE GridLoopStep
  <2>1. UNCHANGED <<sweep, snap>>
    BY <1>3 DEF GridLoopStep, NobodyThere, TakeTask, Alone, Dequeue, NameserviceDown, Requeue,
       RequeueEnqueue, NoWorkerFirst, NoAlternative, ProcessTask, MarkProcessing
  <2>2. CASE Alone(Dequeue)
    <3>1. Head(queue) \in TaskIds
      BY <1>2, <2>2 DEF Alone, Dequeue
    <3>2. loop'.retry = 0 /\ UNCHANGED store
      BY <1>1, <2>2, <3>1 DEF Alone, Dequeue
    <3> QED
      BY <1>1, <2>1, <3>2 DEF Attempted
  <2>3. CASE NobodyThere \/ Alone(NameserviceDown) \/ Alone(RequeueEnqueue)
    <3>1. loop'.retry = 0 /\ UNCHANGED store
      BY <1>1, <2>3 DEF NobodyThere, Alone, NameserviceDown, RequeueEnqueue, NoWorkerFirst,
         NoAlternative, LoopIdle
    <3> QED
      BY <1>1, <2>1, <3>1 DEF Attempted
  <2>4. CASE Alone(Requeue)
    <3>1. loop'.retry = 0
      BY <2>4 DEF Alone, Requeue
    <3>2. store' = [store EXCEPT ![loop.task] = Requeued(@)]
      BY <2>4 DEF Alone, Requeue
    <3>3. NotTried'
      BY <1>1, <1>2, <3>2 DEF Requeued, TaskRecord
    <3> QED
      BY <1>1, <2>1, <3>1, <3>3 DEF Attempted
  <2>5. ASSUME NEW t \in TaskIds, TakeTask(t) PROVE ~Attempted'
    <3>1. loop'.retry = 0 /\ UNCHANGED store
      BY <1>1, <2>5 DEF TakeTask, Alone, ProcessTask, TypeOK, LoopState, LoopIdle
    <3> QED
      BY <1>1, <2>1, <3>1 DEF Attempted
  <2>6. ASSUME NEW t \in TaskIds, Alone(MarkProcessing(t)) PROVE ~Attempted'
    <3>1. loop'.retry = 0
      BY <2>6 DEF Alone, MarkProcessing, LoopIdle
    <3>2. OnlyStatus
      BY <2>6 DEF Alone, MarkProcessing, OnlyStatus
    <3>3. NotTried'
      BY <1>1, <1>2, <3>2, StatusKeepsAttempts
    <3> QED
      BY <1>1, <2>1, <3>1, <3>3 DEF Attempted
  <2> QED
    BY <1>3, <2>2, <2>3, <2>4, <2>5, <2>6 DEF GridLoopStep, Alone
<1>4. CASE OtherStep
  <2>1. UNCHANGED loop
    BY <1>4 DEF OtherStep, Alone, PostStep, PostAllocate, PostStore, PostEnqueue, Scan,
       SweepStep, TimeOut, RetryTask, RetryQueued, RetryEnqueue, GiveUp, EndStep,
       AnswerResult, ReturnTimesOut, ReportResult, StoreResult, LoseResult, vars
  <2>2. CASE Alone(PostStep)
    <3>1. UNCHANGED <<snap, sweep>> /\ OnlyStatus
      BY <2>2 DEF Alone, PostStep, PostAllocate, PostStore, PostEnqueue, OnlyStatus
    <3>2. NotTried'
      BY <1>1, <1>2, <3>1, StatusKeepsAttempts
    <3> QED
      BY <1>1, <2>1, <3>1, <3>2 DEF Attempted
  <2>3. CASE Alone(Scan)
    <3>1. NoneDue' /\ UNCHANGED <<store, sweep>>
      BY <1>1, <2>3, DispatcherAssumption DEF Alone, Scan, Expired, NotDue, Overdue
    <3> QED
      BY <1>1, <2>1, <3>1 DEF Attempted
  <2>4. ASSUME NEW t \in TaskIds, Alone(SweepStep(t)) PROVE ~Attempted'
    <3>1. CASE RetryQueued(t) \/ RetryEnqueue(t)
      <4>1. UNCHANGED snap /\ sweep'.pc # "timeout"
        <5>1. [pc |-> "queued", task |-> t].pc # "timeout" /\ SweepIdle.pc # "timeout"
          BY DEF SweepIdle
        <5> QED
          BY <3>1, <5>1 DEF RetryQueued, RetryEnqueue
      <4>2. NotTried'
        <5>1. OnlyStatus
          BY <3>1 DEF RetryQueued, RetryEnqueue, OnlyStatus
        <5> QED
          BY <1>1, <1>2, <5>1, StatusKeepsAttempts
      <4> QED
        BY <1>1, <2>1, <4>1, <4>2 DEF Attempted
    <3>2. CASE TimeOut(t) \/ RetryTask(t) \/ GiveUp(t)
      BY <1>1, <3>2 DEF TimeOut, RetryTask, GiveUp
    <3> QED
      BY <2>4, <3>1, <3>2 DEF Alone, SweepStep
  <2>5. ASSUME NEW w \in Workers, NEW s \in Slots, EndStep(w, s) \/ ReturnTimesOut(w, s)
        PROVE  ~Attempted'
    <3>1. UNCHANGED <<snap, sweep>>
      BY <2>5 DEF EndStep, AnswerResult, ReturnTimesOut, Alone, ReportResult, StoreResult,
         LoseResult, vars
    <3>2. OnlyStatus
      <4>1. CASE StoreResult(w, s)
        BY <4>1 DEF StoreResult, OnlyStatus
      <4>2. CASE ~StoreResult(w, s)
        BY <2>5, <4>2 DEF EndStep, AnswerResult, ReturnTimesOut, Alone, ReportResult,
           LoseResult, vars, OnlyStatus
      <4> QED
        BY <4>1, <4>2
    <3>3. NotTried'
      BY <1>1, <1>2, <3>2, StatusKeepsAttempts
    <3> QED
      BY <1>1, <2>1, <3>1, <3>3 DEF Attempted
  <2> QED
    BY <1>4, <2>2, <2>3, <2>4, <2>5 DEF OtherStep
<1>5. ASSUME \/ \E w \in Workers : WorkerStep(w)
             \/ HealthCheck \/ NameServiceRestart \/ UNCHANGED gridVars
      PROVE  ~Attempted'
  <2>1. UNCHANGED <<store, loop, snap, sweep>>
    BY <1>5 DEF WorkerStep, Start, Beat, Shutdown, SetStop, Exit, Kill, Gone, WorkerDies,
       Elsewhere, HealthCheck, NameServiceRestart, gridVars, vars
  <2> QED
    BY <1>1, <2>1 DEF Attempted
<1>6. CASE GridTick
  <2>1. UNCHANGED <<loop, snap, sweep>>
        /\ store' = [t \in TaskIds |-> [store[t] EXCEPT !.sent = Aged(@)]]
    BY <1>6 DEF GridTick, Tick
  <2>2. Aged(0) = 0
    BY DEF Aged
  <2>3. NotTried'
    BY <1>1, <1>2, <2>1, <2>2 DEF TaskRecord
  <2> QED
    BY <1>1, <2>1, <2>3 DEF Attempted
<1> QED
  BY <1>3, <1>4, <1>5, <1>6 DEF GridNext

\* As long as nothing is stopped, registry and processes agree, and who lives lives on.
LEMMA LivesOn ==
  ASSUME OwnTypeOK, NS!TypeOK, AllLive, faults = 0, [GridNext]_gridVars, faults' = 0
  PROVE  AllLive' /\ \A w \in Workers : phase[w] # "off" => phase'[w] # "off"
<1> USE DEF AllLive, NS!Registered, NS!TypeOK, OwnTypeOK
<1>1. CASE UNCHANGED <<registry, phase>>
  BY <1>1
<1>2. ASSUME NEW w \in Workers, WorkerStep(w)
      PROVE  AllLive' /\ \A v \in Workers : phase[v] # "off" => phase'[v] # "off"
  <2>1. CASE Start(w)
    BY <2>1 DEF Start, Elsewhere, Life!Register, Life!StartServer, Life!NS!RegisterWorker
  <2>2. CASE Beat(w)
    <3>1. phase[w] # "off" /\ UNCHANGED phase
      BY <2>2 DEF Beat, Elsewhere, Life!Beat
    <3>2. \E st \in {"ACTIVE", registry[w].status} : \E n :
            registry' = [registry EXCEPT ![w] = [status |-> st, age |-> 0, load |-> n]]
      BY <2>2 DEF Beat, Elsewhere, Life!Beat, Life!NS!Heartbeat, Life!NS!Heard,
         Life!NS!RegisterWorker
    <3> QED
      BY <3>1, <3>2
  <2>3. ~Shutdown(w) /\ ~Kill(w)
    BY DEF Shutdown, Kill
  <2>4. ~Elsewhere(Life!Deregister(w)) /\ ~SetStop(w) /\ ~Exit(w)
    BY DEF Elsewhere, Life!Deregister, SetStop, Life!SetStop, Exit
  <2> QED
    BY <1>2, <2>1, <2>2, <2>3, <2>4 DEF WorkerStep
<1>3. CASE HealthCheck
  BY <1>3 DEF HealthCheck, NS!HealthCheck, NS!Checked, NS!Entry, NS!NoEntry
<1>4. CASE GridTick
  BY <1>4 DEF GridTick, NS!Tick, NS!Entry, NS!NoEntry
<1>5. ~NameServiceRestart
  BY DEF NameServiceRestart
<1>6. CASE GridLoopStep \/ OtherStep \/ UNCHANGED gridVars
  BY <1>1, <1>6 DEF GridLoopStep, OtherStep, NobodyThere, Select, TakeTask, Alone, gridVars,
     EndStep, AnswerResult, ReturnTimesOut
<1> QED
  BY <1>2, <1>3, <1>4, <1>5, <1>6 DEF GridNext

LEMMA RetryStep ==
  ASSUME TypeOK, OwnTypeOK, NS!TypeOK, RetryInv, [GridNext]_gridVars
  PROVE  RetryInv'
<1> SUFFICES ASSUME faults' = 0
             PROVE  AllLive' /\ (Attempted' => \E w \in Workers : phase'[w] # "off")
  BY DEF RetryInv
<1>1. faults = 0
  <2>1. faults' = faults \/ faults' = faults + 1
    BY DEF GridNext, GridLoopStep, OtherStep, NobodyThere, Select, TakeTask, Alone, gridVars,
       EndStep, AnswerResult, ReturnTimesOut, WorkerStep, Start, Beat, Shutdown, SetStop,
       Exit, Kill, Elsewhere, HealthCheck, NameServiceRestart, GridTick
  <2> QED
    BY <2>1, TaskGridAssumption DEF OwnTypeOK
<1>2. AllLive' /\ \A w \in Workers : phase[w] # "off" => phase'[w] # "off"
  BY <1>1, LivesOn DEF RetryInv
<1>3. ASSUME Attempted' PROVE \E w \in Workers : phase[w] # "off"
  <2>1. CASE Attempted
    BY <1>1, <2>1 DEF RetryInv
  <2>2. CASE ~Attempted
    <3>1. PICK t \in TaskIds : Select(t)
      BY <1>3, <2>2, AttemptMade
    <3>2. PICK w \in Workers : registry[w].status = "ACTIVE"
      BY <3>1 DEF Select, Alone, AssignWorker, Candidates, Offered, NS!LookupWorker
    <3> QED
      BY <1>1, <3>2 DEF RetryInv, AllLive, NS!Registered
  <2> QED
    BY <2>1, <2>2
<1> QED
  BY <1>2, <1>3

\* As long as nothing was killed, shut down or restarted, no retry fails for want of a
\* worker, for any number of workers, tasks and retries and any timeouts.
THEOREM GridRetryFindsWorker == GridSpec => []RetryFindsWorker
<1>1. GridInit => RetryInv
  <2>1. Init => ~Attempted
    BY DEF Init, Attempted, LoopIdle, SweepIdle, NoRecord, NotDue
  <2> QED
    BY <2>1 DEF GridInit, RetryInv, AllLive, NS!Init, NS!NoEntry, NS!Registered
<1>2. RetryInv /\ BeatingOffered => RetryFindsWorker
  BY DEF RetryInv, AllLive, Attempted, BeatingOffered, Beating, RetryFindsWorker
<1> QED
  BY <1>1, <1>2, RetryStep, GridTyped, OwnTyped, GridIsNameService, RegistryTyped,
     GridBeatingOffered, PTL DEF GridSpec
=============================================================================
