---------------------------- MODULE StatusProofs ----------------------------
(* What the dispatcher's status answers say of its counters, for any number  *)
(* of tasks, retries and timeouts.                                          *)
EXTENDS DispatcherStatus, CopiesProofs

LEMMA StatusStepIsStep == [StatusNext]_allVars => [Next]_vars
<1> USE DEF Uncounted
<1>1. ASSUME NEW t \in TaskIds, Uncounted(SweepOther(t)) \/ WriteTimeout(t) PROVE Next
  BY <1>1 DEF SweepOther, WriteTimeout, SweepStep, Next
<1>2. ASSUME NEW w \in Workers, NEW s \in Slots, NEW ok \in BOOLEAN,
             Uncounted(ReportResult(w, s, ok)) \/ Uncounted(LoseResult(w, s)) \/ StoreToCount(w, s)
      PROVE Next
  BY <1>2 DEF StoreToCount, JobStep, Next
<1>3. CASE Uncounted(PostStep) \/ Uncounted(LoopStep) \/ Uncounted(Tick) \/ Uncounted(Scan)
  BY <1>3 DEF Next
<1>4. ASSUME NEW w \in Workers, Uncounted(WorkerDies(w)) PROVE Next
  BY <1>4 DEF Next
<1>5. CASE (\E t \in TaskIds : CountTimeout(t)) \/ CountCompleted \/ QueryStore
           \/ QueryStats \/ QueryAnswer \/ UNCHANGED allVars
  BY <1>5 DEF CountTimeout, CountCompleted, QueryStore, QueryStats, QueryAnswer, allVars
<1>6. ASSUME NEW w \in Workers, NEW s \in Slots,
             Uncounted(LoseResult(w, s)) \/ StoreToCount(w, s)
      PROVE Next
  BY <1>6 DEF StoreToCount, JobStep, Next
<1> QED BY <1>1, <1>2, <1>3, <1>4, <1>5, <1>6 DEF StatusNext

\* The dispatcher behaves as without counters and queries.
LEMMA StatusIsDispatcher == StatusSpec => Spec
<1>1. StatusInit => Init
  BY DEF StatusInit
<1> QED BY <1>1, StatusStepIsStep, PTL DEF StatusSpec, Spec

\* So no task is lost under them.
THEOREM StatusTasksNeverLost == StatusSpec => []NoTaskLost
BY StatusIsDispatcher, TasksNeverLost
-----------------------------------------------------------------------------
(* An answer never claims more retries than timeouts.  What makes it so is  *)
(* the order of the timeout pass (count, then write) together with the      *)
(* order of the query (copy the store, then read the counters): Pending is  *)
(* the timeout that is counted and not yet a retry.                         *)

Pending == IF counting # 0 \/ sweep.pc = "timeout" THEN 1 ELSE 0

QueryInOrder ==
  /\ response.total_retries <= response.total_timeouts
  /\ response.total_retries <= Retries(store)
  /\ response.total_timeouts <= total_timeouts
  /\ query.pc \in {"copied", "counted"} =>
       /\ response.total_retries <= query.total_retries
       /\ query.total_retries <= Retries(store)
  /\ query.pc = "counted" =>
       /\ response.total_timeouts <= query.total_timeouts
       /\ query.total_timeouts <= total_timeouts
       /\ query.total_retries <= query.total_timeouts

CounterType ==
  /\ total_timeouts \in Nat
  /\ counting \in {0} \cup TaskIds
  /\ query \in [pc : {"idle", "copied", "counted"}, total_retries : Nat, total_timeouts : Nat]
  /\ response \in [total_retries : Nat, total_timeouts : Nat]

CountInv ==
  /\ ViewInv /\ SweepDue /\ CounterType
  /\ counting # 0 => sweep.pc = "idle"
  /\ Retries(store) + Pending <= total_timeouts
  /\ QueryInOrder

LEMMA RetriesFinite ==
  ASSUME NEW records \in [TaskIds -> TaskRecord]
  PROVE  /\ IsFiniteSet({r \in TaskIds \X (1..MaxRetries) : r[2] <= records[r[1]].retry})
         /\ Retries(records) \in Nat /\ Retries(records) \in RetrySums
<1> DEFINE S == {r \in TaskIds \X (1..MaxRetries) : r[2] <= records[r[1]].retry}
<1>1. /\ IsFiniteSet(TaskIds \X (1..MaxRetries))
      /\ Cardinality(TaskIds \X (1..MaxRetries)) = MaxTasks * MaxRetries
  <2>1. /\ IsFiniteSet(TaskIds) /\ Cardinality(TaskIds) = MaxTasks
        /\ IsFiniteSet(1..MaxRetries) /\ Cardinality(1..MaxRetries) = MaxRetries
    BY DispatcherAssumption, FS_Interval DEF TaskIds
  <2> QED BY <2>1, FS_Product
<1>2. S \subseteq TaskIds \X (1..MaxRetries)
  OBVIOUS
<1>3. IsFiniteSet(S) /\ Cardinality(S) <= MaxTasks * MaxRetries
  BY <1>1, <1>2, FS_Subset
<1>4. Cardinality(S) \in Nat /\ MaxTasks * MaxRetries \in Nat
  BY <1>3, FS_CardinalityType, DispatcherAssumption
<1> QED BY <1>3, <1>4 DEF Retries, RetrySums

LEMMA StatusTypeInit == StatusInit => StatusTypeOK
<1>1. 0 \in RetrySums /\ 0 \in 0..MaxTimeouts
  BY DispatcherAssumption, StatusAssumption DEF RetrySums
<1> QED
  BY <1>1, TypeInit, StatusAssumption DEF StatusInit, StatusTypeOK, QueryIdle, NoResponse

LEMMA StatusTypeStep ==
  ASSUME StatusTypeOK, [StatusNext]_allVars
  PROVE  StatusTypeOK'
<1>0. TypeOK' /\ Retries(store) \in RetrySums
  BY StatusStepIsStep, TypeStep, RetriesFinite DEF StatusTypeOK, TypeOK
<1>1. CASE UNCHANGED statusVars
  BY <1>0, <1>1 DEF statusVars, StatusTypeOK
<1>2. ASSUME NEW t \in TaskIds, CountTimeout(t) \/ WriteTimeout(t) PROVE StatusTypeOK'
  BY <1>0, <1>2, StatusAssumption DEF CountTimeout, WriteTimeout, StatusTypeOK
<1>3. ASSUME NEW w \in Workers, NEW s \in Slots, StoreToCount(w, s) PROVE StatusTypeOK'
  BY <1>0, <1>3, StatusAssumption DEF StoreToCount, StatusTypeOK
<1>4. CASE CountCompleted
  BY <1>0, <1>4, StatusAssumption DEF CountCompleted, StatusTypeOK
<1>5. CASE QueryStore \/ QueryStats \/ QueryAnswer
  <2> DEFINE Query == [pc : {"idle", "copied", "counted"}, total_retries : RetrySums,
                       total_timeouts : 0..MaxTimeouts]
             Answer == [total_retries : RetrySums, total_timeouts : 0..MaxTimeouts]
  <2>1. /\ query \in Query /\ response \in Answer /\ total_timeouts \in 0..MaxTimeouts
        /\ 0 \in RetrySums /\ 0 \in 0..MaxTimeouts
    BY StatusAssumption, DispatcherAssumption DEF StatusTypeOK, RetrySums
  <2>2. UNCHANGED <<vars, total_timeouts, completed_task_count, tallying, counting>>
    BY <1>5 DEF QueryStore, QueryStats, QueryAnswer
  <2>3. query' \in Query
    <3>1. CASE QueryStore
      BY <1>0, <2>1, <3>1 DEF QueryStore
    <3>2. CASE QueryStats
      BY <2>1, <3>2 DEF QueryStats
    <3>3. CASE QueryAnswer
      BY <2>1, <3>3 DEF QueryAnswer, QueryIdle
    <3> QED BY <1>5, <3>1, <3>2, <3>3
  <2>4. response' \in Answer
    BY <1>5, <2>1 DEF QueryStore, QueryStats, QueryAnswer
  <2> QED BY <1>0, <2>2, <2>3, <2>4 DEF StatusTypeOK
<1>6. CASE UNCHANGED allVars
  BY <1>1, <1>6 DEF allVars
<1> QED BY <1>1, <1>2, <1>3, <1>4, <1>5, <1>6 DEF StatusNext, Uncounted

\* What is counted, asked and answered stays within the retries and timeouts there
\* can be, for any number of tasks.
THEOREM StatusTypeCorrect == StatusSpec => []StatusTypeOK
BY StatusTypeInit, StatusTypeStep, PTL DEF StatusSpec

\* A retry adds one to the sum of the retry counters ...
LEMMA RetryAddsOne ==
  ASSUME ViewInv, SweepDue, NEW u \in TaskIds, RetryTask(u)
  PROVE  Retries(store') = Retries(store) + 1
<1> DEFINE S == {r \in TaskIds \X (1..MaxRetries) : r[2] <= store[r[1]].retry}
           k == store[u].retry + 1
<1>1. /\ store \in [TaskIds -> TaskRecord] /\ k \in 1..MaxRetries
      /\ \A t \in TaskIds : store'[t].retry = IF t = u THEN k ELSE store[t].retry
      /\ \A t \in TaskIds : store[t].retry \in Nat
  BY RetryCounts, DispatcherAssumption DEF ViewInv, TypeOK, TaskRecord
<1> HIDE DEF k
<1>2. {r \in TaskIds \X (1..MaxRetries) : r[2] <= store'[r[1]].retry} = S \cup {<<u, k>>}
  BY <1>1 DEF k
<1>3. <<u, k>> \notin S
  BY <1>1 DEF k
<1>4. IsFiniteSet(S) /\ Cardinality(S) \in Nat
  BY <1>1, RetriesFinite, FS_CardinalityType
<1> HIDE DEF S
<1>5. Cardinality(S \cup {<<u, k>>}) = Cardinality(S) + 1
  BY <1>3, <1>4, FS_AddElement
<1> QED BY <1>2, <1>5 DEF Retries, S

\* ... and nothing else changes it.
LEMMA RetriesSame ==
  ASSUME \A t \in TaskIds : store'[t].retry = store[t].retry
  PROVE  Retries(store') = Retries(store)
<1>1. {r \in TaskIds \X (1..MaxRetries) : r[2] <= store'[r[1]].retry}
      = {r \in TaskIds \X (1..MaxRetries) : r[2] <= store[r[1]].retry}
  OBVIOUS
<1> QED BY <1>1 DEF Retries

\* The other threads leave the timeout pass where it is.
LEMMA SweepUntouched ==
  ASSUME PostStep \/ LoopStep \/ Tick \/ Scan \/ UNCHANGED vars
         \/ (\E w \in Workers : WorkerDies(w))
         \/ (\E w \in Workers, s \in Slots : JobStep(w, s))
  PROVE  sweep' = sweep
<1>1. CASE PostStep
  BY <1>1 DEF PostStep, PostAllocate, PostStore, PostEnqueue
<1>2. CASE LoopStep
  BY <1>2 DEF LoopStep, Dequeue, NameserviceDown, RequeueEnqueue, LookupStep, NoWorkerFirst,
     NoAlternative, AssignWorker, CallStep, ProcessTask, MarkProcessing, Requeue
<1>3. ASSUME NEW w \in Workers, NEW s \in Slots, JobStep(w, s) PROVE sweep' = sweep
  BY <1>3 DEF JobStep, ReportResult, StoreResult, LoseResult
<1>4. CASE Tick \/ Scan \/ UNCHANGED vars \/ \E w \in Workers : WorkerDies(w)
  BY <1>4 DEF Tick, Scan, vars, WorkerDies
<1> QED BY <1>1, <1>2, <1>3, <1>4

LEMMA CountInit == StatusInit => CountInv
<1> SUFFICES ASSUME StatusInit PROVE CountInv
  OBVIOUS
<1>1. Init /\ ViewInv
  BY ViewInit DEF StatusInit
<1>2. {r \in TaskIds \X (1..MaxRetries) : r[2] <= store[r[1]].retry} = {}
  BY <1>1 DEF Init, NoRecord
<1>3. Retries(store) = 0
  BY <1>2, FS_EmptySet DEF Retries
<1> QED BY <1>1, <1>3 DEF StatusInit, Init, CountInv, CounterType, SweepDue, Pending, QueryInOrder,
        SweepIdle, QueryIdle, NoResponse

LEMMA CountStep == CountInv /\ [StatusNext]_allVars => CountInv'
<1> SUFFICES ASSUME CountInv, [StatusNext]_allVars PROVE CountInv'
  OBVIOUS
<1>0. ViewInv' /\ SweepDue' /\ [Next]_vars
  BY StatusStepIsStep, ViewStep, SweepDueStep DEF CountInv, ViewInv
<1>r. Retries(store) \in Nat /\ Retries(store') \in Nat
  BY <1>0, RetriesFinite DEF CountInv, ViewInv, TypeOK
<1>s. (\E u \in TaskIds : RetryTask(u)) \/ Retries(store') = Retries(store)
  BY <1>0, RetryKept, RetriesSame DEF CountInv, ViewInv
<1>i. CounterType /\ (counting # 0 => sweep.pc = "idle")
      /\ Retries(store) + Pending <= total_timeouts /\ QueryInOrder
  BY DEF CountInv
<1> DEFINE Goal == /\ CounterType' /\ (counting' # 0 => sweep'.pc = "idle")
                   /\ Retries(store') + Pending' <= total_timeouts' /\ QueryInOrder'
<1> SUFFICES Goal
  BY <1>0 DEF CountInv
<1> USE <1>r, <1>i DEF CounterType, Pending, QueryInOrder
<1>1. CASE sweep' = sweep /\ UNCHANGED statusVars
  <2>1. Retries(store') = Retries(store)
    BY <1>1, <1>s DEF RetryTask
  <2> QED BY <1>1, <2>1 DEF statusVars
<1>2. ASSUME NEW t \in TaskIds, RetryTask(t), UNCHANGED statusVars PROVE Goal
  <2>1. Retries(store') = Retries(store) + 1
    BY <1>2, RetryAddsOne DEF CountInv
  <2>2. sweep.pc = "timeout" /\ sweep'.pc = "retrying"
    BY <1>2 DEF RetryTask
  <2> QED BY <1>2, <2>1, <2>2 DEF statusVars
<1>3. ASSUME NEW t \in TaskIds, RetryQueued(t) \/ RetryEnqueue(t) \/ GiveUp(t),
             UNCHANGED statusVars
      PROVE Goal
  <2>1. sweep.pc # "idle" /\ sweep'.pc \in {"queued", "idle"}
    BY <1>3 DEF RetryQueued, RetryEnqueue, GiveUp, SweepIdle
  <2>2. Retries(store') = Retries(store)
    BY <1>s, <2>1 DEF RetryTask
  <2> QED BY <1>3, <2>1, <2>2 DEF statusVars
<1>4. ASSUME NEW t \in TaskIds, CountTimeout(t) PROVE Goal
  BY <1>4 DEF CountTimeout, vars
<1>5. ASSUME NEW t \in TaskIds, WriteTimeout(t) PROVE Goal
  <2>1. sweep.pc = "idle" /\ sweep'.pc = "timeout" /\ counting = t /\ counting' = 0
    BY <1>5 DEF WriteTimeout, TimeOut
  <2>2. Retries(store') = Retries(store)
    BY <1>s, <2>1 DEF RetryTask
  <2>3. t # 0
    BY DEF TaskIds
  <2> QED BY <1>5, <2>1, <2>2, <2>3 DEF WriteTimeout
<1>6. ASSUME NEW w \in Workers, NEW s \in Slots, StoreToCount(w, s) PROVE Goal
  <2>1. sweep' = sweep
    BY <1>6, SweepUntouched DEF StoreToCount, JobStep
  <2>2. Retries(store') = Retries(store)
    BY <1>s, <2>1 DEF RetryTask
  <2> QED BY <1>6, <2>1, <2>2 DEF StoreToCount
<1>7. CASE CountCompleted
  BY <1>7 DEF CountCompleted, vars
<1>8. CASE QueryStore
  <2>1. /\ query'.pc = "copied" /\ query'.total_retries = Retries(store)
        /\ query' \in [pc : {"idle", "copied", "counted"}, total_retries : Nat, total_timeouts : Nat]
    BY <1>8 DEF QueryStore
  <2>2. /\ UNCHANGED <<store, sweep, total_timeouts, counting, response>>
        /\ Retries(store') = Retries(store)
    BY <1>8 DEF QueryStore, vars
  <2> QED BY <2>1, <2>2
<1>9. CASE QueryStats
  <2>1. /\ query.pc = "copied" /\ query'.pc = "counted"
        /\ query'.total_retries = query.total_retries /\ query'.total_timeouts = total_timeouts
        /\ query' \in [pc : {"idle", "copied", "counted"}, total_retries : Nat, total_timeouts : Nat]
    BY <1>9 DEF QueryStats
  <2>2. /\ UNCHANGED <<store, sweep, total_timeouts, counting, response>>
        /\ Retries(store') = Retries(store)
    BY <1>9 DEF QueryStats, vars
  <2> QED BY <2>1, <2>2
<1>10. CASE QueryAnswer
  BY <1>10 DEF QueryAnswer, QueryIdle, vars
<1>11. CASE UNCHANGED allVars
  BY <1>11 DEF allVars, vars, statusVars
<1> HIDE <1>r, <1>i DEF CounterType, Pending, QueryInOrder, Goal
<1>12. CASE Uncounted(PostStep) \/ Uncounted(LoopStep) \/ Uncounted(Tick) \/ Uncounted(Scan)
  BY <1>1, <1>12, SweepUntouched DEF Uncounted
<1>13. ASSUME NEW t \in TaskIds, Uncounted(SweepOther(t)) PROVE Goal
  BY <1>2, <1>3, <1>13 DEF Uncounted, SweepOther
<1>14. ASSUME NEW w \in Workers, Uncounted(WorkerDies(w)) PROVE Goal
  BY <1>1, <1>14, SweepUntouched DEF Uncounted
<1>15. ASSUME NEW w \in Workers, NEW s \in Slots, NEW ok \in BOOLEAN,
              Uncounted(ReportResult(w, s, ok)) PROVE Goal
  BY <1>1, <1>15, SweepUntouched DEF Uncounted, JobStep
<1>16. ASSUME NEW w \in Workers, NEW s \in Slots, Uncounted(LoseResult(w, s)) PROVE Goal
  BY <1>1, <1>16, SweepUntouched DEF Uncounted, JobStep
<1> QED BY <1>4, <1>5, <1>6, <1>7, <1>8, <1>9, <1>10, <1>11, <1>12, <1>13, <1>14, <1>15, <1>16
        DEF StatusNext

\* A status answer never claims more retries than timeouts.
THEOREM RetriesCounted == StatusSpec => []RetriesWereTimeouts
<1>1. CountInv => RetriesWereTimeouts
  BY DEF CountInv, QueryInOrder, RetriesWereTimeouts
<1> QED BY <1>1, CountInit, CountStep, PTL DEF StatusSpec

\* From one answer to the next, the timeouts and the retries grow only.
THEOREM AnswersGrow == StatusSpec => ResponsesGrow
<1>1. CountInv /\ [StatusNext]_allVars
        => [/\ response'.total_retries >= response.total_retries
            /\ response'.total_timeouts >= response.total_timeouts]_allVars
  <2> SUFFICES ASSUME CountInv, [StatusNext]_allVars
               PROVE  /\ response'.total_retries >= response.total_retries
                      /\ response'.total_timeouts >= response.total_timeouts
    OBVIOUS
  <2>1. CASE QueryAnswer
    BY <2>1 DEF QueryAnswer, CountInv, CounterType, QueryInOrder
  <2>2. CASE response' = response
    BY <2>2 DEF CountInv, CounterType
  <2> QED BY <2>1, <2>2 DEF StatusNext, Uncounted, statusVars, allVars, CountTimeout, WriteTimeout,
          StoreToCount, CountCompleted, QueryStore, QueryStats
<1> QED BY <1>1, CountInit, CountStep, PTL DEF StatusSpec, ResponsesGrow
=============================================================================
