-------------------------- MODULE DispatcherProofs --------------------------
(* Theorems about the dispatcher, for any number of tasks, workers, slots,  *)
(* retries and any timeout.                                                *)
EXTENDS Dispatcher, SequenceTheorems, TLAPS

LEMMA QueueTail ==
  ASSUME queue \in Seq(TaskIds), queue # <<>>
  PROVE  /\ Head(queue) \in TaskIds
         /\ Tail(queue) \in Seq(TaskIds)
BY HeadTailProperties

\* Writing any status leaves a task record.
LEMMA StatusWrite ==
  ASSUME NEW r \in TaskRecord, NEW x \in Statuses
  PROVE  [r EXCEPT !.status = x] \in TaskRecord
BY DEF TaskRecord

LEMMA StatusNames ==
  {"UNSPECIFIED", "QUEUED", "DISPATCHED", "PROCESSING", "COMPLETED", "FAILED",
   "TIMEOUT", "RETRYING"} \subseteq Statuses
BY DEF Statuses, Active, Terminal

LEMMA AssignedWrite ==
  ASSUME NEW r \in TaskRecord, NEW x \in Workers \cup {NoWorker}
  PROVE  /\ [r EXCEPT !.assigned = x] \in TaskRecord
         /\ [r EXCEPT !.lastFailed = x] \in TaskRecord
BY DEF TaskRecord

LEMMA SentWrite ==
  ASSUME NEW r \in TaskRecord, NEW n \in {0, 1}
  PROVE  [r EXCEPT !.sent = n] \in TaskRecord
<1>1. n \in Ages
  BY DispatcherAssumption DEF Ages, Overdue
<1> QED
  BY <1>1 DEF TaskRecord

LEMMA RetryWrite ==
  ASSUME NEW r \in TaskRecord, NEW n \in 0..MaxRetries
  PROVE  [r EXCEPT !.retry = n] \in TaskRecord
BY DEF TaskRecord

LEMMA AssignedRecord ==
  ASSUME NEW r \in TaskRecord, NEW w \in Workers
  PROVE  DispatchedTo(r, w) \in TaskRecord
<1>1. PICK r1 \in TaskRecord : r1 = [r EXCEPT !.status = "DISPATCHED"]
  BY StatusWrite, StatusNames
<1>2. PICK r2 \in TaskRecord : r2 = [r1 EXCEPT !.assigned = w]
  BY AssignedWrite
<1> QED
  BY <1>1, <1>2, SentWrite DEF DispatchedTo

LEMMA RequeuedRecord == ASSUME NEW r \in TaskRecord PROVE Requeued(r) \in TaskRecord
<1>1. PICK r1 \in TaskRecord : r1 = [r EXCEPT !.status = "QUEUED"]
  BY StatusWrite, StatusNames
<1>2. PICK r2 \in TaskRecord : r2 = [r1 EXCEPT !.assigned = NoWorker]
  BY AssignedWrite
<1> QED
  BY <1>1, <1>2, SentWrite DEF Requeued

LEMMA RetriedRecord ==
  ASSUME NEW r \in TaskRecord, NEW e \in SnapEntry, e.retry < MaxRetries
  PROVE  Retried(r, e) \in TaskRecord
<1>1. e.worker \in Workers \cup {NoWorker} /\ e.retry + 1 \in 0..MaxRetries
  BY DispatcherAssumption DEF SnapEntry
<1>2. PICK r1 \in TaskRecord : r1 = [r EXCEPT !.status = "RETRYING"]
  BY StatusWrite, StatusNames
<1>3. PICK r2 \in TaskRecord : r2 = [r1 EXCEPT !.lastFailed = e.worker]
  BY <1>1, AssignedWrite
<1>4. PICK r3 \in TaskRecord : r3 = [r2 EXCEPT !.assigned = NoWorker]
  BY AssignedWrite
<1>5. PICK r4 \in TaskRecord : r4 = [r3 EXCEPT !.sent = 0]
  BY SentWrite
<1> QED
  BY <1>1, <1>2, <1>3, <1>4, <1>5, RetryWrite DEF Retried

LEMMA AgedRecord ==
  ASSUME NEW r \in TaskRecord
  PROVE  [r EXCEPT !.sent = Aged(@)] \in TaskRecord
BY DispatcherAssumption DEF TaskRecord, Aged, Ages, Overdue

LEMMA LoopTask ==
  ASSUME loop \in LoopState, loop.pc # "idle"
  PROVE  /\ loop.task \in TaskIds
         /\ loop.pc \in {"calling", "accepted"} => loop.worker \in Workers
         /\ loop.pc \in {"select", "requeue", "calling", "accepted"}
BY DEF LoopState, LoopIdle

LEMMA SweepTask ==
  ASSUME sweep \in SweepState, sweep.pc # "idle"
  PROVE  sweep.task \in TaskIds
BY DEF SweepState, SweepIdle

LEMMA JobTask ==
  ASSUME NEW j \in JobState, j.pc # "idle"
  PROVE  j.task \in TaskIds /\ j.pc \in {"working", "returning"} /\ j.success \in BOOLEAN
BY DEF JobState, JobIdle

LEMMA TypeInit == Init => TypeOK
<1> SUFFICES ASSUME Init PROVE TypeOK
  OBVIOUS
<1>1. store \in [TaskIds -> TaskRecord]
  BY DispatcherAssumption, StatusNames DEF Init, NoRecord, TaskRecord, Ages, Overdue
<1>2. nextId \in 1..(MaxTasks + 1) /\ posting \subseteq 1..(nextId - 1)
  BY DispatcherAssumption DEF Init
<1>3. snap \in [TaskIds -> SnapEntry]
  BY DispatcherAssumption DEF Init, NotDue, SnapEntry
<1> QED
  BY <1>1, <1>2, <1>3 DEF Init, TypeOK, LoopState, SweepState, JobState

LEMMA TypeStep == TypeOK /\ [Next]_vars => TypeOK'
<1> SUFFICES ASSUME TypeOK, [Next]_vars PROVE TypeOK'
  OBVIOUS
<1> USE DispatcherAssumption
<1> USE DEF TypeOK
<1>1. CASE PostAllocate
  BY <1>1 DEF PostAllocate
<1>2. ASSUME NEW t \in TaskIds, PostStore(t) PROVE TypeOK'
  BY <1>2, StatusWrite, StatusNames DEF PostStore
<1>3. ASSUME NEW t \in TaskIds, PostEnqueue(t) PROVE TypeOK'
  BY <1>3 DEF PostEnqueue
<1>4. CASE Dequeue
  <2>1. loop' \in LoopState
    BY <1>4, QueueTail DEF Dequeue, LoopState, TaskRecord
  <2> QED BY <1>4, <2>1, QueueTail DEF Dequeue
<1>5. CASE NameserviceDown
  BY <1>5, LoopTask DEF NameserviceDown, LoopState
<1>6. CASE NoWorkerFirst
  BY <1>6, LoopTask DEF NoWorkerFirst, LoopState
<1>7. CASE NoAlternative
  BY <1>7, StatusWrite, StatusNames DEF NoAlternative, LoopState
<1>8. ASSUME NEW t \in TaskIds, NEW offered \in SUBSET Workers, AssignWorker(t, offered)
      PROVE TypeOK'
  <2>1. PICK w \in Workers :
          /\ store' = [store EXCEPT ![t] = DispatchedTo(@, w)]
          /\ loop' = [LoopIdle EXCEPT !.pc = "calling", !.task = t, !.worker = w]
    BY <1>8 DEF AssignWorker, Candidates
  <2>2. store' \in [TaskIds -> TaskRecord]
    BY <2>1, AssignedRecord
  <2>3. loop' \in LoopState
    BY <2>1 DEF LoopState, LoopIdle
  <2> QED BY <1>8, <2>2, <2>3 DEF AssignWorker
<1>9. ASSUME NEW t \in TaskIds, ProcessTask(t) PROVE TypeOK'
  <2>1. [JobIdle EXCEPT !.pc = "working", !.task = t] \in JobState
    BY DEF JobState, JobIdle
  <2>2. loop' \in LoopState
    BY <1>9 DEF ProcessTask, LoopState, LoopIdle
  <2> QED BY <1>9, <2>1, <2>2, LoopTask DEF ProcessTask
<1>10. ASSUME NEW t \in TaskIds, MarkProcessing(t) PROVE TypeOK'
  BY <1>10, StatusWrite, StatusNames DEF MarkProcessing, LoopState
<1>11. CASE Requeue
  <2>1. loop' \in LoopState
    BY <1>11, LoopTask DEF Requeue, LoopState
  <2> QED BY <1>11, <2>1, LoopTask, RequeuedRecord DEF Requeue
<1>12. CASE RequeueEnqueue
  BY <1>12, LoopTask DEF RequeueEnqueue, LoopState
<1>13. CASE Scan
  BY <1>13 DEF Scan, NotDue, SnapEntry, TaskRecord
<1>14. ASSUME NEW t \in TaskIds, TimeOut(t) PROVE TypeOK'
  BY <1>14, StatusWrite, StatusNames DEF TimeOut, SweepState
<1>15. ASSUME NEW t \in TaskIds, RetryTask(t) PROVE TypeOK'
  <2>1. store' \in [TaskIds -> TaskRecord]
    BY <1>15, RetriedRecord DEF RetryTask, MayRetry
  <2>2. NotDue \in SnapEntry
    BY DEF NotDue, SnapEntry
  <2> QED BY <1>15, <2>1, <2>2 DEF RetryTask, SweepState
<1>16. ASSUME NEW t \in TaskIds, RetryQueued(t) PROVE TypeOK'
  BY <1>16, StatusWrite, StatusNames DEF RetryQueued, SweepState
<1>17. ASSUME NEW t \in TaskIds, RetryEnqueue(t) PROVE TypeOK'
  BY <1>17 DEF RetryEnqueue, SweepState
<1>18. ASSUME NEW t \in TaskIds, GiveUp(t) PROVE TypeOK'
  <2>1. NotDue \in SnapEntry
    BY DEF NotDue, SnapEntry
  <2> QED BY <1>18, <2>1, StatusWrite, StatusNames DEF GiveUp, SweepState
<1>19. ASSUME NEW w \in Workers, NEW s \in Slots, NEW ok \in BOOLEAN, ReportResult(w, s, ok)
       PROVE TypeOK'
  <2> DEFINE j == [pc |-> "returning", task |-> job[w][s].task,
                   success |-> ok, timed |-> store[job[w][s].task].sent # 0]
  <2>1. j \in JobState
    BY <1>19, JobTask DEF ReportResult, JobState
  <2> HIDE DEF j
  <2>2. job' \in [Workers -> [Slots -> JobState]]
    BY <1>19, <2>1 DEF ReportResult, j, JobState
  <2> QED BY <1>19, <2>2 DEF ReportResult
<1>20. ASSUME NEW w \in Workers, NEW s \in Slots, StoreResult(w, s) PROVE TypeOK'
  <2>1. store' \in [TaskIds -> TaskRecord]
    BY <1>20, StatusWrite, StatusNames DEF StoreResult
  <2> QED BY <1>20, <2>1 DEF StoreResult, JobState
<1>21. ASSUME NEW w \in Workers, NEW s \in Slots, LoseResult(w, s) PROVE TypeOK'
  BY <1>21 DEF LoseResult, JobState
<1>21w. ASSUME NEW w \in Workers, WorkerDies(w) PROVE TypeOK'
  BY <1>21w DEF WorkerDies, JobState
<1>22. CASE Tick
  BY <1>22, AgedRecord DEF Tick
<1>23. CASE UNCHANGED vars
  BY <1>23 DEF vars
<1> QED
  BY <1>1, <1>2, <1>3, <1>4, <1>5, <1>6, <1>7, <1>8, <1>9, <1>10, <1>11, <1>12, <1>13,
     <1>14, <1>15, <1>16, <1>17, <1>18, <1>19, <1>20, <1>21, <1>21w, <1>22, <1>23
     DEF Next, PostStep, LoopStep, LookupStep, CallStep, SweepStep, JobStep

\* Every variable of the dispatcher keeps its type.
THEOREM TypeCorrect == Spec => []TypeOK
BY TypeInit, TypeStep, PTL DEF Spec
-----------------------------------------------------------------------------
(* No task is lost.  NoTaskLost is not inductive: when the reply to a        *)
(* ProcessTask call arrives, the dispatch loop lets go of the task, and the  *)
(* task must be traceable without it.  CallBacked says it is.  PostingHeld   *)
(* says that the PostTask handler of an id without a record is under way.    *)

PostingHeld == \A t \in TaskIds : t < nextId /\ ~Posted(t) => t \in posting

TrackInv == TypeOK /\ NoTaskLost /\ CallBacked /\ PostingHeld

\* A copy in the queue stays there when something is appended ...
LEMMA QueuedAppend ==
  ASSUME queue \in Seq(TaskIds), NEW x \in TaskIds, queue' = Append(queue, x), NEW t
  PROVE  Queued(t)' <=> Queued(t) \/ t = x
BY AppendProperties DEF Queued

\* ... and leaves only as the head.
LEMMA QueuedTail ==
  ASSUME queue \in Seq(TaskIds), queue # <<>>, queue' = Tail(queue), NEW t
  PROVE  Queued(t) <=> Queued(t)' \/ t = Head(queue)
<1>1. /\ Len(queue) \in Nat \ {0} /\ Len(queue') = Len(queue) - 1
      /\ \A i \in 1..Len(queue') : queue'[i] = queue[i + 1]
      /\ Head(queue) = queue[1]
  BY HeadTailProperties, EmptySeq
<1>2. ASSUME Queued(t) PROVE Queued(t)' \/ t = Head(queue)
  <2>1. PICK i \in 1..Len(queue) : queue[i] = t
    BY <1>2 DEF Queued
  <2>2. CASE i = 1
    BY <1>1, <2>1, <2>2
  <2>3. CASE i # 1
    <3>1. i - 1 \in 1..Len(queue') /\ queue'[i - 1] = t
      BY <1>1, <2>1, <2>3
    <3> QED BY <3>1 DEF Queued
  <2> QED BY <2>2, <2>3
<1>3. ASSUME Queued(t)' PROVE Queued(t)
  <2>1. PICK i \in 1..Len(queue') : queue'[i] = t
    BY <1>3 DEF Queued
  <2>2. i + 1 \in 1..Len(queue) /\ queue[i + 1] = t
    BY <1>1, <2>1
  <2> QED BY <2>2 DEF Queued
<1>4. ASSUME t = Head(queue) PROVE Queued(t)
  BY <1>1, <1>4 DEF Queued
<1> QED
  BY <1>2, <1>3, <1>4

LEMMA QueuedSame ==
  ASSUME queue' = queue, NEW t
  PROVE  Queued(t)' <=> Queued(t)
BY DEF Queued

LEMMA TrackInit == Init => TrackInv
BY TypeInit, DispatcherAssumption
   DEF Init, TrackInv, NoTaskLost, CallBacked, PostingHeld, Posted, NoRecord, LoopIdle, TaskIds

LEMMA TrackStep == TrackInv /\ [Next]_vars => TrackInv'
<1> SUFFICES ASSUME TrackInv, [Next]_vars PROVE TrackInv'
  OBVIOUS
<1>0. TypeOK /\ TypeOK'
  BY TypeStep DEF TrackInv
<1> SUFFICES ASSUME NEW t \in TaskIds
             PROVE  /\ Posted(t)' => Tracked(t)'
                    /\ loop'.pc \in {"calling", "accepted"} /\ loop'.task = t
                         => store'[t].sent # 0 \/ Queued(t)' \/ SweepOwes(t)'
                    /\ t < nextId' /\ ~Posted(t)' => t \in posting'
  BY <1>0 DEF TrackInv, NoTaskLost, CallBacked, PostingHeld
<1> DEFINE Goal == /\ Posted(t)' => Tracked(t)'
                   /\ loop'.pc \in {"calling", "accepted"} /\ loop'.task = t
                        => store'[t].sent # 0 \/ Queued(t)' \/ SweepOwes(t)'
                   /\ t < nextId' /\ ~Posted(t)' => t \in posting'
<1>a. /\ Posted(t) => Tracked(t)
      /\ loop.pc \in {"calling", "accepted"} /\ loop.task = t
           => store[t].sent # 0 \/ Queued(t) \/ SweepOwes(t)
      /\ t < nextId /\ ~Posted(t) => t \in posting
  BY DEF TrackInv, NoTaskLost, CallBacked, PostingHeld
<1>b. /\ queue \in Seq(TaskIds) /\ store \in [TaskIds -> TaskRecord]
      /\ nextId \in Nat /\ MaxTasks \in Nat
  BY <1>0, DispatcherAssumption DEF TypeOK
<1> USE <1>a, <1>b DEF Tracked, Posted, LoopHolds, SweepHolds, SweepOwes
<1>1. CASE PostAllocate
  BY <1>1, QueuedSame DEF PostAllocate, TaskIds
<1>2. ASSUME NEW u \in TaskIds, PostStore(u) PROVE Goal
  BY <1>2, QueuedSame DEF PostStore, TaskRecord
<1>3. ASSUME NEW u \in TaskIds, PostEnqueue(u) PROVE Goal
  BY <1>3, QueuedAppend DEF PostEnqueue
<1>4. CASE Dequeue
  BY <1>4, QueuedTail DEF Dequeue
<1>5. CASE NameserviceDown
  BY <1>5, <1>0, LoopTask, QueuedAppend DEF NameserviceDown, LoopIdle, TypeOK
<1>6. CASE NoWorkerFirst
  BY <1>6, <1>0, LoopTask, QueuedAppend DEF NoWorkerFirst, LoopIdle, TypeOK
<1>7. CASE NoAlternative
  BY <1>7, QueuedSame DEF NoAlternative, LoopIdle, TaskRecord, Terminal
<1>8. ASSUME NEW u \in TaskIds, NEW offered \in SUBSET Workers, AssignWorker(u, offered)
      PROVE Goal
  BY <1>8, QueuedSame DEF AssignWorker, DispatchedTo, LoopIdle, TaskRecord, Active
<1>9. ASSUME NEW u \in TaskIds, ProcessTask(u) PROVE Goal
  BY <1>9, <1>0, QueuedSame DEF ProcessTask, TypeOK, LoopState, LoopIdle
<1>10. ASSUME NEW u \in TaskIds, MarkProcessing(u) PROVE Goal
  BY <1>10, QueuedSame DEF MarkProcessing, LoopIdle, TaskRecord, Active
<1>11. CASE Requeue
  BY <1>11, QueuedSame DEF Requeue, Requeued, TaskRecord
<1>12. CASE RequeueEnqueue
  BY <1>12, <1>0, LoopTask, QueuedAppend DEF RequeueEnqueue, LoopIdle, TypeOK
<1>13. CASE Scan
  BY <1>13, QueuedSame DEF Scan
<1>14. ASSUME NEW u \in TaskIds, TimeOut(u) PROVE Goal
  BY <1>14, QueuedSame DEF TimeOut, TaskRecord
<1>15. ASSUME NEW u \in TaskIds, RetryTask(u) PROVE Goal
  BY <1>15, QueuedSame DEF RetryTask, Retried, TaskRecord
<1>16. ASSUME NEW u \in TaskIds, RetryQueued(u) PROVE Goal
  BY <1>16, QueuedSame DEF RetryQueued, TaskRecord
<1>17. ASSUME NEW u \in TaskIds, RetryEnqueue(u) PROVE Goal
  BY <1>17, QueuedAppend DEF RetryEnqueue, SweepIdle
<1>18. ASSUME NEW u \in TaskIds, GiveUp(u) PROVE Goal
  BY <1>18, QueuedSame DEF GiveUp, SweepIdle, TaskRecord, Terminal
<1>19. ASSUME NEW w \in Workers, NEW s \in Slots, NEW ok \in BOOLEAN, ReportResult(w, s, ok)
       PROVE Goal
  BY <1>19, QueuedSame DEF ReportResult
<1>20. ASSUME NEW w \in Workers, NEW s \in Slots, StoreResult(w, s) PROVE Goal
  BY <1>20, <1>0, QueuedSame DEF StoreResult, TaskRecord, Terminal
<1>21. ASSUME NEW w \in Workers, NEW s \in Slots, LoseResult(w, s) PROVE Goal
  BY <1>21, QueuedSame DEF LoseResult
<1>21w. ASSUME NEW w \in Workers, WorkerDies(w) PROVE Goal
  BY <1>21w, QueuedSame DEF WorkerDies
<1>22. CASE Tick
  BY <1>22, QueuedSame DEF Tick, Aged, TaskRecord
<1>23. CASE UNCHANGED vars
  BY <1>23, QueuedSame DEF vars
<1> QED
  BY <1>1, <1>2, <1>3, <1>4, <1>5, <1>6, <1>7, <1>8, <1>9, <1>10, <1>11, <1>12, <1>13,
     <1>14, <1>15, <1>16, <1>17, <1>18, <1>19, <1>20, <1>21, <1>21w, <1>22, <1>23
     DEF Next, PostStep, LoopStep, LookupStep, CallStep, SweepStep, JobStep

\* A stored task is never forgotten: it has an outcome, a thread or the queue
\* has it, or the timeout checker will find it.
THEOREM TasksNeverLost == Spec => []NoTaskLost
<1>1. TrackInv => NoTaskLost
  BY DEF TrackInv
<1> QED
  BY <1>1, TrackInit, TrackStep, PTL DEF Spec

\* A task whose ProcessTask call is pending has its dispatch time, or a copy of
\* it is queued or about to be: the reply never leaves it untraceable.
THEOREM CallsBacked == Spec => []CallBacked
<1>1. TrackInv => CallBacked
  BY DEF TrackInv
<1> QED
  BY <1>1, TrackInit, TrackStep, PTL DEF Spec
-----------------------------------------------------------------------------
(* Two facts about what the threads know of each other: the retry counter a  *)
(* timeout pass copied is the current one, and DISPATCHED is confined to the *)
(* call of the dispatch loop.  Both are inductive with the types.            *)

ViewInv == TypeOK /\ SnapshotRetryCurrent /\ DispatchedOnlyDuringCall

LEMMA ViewInit == Init => ViewInv
BY TypeInit DEF Init, ViewInv, SnapshotRetryCurrent, DispatchedOnlyDuringCall, NotDue, NoRecord

LEMMA ViewStep == ViewInv /\ [Next]_vars => ViewInv'
<1> SUFFICES ASSUME ViewInv, [Next]_vars PROVE ViewInv'
  OBVIOUS
<1>0. TypeOK /\ TypeOK'
  BY TypeStep DEF ViewInv
<1> SUFFICES ASSUME NEW t \in TaskIds
             PROVE  /\ snap'[t].due => snap'[t].retry = store'[t].retry
                    /\ store'[t].status = "DISPATCHED"
                         => loop'.pc \in {"calling", "accepted"} /\ loop'.task = t
  BY <1>0 DEF ViewInv, SnapshotRetryCurrent, DispatchedOnlyDuringCall
<1> DEFINE Goal == /\ snap'[t].due => snap'[t].retry = store'[t].retry
                   /\ store'[t].status = "DISPATCHED"
                        => loop'.pc \in {"calling", "accepted"} /\ loop'.task = t
<1>a. /\ snap[t].due => snap[t].retry = store[t].retry
      /\ store[t].status = "DISPATCHED"
           => loop.pc \in {"calling", "accepted"} /\ loop.task = t
  BY DEF ViewInv, SnapshotRetryCurrent, DispatchedOnlyDuringCall
<1>b. /\ store \in [TaskIds -> TaskRecord] /\ snap \in [TaskIds -> SnapEntry]
      /\ loop \in LoopState
  BY <1>0 DEF TypeOK
<1> USE <1>a, <1>b
<1>1. CASE PostAllocate
  BY <1>1 DEF PostAllocate
<1>2. ASSUME NEW u \in TaskIds, PostStore(u) PROVE Goal
  BY <1>2 DEF PostStore, TaskRecord
<1>3. ASSUME NEW u \in TaskIds, PostEnqueue(u) PROVE Goal
  BY <1>3 DEF PostEnqueue
<1>4. CASE Dequeue
  BY <1>4 DEF Dequeue, LoopIdle
<1>5. CASE NameserviceDown
  BY <1>5 DEF NameserviceDown, LoopIdle
<1>6. CASE NoWorkerFirst
  BY <1>6 DEF NoWorkerFirst, LoopIdle
<1>7. CASE NoAlternative
  BY <1>7 DEF NoAlternative, LoopIdle, TaskRecord
<1>8. ASSUME NEW u \in TaskIds, NEW offered \in SUBSET Workers, AssignWorker(u, offered)
      PROVE Goal
  BY <1>8 DEF AssignWorker, DispatchedTo, LoopIdle, TaskRecord
<1>9. ASSUME NEW u \in TaskIds, ProcessTask(u) PROVE Goal
  BY <1>9 DEF ProcessTask, LoopState, LoopIdle
<1>10. ASSUME NEW u \in TaskIds, MarkProcessing(u) PROVE Goal
  BY <1>10 DEF MarkProcessing, LoopIdle, TaskRecord
<1>11. CASE Requeue
  BY <1>11 DEF Requeue, Requeued, TaskRecord
<1>12. CASE RequeueEnqueue
  BY <1>12 DEF RequeueEnqueue, LoopIdle
<1>13. CASE Scan
  BY <1>13 DEF Scan, NotDue, SnapEntry
<1>14. ASSUME NEW u \in TaskIds, TimeOut(u) PROVE Goal
  BY <1>14 DEF TimeOut, TaskRecord
<1>15. ASSUME NEW u \in TaskIds, RetryTask(u) PROVE Goal
  BY <1>15 DEF RetryTask, Retried, NotDue, TaskRecord
<1>16. ASSUME NEW u \in TaskIds, RetryQueued(u) PROVE Goal
  BY <1>16 DEF RetryQueued, TaskRecord
<1>17. ASSUME NEW u \in TaskIds, RetryEnqueue(u) PROVE Goal
  BY <1>17 DEF RetryEnqueue
<1>18. ASSUME NEW u \in TaskIds, GiveUp(u) PROVE Goal
  BY <1>18 DEF GiveUp, NotDue, TaskRecord
<1>19. ASSUME NEW w \in Workers, NEW s \in Slots, NEW ok \in BOOLEAN, ReportResult(w, s, ok)
       PROVE Goal
  BY <1>19 DEF ReportResult
<1>20. ASSUME NEW w \in Workers, NEW s \in Slots, StoreResult(w, s) PROVE Goal
  BY <1>20, JobTask DEF StoreResult, TaskRecord
<1>21. ASSUME NEW w \in Workers, NEW s \in Slots, LoseResult(w, s) PROVE Goal
  BY <1>21 DEF LoseResult
<1>21w. ASSUME NEW w \in Workers, WorkerDies(w) PROVE Goal
  BY <1>21w DEF WorkerDies
<1>22. CASE Tick
  BY <1>22 DEF Tick, TaskRecord
<1>23. CASE UNCHANGED vars
  BY <1>23 DEF vars
<1> QED
  BY <1>1, <1>2, <1>3, <1>4, <1>5, <1>6, <1>7, <1>8, <1>9, <1>10, <1>11, <1>12, <1>13,
     <1>14, <1>15, <1>16, <1>17, <1>18, <1>19, <1>20, <1>21, <1>21w, <1>22, <1>23
     DEF Next, PostStep, LoopStep, LookupStep, CallStep, SweepStep, JobStep

\* The timeout pass never works with an outdated retry counter.
THEOREM RetryCounterCurrent == Spec => []SnapshotRetryCurrent
<1>1. ViewInv => SnapshotRetryCurrent
  BY DEF ViewInv
<1> QED
  BY <1>1, ViewInit, ViewStep, PTL DEF Spec

\* No task stays DISPATCHED when its ProcessTask call is over, and at most one
\* task is DISPATCHED at a time.
THEOREM DispatchedConfined == Spec => []DispatchedOnlyDuringCall
<1>1. ViewInv => DispatchedOnlyDuringCall
  BY DEF ViewInv
<1> QED
  BY <1>1, ViewInit, ViewStep, PTL DEF Spec
-----------------------------------------------------------------------------
(* What the dispatch loop read at the dequeue is outdated only when a copy   *)
(* of the task follows: only a retry changes it, a retry owes the queue a    *)
(* copy, and nothing is dequeued while the loop holds the task.              *)

StaleInv == TypeOK /\ StaleViewRequeued

LEMMA StaleInit == Init => StaleInv
BY TypeInit DEF Init, StaleInv, StaleViewRequeued, LoopIdle

LEMMA StaleStep == StaleInv /\ [Next]_vars => StaleInv'
<1> SUFFICES ASSUME StaleInv, [Next]_vars PROVE StaleInv'
  OBVIOUS
<1>0. TypeOK /\ TypeOK'
  BY TypeStep DEF StaleInv
<1> SUFFICES ASSUME NEW t \in TaskIds,
                    loop'.pc = "select", loop'.task = t,
                    loop'.retry # store'[t].retry \/ loop'.exclude # store'[t].lastFailed
             PROVE  Queued(t)' \/ SweepOwes(t)'
  BY <1>0 DEF StaleInv, StaleViewRequeued
<1> DEFINE Goal == Queued(t)' \/ SweepOwes(t)'
<1>a. loop.pc = "select" /\ loop.task = t
        /\ (loop.retry # store[t].retry \/ loop.exclude # store[t].lastFailed)
        => Queued(t) \/ SweepOwes(t)
  BY DEF StaleInv, StaleViewRequeued
<1>b. queue \in Seq(TaskIds) /\ store \in [TaskIds -> TaskRecord] /\ loop \in LoopState
  BY <1>0 DEF TypeOK
<1> USE <1>a, <1>b DEF SweepOwes
<1>1. CASE PostAllocate
  BY <1>1, QueuedSame DEF PostAllocate
<1>2. ASSUME NEW u \in TaskIds, PostStore(u) PROVE Goal
  BY <1>2, QueuedSame DEF PostStore, TaskRecord
<1>3. ASSUME NEW u \in TaskIds, PostEnqueue(u) PROVE Goal
  BY <1>3, QueuedAppend DEF PostEnqueue
<1>4. CASE Dequeue
  BY <1>4 DEF Dequeue
<1>5. CASE NameserviceDown \/ NoWorkerFirst \/ NoAlternative \/ RequeueEnqueue
  BY <1>5 DEF NameserviceDown, NoWorkerFirst, NoAlternative, RequeueEnqueue, LoopIdle
<1>6. ASSUME NEW u \in TaskIds, NEW offered \in SUBSET Workers, AssignWorker(u, offered)
      PROVE Goal
  BY <1>6 DEF AssignWorker, LoopIdle
<1>7. ASSUME NEW u \in TaskIds, ProcessTask(u) \/ MarkProcessing(u) PROVE Goal
  BY <1>7 DEF ProcessTask, MarkProcessing, LoopState, LoopIdle
<1>8. CASE Requeue
  BY <1>8 DEF Requeue
<1>9. CASE Scan
  BY <1>9, QueuedSame DEF Scan
<1>10. ASSUME NEW u \in TaskIds, TimeOut(u) PROVE Goal
  BY <1>10, QueuedSame DEF TimeOut, TaskRecord
<1>11. ASSUME NEW u \in TaskIds, RetryTask(u) PROVE Goal
  BY <1>11, QueuedSame DEF RetryTask, TaskRecord
<1>12. ASSUME NEW u \in TaskIds, RetryQueued(u) PROVE Goal
  BY <1>12, QueuedSame DEF RetryQueued, TaskRecord
<1>13. ASSUME NEW u \in TaskIds, RetryEnqueue(u) PROVE Goal
  BY <1>13, QueuedAppend DEF RetryEnqueue
<1>14. ASSUME NEW u \in TaskIds, GiveUp(u) PROVE Goal
  BY <1>14, QueuedSame DEF GiveUp, TaskRecord
<1>15. ASSUME NEW w \in Workers, NEW s \in Slots, JobStep(w, s) PROVE Goal
  <2>1. /\ UNCHANGED <<queue, loop, sweep>>
        /\ \A v \in TaskIds : /\ store'[v].retry = store[v].retry
                              /\ store'[v].lastFailed = store[v].lastFailed
    <3>1. CASE StoreResult(w, s)
      <4>1. UNCHANGED <<queue, loop, sweep>>
            /\ \E u, x : store' = [store EXCEPT ![u].status = x]
        BY <3>1 DEF StoreResult
      <4> QED BY <4>1 DEF TaskRecord
    <3>2. CASE LoseResult(w, s) \/ \E ok \in BOOLEAN : ReportResult(w, s, ok)
      BY <3>2 DEF LoseResult, ReportResult
    <3> QED BY <1>15, <3>1, <3>2 DEF JobStep
  <2> QED BY <2>1, QueuedSame
<1>16. ASSUME NEW w \in Workers, WorkerDies(w) PROVE Goal
  BY <1>16, QueuedSame DEF WorkerDies
<1>17. CASE Tick
  BY <1>17, QueuedSame DEF Tick, TaskRecord
<1>18. CASE UNCHANGED vars
  BY <1>18, QueuedSame DEF vars
<1> QED
  BY <1>1, <1>2, <1>3, <1>4, <1>5, <1>6, <1>7, <1>8, <1>9, <1>10, <1>11, <1>12, <1>13,
     <1>14, <1>15, <1>16, <1>17, <1>18
     DEF Next, PostStep, LoopStep, LookupStep, CallStep, SweepStep

\* When the dispatch loop selects a worker by an outdated record, the attempt
\* that outdated it is still to come.
THEOREM StaleViewsRequeued == Spec => []StaleViewRequeued
<1>1. StaleInv => StaleViewRequeued
  BY DEF StaleInv
<1> QED
  BY <1>1, StaleInit, StaleStep, PTL DEF Spec
-----------------------------------------------------------------------------
(* The dispatcher implements the task board.  A task's outcome changes only  *)
(* when its own record, or what the threads hold of it, does; the threads    *)
(* only hold tasks that are stored (HeldPosted).                             *)

HeldPosted ==
  /\ \A t \in TaskIds : Posted(t) => t < nextId
  /\ loop.pc # "idle" => Posted(loop.task)
  /\ sweep.pc # "idle" => Posted(sweep.task)
  /\ \A t \in TaskIds : snap[t].due => Posted(t)
  /\ \A w \in Workers, s \in Slots : job[w][s].pc = "returning" => Posted(job[w][s].task)

HoldInv == TypeOK /\ HeldPosted

LEMMA HoldInit == Init => HoldInv
BY TypeInit DEF Init, HoldInv, HeldPosted, Posted, NoRecord, LoopIdle, SweepIdle, NotDue, JobIdle

\* A stored task stays stored.
LEMMA PostedStays ==
  ASSUME TypeOK, [Next]_vars, NEW t \in TaskIds, Posted(t)
  PROVE  Posted(t)'
<1> DEFINE Goal == Posted(t)'
<1> USE DEF Posted
<1>b. store \in [TaskIds -> TaskRecord]
  BY DEF TypeOK
<1> USE <1>b
<1>1. CASE PostAllocate
  BY <1>1 DEF PostAllocate
<1>2. ASSUME NEW u \in TaskIds, PostStore(u) PROVE Goal
  BY <1>2 DEF PostStore, TaskRecord
<1>3. ASSUME NEW u \in TaskIds, PostEnqueue(u) PROVE Goal
  BY <1>3 DEF PostEnqueue
<1>4. CASE Dequeue
  BY <1>4 DEF Dequeue
<1>5. CASE NameserviceDown
  BY <1>5 DEF NameserviceDown
<1>6. CASE NoWorkerFirst
  BY <1>6 DEF NoWorkerFirst
<1>7. CASE NoAlternative
  BY <1>7 DEF NoAlternative, TaskRecord
<1>8. ASSUME NEW u \in TaskIds, NEW offered \in SUBSET Workers, AssignWorker(u, offered)
      PROVE Goal
  BY <1>8 DEF AssignWorker, DispatchedTo, TaskRecord
<1>9. ASSUME NEW u \in TaskIds, ProcessTask(u) PROVE Goal
  BY <1>9 DEF ProcessTask
<1>10. ASSUME NEW u \in TaskIds, MarkProcessing(u) PROVE Goal
  BY <1>10 DEF MarkProcessing, TaskRecord
<1>11. CASE Requeue
  BY <1>11 DEF Requeue, Requeued, TaskRecord
<1>12. CASE RequeueEnqueue
  BY <1>12 DEF RequeueEnqueue
<1>13. CASE Scan
  BY <1>13 DEF Scan
<1>14. ASSUME NEW u \in TaskIds, TimeOut(u) PROVE Goal
  BY <1>14 DEF TimeOut, TaskRecord
<1>15. ASSUME NEW u \in TaskIds, RetryTask(u) PROVE Goal
  BY <1>15 DEF RetryTask, Retried, TaskRecord
<1>16. ASSUME NEW u \in TaskIds, RetryQueued(u) PROVE Goal
  BY <1>16 DEF RetryQueued, TaskRecord
<1>17. ASSUME NEW u \in TaskIds, RetryEnqueue(u) PROVE Goal
  BY <1>17 DEF RetryEnqueue
<1>18. ASSUME NEW u \in TaskIds, GiveUp(u) PROVE Goal
  BY <1>18 DEF GiveUp, TaskRecord
<1>19. ASSUME NEW w \in Workers, NEW s \in Slots, NEW ok \in BOOLEAN, ReportResult(w, s, ok)
       PROVE Goal
  BY <1>19 DEF ReportResult
<1>20. ASSUME NEW w \in Workers, NEW s \in Slots, StoreResult(w, s) PROVE Goal
  BY <1>20 DEF StoreResult, TaskRecord
<1>21. ASSUME NEW w \in Workers, NEW s \in Slots, LoseResult(w, s) PROVE Goal
  BY <1>21 DEF LoseResult
<1>21w. ASSUME NEW w \in Workers, WorkerDies(w) PROVE Goal
  BY <1>21w DEF WorkerDies
<1>22. CASE Tick
  BY <1>22 DEF Tick, TaskRecord
<1>23. CASE UNCHANGED vars
  BY <1>23 DEF vars
<1> QED
  BY <1>1, <1>2, <1>3, <1>4, <1>5, <1>6, <1>7, <1>8, <1>9, <1>10, <1>11, <1>12, <1>13,
     <1>14, <1>15, <1>16, <1>17, <1>18, <1>19, <1>20, <1>21, <1>21w, <1>22, <1>23
     DEF Next, PostStep, LoopStep, LookupStep, CallStep, SweepStep, JobStep

LEMMA HoldStep == HoldInv /\ [Next]_vars => HoldInv'
<1> SUFFICES ASSUME HoldInv, [Next]_vars PROVE HeldPosted'
  BY TypeStep DEF HoldInv
<1>0. TypeOK /\ TypeOK' /\ HeldPosted
  BY TypeStep DEF HoldInv
<1>p. \A t \in TaskIds : Posted(t) => Posted(t)'
  BY <1>0, PostedStays
<1> DEFINE Goal == HeldPosted'
<1>b. /\ store \in [TaskIds -> TaskRecord] /\ queue \in Seq(TaskIds)
      /\ nextId \in Nat /\ loop \in LoopState /\ sweep \in SweepState
      /\ snap \in [TaskIds -> SnapEntry] /\ job \in [Workers -> [Slots -> JobState]]
  BY <1>0, DispatcherAssumption DEF TypeOK
<1> USE <1>0, <1>p, <1>b, LoopTask, JobTask DEF HeldPosted, Posted
<1>1. CASE PostAllocate
  BY <1>1 DEF PostAllocate, TaskIds
<1>2. ASSUME NEW u \in TaskIds, PostStore(u) PROVE Goal
  BY <1>2 DEF PostStore, TaskRecord
<1>3. ASSUME NEW u \in TaskIds, PostEnqueue(u) PROVE Goal
  BY <1>3 DEF PostEnqueue
<1>4. CASE Dequeue
  BY <1>4 DEF Dequeue
<1>5. CASE NameserviceDown
  BY <1>5 DEF NameserviceDown, LoopIdle
<1>6. CASE NoWorkerFirst
  BY <1>6 DEF NoWorkerFirst, LoopIdle
<1>7. CASE NoAlternative
  BY <1>7 DEF NoAlternative, LoopIdle, TaskRecord
<1>8. ASSUME NEW u \in TaskIds, NEW offered \in SUBSET Workers, AssignWorker(u, offered)
      PROVE Goal
  BY <1>8 DEF AssignWorker, DispatchedTo, LoopIdle, TaskRecord
<1>9. ASSUME NEW u \in TaskIds, ProcessTask(u) PROVE Goal
  BY <1>9 DEF ProcessTask, LoopState, LoopIdle, JobIdle
<1>10. ASSUME NEW u \in TaskIds, MarkProcessing(u) PROVE Goal
  BY <1>10 DEF MarkProcessing, LoopIdle, TaskRecord
<1>11. CASE Requeue
  BY <1>11 DEF Requeue, Requeued, TaskRecord
<1>12. CASE RequeueEnqueue
  BY <1>12 DEF RequeueEnqueue, LoopIdle
<1>13. CASE Scan
  BY <1>13 DEF Scan, NotDue, Expired, Active
<1>14. ASSUME NEW u \in TaskIds, TimeOut(u) PROVE Goal
  BY <1>14 DEF TimeOut, TaskRecord, SweepIdle
<1>15. ASSUME NEW u \in TaskIds, RetryTask(u) PROVE Goal
  BY <1>15 DEF RetryTask, Retried, NotDue, TaskRecord
<1>16. ASSUME NEW u \in TaskIds, RetryQueued(u) PROVE Goal
  BY <1>16 DEF RetryQueued, TaskRecord
<1>17. ASSUME NEW u \in TaskIds, RetryEnqueue(u) PROVE Goal
  BY <1>17 DEF RetryEnqueue, SweepIdle
<1>18. ASSUME NEW u \in TaskIds, GiveUp(u) PROVE Goal
  BY <1>18 DEF GiveUp, NotDue, SweepIdle, TaskRecord
<1>19. ASSUME NEW w \in Workers, NEW s \in Slots, NEW ok \in BOOLEAN, ReportResult(w, s, ok)
       PROVE Goal
  <2> DEFINE rec == store[job[w][s].task]
             j == IF MayReport(rec, w)
                  THEN [pc |-> "returning", task |-> job[w][s].task,
                        success |-> ok, timed |-> rec.sent # 0]
                  ELSE JobIdle
  <2>1. job' = [job EXCEPT ![w][s] = j] /\ UNCHANGED <<store, nextId, loop, sweep, snap>>
    BY <1>19 DEF ReportResult
  <2>2. j.pc = "returning" => Posted(j.task)
    BY DEF MayReport, Active, JobIdle
  <2> HIDE DEF rec, j
  <2>3. \A v \in Workers, r \in Slots :
          job'[v][r] = IF v = w /\ r = s THEN j ELSE job[v][r]
    BY <2>1
  <2> QED
    BY <2>1, <2>2, <2>3
<1>20. ASSUME NEW w \in Workers, NEW s \in Slots, StoreResult(w, s) PROVE Goal
  BY <1>20 DEF StoreResult, JobIdle, TaskRecord
<1>21. ASSUME NEW w \in Workers, NEW s \in Slots, LoseResult(w, s) PROVE Goal
  BY <1>21 DEF LoseResult, JobIdle
<1>21w. ASSUME NEW w \in Workers, WorkerDies(w) PROVE Goal
  BY <1>21w DEF WorkerDies, JobIdle
<1>22. CASE Tick
  <2>1. UNCHANGED <<nextId, loop, snap, sweep, job>>
        /\ \A t \in TaskIds : store'[t].status = store[t].status
    BY <1>22 DEF Tick, TaskRecord
  <2> QED BY <2>1, SweepTask
<1>23. CASE UNCHANGED vars
  BY <1>23 DEF vars
<1> QED
  BY <1>1, <1>2, <1>3, <1>4, <1>5, <1>6, <1>7, <1>8, <1>9, <1>10, <1>11, <1>12, <1>13,
     <1>14, <1>15, <1>16, <1>17, <1>18, <1>19, <1>20, <1>21, <1>21w, <1>22, <1>23
     DEF Next, PostStep, LoopStep, LookupStep, CallStep, SweepStep, JobStep

\* A step moves at most one task on the board, and never one that is settled.
LEMMA OneTaskMoves ==
  ASSUME TypeOK, HeldPosted, [Next]_vars
  PROVE  \E x : \A t \in TaskIds :
           /\ Settled(t) => Settled(t)' /\ store'[t].status = store[t].status
           /\ ~Posted(t) => ~Settled(t)'
           /\ t # x => (Posted(t)' => Posted(t)) /\ (Settled(t)' => Settled(t))
<1> DEFINE Goal(x) == \A t \in TaskIds :
           /\ Settled(t) => Settled(t)' /\ store'[t].status = store[t].status
           /\ ~Posted(t) => ~Settled(t)'
           /\ t # x => (Posted(t)' => Posted(t)) /\ (Settled(t)' => Settled(t))
<1>b. /\ store \in [TaskIds -> TaskRecord] /\ queue \in Seq(TaskIds)
      /\ nextId \in Nat /\ loop \in LoopState /\ sweep \in SweepState
      /\ snap \in [TaskIds -> SnapEntry] /\ job \in [Workers -> [Slots -> JobState]]
  BY DispatcherAssumption DEF TypeOK
<1>t. "UNSPECIFIED" \notin Terminal
  BY DEF Terminal
<1> USE <1>b, <1>t, LoopTask, JobTask, SweepTask
    DEF HeldPosted, Posted, Settled, LoopHolds, SweepHolds
<1>1. ASSUME PostAllocate PROVE Goal(0)
  BY <1>1, QueuedSame DEF PostAllocate, TaskIds
<1>2. ASSUME NEW u \in TaskIds, PostStore(u) PROVE Goal(u)
  BY <1>2, QueuedSame DEF PostStore, TaskRecord, Terminal
<1>3. ASSUME NEW u \in TaskIds, PostEnqueue(u) PROVE Goal(u)
  BY <1>3, QueuedAppend DEF PostEnqueue
<1>4. ASSUME Dequeue, NEW x, x = Head(queue) PROVE Goal(x)
  BY <1>4, QueuedTail DEF Dequeue, LoopIdle
<1>5. ASSUME NameserviceDown, NEW x, x = loop.task PROVE Goal(x)
  BY <1>5, QueuedAppend DEF NameserviceDown, LoopIdle
<1>6. ASSUME NoWorkerFirst, NEW x, x = loop.task PROVE Goal(x)
  BY <1>6, QueuedAppend DEF NoWorkerFirst, LoopIdle
<1>7. ASSUME NoAlternative, NEW x, x = loop.task PROVE Goal(x)
  BY <1>7, QueuedSame DEF NoAlternative, LoopIdle, TaskRecord
<1>8. ASSUME NEW u \in TaskIds, NEW offered \in SUBSET Workers, AssignWorker(u, offered)
      PROVE Goal(u)
  BY <1>8, QueuedSame DEF AssignWorker, DispatchedTo, LoopIdle, TaskRecord, Terminal
<1>9. ASSUME NEW u \in TaskIds, ProcessTask(u) PROVE Goal(u)
  <2>1. /\ UNCHANGED <<store, queue, nextId, posting, snap, sweep>>
        /\ loop.pc # "idle" /\ loop'.pc # "idle" /\ loop.task = u /\ loop'.task = u
    BY <1>9 DEF ProcessTask, LoopState, LoopIdle
  <2>2. \A v \in Workers, s \in Slots :
          job'[v][s].pc = "returning" <=> job[v][s].pc = "returning"
    BY <1>9 DEF ProcessTask, JobIdle
  <2>3. \A v \in Workers, s \in Slots :
          job[v][s].pc = "returning" => job'[v][s] = job[v][s]
    BY <1>9 DEF ProcessTask
  <2> QED BY <2>1, <2>2, <2>3, QueuedSame
<1>10. ASSUME NEW u \in TaskIds, MarkProcessing(u) PROVE Goal(u)
  BY <1>10, QueuedSame DEF MarkProcessing, LoopIdle, TaskRecord, Terminal
<1>11. ASSUME Requeue, NEW x, x = loop.task PROVE Goal(x)
  BY <1>11, QueuedSame DEF Requeue, Requeued, TaskRecord, Terminal
<1>12. ASSUME RequeueEnqueue, NEW x, x = loop.task PROVE Goal(x)
  BY <1>12, QueuedAppend DEF RequeueEnqueue, LoopIdle
<1>13. ASSUME Scan PROVE Goal(0)
  BY <1>13, QueuedSame DEF Scan, NotDue, Expired, Active, Terminal
<1>14. ASSUME NEW u \in TaskIds, TimeOut(u) PROVE Goal(u)
  BY <1>14, QueuedSame DEF TimeOut, TaskRecord, SweepIdle, Terminal
<1>15. ASSUME NEW u \in TaskIds, RetryTask(u) PROVE Goal(u)
  BY <1>15, QueuedSame DEF RetryTask, Retried, NotDue, TaskRecord, Terminal
<1>16. ASSUME NEW u \in TaskIds, RetryQueued(u) PROVE Goal(u)
  BY <1>16, QueuedSame DEF RetryQueued, TaskRecord, Terminal
<1>17. ASSUME NEW u \in TaskIds, RetryEnqueue(u) PROVE Goal(u)
  BY <1>17, QueuedAppend DEF RetryEnqueue, SweepIdle
<1>18. ASSUME NEW u \in TaskIds, GiveUp(u) PROVE Goal(u)
  BY <1>18, QueuedSame DEF GiveUp, NotDue, SweepIdle, TaskRecord, Terminal
<1>19. ASSUME NEW w \in Workers, NEW s \in Slots, NEW ok \in BOOLEAN, ReportResult(w, s, ok),
              NEW x, x = job[w][s].task
       PROVE Goal(x)
  <2>1. UNCHANGED <<store, queue, nextId, posting, loop, snap, sweep>>
    BY <1>19 DEF ReportResult
  <2>2. ASSUME NEW v \in Workers, NEW r \in Slots, v # w \/ r # s
        PROVE  job'[v][r] = job[v][r]
    BY <1>19, <2>2 DEF ReportResult
  <2>3. /\ job[w][s].pc = "working"
        /\ job'[w][s].pc = "returning" => job'[w][s].task = x /\ store[x].status \in Active
    BY <1>19 DEF ReportResult, JobIdle, MayReport
  <2>4. x \in TaskIds /\ (store[x].status \in Active => store[x].status \notin Terminal)
    BY <1>19, <2>3 DEF Active, Terminal
  <2>5. ASSUME NEW t \in TaskIds PROVE Settled(t)' => Settled(t)
    BY <2>1, <2>2, <2>3, QueuedSame
  <2>6. ASSUME NEW t \in TaskIds, Settled(t) PROVE Settled(t)'
    BY <2>1, <2>2, <2>3, <2>4, <2>6, QueuedSame
  <2> QED BY <2>1, <2>5, <2>6
<1>20. ASSUME NEW w \in Workers, NEW s \in Slots, StoreResult(w, s),
              NEW x, x = job[w][s].task
       PROVE Goal(x)
  BY <1>20, QueuedSame DEF StoreResult, JobIdle, TaskRecord
<1>21. ASSUME NEW w \in Workers, NEW s \in Slots, LoseResult(w, s),
              NEW x, x = job[w][s].task
       PROVE Goal(x)
  BY <1>21, QueuedSame DEF LoseResult, JobIdle
<1>21w. ASSUME NEW w \in Workers, WorkerDies(w) PROVE Goal(0)
  BY <1>21w, QueuedSame DEF WorkerDies, JobIdle
<1>22. ASSUME Tick PROVE Goal(0)
  BY <1>22, QueuedSame DEF Tick, TaskRecord
<1>23. ASSUME UNCHANGED vars PROVE Goal(0)
  BY <1>23, QueuedSame DEF vars
<1> SUFFICES \E x : Goal(x)
  OBVIOUS
<1> HIDE DEF Goal
<1>24. CASE PostStep
  BY <1>24, <1>1, <1>2, <1>3 DEF PostStep
<1>25. CASE LoopStep
  <2>1. CASE Dequeue \/ NameserviceDown \/ RequeueEnqueue
    <3>1. CASE Dequeue
      BY <3>1, <1>4
    <3>2. CASE NameserviceDown
      BY <3>2, <1>5
    <3>3. CASE RequeueEnqueue
      BY <3>3, <1>12
    <3> QED BY <2>1, <3>1, <3>2, <3>3
  <2>2. ASSUME NEW offered \in SUBSET Workers, LookupStep(offered) PROVE \E x : Goal(x)
    <3>1. CASE NoWorkerFirst
      BY <3>1, <1>6
    <3>2. CASE NoAlternative
      BY <3>2, <1>7
    <3> QED BY <2>2, <3>1, <3>2, <1>8 DEF LookupStep
  <2>3. CASE CallStep
    <3>1. CASE Requeue
      BY <3>1, <1>11
    <3> QED BY <2>3, <3>1, <1>9, <1>10 DEF CallStep
  <2> QED BY <1>25, <2>1, <2>2, <2>3 DEF LoopStep
<1>26. ASSUME NEW u \in TaskIds, SweepStep(u) PROVE \E x : Goal(x)
  BY <1>26, <1>14, <1>15, <1>16, <1>17, <1>18 DEF SweepStep
<1>27. ASSUME NEW w \in Workers, NEW s \in Slots, JobStep(w, s) PROVE \E x : Goal(x)
  <2>1. ASSUME NEW ok \in BOOLEAN, ReportResult(w, s, ok) PROVE \E x : Goal(x)
    BY <2>1, <1>19
  <2>2. CASE StoreResult(w, s)
    BY <2>2, <1>20
  <2>3. CASE LoseResult(w, s)
    BY <2>3, <1>21
  <2> QED BY <1>27, <2>1, <2>2, <2>3 DEF JobStep
<1> QED
  BY <1>13, <1>21w, <1>22, <1>23, <1>24, <1>25, <1>26, <1>27 DEF Next

\* A settled task keeps its outcome, whatever executions of it are still
\* running and report late.
THEOREM SettledTasksStable == Spec => SettledStable
<1>1. HoldInv /\ [Next]_vars
        => [\A t \in TaskIds :
              Settled(t) => Settled(t)' /\ store'[t].status = store[t].status]_vars
  BY OneTaskMoves DEF HoldInv
<1> QED
  BY <1>1, HoldInit, HoldStep, PTL DEF Spec, SettledStable

LEMMA BoardInit == Init => Board!Init
BY DEF Init, Board!Init, Outcome, Posted, NoRecord

LEMMA BoardStep == HoldInv /\ [Next]_vars => [Board!Next]_([t \in TaskIds |-> Outcome(t)])
<1> SUFFICES ASSUME HoldInv, [Next]_vars
             PROVE  [Board!Next]_([t \in TaskIds |-> Outcome(t)])
  OBVIOUS
<1>1. /\ TypeOK /\ HeldPosted
      /\ \A t \in TaskIds : Posted(t) => Posted(t)'
  BY PostedStays DEF HoldInv
<1>2. PICK x : \A t \in TaskIds :
           /\ Settled(t) => Settled(t)' /\ store'[t].status = store[t].status
           /\ ~Posted(t) => ~Settled(t)'
           /\ t # x => (Posted(t)' => Posted(t)) /\ (Settled(t)' => Settled(t))
  BY <1>1, OneTaskMoves
<1>3. ASSUME NEW t \in TaskIds, t # x PROVE Outcome(t)' = Outcome(t)
  BY <1>1, <1>2, <1>3 DEF Outcome
<1>4. ASSUME x \in TaskIds, Outcome(x)' # Outcome(x)
      PROVE  \/ Outcome(x) = "absent" /\ Outcome(x)' = "open"
             \/ Outcome(x) = "open" /\ Outcome(x)' \in {"COMPLETED", "FAILED"}
  BY <1>1, <1>2, <1>4 DEF Outcome, Settled, Terminal
<1>5. CASE \A t \in TaskIds : Outcome(t)' = Outcome(t)
  BY <1>5
<1>6. CASE x \in TaskIds /\ Outcome(x)' # Outcome(x)
  <2> DEFINE o == [t \in TaskIds |-> Outcome(t)]
  <2>1. o' = [o EXCEPT ![x] = Outcome(x)']
    BY <1>3, <1>6
  <2>2. o[x] = Outcome(x)
    BY <1>6
  <2>3. CASE Outcome(x) = "absent" /\ Outcome(x)' = "open"
    BY <1>6, <2>1, <2>2, <2>3 DEF Board!Next, Board!Accept
  <2>4. CASE Outcome(x) = "open" /\ Outcome(x)' \in {"COMPLETED", "FAILED"}
    BY <1>6, <2>1, <2>2, <2>4 DEF Board!Next, Board!Settle
  <2> QED BY <1>4, <1>6, <2>3, <2>4
<1> QED
  BY <1>3, <1>5, <1>6

\* With any number of tasks, workers and retries, the dispatcher implements the
\* task board: a task is accepted once, and gets at most one lasting outcome.
THEOREM ImplementsTaskBoard == Spec => BoardSafety
BY BoardInit, BoardStep, HoldInit, HoldStep, PTL DEF Spec, BoardSafety, Board!Spec
=============================================================================
