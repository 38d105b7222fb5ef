---------------------------- MODULE CopiesProofs ----------------------------
(* The queue holds at most one copy of a task more than it was retried, and *)
(* what a step may do to the retry counters.                                *)
EXTENDS DispatcherProofs, FiniteSetTheorems, FunctionTheorems

Positions(q, t) == {i \in 1..Len(q) : q[i] = t}

LEMMA PositionsFinite ==
  ASSUME NEW q \in Seq(TaskIds), NEW t
  PROVE  IsFiniteSet(Positions(q, t)) /\ Cardinality(Positions(q, t)) \in Nat
<1>1. IsFiniteSet(1..Len(q))
  BY FS_Interval
<1>2. Positions(q, t) \in SUBSET (1..Len(q))
  BY DEF Positions
<1>3. IsFiniteSet(Positions(q, t))
  BY <1>1, <1>2, FS_Subset
<1> QED BY <1>3, FS_CardinalityType

\* Appending a task adds a copy of it and of no other.
LEMMA InQueueAppend ==
  ASSUME queue \in Seq(TaskIds), NEW x \in TaskIds, queue' = Append(queue, x), NEW t
  PROVE  InQueue(t)' = InQueue(t) + (IF t = x THEN 1 ELSE 0)
<1> DEFINE n == Len(queue) + 1
<1>1. /\ Len(queue) \in Nat /\ Len(queue') = n /\ queue'[n] = x
      /\ \A i \in 1..Len(queue) : queue'[i] = queue[i]
  BY AppendProperties
<1>2. CASE t = x
  <2>1. Positions(queue', t) = Positions(queue, t) \cup {n} /\ n \notin Positions(queue, t)
    BY <1>1, <1>2 DEF Positions
  <2>2. Cardinality(Positions(queue', t)) = Cardinality(Positions(queue, t)) + 1
    BY <2>1, PositionsFinite, FS_AddElement
  <2> QED BY <1>2, <2>2 DEF InQueue, Positions
<1>3. CASE t # x
  <2>1. Positions(queue', t) = Positions(queue, t)
    BY <1>1, <1>3 DEF Positions
  <2>2. Cardinality(Positions(queue, t)) \in Nat
    BY PositionsFinite
  <2>3. InQueue(t) = Cardinality(Positions(queue, t))
        /\ InQueue(t)' = Cardinality(Positions(queue', t))
    BY DEF InQueue, Positions
  <2> QED BY <1>3, <2>1, <2>2, <2>3
<1> QED BY <1>2, <1>3

\* Taking the head takes a copy of it and of no other: the other positions move
\* down by one.
LEMMA InQueueTail ==
  ASSUME queue \in Seq(TaskIds), queue # <<>>, queue' = Tail(queue), NEW t
  PROVE  InQueue(t) = InQueue(t)' + (IF t = Head(queue) THEN 1 ELSE 0)
<1> DEFINE P == Positions(queue, t)
           Q == Positions(queue', t)
           f == [i \in P \ {1} |-> i - 1]
<1>1. /\ Len(queue) \in Nat \ {0} /\ Len(queue') = Len(queue) - 1
      /\ \A i \in 1..Len(queue') : queue'[i] = queue[i + 1]
      /\ Head(queue) = queue[1] /\ queue' \in Seq(TaskIds)
  BY HeadTailProperties, EmptySeq
<1>2. f \in [P \ {1} -> Q]
  BY <1>1 DEF Positions
<1>3. \A a, b \in P \ {1} : f[a] = f[b] => a = b
  BY <1>1 DEF Positions
<1>4. ASSUME NEW j \in Q PROVE \E i \in P \ {1} : f[i] = j
  <2>1. j + 1 \in P \ {1} /\ f[j + 1] = j
    BY <1>1 DEF Positions
  <2> QED BY <2>1
<1>5. ExistsBijection(P \ {1}, Q)
  <2>1. f \in Bijection(P \ {1}, Q)
    BY <1>2, <1>3, <1>4, Fun_IsBij
  <2> QED BY <2>1, Fun_ExistsBij
<1>6. IsFiniteSet(P) /\ Cardinality(P) \in Nat
  BY PositionsFinite
<1>7. Cardinality(Q) = Cardinality(P \ {1})
  <2>1. IsFiniteSet(P \ {1})
    BY <1>6, FS_RemoveElement
  <2> HIDE DEF P, Q
  <2> QED BY <1>5, <2>1, FS_Bijection
<1>8. 1 \in P <=> t = Head(queue)
  BY <1>1 DEF Positions
<1>9. Cardinality(P \ {1}) = IF 1 \in P THEN Cardinality(P) - 1 ELSE Cardinality(P)
  BY <1>6, FS_RemoveElement
<1>10. InQueue(t) = Cardinality(P) /\ InQueue(t)' = Cardinality(Q)
  BY DEF InQueue, Positions
<1> HIDE DEF P, Q
<1> QED BY <1>6, <1>7, <1>8, <1>9, <1>10
-----------------------------------------------------------------------------
\* The timeout pass is at a task it has found due.
SweepDue == sweep.pc = "timeout" => snap[sweep.task].due

\* Only stored tasks are queued.
QueuedPosted == \A t \in TaskIds : Queued(t) => Posted(t)

CopiesInv == ViewInv /\ HoldInv /\ SweepDue /\ QueuedPosted /\ CopiesWithinAttempts

\* The retry counters change by a retry only, which adds one to one of them.
LEMMA RetryKept ==
  ASSUME TypeOK, [Next]_vars
  PROVE  \/ \E u \in TaskIds : RetryTask(u)
         \/ \A t \in TaskIds : store'[t].retry = store[t].retry
<1> DEFINE Same == \A t \in TaskIds : store'[t].retry = store[t].retry
<1>b. store \in [TaskIds -> TaskRecord]
  BY DEF TypeOK
<1> USE <1>b
<1>1. CASE PostStep
  BY <1>1 DEF PostStep, PostAllocate, PostStore, PostEnqueue, TaskRecord
<1>2. CASE Dequeue \/ NameserviceDown \/ RequeueEnqueue
  BY <1>2 DEF Dequeue, NameserviceDown, RequeueEnqueue
<1>3. CASE NoWorkerFirst \/ NoAlternative
  BY <1>3 DEF NoWorkerFirst, NoAlternative, TaskRecord
<1>4. ASSUME NEW u \in TaskIds, NEW offered \in SUBSET Workers, AssignWorker(u, offered)
      PROVE Same
  BY <1>4 DEF AssignWorker, DispatchedTo, TaskRecord
<1>5. ASSUME NEW u \in TaskIds, ProcessTask(u) \/ MarkProcessing(u) PROVE Same
  BY <1>5 DEF ProcessTask, MarkProcessing, TaskRecord
<1>6. CASE Requeue
  BY <1>6 DEF Requeue, Requeued, TaskRecord
<1>7. CASE Scan
  BY <1>7 DEF Scan
<1>8. ASSUME NEW u \in TaskIds, TimeOut(u) \/ RetryQueued(u) \/ GiveUp(u) PROVE Same
  BY <1>8 DEF TimeOut, RetryQueued, GiveUp, TaskRecord
<1>9. ASSUME NEW u \in TaskIds, RetryEnqueue(u) PROVE Same
  BY <1>9 DEF RetryEnqueue
<1>10. ASSUME NEW w \in Workers, NEW s \in Slots, JobStep(w, s) PROVE Same
  <2>1. CASE StoreResult(w, s)
    BY <2>1 DEF StoreResult, TaskRecord
  <2>2. CASE LoseResult(w, s) \/ \E ok \in BOOLEAN : ReportResult(w, s, ok)
    BY <2>2 DEF LoseResult, ReportResult
  <2> QED BY <1>10, <2>1, <2>2 DEF JobStep
<1>11. ASSUME NEW w \in Workers, WorkerDies(w) PROVE Same
  BY <1>11 DEF WorkerDies
<1>12. CASE Tick
  BY <1>12 DEF Tick, TaskRecord
<1>13. CASE UNCHANGED vars
  BY <1>13 DEF vars
<1> QED
  BY <1>1, <1>2, <1>3, <1>4, <1>5, <1>6, <1>7, <1>8, <1>9, <1>10, <1>11, <1>12, <1>13
     DEF Next, LoopStep, LookupStep, CallStep, SweepStep

\* The queue of the pass changes in the steps of the timeout checker only.
LEMMA SweepKept ==
  ASSUME [Next]_vars
  PROVE  Scan \/ (\E u \in TaskIds : SweepStep(u)) \/ UNCHANGED <<sweep, snap>>
<1>1. CASE PostStep
  BY <1>1 DEF PostStep, PostAllocate, PostStore, PostEnqueue
<1>2. CASE Dequeue \/ NameserviceDown \/ RequeueEnqueue
  BY <1>2 DEF Dequeue, NameserviceDown, RequeueEnqueue
<1>3. ASSUME NEW offered \in SUBSET Workers, LookupStep(offered)
      PROVE UNCHANGED <<sweep, snap>>
  BY <1>3 DEF LookupStep, NoWorkerFirst, NoAlternative, AssignWorker
<1>4. CASE CallStep
  BY <1>4 DEF CallStep, ProcessTask, MarkProcessing, Requeue
<1>5. ASSUME NEW w \in Workers, NEW s \in Slots, JobStep(w, s) \/ WorkerDies(w)
      PROVE UNCHANGED <<sweep, snap>>
  BY <1>5 DEF JobStep, ReportResult, StoreResult, LoseResult, WorkerDies
<1>6. ASSUME NEW w \in Workers, WorkerDies(w)
      PROVE UNCHANGED <<sweep, snap>>
  BY <1>6 DEF WorkerDies
<1>7. CASE Tick \/ UNCHANGED vars
  BY <1>7 DEF Tick, vars
<1> QED
  BY <1>1, <1>2, <1>3, <1>4, <1>5, <1>6, <1>7 DEF Next, LoopStep

LEMMA SweepDueStep ==
  ASSUME TypeOK, SweepDue, [Next]_vars
  PROVE  SweepDue'
<1> USE DEF SweepDue
<1>1. CASE Scan
  BY <1>1 DEF Scan, SweepIdle
<1>2. ASSUME NEW u \in TaskIds, SweepStep(u) PROVE SweepDue'
  BY <1>2 DEF SweepStep, TimeOut, RetryTask, RetryQueued, RetryEnqueue, GiveUp, SweepIdle
<1>3. CASE UNCHANGED <<sweep, snap>>
  BY <1>3
<1> QED BY <1>1, <1>2, <1>3, SweepKept

\* A retry adds one to the counter of its task.
LEMMA RetryCounts ==
  ASSUME ViewInv, SweepDue, NEW u \in TaskIds, RetryTask(u)
  PROVE  /\ store[u].retry \in Nat /\ store[u].retry < MaxRetries
         /\ \A t \in TaskIds :
              store'[t].retry = IF t = u THEN store[u].retry + 1 ELSE store[t].retry
<1>1. /\ snap[u].retry = store[u].retry /\ store \in [TaskIds -> TaskRecord]
      /\ snap[u].retry < MaxRetries
      /\ store' = [store EXCEPT ![u] = Retried(@, snap[u])]
  BY DEF RetryTask, MayRetry, SweepDue, ViewInv, SnapshotRetryCurrent, TypeOK
<1>2. store[u].retry \in 0..MaxRetries
  BY <1>1 DEF TaskRecord
<1>3. Retried(store[u], snap[u]).retry = store[u].retry + 1
  BY <1>1 DEF Retried, TaskRecord
<1> QED BY <1>1, <1>2, <1>3
-----------------------------------------------------------------------------
LEMMA InQueueSame ==
  ASSUME queue' = queue, NEW t
  PROVE  InQueue(t)' = InQueue(t)
BY DEF InQueue

LEMMA InQueueNone ==
  ASSUME NEW t, ~Queued(t)
  PROVE  InQueue(t) = 0
<1>1. {i \in 1..Len(queue) : queue[i] = t} = {}
  BY DEF Queued
<1> QED BY <1>1, FS_EmptySet DEF InQueue

\* Only ids whose record is there are ever enqueued.
LEMMA QueuedPostedStep ==
  ASSUME TypeOK, HeldPosted, QueuedPosted, [Next]_vars
  PROVE  QueuedPosted'
<1>b. queue \in Seq(TaskIds) /\ loop \in LoopState /\ sweep \in SweepState
  BY DEF TypeOK
<1>p. \A t \in TaskIds : Posted(t) => Posted(t)'
  BY PostedStays
<1> SUFFICES ASSUME NEW t \in TaskIds, Queued(t)' PROVE Queued(t) \/ Posted(t)
  BY <1>p DEF QueuedPosted
<1> DEFINE Goal == Queued(t) \/ Posted(t)
<1> USE <1>b
<1>1. CASE UNCHANGED queue
  BY <1>1, QueuedSame
<1>2. ASSUME NEW u \in TaskIds, PostEnqueue(u) PROVE Goal
  BY <1>2, QueuedAppend DEF PostEnqueue
<1>3. CASE Dequeue
  BY <1>3, QueuedTail DEF Dequeue
<1>4. CASE NameserviceDown \/ NoWorkerFirst \/ RequeueEnqueue
  <2>1. loop.pc # "idle" /\ queue' = Append(queue, loop.task)
    BY <1>4 DEF NameserviceDown, NoWorkerFirst, RequeueEnqueue
  <2> QED BY <2>1, LoopTask, QueuedAppend DEF HeldPosted
<1>5. ASSUME NEW u \in TaskIds, RetryEnqueue(u) PROVE Goal
  BY <1>5, QueuedAppend DEF RetryEnqueue, HeldPosted
<1> QED
  BY <1>1, <1>2, <1>3, <1>4, <1>5
     DEF Next, PostStep, PostAllocate, PostStore, LoopStep, LookupStep, NoAlternative,
         AssignWorker, CallStep, ProcessTask, MarkProcessing, Requeue, Scan, SweepStep,
         TimeOut, RetryTask, RetryQueued, GiveUp, JobStep, ReportResult, StoreResult,
         LoseResult, WorkerDies, Tick, vars

LEMMA CopiesStep ==
  ASSUME CopiesInv, [Next]_vars
  PROVE  CopiesWithinAttempts'
<1>b. /\ TypeOK /\ HeldPosted /\ SweepDue /\ QueuedPosted
      /\ store \in [TaskIds -> TaskRecord] /\ queue \in Seq(TaskIds)
      /\ nextId \in Nat /\ posting \subseteq 1..(nextId - 1)
      /\ loop \in LoopState /\ sweep \in SweepState
  BY DispatcherAssumption DEF CopiesInv, HoldInv, TypeOK
<1>p. \A t \in TaskIds : Posted(t) => Posted(t)'
  BY <1>b, PostedStays
<1>r. \A t \in TaskIds :
        /\ store[t].retry \in Nat /\ store'[t].retry \in Nat
        /\ store'[t].retry >= store[t].retry
  <2>1. \A t \in TaskIds : store[t].retry \in Nat
    BY <1>b DEF TaskRecord
  <2>2. CASE \E u \in TaskIds : RetryTask(u)
    BY <2>1, <2>2, RetryCounts DEF CopiesInv
  <2>3. CASE \A t \in TaskIds : store'[t].retry = store[t].retry
    BY <2>1, <2>3
  <2> QED BY <1>b, <2>2, <2>3, RetryKept
<1> SUFFICES ASSUME NEW t \in TaskIds PROVE Copies(t)' <= 1 + store'[t].retry
  BY DEF CopiesWithinAttempts
<1>c. InQueue(t) \in Nat /\ Copies(t) <= 1 + store[t].retry
  BY <1>b, PositionsFinite DEF InQueue, Positions, CopiesInv, CopiesWithinAttempts
<1> DEFINE Goal == Copies(t)' <= 1 + store'[t].retry
<1> SUFFICES Goal
  OBVIOUS
<1> USE <1>b, <1>c, <1>p, <1>r DEF Copies, LoopHolds, SweepOwes
\* A step that adds no copy anywhere.
<1>s. ASSUME UNCHANGED <<queue, nextId>>, posting' \subseteq posting,
             LoopHolds(t)' => LoopHolds(t), SweepOwes(t)' => SweepOwes(t)
      PROVE  Goal
  <2> DEFINE Unqueued == t < nextId /\ (~Posted(t) \/ t \in posting)
  <2>1. InQueue(t)' = InQueue(t)
    BY <1>s, InQueueSame
  <2>2. Unqueued' => Unqueued
    BY <1>s
  <2>3. (IF Unqueued' THEN 1 ELSE 0) <= (IF Unqueued THEN 1 ELSE 0)
    BY <2>2
  <2>4. (IF LoopHolds(t)' THEN 1 ELSE 0) <= (IF LoopHolds(t) THEN 1 ELSE 0)
    BY <1>s
  <2>5. (IF SweepOwes(t)' THEN 1 ELSE 0) <= (IF SweepOwes(t) THEN 1 ELSE 0)
    BY <1>s
  <2>6. /\ Copies(t) = InQueue(t) + (IF Unqueued THEN 1 ELSE 0)
                      + (IF LoopHolds(t) THEN 1 ELSE 0) + (IF SweepOwes(t) THEN 1 ELSE 0)
        /\ Copies(t)' = InQueue(t)' + (IF Unqueued' THEN 1 ELSE 0)
                       + (IF LoopHolds(t)' THEN 1 ELSE 0) + (IF SweepOwes(t)' THEN 1 ELSE 0)
    OBVIOUS
  <2>7. store'[t].retry >= store[t].retry /\ store[t].retry \in Nat /\ store'[t].retry \in Nat
    BY <1>r
  <2> HIDE <1>b, <1>p, <1>r DEF Unqueued, Copies, LoopHolds, SweepOwes
  <2>8. Copies(t)' <= Copies(t) /\ Copies(t) \in Nat /\ Copies(t)' \in Nat
    BY <1>c, <2>1, <2>3, <2>4, <2>5, <2>6
  <2> QED BY <1>c, <2>7, <2>8
<1>1. CASE PostAllocate
  <2>1. /\ UNCHANGED <<store, queue, loop, sweep>>
        /\ nextId' = nextId + 1 /\ posting' = posting \cup {nextId}
    BY <1>1 DEF PostAllocate
  <2>2. InQueue(t)' = InQueue(t) /\ (Posted(t)' <=> Posted(t))
    BY <2>1, InQueueSame DEF Posted
  <2>3. CASE t = nextId
    <3>1. ~Posted(t)
      BY <2>3 DEF HeldPosted
    <3>2. InQueue(t) = 0
      BY <3>1, InQueueNone DEF QueuedPosted
    <3>3. ~LoopHolds(t) /\ ~SweepOwes(t)
      BY <3>1, LoopTask DEF HeldPosted
    <3> QED BY <2>1, <2>2, <3>2, <3>3
  <2>4. CASE t # nextId
    BY <2>1, <2>2, <2>4, DispatcherAssumption DEF TaskIds
  <2> QED BY <2>3, <2>4
<1>2. ASSUME NEW u \in TaskIds, PostStore(u) PROVE Goal
  <2>1. UNCHANGED <<queue, nextId, posting, loop, sweep>>
    BY <1>2 DEF PostStore
  <2> QED BY <2>1, <1>s
<1>3. ASSUME NEW u \in TaskIds, PostEnqueue(u) PROVE Goal
  <2>1. /\ UNCHANGED <<store, nextId, loop, sweep>> /\ posting' = posting \ {u}
        /\ u \in posting /\ Posted(u) /\ queue' = Append(queue, u)
    BY <1>3 DEF PostEnqueue
  <2>2. InQueue(t)' = InQueue(t) + (IF t = u THEN 1 ELSE 0)
    BY <2>1, InQueueAppend
  <2> QED BY <2>1, <2>2
<1>4. CASE Dequeue
  <2>1. InQueue(t) = InQueue(t)' + (IF t = Head(queue) THEN 1 ELSE 0)
    BY <1>4, InQueueTail DEF Dequeue
  <2>2. InQueue(t)' \in Nat
    <3>1. queue' \in Seq(TaskIds)
      BY <1>4, QueueTail DEF Dequeue
    <3> QED BY <3>1, PositionsFinite DEF InQueue, Positions
  <2>3. /\ UNCHANGED <<store, nextId, posting, sweep>> /\ loop.pc = "idle"
        /\ loop' = loop \/ (loop'.pc = "select" /\ loop'.task = Head(queue))
    BY <1>4 DEF Dequeue
  <2>4. LoopHolds(t)' => t = Head(queue)
    BY <2>3
  <2>5. (IF LoopHolds(t)' THEN 1 ELSE 0) <= (IF t = Head(queue) THEN 1 ELSE 0)
    BY <2>4
  <2> QED BY <2>1, <2>2, <2>3, <2>5
<1>5. CASE NameserviceDown \/ NoWorkerFirst \/ RequeueEnqueue
  <2>1. /\ UNCHANGED <<store, nextId, posting, sweep>>
        /\ loop.pc # "idle" /\ queue' = Append(queue, loop.task) /\ loop' = LoopIdle
    BY <1>5 DEF NameserviceDown, NoWorkerFirst, RequeueEnqueue
  <2>2. InQueue(t)' = InQueue(t) + (IF t = loop.task THEN 1 ELSE 0)
    BY <2>1, LoopTask, InQueueAppend
  <2> QED BY <2>1, <2>2 DEF LoopIdle
<1>6. CASE NoAlternative
  <2>1. UNCHANGED <<queue, nextId, posting, sweep>> /\ loop' = LoopIdle
    BY <1>6 DEF NoAlternative
  <2> QED BY <2>1, <1>s DEF LoopIdle
<1>7. ASSUME NEW u \in TaskIds, NEW offered \in SUBSET Workers, AssignWorker(u, offered)
      PROVE Goal
  <2>1. /\ UNCHANGED <<queue, nextId, posting, sweep>>
        /\ loop.pc # "idle" /\ loop.task = u /\ loop'.task = u
    BY <1>7 DEF AssignWorker, LoopIdle
  <2> QED BY <2>1, <1>s
<1>8. ASSUME NEW u \in TaskIds, ProcessTask(u) PROVE Goal
  <2>1. /\ UNCHANGED <<store, queue, nextId, posting, sweep>>
        /\ loop.pc # "idle" /\ loop'.task = loop.task
    BY <1>8 DEF ProcessTask, LoopState
  <2> QED BY <2>1, <1>s
<1>9. ASSUME NEW u \in TaskIds, MarkProcessing(u) PROVE Goal
  <2>1. UNCHANGED <<queue, nextId, posting, sweep>> /\ loop' = LoopIdle
    BY <1>9 DEF MarkProcessing
  <2> QED BY <2>1, <1>s DEF LoopIdle
<1>10. CASE Requeue
  <2>1. /\ UNCHANGED <<queue, nextId, posting, sweep>>
        /\ loop.pc # "idle" /\ loop'.task = loop.task
    BY <1>10 DEF Requeue
  <2> QED BY <2>1, <1>s
<1>11. CASE Scan
  <2>1. UNCHANGED <<queue, nextId, posting, loop, sweep>>
    BY <1>11 DEF Scan
  <2> QED BY <2>1, <1>s
<1>12. ASSUME NEW u \in TaskIds, TimeOut(u) \/ RetryQueued(u) \/ GiveUp(u) PROVE Goal
  <2>1. UNCHANGED <<queue, nextId, posting, loop>>
    BY <1>12 DEF TimeOut, RetryQueued, GiveUp
  <2>2. CASE TimeOut(u) \/ GiveUp(u)
    <3>1. sweep'.pc \in {"timeout", "idle"}
      BY <2>2 DEF TimeOut, GiveUp, SweepIdle
    <3> QED BY <2>1, <3>1, <1>s
  <2>3. CASE RetryQueued(u)
    <3>1. sweep = [pc |-> "retrying", task |-> u] /\ sweep' = [pc |-> "queued", task |-> u]
      BY <2>3 DEF RetryQueued
    <3> QED BY <2>1, <3>1, <1>s
  <2> QED BY <1>12, <2>2, <2>3
<1>13. ASSUME NEW u \in TaskIds, RetryTask(u) PROVE Goal
  <2>1. store'[t].retry = IF t = u THEN store[u].retry + 1 ELSE store[t].retry
    BY <1>13, RetryCounts DEF CopiesInv
  <2>2. /\ UNCHANGED <<queue, nextId, posting, loop>>
        /\ sweep = [pc |-> "timeout", task |-> u] /\ sweep' = [pc |-> "retrying", task |-> u]
    BY <1>13 DEF RetryTask
  <2> QED BY <2>1, <2>2, InQueueSame
<1>14. ASSUME NEW u \in TaskIds, RetryEnqueue(u) PROVE Goal
  <2>1. /\ UNCHANGED <<store, nextId, posting, loop>> /\ queue' = Append(queue, u)
        /\ sweep = [pc |-> "queued", task |-> u] /\ sweep' = SweepIdle
    BY <1>14 DEF RetryEnqueue
  <2>2. InQueue(t)' = InQueue(t) + (IF t = u THEN 1 ELSE 0)
    BY <2>1, InQueueAppend
  <2> QED BY <2>1, <2>2 DEF SweepIdle
<1>15. ASSUME NEW w \in Workers, NEW s \in Slots, JobStep(w, s) PROVE Goal
  <2>1. UNCHANGED <<queue, nextId, posting, loop, sweep>>
    BY <1>15 DEF JobStep, ReportResult, StoreResult, LoseResult
  <2> QED BY <2>1, <1>s
<1>16. ASSUME NEW w \in Workers, WorkerDies(w) PROVE Goal
  <2>1. UNCHANGED <<queue, nextId, posting, loop, sweep>>
    BY <1>16 DEF WorkerDies
  <2> QED BY <2>1, <1>s
<1>17. CASE Tick \/ UNCHANGED vars
  <2>1. UNCHANGED <<queue, nextId, posting, loop, sweep>>
    BY <1>17 DEF Tick, vars
  <2> QED BY <2>1, <1>s
<1> HIDE <1>b, <1>c, <1>p, <1>r DEF Goal, Copies, LoopHolds, SweepOwes
<1>18. CASE PostStep
  BY <1>18, <1>1, <1>2, <1>3 DEF PostStep
<1>19. CASE LoopStep
  <2>1. ASSUME NEW offered \in SUBSET Workers, LookupStep(offered) PROVE Goal
    BY <2>1, <1>5, <1>6, <1>7 DEF LookupStep
  <2>2. CASE CallStep
    BY <2>2, <1>8, <1>9, <1>10 DEF CallStep
  <2> QED BY <1>19, <2>1, <2>2, <1>4, <1>5 DEF LoopStep
<1>20. ASSUME NEW u \in TaskIds, SweepStep(u) PROVE Goal
  BY <1>20, <1>12, <1>13, <1>14 DEF SweepStep
<1> QED
  BY <1>11, <1>15, <1>16, <1>17, <1>18, <1>19, <1>20 DEF Next

LEMMA CopiesInit == Init => CopiesInv
<1> SUFFICES ASSUME Init PROVE CopiesInv
  OBVIOUS
<1>1. \A t \in TaskIds : ~Queued(t)
  BY DEF Init, Queued
<1>2. \A t \in TaskIds : Copies(t) <= 1 + store[t].retry
  BY <1>1, InQueueNone DEF Init, Copies, LoopHolds, SweepOwes, LoopIdle, SweepIdle, NoRecord, TaskIds
<1> QED BY <1>1, <1>2, ViewInit, HoldInit
        DEF CopiesInv, SweepDue, QueuedPosted, CopiesWithinAttempts, Init, SweepIdle

LEMMA CopiesInvStep == CopiesInv /\ [Next]_vars => CopiesInv'
<1> SUFFICES ASSUME CopiesInv, [Next]_vars PROVE CopiesInv'
  OBVIOUS
<1>1. TypeOK /\ HeldPosted /\ ViewInv /\ HoldInv /\ SweepDue /\ QueuedPosted
  BY DEF CopiesInv, HoldInv
<1> QED BY <1>1, ViewStep, HoldStep, SweepDueStep, QueuedPostedStep, CopiesStep DEF CopiesInv

\* A task never has more copies, queued or owed to the queue, than the attempts
\* it was granted.
THEOREM CopiesBounded == Spec => []CopiesWithinAttempts
<1>1. CopiesInv => CopiesWithinAttempts
  BY DEF CopiesInv
<1> QED BY <1>1, CopiesInit, CopiesInvStep, PTL DEF Spec
=============================================================================
