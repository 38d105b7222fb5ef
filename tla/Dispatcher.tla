----------------------------- MODULE Dispatcher -----------------------------
(***************************************************************************)
(* The dispatcher process of TaskGrid (src/dispatcher/dispatcher.py) and   *)
(* as much of the workers as it talks to.                                  *)
(*                                                                         *)
(* Four kinds of threads share the task store and the queue, each access   *)
(* under its own short lock, nothing held from one access to the next:     *)
(*   - the PostTask handlers            (posting)                          *)
(*   - the dispatch loop                (loop)                             *)
(*   - the timeout checker              (snap, sweep)                      *)
(*   - the ReturnResult handlers, each called by a worker thread   (job)   *)
(* One action is one access to the shared state, with the local            *)
(* computation around it.                                                  *)
(***************************************************************************)
EXTENDS Integers, Sequences, FiniteSets

CONSTANTS
  MaxTasks,     \* bound: PostTask calls that are accepted
  Workers,      \* worker ids
  NoWorker,     \* the empty worker id ""
  Slots,        \* bound: executions a worker may have in progress, each with
                \* the ReturnResult call that ends it
  MaxRetries,   \* MAX_RETRIES
  TaskTimeout   \* TASK_TIMEOUT_SEC, in ticks

TaskIds == 1..MaxTasks

ASSUME DispatcherAssumption ==
  /\ MaxTasks \in Nat /\ MaxRetries \in Nat /\ TaskTimeout \in Nat
  /\ NoWorker \notin Workers

VARIABLES
  store,    \* TaskStore._tasks: the record of each task, UNSPECIFIED if absent
  queue,    \* TaskQueue._queue
  nextId,   \* Dispatcher._next_task_id
  posting,  \* tasks whose PostTask handler has not enqueued them yet
  loop,     \* locals of the dispatch loop
  snap,     \* what the running timeout pass still has to handle, as it read it
  sweep,    \* where the timeout pass is with the task it handles
  job       \* job[w][s]: execution s at worker w

vars == <<store, queue, nextId, posting, loop, snap, sweep, job>>
-----------------------------------------------------------------------------
Active   == {"DISPATCHED", "PROCESSING"}
Terminal == {"COMPLETED", "FAILED"}
Statuses == {"UNSPECIFIED", "QUEUED", "TIMEOUT", "RETRYING"} \cup Active \cup Terminal

\* timestamp_dispatched as an age: 0 is the field's value 0, k > 0 is "k - 1
\* ticks ago"; an age past TaskTimeout is due and need not be told from older.
Overdue == TaskTimeout + 2
Ages    == 0..Overdue

TaskRecord == [status : Statuses, assigned : Workers \cup {NoWorker}, sent : Ages,
               retry : 0..MaxRetries, lastFailed : Workers \cup {NoWorker}]

NoRecord == [status |-> "UNSPECIFIED", assigned |-> NoWorker, sent |-> 0,
             retry |-> 0, lastFailed |-> NoWorker]

Posted(t) == store[t].status # "UNSPECIFIED"

LoopIdle == [pc |-> "idle", task |-> 0, worker |-> NoWorker, retry |-> 0, exclude |-> NoWorker]
NotDue   == [due |-> FALSE, worker |-> NoWorker, retry |-> 0]
SweepIdle == [pc |-> "idle", task |-> 0]
JobIdle  == [pc |-> "idle", task |-> 0, success |-> FALSE, timed |-> FALSE]

Init ==
  /\ store = [t \in TaskIds |-> NoRecord]
  /\ queue = <<>>
  /\ nextId = 1
  /\ posting = {}
  /\ loop = LoopIdle
  /\ snap = [t \in TaskIds |-> NotDue]
  /\ sweep = SweepIdle
  /\ job = [w \in Workers |-> [s \in Slots |-> JobIdle]]
-----------------------------------------------------------------------------
(* PostTask.  A request the validation or the lookup refuses changes        *)
(* nothing; one that is accepted allocates an id, stores, then enqueues.    *)

PostAllocate ==
  /\ nextId <= MaxTasks
  /\ posting' = posting \cup {nextId}
  /\ nextId' = nextId + 1
  /\ UNCHANGED <<store, queue, loop, snap, sweep, job>>

PostStore(t) ==
  /\ t < nextId /\ ~Posted(t)
  /\ store' = [store EXCEPT ![t].status = "QUEUED"]
  /\ UNCHANGED <<queue, nextId, posting, loop, snap, sweep, job>>

\* Mutant: the id is enqueued before the record is stored.
EnqueueUnstored(t) ==
  /\ t \in posting
  /\ queue' = Append(queue, t)
  /\ posting' = posting \ {t}
  /\ UNCHANGED <<store, nextId, loop, snap, sweep, job>>

PostEnqueue(t) ==
  /\ t \in posting /\ Posted(t)
  /\ queue' = Append(queue, t)
  /\ posting' = posting \ {t}
  /\ UNCHANGED <<store, nextId, loop, snap, sweep, job>>
-----------------------------------------------------------------------------
(* The dispatch loop.  The record it got at the dequeue (retry, exclude)   *)
(* is used until the task is handed over; nothing re-reads the store.      *)

\* Dequeue an id and get its record; an id without a record is dropped.
Dequeue ==
  /\ loop.pc = "idle" /\ queue # <<>>
  /\ queue' = Tail(queue)
  /\ LET t == Head(queue) IN
       loop' = IF Posted(t)
               THEN [pc |-> "select", task |-> t, worker |-> NoWorker,
                     retry |-> store[t].retry, exclude |-> store[t].lastFailed]
               ELSE loop
  /\ UNCHANGED <<store, nextId, posting, snap, sweep, job>>

\* LookupWorker failed: back into the queue.
NameserviceDown ==
  /\ loop.pc = "select"
  /\ queue' = Append(queue, loop.task)
  /\ loop' = LoopIdle
  /\ UNCHANGED <<store, nextId, posting, snap, sweep, job>>

\* LookupWorker returned nobody: a first attempt waits in the queue ...
NoWorkerFirst ==
  /\ loop.pc = "select" /\ loop.retry = 0
  /\ queue' = Append(queue, loop.task)
  /\ loop' = LoopIdle
  /\ UNCHANGED <<store, nextId, posting, snap, sweep, job>>

\* ... and a retry fails for good.
NoAlternative ==
  /\ loop.pc = "select" /\ loop.retry > 0
  /\ store' = [store EXCEPT ![loop.task].status = "FAILED"]
  /\ loop' = LoopIdle
  /\ UNCHANGED <<queue, nextId, posting, snap, sweep, job>>

\* Whom _select_worker may choose: whoever is least loaded (any of them, the
\* loads being what the last heartbeats said) without the excluded worker.
Candidates(offered, exclude) ==
  IF offered \ {exclude} # {} THEN offered \ {exclude} ELSE offered

\* Mutant: the dispatch time is not set.
DispatchedUntimed(r, w) == [r EXCEPT !.status = "DISPATCHED", !.assigned = w]

DispatchedTo(r, w) == [r EXCEPT !.status = "DISPATCHED", !.assigned = w, !.sent = 1]

\* The first half of _dispatch_to_worker, up to the ProcessTask call.
AssignWorker(t, offered) ==
  /\ loop.pc = "select" /\ loop.task = t
  /\ \E w \in Candidates(offered, loop.exclude) :
       /\ store' = [store EXCEPT ![t] = DispatchedTo(@, w)]
       /\ loop' = [LoopIdle EXCEPT !.pc = "calling", !.task = t, !.worker = w]
  /\ UNCHANGED <<queue, nextId, posting, snap, sweep, job>>

\* The worker's ProcessTask handler takes the task and starts its thread.
ProcessTask(t) ==
  /\ loop.pc = "calling" /\ loop.task = t
  /\ \E s \in Slots :
       /\ job[loop.worker][s].pc = "idle"
       /\ job' = [job EXCEPT ![loop.worker][s] =
                    [JobIdle EXCEPT !.pc = "working", !.task = t]]
  /\ loop' = [loop EXCEPT !.pc = "accepted"]
  /\ UNCHANGED <<store, queue, nextId, posting, snap, sweep>>

\* The reply accepted=true arrives.
MarkProcessing(t) ==
  /\ loop.pc = "accepted" /\ loop.task = t
  /\ store' = [store EXCEPT ![t].status = "PROCESSING"]
  /\ loop' = LoopIdle
  /\ UNCHANGED <<queue, nextId, posting, snap, sweep, job>>

\* Mutants: a requeue that leaves the status alone, and one that starts the
\* retry counter again.
RequeuedSilently(r) == [r EXCEPT !.assigned = NoWorker, !.sent = 0]
RequeuedAfresh(r) ==
  [r EXCEPT !.status = "QUEUED", !.assigned = NoWorker, !.sent = 0, !.retry = 0]

Requeued(r) == [r EXCEPT !.status = "QUEUED", !.assigned = NoWorker, !.sent = 0]

\* The worker refused the task, or the call failed: before it reached the
\* worker, or after the worker took the task (the reply is lost).
Requeue ==
  /\ loop.pc \in {"calling", "accepted"}
  /\ store' = [store EXCEPT ![loop.task] = Requeued(@)]
  /\ loop' = [pc |-> "requeue", task |-> loop.task, worker |-> NoWorker,
              retry |-> 0, exclude |-> NoWorker]
  /\ UNCHANGED <<queue, nextId, posting, snap, sweep, job>>

RequeueEnqueue ==
  /\ loop.pc = "requeue"
  /\ queue' = Append(queue, loop.task)
  /\ loop' = LoopIdle
  /\ UNCHANGED <<store, nextId, posting, snap, sweep, job>>
-----------------------------------------------------------------------------
(* The timeout checker.  One pass reads the clock and copies the store,    *)
(* then handles the due tasks of that copy one after the other, in the     *)
(* order they were stored (any order here).                                *)

\* Mutants: tasks of any status are timed out; only unanswered calls are.
ExpiredAnyStatus(r)  == r.sent = Overdue
ExpiredUnanswered(r) == r.status = "DISPATCHED" /\ r.sent = Overdue

Expired(r) == r.status \in Active /\ r.sent = Overdue

Scan ==
  /\ sweep = SweepIdle /\ \A t \in TaskIds : ~snap[t].due
  /\ snap' = [t \in TaskIds |->
                IF Expired(store[t])
                THEN [due |-> TRUE, worker |-> store[t].assigned, retry |-> store[t].retry]
                ELSE NotDue]
  /\ UNCHANGED <<store, queue, nextId, posting, loop, sweep, job>>

\* The writes of one iteration: TIMEOUT, then RETRYING, QUEUED and the
\* enqueue, or FAILED.
TimeOut(t) ==
  /\ sweep.pc = "idle" /\ snap[t].due
  /\ store' = [store EXCEPT ![t].status = "TIMEOUT"]
  /\ sweep' = [pc |-> "timeout", task |-> t]
  /\ UNCHANGED <<queue, nextId, posting, loop, snap, job>>

\* Mutant: off by one in the retry bound.
MayRetryOnceMore(e) == e.retry <= MaxRetries

MayRetry(e) == e.retry < MaxRetries

\* Mutant: the retry is not counted.
RetriedUncounted(r, e) ==
  [r EXCEPT !.status = "RETRYING", !.lastFailed = e.worker, !.assigned = NoWorker,
            !.sent = 0]

Retried(r, e) ==
  [r EXCEPT !.status = "RETRYING", !.lastFailed = e.worker, !.assigned = NoWorker,
            !.sent = 0, !.retry = e.retry + 1]

RetryTask(t) ==
  /\ sweep = [pc |-> "timeout", task |-> t] /\ MayRetry(snap[t])
  /\ store' = [store EXCEPT ![t] = Retried(@, snap[t])]
  /\ sweep' = [pc |-> "retrying", task |-> t]
  /\ snap' = [snap EXCEPT ![t] = NotDue]
  /\ UNCHANGED <<queue, nextId, posting, loop, job>>

RetryQueued(t) ==
  /\ sweep = [pc |-> "retrying", task |-> t]
  /\ store' = [store EXCEPT ![t].status = "QUEUED"]
  /\ sweep' = [pc |-> "queued", task |-> t]
  /\ UNCHANGED <<queue, nextId, posting, loop, snap, job>>

\* Mutant: a task the dispatch loop is busy with is not queued twice.
RetryEnqueueIfIdle(t) ==
  /\ sweep = [pc |-> "queued", task |-> t]
  /\ queue' = IF loop.pc # "idle" /\ loop.task = t THEN queue ELSE Append(queue, t)
  /\ sweep' = SweepIdle
  /\ UNCHANGED <<store, nextId, posting, loop, snap, job>>

RetryEnqueue(t) ==
  /\ sweep = [pc |-> "queued", task |-> t]
  /\ queue' = Append(queue, t)
  /\ sweep' = SweepIdle
  /\ UNCHANGED <<store, nextId, posting, loop, snap, job>>

GiveUp(t) ==
  /\ sweep = [pc |-> "timeout", task |-> t] /\ ~MayRetry(snap[t])
  /\ store' = [store EXCEPT ![t].status = "FAILED"]
  /\ sweep' = SweepIdle
  /\ snap' = [snap EXCEPT ![t] = NotDue]
  /\ UNCHANGED <<queue, nextId, posting, loop, job>>
-----------------------------------------------------------------------------
(* ReturnResult, called when a worker's task thread is done.                *)

\* Mutant: the status check is dropped.
MayReportAnyStatus(r, w) == r.assigned = NoWorker \/ r.assigned = w

\* The checks of return_result on the record it got.
MayReport(r, w) == r.status \in Active /\ (r.assigned = NoWorker \/ r.assigned = w)

\* The worker is done and calls; the handler gets the record and checks it.
\* A refusal ends the call, the worker only logs it.
ReportResult(w, s, ok) ==
  /\ job[w][s].pc = "working"
  /\ LET r == store[job[w][s].task] IN
       job' = [job EXCEPT ![w][s] =
                 IF MayReport(r, w)
                 THEN [pc |-> "returning", task |-> @.task,
                       success |-> ok, timed |-> r.sent # 0]
                 ELSE JobIdle]
  /\ UNCHANGED <<store, queue, nextId, posting, loop, snap, sweep>>

\* The handler writes what it decided on before.
StoreResult(w, s) ==
  /\ job[w][s].pc = "returning"
  /\ store' = [store EXCEPT ![job[w][s].task].status =
                 IF job[w][s].success THEN "COMPLETED" ELSE "FAILED"]
  /\ job' = [job EXCEPT ![w][s] = JobIdle]
  /\ UNCHANGED <<queue, nextId, posting, loop, snap, sweep>>

\* The worker's one ReturnResult call does not get through.
LoseResult(w, s) ==
  /\ job[w][s].pc = "working"
  /\ job' = [job EXCEPT ![w][s] = JobIdle]
  /\ UNCHANGED <<store, queue, nextId, posting, loop, snap, sweep>>

\* The worker process dies with all it executes; a ReturnResult handler that
\* it has called is the dispatcher's and goes on.
WorkerDies(w) ==
  /\ \E s \in Slots : job[w][s].pc = "working"
  /\ job' = [job EXCEPT ![w] =
               [s \in Slots |-> IF job[w][s].pc = "working" THEN JobIdle ELSE job[w][s]]]
  /\ UNCHANGED <<store, queue, nextId, posting, loop, snap, sweep>>
-----------------------------------------------------------------------------
Aged(n) == IF n \in 1..(Overdue - 1) THEN n + 1 ELSE n

Tick ==
  /\ store' = [t \in TaskIds |-> [store[t] EXCEPT !.sent = Aged(@)]]
  /\ UNCHANGED <<queue, nextId, posting, loop, snap, sweep, job>>

LookupStep(offered) ==
  \/ offered = {} /\ (NoWorkerFirst \/ NoAlternative)
  \/ \E t \in TaskIds : AssignWorker(t, offered)

CallStep ==
  \/ \E t \in TaskIds : ProcessTask(t) \/ MarkProcessing(t)
  \/ Requeue

PostStep == PostAllocate \/ \E t \in TaskIds : PostStore(t) \/ PostEnqueue(t)

LoopStep ==
  \/ Dequeue
  \/ NameserviceDown
  \/ \E offered \in SUBSET Workers : LookupStep(offered)
  \/ CallStep
  \/ RequeueEnqueue

SweepStep(t) == TimeOut(t) \/ RetryTask(t) \/ RetryQueued(t) \/ RetryEnqueue(t) \/ GiveUp(t)

JobStep(w, s) ==
  (\E ok \in BOOLEAN : ReportResult(w, s, ok)) \/ StoreResult(w, s) \/ LoseResult(w, s)

Next ==
  \/ PostStep
  \/ LoopStep
  \/ Scan \/ \E t \in TaskIds : SweepStep(t)
  \/ \E w \in Workers, s \in Slots : JobStep(w, s)
  \/ \E w \in Workers : WorkerDies(w)
  \/ Tick

Spec == Init /\ [][Next]_vars

\* Every thread of the dispatcher is scheduled, the clock runs, and a task
\* thread at a worker ends.  The network and the workers are not hostile
\* forever: a task that keeps being offered is sooner or later given to a
\* worker, taken by one, and the reply arrives.
LoopFairness == WF_vars(LoopStep)

OtherFairness ==
  /\ \A t \in TaskIds : WF_vars(PostStore(t)) /\ WF_vars(PostEnqueue(t))
  /\ WF_vars(Scan) /\ \A t \in TaskIds : WF_vars(SweepStep(t))
  /\ \A w \in Workers, s \in Slots : WF_vars(JobStep(w, s))
  /\ WF_vars(Tick)

NetworkFairness ==
  \A t \in TaskIds :
    /\ SF_vars(\E offered \in SUBSET Workers : AssignWorker(t, offered))
    /\ SF_vars(ProcessTask(t))
    /\ SF_vars(MarkProcessing(t))

FairSpec == Spec /\ LoopFairness /\ OtherFairness /\ NetworkFairness
-----------------------------------------------------------------------------
LoopState ==
  {LoopIdle}
  \cup [pc : {"select", "requeue"}, task : TaskIds, worker : {NoWorker},
        retry : 0..MaxRetries, exclude : Workers \cup {NoWorker}]
  \cup [pc : {"calling", "accepted"}, task : TaskIds, worker : Workers,
        retry : {0}, exclude : {NoWorker}]

SnapEntry  == [due : BOOLEAN, worker : Workers \cup {NoWorker}, retry : 0..MaxRetries]
SweepState == {SweepIdle} \cup [pc : {"timeout", "retrying", "queued"}, task : TaskIds]
JobState   == {JobIdle} \cup [pc : {"working", "returning"}, task : TaskIds,
                              success : BOOLEAN, timed : BOOLEAN]

TypeOK ==
  /\ store \in [TaskIds -> TaskRecord]
  /\ queue \in Seq(TaskIds)
  /\ nextId \in 1..(MaxTasks + 1)
  /\ posting \subseteq 1..(nextId - 1)
  /\ loop \in LoopState
  /\ snap \in [TaskIds -> SnapEntry]
  /\ sweep \in SweepState
  /\ job \in [Workers -> [Slots -> JobState]]

Queued(t) == \E i \in 1..Len(queue) : queue[i] = t

LoopHolds(t)  == loop.pc # "idle" /\ loop.task = t
SweepHolds(t) == sweep.pc # "idle" /\ sweep.task = t

\* The dispatch loop, or the timeout pass, still owes the queue a copy of t.
LoopOwes(t)  == loop.pc \in {"select", "requeue"} /\ loop.task = t
SweepOwes(t) == sweep.pc \in {"retrying", "queued"} /\ sweep.task = t

\* Someone still has task t, or can find it.
Tracked(t) ==
  \/ store[t].status \in Terminal
  \/ Queued(t) \/ t \in posting
  \/ LoopHolds(t) \/ SweepHolds(t)
  \/ store[t].status \in Active /\ store[t].sent # 0

\* No stored task is ever forgotten.  Whatever the threads do to it in between,
\* a task that is neither COMPLETED nor FAILED is in the queue, or a thread is
\* about to put it there, or the timeout checker can still find it: it is
\* active with its dispatch time set.
NoTaskLost == \A t \in TaskIds : Posted(t) => Tracked(t)

\* While its ProcessTask call is pending, a task can be timed out and retried
\* by the other thread.  If that has taken its dispatch time away, so that the
\* reply will leave it PROCESSING without one, a copy is in the queue or on the
\* way there, and the task is dispatched again instead of waiting forever.
CallBacked ==
  \A t \in TaskIds :
    loop.pc \in {"calling", "accepted"} /\ loop.task = t
      => store[t].sent # 0 \/ Queued(t) \/ SweepOwes(t)

\* The copies of a task: in the queue, and with the threads that owe it one.
InQueue(t) == Cardinality({i \in 1..Len(queue) : queue[i] = t})

Copies(t) ==
  InQueue(t)
  + (IF t < nextId /\ (~Posted(t) \/ t \in posting) THEN 1 ELSE 0)
  + (IF LoopHolds(t) THEN 1 ELSE 0)
  + (IF SweepOwes(t) THEN 1 ELSE 0)

\* The queue may hold a task more than once (a timed-out attempt is requeued
\* while its call is still being requeued by the dispatch loop), but only one
\* more copy for each retry: the copies there are never outnumber the attempts
\* the task was granted.
CopiesWithinAttempts == \A t \in TaskIds : Copies(t) <= 1 + store[t].retry

\* The dispatch loop selects a worker with the retry counter and the excluded
\* worker it read at the dequeue.  When a timeout changed them since, one more
\* copy of the task is queued or about to be, so that the attempt that was just
\* granted is still made, without the worker that has just failed.
StaleViewRequeued ==
  \A t \in TaskIds :
    loop.pc = "select" /\ loop.task = t
      /\ (loop.retry # store[t].retry \/ loop.exclude # store[t].lastFailed)
      => Queued(t) \/ SweepOwes(t)

\* The retry counter the timeout pass works with is a copy, but never an old
\* one: nobody else writes it, so no attempt is counted twice or lost.
SnapshotRetryCurrent == \A t \in TaskIds : snap[t].due => snap[t].retry = store[t].retry

\* DISPATCHED lasts only as long as the ProcessTask call of the one dispatch
\* loop, whatever the other threads write in between: no task is left behind
\* in it, and no two tasks are in it.
DispatchedOnlyDuringCall ==
  \A t \in TaskIds :
    store[t].status = "DISPATCHED" => loop.pc \in {"calling", "accepted"} /\ loop.task = t

\* A task is settled when it has its outcome and no thread holds a reason to
\* touch it again.
Settled(t) ==
  /\ store[t].status \in Terminal
  /\ ~Queued(t) /\ t \notin posting
  /\ ~LoopHolds(t) /\ ~SweepHolds(t) /\ ~snap[t].due
  /\ \A w \in Workers, s \in Slots :
       ~(job[w][s].pc = "returning" /\ job[w][s].task = t)

\* What is settled stays settled with its outcome, though executions of the
\* task may still be running at workers and report late.
SettledStable ==
  [][\A t \in TaskIds :
       Settled(t) => Settled(t)' /\ store'[t].status = store[t].status]_vars

\* Every accepted task gets an outcome that lasts.
EventuallySettled == \A t \in TaskIds : Posted(t) ~> []Settled(t)

\* The dispatcher implements the task board.
Outcome(t) == IF ~Posted(t) THEN "absent"
              ELSE IF Settled(t) THEN store[t].status ELSE "open"

Board == INSTANCE TaskBoard WITH outcome <- [t \in TaskIds |-> Outcome(t)]

BoardSafety == Board!Spec
-----------------------------------------------------------------------------
(* What the documents say of the dispatcher and its code does not do: each *)
(* is refuted by a run, on an interleaving of two threads.                 *)

\* docs/state-model.md lists COMPLETED and FAILED as terminal states.  The
\* dispatch loop writes PROCESSING (or, the reply lost, QUEUED) over the result
\* of a worker that is faster than its own ProcessTask reply.
TerminalStates ==
  [][\A t \in TaskIds :
       store[t].status \in Terminal => store'[t].status = store[t].status]_vars

\* docs/interfaces.md describes avg_processing_time as the mean processing time.
\* A result accepted after the dispatch time was reset adds the whole epoch.
DurationMeasured ==
  \A w \in Workers, s \in Slots :
    job[w][s].pc = "returning" /\ job[w][s].success => job[w][s].timed
=============================================================================
