# TaskGrid+ in TLA+

TLA+ models of TaskGrid+, the TLC runs that check them on small instances, and
theorems about them that TLAPS proves for every instance. File names are
relative to the repository's root (`src/` stands for it in `PROJECT.json`).

## The system

A client posts a task to the **dispatcher**, which queues it, asks the **name
service** for workers of the task's type, and hands the task to the least loaded
**worker**. The worker computes in a thread of its own and calls the dispatcher
back with the result. Workers register with the name service and send it
heartbeats. Everything is in memory; all calls are gRPC.

| component | state | operations | talks to |
|---|---|---|---|
| dispatcher (`dispatcher/dispatcher.py`) | `TaskStore`, `TaskQueue`, `_next_task_id`, counters; locals of its threads | `post_task`, `get_result`, `return_result`, dispatch loop, timeout loop | name service (`LookupWorker`), workers (`ProcessTask`) |
| name service (`nameservice/nameservice.py`) | `_registry` | `RegisterWorker`, `Heartbeat`, `LookupWorker`, `DeregisterWorker`, health checker | nobody |
| worker (`worker/worker.py`) | `_current_load`, `_task_threads`, `_stop_event`; locals of its threads | start with registration, heartbeat loop, `ProcessTask`, task threads, `_handle_shutdown` | name service, dispatcher (`ReturnResult`) |
| handlers (`worker/main.py`, `worker/handlers.py`) | none | `process_task`, one pure function per task type | called by the worker's task threads |
| status (`dispatcher/main.py`) | counters, with a lock of their own | `GetDispatcherStatus` | dispatcher's store, name service |
| client, monitoring | none | print what the calls return | dispatcher, name service |

What makes it hard:

- The dispatcher's store and queue each have a lock held for one access only.
  The dispatch loop, the timeout loop, and up to ten gRPC handlers interleave
  between any two accesses, and three of them decide on a record they read
  earlier: the dispatch loop on the record of the dequeue, the timeout loop on a
  copy of the whole store, `return_result` on the record it checked.
- A task may be executing at several workers, or twice at one, after a timeout
  or a lost reply; any of them may report, at any time.
- Calls get lost before or after they take effect. Workers, and the name
  service, may be killed and started again at any moment.
- The worker's shutdown runs in a signal handler while heartbeats, `ProcessTask`
  handlers and task threads go on.
- The dispatcher forgets everything when it is started again; the workers do not.
- The status is put together from a copy of the store and from counters that are
  read later, while the threads that change both go on.

What makes each component correct:

- dispatcher: no accepted task is lost; each gets an outcome, and once no thread
  holds the task any more the outcome stays; retries are counted exactly; the
  number of copies of a task in circulation is bounded by its retries.
- name service: a worker heard of lately is offered, one that is silent is
  written off.
- worker: the load is exactly the work in progress and never above capacity; an
  orderly shutdown abandons nothing; a crash is noticed, a forgotten worker
  comes back.
- handlers: the answer is the one the task type names, at the boundaries too, and
  there is one for every payload.
- status: what is shown is consistent (no more retries than timeouts), never goes
  back, and a completed task is counted at last.
- the grid: whatever is killed, shut down or restarted, a task still gets its
  outcome once a worker keeps running.

## Modules

| module | what it is |
|---|---|
| `TaskBoard` | abstract: a task is absent, then open, then COMPLETED or FAILED for good |
| `Dispatcher` | the dispatcher's threads on store and queue, and the executions at the workers |
| `DispatcherProofs`, `CopiesProofs` | theorems about `Dispatcher` |
| `DispatcherStatus` | `Dispatcher` with the monitoring counters and `GetDispatcherStatus` |
| `StatusProofs` | theorems about `DispatcherStatus` |
| `DispatcherRestart` | `Dispatcher` with restarts |
| `RestartProofs` | theorems about `DispatcherRestart` |
| `NameService` | the registry, its calls, the health checker |
| `Worker` | one worker process, composed with its entry at the name service (`NS == INSTANCE NameService`) |
| `WorkerLife` | abstract: what the rest of the grid sees of its worker processes, with their entries at the name service |
| `NameServiceProofs`, `WorkerProofs` | theorems about `NameService` and `Worker` |
| `TaskGrid` | `Dispatcher`, `NameService` and the workers of `WorkerLife`, composed |
| `TaskGridProofs` | theorems about `TaskGrid` |
| `Handlers` | what a task thread computes: `process_task` and the handlers |
| `HandlersProofs` | theorems about `Handlers` |
| `MCDispatcher`, `MCDispatcherStatus`, `MCDispatcherRestart`, `MCNameService`, `MCWorker`, `MCTaskGrid`, `MCHandlers` | instances for TLC |

### Dispatcher

| variable | code |
|---|---|
| `store` | `TaskStore._tasks`; a task not in it has the status UNSPECIFIED, as `get_result` reports it |
| `queue` | `TaskQueue._queue`, any number of copies of an id |
| `nextId` | `_next_task_id` |
| `posting` | the `post_task` calls between allocating an id and enqueueing it |
| `loop` | the locals of the dispatch loop: where it is, the task, the worker, and the two fields of the record it got at the dequeue and uses later |
| `snap`, `sweep` | the due part of the copy of the store that one timeout pass works on, and where the pass is with a task |
| `job` | for each worker, the executions in progress there, and the `ReturnResult` call that ends each |

One action is one access to `store` or `queue` (one use of a lock) with the local
computation around it. These accesses are put together in one action, because
no other thread can tell the difference:

- the dequeue and the `get` after it: nothing but the dispatch loop takes from the
  queue, and what others append at its end commutes with the dequeue, so that it
  can be moved to the time of the `get`;
- reading the clock and copying the store in the timeout loop: the time that
  passes in between can be moved behind the copy, which only makes records due
  a pass later;
- `ReturnResult` arriving and the handler's `get`: a call on its way is a working
  execution.

A timeout pass handles the due tasks in dictionary order; the model takes them in
any order. Time is an age per record, counted by `Tick`; an age past
`TASK_TIMEOUT_SEC` is not counted further, and 0 is the field's value 0. Of the
record the fields that no decision depends on (payload, type, result, error
message, creation and completion time) are left out, and so are the counters for
monitoring, except that `timed` records whether a duration was computed from a
dispatch time. The name service's answer is any set of workers (`offered`), or a
failure; what it can really answer is the subject of `NameService`. Workers are
chosen by load, the loads being as old as the last heartbeats: any of the
candidates. A refusal by the worker and a failed call have the same effect on
the dispatcher's state and are one action; when it comes after the worker took
the task, it is the lost reply. Tasks are dispatched to a worker only while it has
a free slot: `Slots` bounds the executions in progress.

An execution ends in one of three ways: its `ReturnResult` call reaches the
dispatcher (`ReportResult`); the call, of which there is only one, does not get
through (`LoseResult`); or its worker dies with all it executes (`WorkerDies`). A
handler the dispatcher has started for a call goes on in each case.

### NameService

Each call, and each pass of the health checker, runs under one lock and is one
action. `last_heartbeat` is an age. The type, address and port of an entry are
constants of the worker. `Restart` empties the registry.

### Worker

`main` is the main thread with the signal handler that runs on it, `beat` the
heartbeat thread, `run[s]` a `ProcessTask` call with the task thread it starts.
A call to the name service takes effect and is answered, takes effect unanswered,
or fails; calls do not take effect after the caller gave up. `Shutdown` is enabled
again while a shutdown is going on: a second signal runs the handler above the
first, which is never resumed because the second ends the process. `Kill` may
come at any step. The reply to `Heartbeat` and the reaction to it are one
action, as the heartbeat thread touches nothing shared in between. The server
serves until `server.stop`, the step of `Exit`.

### WorkerLife

The workers as the dispatcher and the name service know them: an entry in the
registry, the number of tasks taken and not finished, and a `phase`: off,
registered and starting, serving (`running`), serving with the shutdown begun
(`leaving`), stop event set (`stopping`). A heartbeat may report any load up to the
capacity, since the load it sends is one it had, and may be handled when the
process has stopped; one that is answered "unknown worker" is followed by a
registration, which gets through or not. The worker of `Worker` implements this
(`ImplementsLife`) with `LifePhase`, a function of where its main thread is and of
the stop event, for `phase`, and its load for the tasks. So `TaskGrid` can use these
workers in place of the threads: the chain goes from `worker.py`'s threads to
`WorkerLife`, and from the grid to `WorkerLife` and the name service.

### DispatcherStatus

`EXTENDS Dispatcher`. The counters have a lock of their own, so that writing a
record and counting it are two steps: `return_result` writes first
(`StoreToCount`, `CountCompleted`), the timeout pass counts first (`CountTimeout`,
`WriteTimeout`). `GetDispatcherStatus` is `QueryStore`, `QueryStats`,
`QueryAnswer`; `total_retries` is the sum over the copy of the store. There is one
query at a time: the monitoring program asks again when it has been answered.
All other steps are those of `Dispatcher`, with the counters unchanged
(`Uncounted`). `StatusFairSpec` schedules the handlers that have stored a success and
not counted it, and nothing else. A handler counts whatever has become of the task
since it stored the result, so that a task taken back by the reply to `ProcessTask` and
completed again counts twice. `CompletionsCounted` therefore says that the counter reaches
at least the number of tasks that were COMPLETED at one time. The sum of the durations is in the run `DurationMeasured`.

### DispatcherRestart

`EXTENDS Dispatcher`. `Restart` puts the variables of the dispatcher process back
to their initial values and drops its `ReturnResult` handlers; executions at the
workers go on. `since` remembers in which life of the dispatcher an execution was
handed out. `SettledInThisLife`, which the module states too, is proved
(`RestartProofs`) and has no run: a run would repeat those of `Dispatcher` for two lives.

### TaskGrid

`EXTENDS Dispatcher`, with `NS == INSTANCE NameService` on the variable
`registry`, and `Life == INSTANCE WorkerLife` for the processes. What `Dispatcher`
leaves open is decided here: the lookup is answered from the registry (`Offered`),
a candidate of the least reported load is taken (`Select`), and `ProcessTask` is
taken only by a process whose server runs and whose stop event is not set
(`TakeTask`).

- The lookup and the assignment after it are one step. Between the two the
  registry may change, but steps of the name service and of the other threads of
  the dispatcher touch disjoint variables, so that they can be moved before the
  lookup or behind the assignment.
- The processes take the steps of `WorkerLife`: `Start`, `Beat`, `Shutdown`, the
  deregistration, which a second signal repeats, `SetStop`, and the end. `Exit`
  is the end of a shutdown, which may come with work left, as the wait may time
  out; `Kill` comes at any time, and stands for a registration given up as well.
- A worker counts a task until its `ReturnResult` call has come back (`Executing`,
  `_current_load`): with the end of the handler (`AnswerResult`), when it gives up
  after 10 seconds (`ReturnTimesOut`), or when the call is refused or lost. The handler
  of a worker that gave up, or is gone, goes on: `orphans` holds those, and the next process
  of that worker does not count them. A call that is refused or lost ends in one step.
  An orphan keeps its slot of `Slots` until it ends, so that a worker may be found full
  a little longer than in the code.
- `GridTick` waits for heartbeats (`Punctual`): workers beat every 10 s, the name
  service waits 30 s, and the model takes heartbeats to get through in that time.
  Late heartbeats are in `NameService` and `Worker`. Without this guard a worker
  may become OFFLINE while it beats, and it then stays OFFLINE (run
  `OfflineMeansSilent`), so that its tasks starve: `GridSettles` is a property of
  the code only as long as heartbeats are in time.
- `MaxFaults` bounds kills, shutdowns, and restarts of the name service, together.

### Handlers

A payload is the sequence of its comma-separated parts, and a part is a whole
number, blank, no number, or `nan`, which `float()` accepts. One iteration of a
handler's loop is one step: `SumBlank`, `SumNumber`, `SumInvalid` for the parts of
`handle_sum`, `PrimeNext` and `PrimeDivides` for the divisors of `handle_prime`.
`handle_wait` makes its two comparisons, which `nan` passes, and sleeps in a step of its
own (`WaitSleep`); `time.sleep` raises for `nan`, which the handler catches and answers as
a failure (`WaitOver`). The six handlers that make one text of
another cannot fail and are one action (`Convert`). `process_task` compares the
type of the task with that of the worker before (`Start`). Fractions, infinities,
the rounding of large sums, and the texts of results are left out.

## Runs

Passing runs (states are distinct states):

| run | instance | shows |
|---|---|---|
| `OneTask` | 1 task, 2 workers, 2 slots each, 1 retry; 206,602 | `TypeOK`, `NoTaskLost`, `CallBacked`, `CopiesWithinAttempts`, `SnapshotRetryCurrent`, `DispatchedOnlyDuringCall`, `StaleViewRequeued`, `SettledStable`, `BoardSafety` |
| `TwoTasksLive` | 2 tasks, 1 worker, no retry, fair; 9,583 | `EventuallySettled`: no task starves the other |
| `Status` | 1 task, 1 worker, 1 slot, 1 retry, 3 timeouts, 2 successes, fair; 345,409 | `RetriesWereTimeouts`, `ResponsesGrow`, `CompletionsCounted` |
| `TaskGrid` | 1 task, 1 worker, 1 slot, 1 retry, 2 faults, fair; 129,937 | `GridSettles`, `BeatingOffered`, `RetryFindsWorker`, `ImplementsLife` |
| `Registry` | 2 workers of 2 types, thresholds 1 and 2 ticks; 409 | `HeardIsOffered`, `SilenceNoticed` |
| `WorkerProcess` | capacity 2, 3 calls, 2 task ids, 2 registration attempts, thresholds 1 and 2 ticks, fair; 306,981 | `LoadExact`, `ThreadsCurrent`, `DrainedCleanly`, `ImplementsLife`, `CrashNoticed`, `Reregistered` |
| `Handlers` | parts of every kind, numbers from -2 to 50, lists of up to 3 parts, cap 3 s, fair; 20,764 | `PrimeDecided`, `SumComplete`, `WaitDecided`, `Answered` |

Bounds. One retry is enough for both branches of the retry test, for an old
execution to report on a retried record, for both ends of the exclusion of the
last failed worker, and for the dispatch without alternative; two slots per
worker (`OneTask`) let a worker execute one task twice. Two workers are needed for the check
of the reporting worker to matter. One task suffices for everything that happens
on one record; two for what they share, which is checked with liveness in
`TwoTasksLive` and, as safety, proved for any number. `TaskTimeout = 0` means a
record is due one tick after the dispatch, so that timeouts meet every step. With
three calls against a capacity of two the worker refuses one; two task ids in
three slots repeat one. Three timeouts are one more than a task with one retry
needs, so that a pass with an old copy is counted as well; two successes let one
task complete twice, on the one slot one after the other. Two faults in the grid are enough for every pair of them, as
a worker killed and the name service restarted at once, and the one slot lets a
worker refuse a task it executes already. The grid with two workers has more than
six million states, too many for a run with liveness; the choice among workers is
in `OneTask`. The numbers of `Handlers` reach past the square of 7: the
loop of `handle_prime` tries up to three divisors and ends in both ways there. `Slots`
and `Workers` are symmetric in the safety runs of the dispatcher; runs with
liveness use no symmetry.

Deadlock is checked in every run: time always passes, or a thread can move.

Fairness. Each thread of a process is scheduled (weak fairness of its steps), the
clock runs, and a task thread ends: `LoopFairness`, `OtherFairness`. Beyond that,
`NetworkFairness` says that a task that is looked up again and again is sooner or
later offered a worker, that one which is sent again and again is taken, and that
its reply arrives (strong fairness per task): without it a task may rightly be
refused for ever. `LoopFairness` covers the end of a pending `ProcessTask` call,
which is an assumption on the workers and not on the dispatcher, since the
call has no deadline: a worker that never answers stops the dispatch loop, and
every task with it. Nothing makes a retry, a timeout, or a success happen. For the
worker, `HeartbeatFairness` schedules the heartbeat thread and lets a heartbeat
that is repeated for ever get through at last; `NameServiceFairness` runs the
checker and the clock. Nothing is assumed of signals, tasks or restarts. In the
grid, `GridFairSpec` schedules the threads of all processes and assumes of the
network that a lookup, a `ProcessTask` call and its reply which are tried again
and again get through at last; what a lookup offers, and whether a worker takes a
task, is no assumption there. `GridSettles` has the premise that one worker at last
keeps running, because nothing in the repository makes one run. `StatusFairSpec` asks
of the `ReturnResult` handlers only that they end. The handlers of the task types need the
task thread to be scheduled only.

Runs that find what the documents say and the code does not do:

| run | the documents | the code |
|---|---|---|
| `TerminalStates` | COMPLETED and FAILED are terminal (`docs/state-model.md:86`) | the `ProcessTask` reply overwrites a faster result |
| `DurationMeasured` | mean processing time (`docs/interfaces.md:213`) | a duration since 1970 when the dispatch time was reset |
| `OfflineMeansSilent` | OFFLINE means no heartbeat for 90 s (`docs/interfaces.md:104`) | a heartbeat leaves OFFLINE as it is |
| `DeregisteredForGood` | orderly shutdowns are seen at once (`docs/adr/ADR-005.md:38`) | a heartbeat during the shutdown registers again |
| `ResultOfThisTask` | the task id is unique (`docs/interfaces.md:55`) | ids start at 1 again with the dispatcher; the result of an old execution is stored for a new task |

The models take further steps that the documents exclude, and that have no run
of their own:

- the timeout pass writes TIMEOUT over whatever the task has become since its
  copy; only DISPATCHED and PROCESSING may become TIMEOUT (`docs/state-model.md:79`,
  `:82`; `TimeOut`);
- the calls of the dispatch loop have no deadline; every call should have an explicit
  timeout (`docs/interfaces.md:20`; `MarkProcessing`, `AssignWorker`);
- `return_result` stores a result in a record that left DISPATCHED and PROCESSING
  after its check (`docs/state-model.md:97`; `StoreResult`);
- the dispatch loop dispatches an id whatever its status
  (`docs/state-model.md:73`; `AssignWorker`);
- the health checker turns OFFLINE into UNHEALTHY (`nameservice/nameservice.py:41`
  says it demotes; `Checked`);
- `_task_threads` misses a running thread when a worker executes one task twice
  (`docs/architecture.md:167`; `ReserveTask`).

Two things the models show that no document speaks of. A worker that is offered
and refuses, or cannot be reached, is chosen again at once, since a requeue is no
attempt and excludes nobody, until the health checker or its return ends that. And a
retry whose lookup finds nobody fails for good (`NoAlternative`), where a first attempt
would wait. As long as nothing was stopped this never happens (`RetryFindsWorker`); a
restart of the name service is enough for it to happen, while all workers run, until
their next heartbeats.

The passing runs contain all these steps: no task is lost by any of them, and a
task that is settled (no thread holds it) stays settled.

Each property of a passing run has a mutant: a definition of the model changed
the way a plausible mistake would change the code, under which TLC finds the
property violated. The mutants that need a definition of their own stand in
the modules, marked "Mutant", before the definition they replace.

## Proofs

`DispatcherProofs` proves, from `DispatcherAssumption` only (natural numbers for the
bounds, the empty worker id is not a worker):

- `TypeCorrect`: `TypeOK` is inductive as it stands. The retry counter stays within
  `MaxRetries` because it is written from a copy that passed the test.
- `TasksNeverLost`: `NoTaskLost` is not inductive. When the reply to `ProcessTask`
  makes a task PROCESSING, somebody must be able to find it again, though a
  timeout may have reset the dispatch time meanwhile. `TrackInv` adds that
  (`CallBacked`: then a copy is in the queue or on its way), and that a task
  being posted is known by its handler only (`PostingHeld`).
- `RetryCounterCurrent` and `DispatchedConfined`: from `ViewInv`, which says what the
  timeout pass and the dispatch loop know of the store.
- `CallsBacked`: a part of `TrackInv`.
- `StaleViewsRequeued`: from `StaleInv`. The dispatch loop selects a worker by the
  retry counter and the last failed worker it read at the dequeue. When these
  are outdated, the timeout pass that outdated them has still to append the task to
  the queue, so that the attempt it granted is never spent on the old view.
- `SettledTasksStable`: from `HoldInv` (what a thread holds is stored; of the
  executions only those whose result is being stored, so that a restart keeps it),
  one lemma per action that moves one task (`OneTaskMoves`): whoever could touch a
  settled task would have to hold it.
- `ImplementsTaskBoard`: initial states map to initial states, and each step maps
  to a step of the board for at most one task, or to none.

`CopiesProofs` proves from the same assumption `CopiesBounded`
(`CopiesWithinAttempts`): the copies of a task in the queue, with those the threads
still owe it, never exceed the attempts granted. `CopiesInv` strengthens this by
`ViewInv`, `HoldInv`, what a pass that has counted a retry still owes (`SweepDue`),
and that whatever is queued was posted (`QueuedPosted`). A copy in the queue is a
position; lemmas say how the set of positions of a task changes with `Append` and
`Tail`, and by how much its cardinality.

`RestartProofs` proves, from that assumption, what a restart does not break, with any
number of lives. `JustStarted` is a dispatcher that has forgotten everything while
its workers execute tasks of an earlier life; it satisfies `RestartInv`, the
conjunction of the inductive invariants above, although it is not an initial state, and
each ordinary step keeps that. Hence `RestartTypeCorrect` (`TypeOK`),
`RestartTasksNeverLost` (`NoTaskLost`), `RestartCopiesBounded` (`CopiesWithinAttempts`) and
`RestartSettledStable` (`SettledInThisLife`): the result of an old execution may be
taken for a new task's (run `ResultOfThisTask`), but it loses no task, multiplies none and
changes no outcome that was settled.

`StatusProofs` proves, from that assumption too:

- `StatusTasksNeverLost`: each step is a step of the dispatcher or leaves it alone, by the
  way it is written (`StatusIsDispatcher`, a lemma), so that all the above holds with counters
  and queries.
- `StatusTypeCorrect` (`StatusTypeOK`): counters and answers stay within their bounds; the
  retries an answer adds up are at most `MaxRetries` for each task (`RetrySums`), as
  `RetriesFinite` shows of the sum.
- `RetriesCounted` (`RetriesWereTimeouts`) and `AnswersGrow` (`ResponsesGrow`): from
  `CountInv`. The retries in the store, with the one the timeout pass has counted
  and not written (`Pending`), are at most the timeouts; a query holds numbers
  between those of the last answer and those of now (`QueryInOrder`).

`NameServiceProofs` proves, from `NameServiceAssumption` (the bounds are natural
numbers, the heartbeat timeout is below the offline timeout), `TypeCorrect` and
`HeardWorkersOffered` (`HeardIsOffered`): every action leaves each entry sound, which
means silent for longer than the heartbeat timeout if it is UNHEALTHY.

`WorkerProofs` proves, from `WorkerAssumption` (the same of the timeouts, a positive
capacity, finitely many calls at a time):

- `TypeCorrect` and `LoadIsExact` (`LoadExact`): neither is inductive without the
  other, since the load stays above -1 only because it is the cardinality of the
  set of calls in progress; one reservation enlarges that set, one release
  diminishes it.
- `ShutdownDrains` (`DrainedCleanly`): adds that the stop event is set from the wait
  on, so that a load of 0 stays 0 (`Drain`).
- `DirectoryCurrent` (`ThreadsCurrent`): inductive with the types.
- `WorkerImplementsLife` (`ImplementsLife`): every step of a thread is one step of the
  abstract worker or none. It needs `Kept`: the heartbeat thread runs only once the
  process is registered; tasks are held only while the server runs; the stop event is
  set by the shutdown only; and an entry does not come back while the heartbeat
  thread is about to register the worker again. TLC has checked `KeptInv` as an
  invariant of the instance of `WorkerProcess`.

`HandlersProofs` proves, from `HandlersAssumption` (the kinds of parts are distinct,
payloads are sequences of at least one part, the cap is a natural number):

- `TypeCorrect` (`TypeOK`), and `WaitCorrect` (`WaitDecided`): `handle_wait` reports success for
  exactly the durations from 0 to the cap. `WaitInv` adds what is known while it sleeps:
  the duration is one of these, or `nan`.
- `PrimeCorrect` (`PrimeDecided`): for every whole number `handle_prime` answers "true"
  exactly if it is prime. While the loop runs, the divisor tried is odd, at least 3, and
  no smaller number from 2 on divides the number; when its square exceeds the
  number, a divisor above it would have a cofactor below it, which divides too.
- `SumCorrect` (`SumComplete`): for payloads of any length. What has been parsed has as
  many elements, and the same sum, as the valid parts passed (`SumLoop`). That a sum
  over a finite set does not depend on the order its elements are added in needs an
  induction on the size of the set; as the theorems with an operator parameter
  cannot be used, it is the argument from a set of least size for which the claim fails.

`TaskGridProofs` proves, from `TaskGridAssumption` (thresholds in order, finitely many
slots) with those of the components:

- `GridImplementsLife`: every step of the grid is one of `WorkerLife` or none, where the
  tasks of a worker are the cardinality of a set of executions (`Counted`): the
  dispatcher's `ProcessTask` adds one, only at a worker that accepts tasks and has room
  for it; the end of an execution, or of the wait for it, removes one; the end of
  an orphan none; the death of a worker all. It needs that an orphan is a handler at
  work (`OwnTypeOK`): a slot that takes a task is no orphan's.
- From the theorems of the components: `GridTypeCorrect`, `GridTasksNeverLost`,
  `GridOutcomesLast` (`SettledStable`, `BoardSafety`) and, through an instance of
  `NameServiceProofs`, `GridHeardOffered` (`HeardIsOffered`). Two lemmas carry these over,
  `GridIsDispatcher` and `GridIsNameService`; they hold by the way the steps of the grid are
  written, and say nothing of the code themselves.
- `GridBeatingOffered` (`BeatingOffered`): the inductive invariant (`AllInTime`) is that
  the entry of a worker that beats is `ACTIVE` and was heard of within the heartbeat
  timeout. It rests on the guard of `GridTick`, that heartbeats are in time; without
  it the property is false (run `OfflineMeansSilent`). No action of the registry alone
  gives it: it relates the life of a process to an entry an earlier process left.
- `GridRetryFindsWorker` (`RetryFindsWorker`): `RetryInv` goes back to the first attempt.
  While nothing was stopped, exactly the processes that live are registered (`AllLive`), and
  if anything in the dispatcher shows that a task was handed out (`Attempted`: a
  dispatch time, a retry counter in the store or the loop, a due copy, a timeout being
  handled), one lives. Only `Select` makes the first of these (`AttemptMade`), of a
  worker that is offered. With `GridBeatingOffered` the one that lives is offered still.

Model-checked only: liveness (`EventuallySettled`, `GridSettles`, `CompletionsCounted`,
`SilenceNoticed`, `CrashNoticed`, `Reregistered`, `Answered`), which is out of the prover's
reach. Every invariant and every action property that a passing run checks is the
statement of a theorem.

## Not modelled

- The start-up and shutdown of the dispatcher's and the name service's servers: gRPC
  wiring that keeps no state. A restart of either is modelled.
- The client and the monitoring program: one call per command, printed. What they see
  is `store` and `response`. The logger, the documentation tools and the deployment
  files: no behaviour of the system.
- Clocks that jump (records age in ticks), calls that take effect after their caller
  gave up, the caches of gRPC channels, and the arithmetic of floating-point numbers.
- Task ids beyond 32 bits: the counter has no bound, but a message with id 2^31 raises
  `ValueError` outside the `try` of `_dispatch_to_worker` (`dispatcher/dispatcher.py:540`)
  and ends the dispatch loop.
- A signal that arrives while the main thread of a worker is inside
  `threading.Event.wait`, holding the event's lock: `set()` in the handler would
  wait for it. The model takes the event as atomic.

## What a next step could be

- The grid with two workers as a safety run, for the choice among workers after one
  of them has failed.
- Late heartbeats in the grid, once an OFFLINE worker that beats is taken back.
