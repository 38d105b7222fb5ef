-------------------------- MODULE DispatcherStatus --------------------------
(***************************************************************************)
(* The monitoring counters of the dispatcher, and GetDispatcherStatus      *)
(* (src/dispatcher/main.py), which the monitoring program shows.  The      *)
(* counters have a lock of their own: a handler writes the store and then  *)
(* counts, the timeout pass counts and then writes, and a status query     *)
(* copies the store and then reads the counters.                           *)
(***************************************************************************)
EXTENDS Dispatcher

CONSTANTS
  MaxTimeouts,   \* bound: timeouts that happen
  MaxDone        \* bound: successful results that are accepted

ASSUME StatusAssumption == MaxTimeouts \in Nat /\ MaxDone \in Nat

VARIABLES
  total_timeouts,        \* _total_timeouts
  completed_task_count,  \* _completed_task_count
  counting,  \* the task the timeout pass has counted and not written yet, or 0
  tallying,  \* ReturnResult handlers that have stored a success and not counted it
  query,     \* locals of the GetDispatcherStatus handler
  response   \* its last answer

statusVars == <<total_timeouts, completed_task_count, counting, tallying, query, response>>
allVars == <<vars, statusVars>>

\* Mutant: the attempts are summed, not the retries.
AttemptsCounted(records) ==
  Cardinality({r \in TaskIds \X (0..MaxRetries) : r[2] <= records[r[1]].retry})

\* Sum of retry_count over the copied store: each retry of each task once.
Retries(records) ==
  Cardinality({r \in TaskIds \X (1..MaxRetries) : r[2] <= records[r[1]].retry})

Completed(records) == Cardinality({t \in TaskIds : records[t].status = "COMPLETED"})

QueryIdle  == [pc |-> "idle", total_retries |-> 0, total_timeouts |-> 0]
NoResponse == [total_retries |-> 0, total_timeouts |-> 0]

StatusInit ==
  /\ Init
  /\ total_timeouts = 0 /\ completed_task_count = 0
  /\ counting = 0 /\ tallying = 0
  /\ query = QueryIdle /\ response = NoResponse
-----------------------------------------------------------------------------
\* Steps of the dispatcher that touch no counter.
Uncounted(A) == A /\ UNCHANGED statusVars

\* The timeout pass finds a task due: it counts it ...
CountTimeout(t) ==
  /\ sweep.pc = "idle" /\ snap[t].due /\ counting = 0
  /\ total_timeouts < MaxTimeouts
  /\ total_timeouts' = total_timeouts + 1
  /\ counting' = t
  /\ UNCHANGED <<vars, completed_task_count, tallying, query, response>>

\* ... and then writes TIMEOUT.
WriteTimeout(t) ==
  /\ counting = t
  /\ TimeOut(t)
  /\ counting' = 0
  /\ UNCHANGED <<total_timeouts, completed_task_count, tallying, query, response>>

\* return_result writes the record, and owes the counter a success.
StoreToCount(w, s) ==
  /\ StoreResult(w, s)
  /\ job[w][s].success => completed_task_count + tallying < MaxDone
  /\ tallying' = IF job[w][s].success THEN tallying + 1 ELSE tallying
  /\ UNCHANGED <<total_timeouts, completed_task_count, counting, query, response>>

\* Mutant: the record is read again, and counted only if it is still COMPLETED.
CountIfStillCompleted ==
  /\ tallying > 0
  /\ tallying' = tallying - 1
  /\ completed_task_count' =
       IF Completed(store) > 0 THEN completed_task_count + 1 ELSE completed_task_count
  /\ UNCHANGED <<vars, total_timeouts, counting, query, response>>

\* ... and then counts it, whatever has become of the record.
CountCompleted ==
  /\ tallying > 0
  /\ tallying' = tallying - 1
  /\ completed_task_count' = completed_task_count + 1
  /\ UNCHANGED <<vars, total_timeouts, counting, query, response>>
-----------------------------------------------------------------------------
\* GetDispatcherStatus copies the store ...
QueryStore ==
  /\ query.pc = "idle"
  /\ query' = [query EXCEPT !.pc = "copied", !.total_retries = Retries(store)]
  /\ UNCHANGED <<vars, total_timeouts, completed_task_count, counting, tallying, response>>

\* ... reads the counters ...
QueryStats ==
  /\ query.pc = "copied"
  /\ query' = [query EXCEPT !.pc = "counted", !.total_timeouts = total_timeouts]
  /\ UNCHANGED <<vars, total_timeouts, completed_task_count, counting, tallying, response>>

\* Mutant: the retries are summed over the live store, after the counters were read.
AnswerRecounted ==
  /\ query.pc = "counted"
  /\ response' = [total_retries |-> Retries(store),
                  total_timeouts |-> query.total_timeouts]
  /\ query' = QueryIdle
  /\ UNCHANGED <<vars, total_timeouts, completed_task_count, counting, tallying>>

\* ... and answers, whether or not it could ask the name service.
QueryAnswer ==
  /\ query.pc = "counted"
  /\ response' = [total_retries |-> query.total_retries,
                  total_timeouts |-> query.total_timeouts]
  /\ query' = QueryIdle
  /\ UNCHANGED <<vars, total_timeouts, completed_task_count, counting, tallying>>
-----------------------------------------------------------------------------
SweepOther(t) == RetryTask(t) \/ RetryQueued(t) \/ RetryEnqueue(t) \/ GiveUp(t)

StatusNext ==
  \/ Uncounted(PostStep) \/ Uncounted(LoopStep) \/ Uncounted(Tick) \/ Uncounted(Scan)
  \/ \E t \in TaskIds : Uncounted(SweepOther(t)) \/ CountTimeout(t) \/ WriteTimeout(t)
  \/ \E w \in Workers, s \in Slots :
       \/ \E ok \in BOOLEAN : Uncounted(ReportResult(w, s, ok))
       \/ Uncounted(LoseResult(w, s))
       \/ StoreToCount(w, s)
  \/ \E w \in Workers : Uncounted(WorkerDies(w))
  \/ CountCompleted
  \/ QueryStore \/ QueryStats \/ QueryAnswer

StatusSpec == StatusInit /\ [][StatusNext]_allVars

\* The handlers of ReturnResult are scheduled.
StatusFairSpec == StatusSpec /\ WF_allVars(CountCompleted)
-----------------------------------------------------------------------------
RetrySums == 0..(MaxTasks * MaxRetries)

StatusTypeOK ==
  /\ TypeOK
  /\ total_timeouts \in 0..MaxTimeouts
  /\ completed_task_count \in Nat /\ tallying \in Nat
  /\ completed_task_count + tallying <= MaxDone
  /\ counting \in {0} \cup TaskIds
  /\ query \in [pc : {"idle", "copied", "counted"}, total_retries : RetrySums,
               total_timeouts : 0..MaxTimeouts]
  /\ response \in [total_retries : RetrySums, total_timeouts : 0..MaxTimeouts]

\* An answer never claims more retries than timeouts, though store and counters
\* are read at different moments and the timeout pass goes on between them.
RetriesWereTimeouts == response.total_retries <= response.total_timeouts

\* A task that is COMPLETED is sooner or later among the results the average is
\* taken over, though by then it may be running again or wait in the queue: the
\* dispatch loop and the timeout pass take records back at any moment.
CompletionsCounted ==
  \A n \in 1..MaxTasks : Completed(store) >= n ~> completed_task_count >= n

\* Whoever watches the status sees the counters grow only.
ResponsesGrow ==
  [][/\ response'.total_retries >= response.total_retries
     /\ response'.total_timeouts >= response.total_timeouts]_allVars
=============================================================================
