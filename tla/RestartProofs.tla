--------------------------- MODULE RestartProofs ---------------------------
(* What a restart of the dispatcher does not break.  The executions of an   *)
(* earlier life go on and report; they may give a new task the result of an *)
(* old one (ResultOfThisTask), and nothing else: the new dispatcher loses   *)
(* no task, multiplies none and keeps every outcome, for any number of      *)
(* restarts, tasks, workers and retries.                                    *)
EXTENDS DispatcherRestart, CopiesProofs

\* What the proofs about the dispatcher need, all inductive.  Of the executions only
\* those whose result is being stored must be of a stored task; the others may be
\* of a task of an earlier life.
RestartInv == TrackInv /\ CopiesInv /\ StaleInv

\* A dispatcher that has just been started, with executions still at the workers.
JustStarted ==
  /\ store = [t \in TaskIds |-> NoRecord]
  /\ queue = <<>> /\ nextId = 1 /\ posting = {}
  /\ loop = LoopIdle /\ sweep = SweepIdle
  /\ snap = [t \in TaskIds |-> NotDue]
  /\ job \in [Workers -> [Slots -> JobState]]
  /\ \A w \in Workers, s \in Slots : job[w][s].pc # "returning"

LEMMA JustStartedTyped == JustStarted => TypeOK
<1> SUFFICES ASSUME JustStarted PROVE TypeOK
  OBVIOUS
<1> USE DEF JustStarted
<1>1. NoRecord \in TaskRecord /\ NotDue \in SnapEntry
  BY DispatcherAssumption, StatusNames
  DEF NoRecord, TaskRecord, Ages, Overdue, NotDue, SnapEntry
<1>2. queue \in Seq(TaskIds) /\ nextId \in 1..(MaxTasks + 1) /\ posting \subseteq 1..(nextId - 1)
  BY DispatcherAssumption
<1> QED
  BY <1>1, <1>2 DEF TypeOK, LoopState, SweepState

LEMMA JustStartedSound == JustStarted => RestartInv
<1> SUFFICES ASSUME JustStarted PROVE RestartInv
  OBVIOUS
<1>1. TypeOK
  BY JustStartedTyped
<1> USE DEF JustStarted
<1>2. TrackInv
  BY <1>1, DispatcherAssumption DEF TrackInv, NoTaskLost, CallBacked, PostingHeld, Posted,
     NoRecord, LoopIdle, TaskIds
<1>3. ViewInv
  BY <1>1 DEF ViewInv, SnapshotRetryCurrent, DispatchedOnlyDuringCall, NotDue, NoRecord
<1>4. HoldInv
  BY <1>1 DEF HoldInv, HeldPosted, Posted, NoRecord, LoopIdle, SweepIdle, NotDue
<1>5. StaleInv
  BY <1>1 DEF StaleInv, StaleViewRequeued, LoopIdle
<1>6. \A t \in TaskIds : ~Queued(t)
  BY DEF Queued
<1>7. CopiesWithinAttempts
  BY <1>6, InQueueNone DEF CopiesWithinAttempts, Copies, LoopHolds, SweepOwes, LoopIdle,
     SweepIdle, NoRecord, TaskIds
<1>8. SweepDue /\ QueuedPosted
  BY <1>6 DEF SweepDue, QueuedPosted, SweepIdle
<1> QED
  BY <1>2, <1>3, <1>4, <1>5, <1>7, <1>8 DEF RestartInv, CopiesInv

LEMMA RestartStarts == TypeOK /\ Restart => JustStarted'
<1> SUFFICES ASSUME TypeOK, Restart PROVE JustStarted'
  OBVIOUS
<1>1. JobIdle \in JobState
  BY DEF JobState
<1>2. \A w \in Workers, s \in Slots : job'[w][s] \in JobState /\ job'[w][s].pc # "returning"
  BY <1>1 DEF TypeOK, Restart, JobIdle
<1>3. job' \in [Workers -> [Slots -> JobState]]
  BY <1>1 DEF TypeOK, Restart
<1> QED
  BY <1>2, <1>3 DEF Restart, JustStarted

LEMMA RestartInvInit == RestartInit => RestartInv
BY TrackInit, CopiesInit, StaleInit DEF RestartInit, RestartInv

LEMMA RestartInvStep == RestartInv /\ [RestartNext]_restartVars => RestartInv'
<1>1. RestartInv /\ [Next]_vars => RestartInv'
  BY TrackStep, CopiesInvStep, StaleStep DEF RestartInv
<1>2. RestartInv /\ Restart => RestartInv'
  <2>1. JustStarted' => RestartInv'
    BY JustStartedSound, PTL
  <2> QED
    BY <2>1, RestartStarts DEF RestartInv, TrackInv
<1>3. RestartNext => Next \/ Restart
  BY DEF RestartNext, Ordinary
<1>4. UNCHANGED restartVars => UNCHANGED vars
  BY DEF restartVars
<1> QED
  BY <1>1, <1>2, <1>3, <1>4

LEMMA RestartAlways == RestartSpec => []RestartInv
BY RestartInvInit, RestartInvStep, PTL DEF RestartSpec

\* The variables keep their types through restarts.
THEOREM RestartTypeCorrect == RestartSpec => []TypeOK
<1>1. RestartInv => TypeOK
  BY DEF RestartInv, TrackInv
<1> QED
  BY <1>1, RestartAlways, PTL

\* A task accepted since the last start is not lost, whatever executions of an
\* earlier life report under its id.
THEOREM RestartTasksNeverLost == RestartSpec => []NoTaskLost
<1>1. RestartInv => NoTaskLost
  BY DEF RestartInv, TrackInv
<1> QED
  BY <1>1, RestartAlways, PTL

\* Nor do they make the dispatcher queue a task more often than it has attempts.
THEOREM RestartCopiesBounded == RestartSpec => []CopiesWithinAttempts
<1>1. RestartInv => CopiesWithinAttempts
  BY DEF RestartInv, CopiesInv
<1> QED
  BY <1>1, RestartAlways, PTL

\* A settled task keeps its outcome until the dispatcher is started again: the
\* result of an old execution comes too late for it.
THEOREM RestartSettledStable == RestartSpec => SettledInThisLife
<1>1. RestartInv /\ [RestartNext]_restartVars
        => [~Restart =>
              \A t \in TaskIds :
                Settled(t) => Settled(t)' /\ store'[t].status = store[t].status]_restartVars
  BY OneTaskMoves DEF RestartInv, CopiesInv, HoldInv, RestartNext, Ordinary
<1> QED
  BY <1>1, RestartAlways, PTL DEF RestartSpec, SettledInThisLife
=============================================================================
