------------------------------ MODULE Handlers ------------------------------
(***************************************************************************)
(* What a task thread of a worker computes: process_task                   *)
(* (src/worker/main.py) and the handlers (src/worker/handlers.py).  A loop *)
(* of a handler takes one step per iteration, so that what it has          *)
(* established half way can be stated.                                     *)
(*                                                                         *)
(* A payload is the sequence of its comma-separated parts; a part is a     *)
(* whole number, blank, not a number, or "nan", which float() accepts.     *)
(* Texts of results are left out, except where the text is the answer.     *)
(***************************************************************************)
EXTENDS Integers, Sequences, FiniteSetsExt

CONSTANTS
  Numbers,            \* bound: the whole numbers a part may be
  Blank, Junk, NaN,   \* the other parts
  Payloads,           \* bound: the payloads tasks come with
  max_seconds         \* handle_wait's cap

Parts == {Blank, Junk, NaN} \cup Numbers

ASSUME HandlersAssumption ==
  /\ Numbers \subseteq Int /\ {Blank, Junk, NaN} \cap Numbers = {}
  /\ Blank # Junk /\ Blank # NaN /\ Junk # NaN
  /\ Payloads \subseteq Seq(Parts) /\ <<>> \notin Payloads
  /\ max_seconds \in Nat

HANDLERS == {"reverse", "sum", "hash", "upper", "wait", "wordcount", "lower",
             "base64", "prime"}

VARIABLES
  worker_type,  \* _worker_type, checked by serve()
  pc,           \* where the task thread is
  task,         \* type and payload of the task
  i,            \* the part handle_sum is at, or the divisor handle_prime tries
  numbers,      \* what handle_sum has parsed
  answer        \* (success, result)

vars == <<worker_type, pc, task, i, numbers, answer>>

NoTask    == [type |-> "none", payload |-> <<>>]
NoAnswer  == [success |-> FALSE, result |-> "none"]
Failure   == [success |-> FALSE, result |-> "failed"]
Result(x) == [success |-> TRUE, result |-> x]

Init ==
  /\ worker_type \in HANDLERS
  /\ pc = "idle" /\ task = NoTask
  /\ i = 0 /\ numbers = <<>> /\ answer = NoAnswer

Finish(a) == pc' = "done" /\ answer' = a /\ UNCHANGED <<worker_type, task, i, numbers>>
-----------------------------------------------------------------------------
(* A task of another type fails; one of the worker's own goes to the       *)
(* handler of that name, at its first loop index.                          *)
Start(ty, payload) ==
  /\ pc = "idle"
  /\ task' = [type |-> ty, payload |-> payload]
  /\ IF ty = worker_type /\ ty \in HANDLERS
     THEN pc' = ty /\ answer' = answer
     ELSE pc' = "done" /\ answer' = Failure
  /\ i' = (CASE ty = "sum" -> 1 [] ty = "prime" -> 3 [] OTHER -> 0)
  /\ UNCHANGED <<worker_type, numbers>>

\* The handlers that make one text of another never fail.
Convert ==
  /\ pc \in HANDLERS \ {"sum", "wait", "prime"}
  /\ Finish(Result("text"))

\* The payload as one number; int() and float() take no commas.
Whole == IF Len(task.payload) = 1 THEN task.payload[1] ELSE Junk
-----------------------------------------------------------------------------
\* Mutants: a blank part ends the list; a part that is no number is kept.
SumBlankEnds ==
  /\ pc = "sum" /\ i <= Len(task.payload) /\ task.payload[i] = Blank
  /\ i' = Len(task.payload) + 1
  /\ UNCHANGED <<worker_type, pc, task, numbers, answer>>
SumAnyPart ==
  /\ pc = "sum" /\ i <= Len(task.payload)
  /\ task.payload[i] # Blank
  /\ numbers' = Append(numbers, task.payload[i])
  /\ i' = i + 1
  /\ UNCHANGED <<worker_type, pc, task, answer>>

SumBlank ==
  /\ pc = "sum" /\ i <= Len(task.payload) /\ task.payload[i] = Blank
  /\ i' = i + 1
  /\ UNCHANGED <<worker_type, pc, task, numbers, answer>>

SumNumber ==
  /\ pc = "sum" /\ i <= Len(task.payload)
  /\ task.payload[i] \in Numbers \cup {NaN}
  /\ numbers' = Append(numbers, task.payload[i])
  /\ i' = i + 1
  /\ UNCHANGED <<worker_type, pc, task, answer>>

SumInvalid ==
  /\ pc = "sum" /\ i <= Len(task.payload) /\ task.payload[i] = Junk
  /\ Finish(Failure)

\* Python's sum(): "nan" absorbs the rest.
SumOver(ns, S) == MapThenSumSet(LAMBDA k : ns[k], S)
Total(ns) == IF \E k \in DOMAIN ns : ns[k] = NaN THEN NaN ELSE SumOver(ns, DOMAIN ns)

SumDone ==
  /\ pc = "sum" /\ i > Len(task.payload)
  /\ Finish(IF numbers = <<>> THEN Failure ELSE Result(Total(numbers)))
-----------------------------------------------------------------------------
\* handle_wait refuses what is blank, no number, negative or above the cap.  These
\* are comparisons of floats, and "nan" compares false with everything.
Negative(x) == x \in Numbers /\ x < 0
TooLong(x)  == x \in Numbers /\ x > max_seconds

WaitRefused ==
  /\ pc = "wait"
  /\ Whole \in {Blank, Junk} \/ Negative(Whole) \/ TooLong(Whole)
  /\ Finish(Failure)

WaitSleep ==
  /\ pc = "wait"
  /\ Whole \notin {Blank, Junk} /\ ~Negative(Whole) /\ ~TooLong(Whole)
  /\ pc' = "sleeping" /\ UNCHANGED <<worker_type, task, i, numbers, answer>>

\* Mutant: time.sleep is taken to accept whatever float() does.
SleepAnything == pc = "sleeping" /\ Finish(Result(Whole))

\* time.sleep returns, or raises for "nan", which the handler catches.
WaitOver ==
  /\ pc = "sleeping"
  /\ Finish(IF Whole = NaN THEN Failure ELSE Result(Whole))
-----------------------------------------------------------------------------
PrimeInvalid == pc = "prime" /\ Whole \notin Numbers /\ Finish(Failure)

\* n is below 2, is 2, or is even: decided before the loop.
PrimeSmall ==
  /\ pc = "prime" /\ Whole \in Numbers /\ (Whole <= 2 \/ Whole % 2 = 0)
  /\ Finish(Result(Whole = 2))

OddPrimeCandidate == pc = "prime" /\ Whole \in Numbers /\ Whole > 2 /\ Whole % 2 # 0

PrimeDivides ==
  /\ OddPrimeCandidate /\ i * i <= Whole /\ Whole % i = 0
  /\ Finish(Result(FALSE))

\* Mutants: every other odd divisor is skipped; the divisor stays the same.
NextDivisorFourOn(k) == k + 4
NextDivisorSame(k) == k

NextDivisor(k) == k + 2

PrimeNext ==
  /\ OddPrimeCandidate /\ i * i <= Whole /\ Whole % i # 0
  /\ i' = NextDivisor(i)
  /\ UNCHANGED <<worker_type, pc, task, numbers, answer>>

PrimeDone ==
  /\ OddPrimeCandidate /\ i * i > Whole
  /\ Finish(Result(TRUE))
-----------------------------------------------------------------------------
\* The answer is handed to the task thread, and the next task comes.
Return ==
  /\ pc = "done"
  /\ pc' = "idle" /\ task' = NoTask /\ i' = 0 /\ numbers' = <<>> /\ answer' = NoAnswer
  /\ UNCHANGED worker_type

SumStep   == SumBlank \/ SumNumber \/ SumInvalid \/ SumDone
WaitStep  == WaitRefused \/ WaitSleep \/ WaitOver
PrimeStep == PrimeInvalid \/ PrimeSmall \/ PrimeDivides \/ PrimeNext \/ PrimeDone
Step      == Convert \/ SumStep \/ WaitStep \/ PrimeStep \/ Return

\* The dispatcher has looked the worker up under the type of the task, but the
\* worker checks the type once more, and a request may name any.
Next ==
  \/ \E ty \in HANDLERS \cup {"unsupported"}, payload \in Payloads : Start(ty, payload)
  \/ Step

Spec == Init /\ [][Next]_vars

\* The task thread runs.
FairSpec == Spec /\ WF_vars(Step)
-----------------------------------------------------------------------------
TypeOK ==
  /\ worker_type \in HANDLERS
  /\ pc \in {"idle", "sleeping", "done"} \cup HANDLERS
  /\ task = NoTask \/ (task.type \in HANDLERS \cup {"unsupported"} /\ task.payload \in Payloads)
  /\ i \in Nat
  /\ numbers \in Seq(Numbers \cup {NaN})
  /\ answer.success \in BOOLEAN

\* handle_prime tries odd divisors up to the square root only, and still says
\* "true" for exactly the prime numbers.
IsPrime(n) == n > 1 /\ \A d \in 2..(n - 1) : n % d # 0

PrimeDecided ==
  pc = "done" /\ worker_type = "prime" /\ task.type = "prime" /\ Whole \in Numbers
    => answer = Result(IsPrime(Whole))

\* handle_sum leaves no number of the payload out, whatever blank parts are
\* between them, and sums nothing when a part is no number or none is there.
SumComplete ==
  pc = "done" /\ worker_type = "sum" /\ task.type = "sum" =>
    LET p == task.payload
        valid == {k \in DOMAIN p : p[k] \in Numbers \cup {NaN}}
    IN IF valid = {} \/ \E k \in DOMAIN p : p[k] = Junk
       THEN answer = Failure
       ELSE answer = Result(IF \E k \in valid : p[k] = NaN THEN NaN ELSE SumOver(p, valid))

\* handle_wait reports success for exactly the durations it may wait: what passes
\* both of its comparisons without being a duration fails all the same.
WaitDecided ==
  pc = "done" /\ worker_type = "wait" /\ task.type = "wait" =>
    answer = IF Whole \in Numbers \cap 0..max_seconds THEN Result(Whole) ELSE Failure

\* Every task is answered, however many divisors there are to try.
Answered == pc # "idle" ~> pc = "done"
=============================================================================
