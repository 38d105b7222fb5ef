---------------------------- MODULE NameService ----------------------------
(***************************************************************************)
(* The name service (src/nameservice/nameservice.py): the registry of      *)
(* workers, its four calls and the health checker.  Every one of them runs *)
(* under the one lock, so each is one action; callers may come in any      *)
(* order.  The registry is in memory only: a restart empties it.           *)
(***************************************************************************)
EXTENDS Integers

CONSTANTS
  Workers,           \* worker ids
  Types, TypeOf,     \* the task types, and the one each worker registers with
  MaxLoad,           \* bound: loads a heartbeat may report
  HeartbeatTimeout,  \* HEARTBEAT_TIMEOUT_SEC, in ticks
  OfflineTimeout     \* OFFLINE_TIMEOUT_SEC, in ticks

ASSUME NameServiceAssumption ==
  /\ MaxLoad \in Nat /\ HeartbeatTimeout \in Nat
  /\ OfflineTimeout \in Nat /\ HeartbeatTimeout < OfflineTimeout
  /\ TypeOf \in [Workers -> Types]

VARIABLE registry    \* _registry, UNSPECIFIED for an id that is not in it

\* last_heartbeat as an age in ticks; past OfflineTimeout all are alike.
Silent == OfflineTimeout + 1
Ages   == 0..Silent

NoEntry == [status |-> "UNSPECIFIED", age |-> 0, load |-> 0]
Entry   == {NoEntry} \cup [status : {"ACTIVE", "UNHEALTHY", "OFFLINE"}, age : Ages,
                           load : 0..MaxLoad]

TypeOK == registry \in [Workers -> Entry]

Registered(w) == registry[w].status # "UNSPECIFIED"

Init == registry = [w \in Workers |-> NoEntry]
-----------------------------------------------------------------------------
\* Mutant: the registration of a worker that has an entry counts as a heartbeat.
RegisterOnce(w) ==
  registry' = [registry EXCEPT ![w] =
                 [status |-> IF @.status = "UNSPECIFIED" THEN "ACTIVE" ELSE @.status,
                  age |-> 0, load |-> 0]]

RegisterWorker(w) ==
  registry' = [registry EXCEPT ![w] = [status |-> "ACTIVE", age |-> 0, load |-> 0]]

\* Mutant: a heartbeat leaves the status as it is.
HeardUnrecovered(status) == status

\* A heartbeat takes an UNHEALTHY worker back; an OFFLINE one stays OFFLINE.
Heard(status) == IF status = "UNHEALTHY" THEN "ACTIVE" ELSE status

\* Mutant: the heartbeat of an unknown worker leaves an entry.
HeartbeatUnchecked(w, load) ==
  registry' = [registry EXCEPT ![w] =
                 [status |-> Heard(@.status), age |-> 0, load |-> load]]

\* The call succeeds for a registered worker ...
Heartbeat(w, load) ==
  /\ Registered(w)
  /\ registry' = [registry EXCEPT ![w] =
                    [status |-> Heard(@.status), age |-> 0, load |-> load]]

\* ... and changes nothing, with success=false, for an unknown one.
HeartbeatUnknown(w) == ~Registered(w) /\ UNCHANGED registry

\* DeregisterWorker; of an unknown worker it changes nothing.
DeregisterWorker(w) == registry' = [registry EXCEPT ![w] = NoEntry]

\* LookupWorker: the workers a dispatcher is offered for a task type.
LookupWorker(ty) == {w \in Workers : registry[w].status = "ACTIVE" /\ TypeOf[w] = ty}

\* Mutant: the two thresholds are tested in the wrong order.
CheckedUnordered(e) ==
  IF e.age > HeartbeatTimeout THEN [e EXCEPT !.status = "UNHEALTHY"]
  ELSE IF e.age > OfflineTimeout THEN [e EXCEPT !.status = "OFFLINE"]
  ELSE e

\* Mutant: a worker counts as silent at the threshold already.
CheckedAtOnce(e) ==
  IF e.age >= OfflineTimeout THEN [e EXCEPT !.status = "OFFLINE"]
  ELSE IF e.age >= HeartbeatTimeout THEN [e EXCEPT !.status = "UNHEALTHY"]
  ELSE e

\* What the health checker makes of an entry.  It goes by the age alone, so it
\* also turns OFFLINE into UNHEALTHY.
Checked(e) ==
  IF e.age > OfflineTimeout THEN [e EXCEPT !.status = "OFFLINE"]
  ELSE IF e.age > HeartbeatTimeout THEN [e EXCEPT !.status = "UNHEALTHY"]
  ELSE e

\* One pass of _check_worker_health over the registered workers.
HealthCheck ==
  registry' = [w \in Workers |-> IF Registered(w) THEN Checked(registry[w]) ELSE NoEntry]

Restart == registry' = [w \in Workers |-> NoEntry]

\* Time passes for every registered worker.
Tick ==
  registry' = [w \in Workers |->
                 IF Registered(w) /\ registry[w].age < Silent
                 THEN [registry[w] EXCEPT !.age = @ + 1] ELSE registry[w]]

Next ==
  \/ \E w \in Workers :
       \/ RegisterWorker(w)
       \/ \E load \in 0..MaxLoad : Heartbeat(w, load)
       \/ HeartbeatUnknown(w)
       \/ DeregisterWorker(w)
  \/ HealthCheck
  \/ Restart
  \/ Tick

Spec == Init /\ [][Next]_registry
-----------------------------------------------------------------------------
\* The checker runs every second and time passes; nobody has to call.
FairSpec == Spec /\ WF_registry(HealthCheck) /\ WF_registry(Tick)

\* Whatever the order of heartbeats, registrations and checks, no worker that was
\* heard of within the heartbeat timeout is kept from the dispatcher, unless it
\* has been written off before.
HeardIsOffered ==
  \A w \in Workers :
    /\ registry[w].status \notin {"UNSPECIFIED", "OFFLINE"}
    /\ registry[w].age <= HeartbeatTimeout
    => w \in LookupWorker(TypeOf[w])

\* A worker nobody hears of is written off, whatever its entry was before: it
\* ends up OFFLINE, unless it is heard of again or leaves the registry.
SilenceNoticed ==
  \A w \in Workers :
    Registered(w) ~> ~Registered(w) \/ registry[w].age = 0 \/ registry[w].status = "OFFLINE"

\* docs/interfaces.md describes OFFLINE as "no heartbeat for 90 s or more".  A
\* heartbeat recovers an UNHEALTHY entry only: a worker that was written off once
\* stays OFFLINE however often it is heard of.
OfflineMeansSilent ==
  \A w \in Workers : registry[w].status = "OFFLINE" => registry[w].age > OfflineTimeout
=============================================================================
