------------------------- MODULE NameServiceProofs -------------------------
(* Theorems about the name service, for any set of workers and any two      *)
(* thresholds of which the first is the smaller.                           *)
EXTENDS NameService, TLAPS

\* An entry that is not ACTIVE has been silent, or was written off.
Sound(e) == e.status = "UNHEALTHY" => e.age > HeartbeatTimeout

RegistryInv == TypeOK /\ \A w \in Workers : Sound(registry[w])

LEMMA EntryTypes ==
  /\ NoEntry \in Entry
  /\ \A st \in {"ACTIVE", "UNHEALTHY", "OFFLINE"}, a \in Ages, n \in 0..MaxLoad :
       [status |-> st, age |-> a, load |-> n] \in Entry
  /\ \A e \in Entry : e.status # "UNSPECIFIED" =>
       /\ e.status \in {"ACTIVE", "UNHEALTHY", "OFFLINE"}
       /\ e.age \in Ages
       /\ e.load \in 0..MaxLoad
       /\ e = [status |-> e.status, age |-> e.age, load |-> e.load]
BY DEF Entry, NoEntry

\* What a call or the checker makes of an entry is an entry again, and sound.
LEMMA Fresh ==
  ASSUME NEW st \in {"ACTIVE", "OFFLINE"}, NEW n \in 0..MaxLoad
  PROVE  /\ [status |-> st, age |-> 0, load |-> n] \in Entry
         /\ Sound([status |-> st, age |-> 0, load |-> n])
<1>1. 0 \in Ages
  BY NameServiceAssumption DEF Ages, Silent
<1> QED
  BY <1>1, EntryTypes DEF Sound

LEMMA CheckedSound ==
  ASSUME NEW e \in Entry, e.status # "UNSPECIFIED", Sound(e)
  PROVE  Checked(e) \in Entry /\ Sound(Checked(e))
<1>1. \A x \in {"UNHEALTHY", "OFFLINE"} :
        [e EXCEPT !.status = x] = [status |-> x, age |-> e.age, load |-> e.load]
  BY EntryTypes
<1>2. \A x \in {"UNHEALTHY", "OFFLINE"} : [e EXCEPT !.status = x] \in Entry
  <2>1. \A x \in {"UNHEALTHY", "OFFLINE"} :
          [status |-> x, age |-> e.age, load |-> e.load] \in Entry
    BY EntryTypes
  <2> QED
    BY <1>1, <2>1
<1>3. CASE e.age > OfflineTimeout
  BY <1>1, <1>2, <1>3 DEF Checked, Sound
<1>4. CASE ~(e.age > OfflineTimeout) /\ e.age > HeartbeatTimeout
  BY <1>1, <1>2, <1>4 DEF Checked, Sound
<1>5. CASE ~(e.age > OfflineTimeout) /\ ~(e.age > HeartbeatTimeout)
  BY <1>5 DEF Checked
<1> QED
  BY <1>3, <1>4, <1>5

LEMMA AgedSound ==
  ASSUME NEW e \in Entry, e.status # "UNSPECIFIED", Sound(e), e.age < Silent
  PROVE  [e EXCEPT !.age = @ + 1] \in Entry /\ Sound([e EXCEPT !.age = @ + 1])
<1>1. e.age \in Ages /\ e.age + 1 \in Ages /\ e.age \in Nat
  BY EntryTypes, NameServiceAssumption DEF Ages, Silent
<1>2. [e EXCEPT !.age = @ + 1] =
        [status |-> e.status, age |-> e.age + 1, load |-> e.load]
  BY EntryTypes
<1>3. [status |-> e.status, age |-> e.age + 1, load |-> e.load] \in Entry
  BY <1>1, EntryTypes
<1> QED
  BY <1>1, <1>2, <1>3, NameServiceAssumption DEF Sound

LEMMA EmptySound == NoEntry \in Entry /\ Sound(NoEntry)
BY EntryTypes DEF NoEntry, Sound

LEMMA RegistryInit == Init => RegistryInv
BY EmptySound DEF Init, RegistryInv, TypeOK

\* One entry is replaced.
LEMMA OneEntry ==
  ASSUME RegistryInv, NEW w \in Workers, NEW e \in Entry, Sound(e),
         registry' = [registry EXCEPT ![w] = e]
  PROVE  RegistryInv'
BY DEF RegistryInv, TypeOK

LEMMA RegistryStep == RegistryInv /\ [Next]_registry => RegistryInv'
<1> SUFFICES ASSUME RegistryInv, [Next]_registry PROVE RegistryInv'
  OBVIOUS
<1>0. \A w \in Workers : registry[w] \in Entry /\ Sound(registry[w])
  BY DEF RegistryInv, TypeOK
<1>1. ASSUME NEW w \in Workers, RegisterWorker(w) PROVE RegistryInv'
  <2> DEFINE e == [status |-> "ACTIVE", age |-> 0, load |-> 0]
  <2>1. 0 \in 0..MaxLoad
    BY NameServiceAssumption
  <2>2. e \in Entry /\ Sound(e)
    BY <2>1, Fresh
  <2>3. registry' = [registry EXCEPT ![w] = e]
    BY <1>1 DEF RegisterWorker
  <2> HIDE DEF e
  <2> QED
    BY <2>2, <2>3, OneEntry
<1>2. ASSUME NEW w \in Workers, NEW n \in 0..MaxLoad, Heartbeat(w, n) PROVE RegistryInv'
  <2>1. Heard(registry[w].status) \in {"ACTIVE", "OFFLINE"}
    BY <1>0, <1>2, EntryTypes DEF Heartbeat, Registered, Heard
  <2> DEFINE e == [status |-> Heard(registry[w].status), age |-> 0, load |-> n]
  <2>2. e \in Entry /\ Sound(e)
    BY <2>1, Fresh
  <2>3. registry' = [registry EXCEPT ![w] = e]
    BY <1>2 DEF Heartbeat
  <2> HIDE DEF e
  <2> QED
    BY <2>2, <2>3, OneEntry
<1>3. ASSUME NEW w \in Workers, DeregisterWorker(w) PROVE RegistryInv'
  BY <1>3, EmptySound, OneEntry DEF DeregisterWorker
<1>4. CASE HealthCheck
  <2>1. \A w \in Workers : registry'[w] \in Entry /\ Sound(registry'[w])
    BY <1>0, <1>4, CheckedSound, EmptySound DEF HealthCheck, Registered
  <2> QED
    BY <1>4, <2>1 DEF HealthCheck, RegistryInv, TypeOK
<1>5. CASE Tick
  <2>1. \A w \in Workers : registry'[w] \in Entry /\ Sound(registry'[w])
    <3> SUFFICES ASSUME NEW w \in Workers
                 PROVE  registry'[w] \in Entry /\ Sound(registry'[w])
      OBVIOUS
    <3>1. CASE Registered(w) /\ registry[w].age < Silent
      <4>1. registry'[w] = [registry[w] EXCEPT !.age = @ + 1]
        BY <1>5, <3>1 DEF Tick
      <4> QED
        BY <1>0, <3>1, <4>1, AgedSound DEF Registered
    <3>2. CASE ~(Registered(w) /\ registry[w].age < Silent)
      BY <1>0, <1>5, <3>2 DEF Tick
    <3> QED
      BY <3>1, <3>2
  <2> QED
    BY <1>5, <2>1 DEF Tick, RegistryInv, TypeOK
<1>6. CASE Restart
  BY <1>6, EmptySound DEF Restart, RegistryInv, TypeOK
<1>7. CASE UNCHANGED registry
  BY <1>7 DEF RegistryInv, TypeOK
<1>8. ASSUME NEW w \in Workers, HeartbeatUnknown(w) PROVE RegistryInv'
  BY <1>7, <1>8 DEF HeartbeatUnknown
<1> QED
  BY <1>1, <1>2, <1>3, <1>4, <1>5, <1>6, <1>7, <1>8 DEF Next

LEMMA RegistryAlways == Spec => []RegistryInv
BY RegistryInit, RegistryStep, PTL DEF Spec

\* The registry keeps its type.
THEOREM TypeCorrect == Spec => []TypeOK
<1>1. RegistryInv => TypeOK
  BY DEF RegistryInv
<1> QED
  BY <1>1, RegistryAlways, PTL

\* A worker that was heard of within the heartbeat timeout is offered to the
\* dispatcher, unless it has been written off.
THEOREM HeardWorkersOffered == Spec => []HeardIsOffered
<1>1. RegistryInv => HeardIsOffered
  <2> SUFFICES ASSUME RegistryInv, NEW w \in Workers,
                      registry[w].status \notin {"UNSPECIFIED", "OFFLINE"},
                      registry[w].age <= HeartbeatTimeout
               PROVE  w \in LookupWorker(TypeOf[w])
    BY DEF HeardIsOffered
  <2>1. registry[w] \in Entry /\ Sound(registry[w])
    BY DEF RegistryInv, TypeOK
  <2>2. registry[w].status \in {"ACTIVE", "UNHEALTHY"} /\ registry[w].age \in Nat
    BY <2>1, EntryTypes, NameServiceAssumption DEF Ages, Silent
  <2>3. registry[w].status = "ACTIVE"
    BY <2>1, <2>2, NameServiceAssumption DEF Sound
  <2> QED
    BY <2>3 DEF LookupWorker
<1> QED
  BY <1>1, RegistryAlways, PTL
=============================================================================
