--------------------------- MODULE HandlersProofs ---------------------------
(* Proof that handle_prime is right, for every number. *)
EXTENDS Handlers, FiniteSetTheorems, WellFoundedInduction, TLAPS

\* What a remainder of zero means.
LEMMA DividesMeans ==
  ASSUME NEW n \in Nat, NEW d \in Nat \ {0}
  PROVE  n % d = 0 <=> \E q \in Nat : n = d * q
<1>1. n = d * (n \div d) + (n % d) /\ n \div d \in Nat /\ n % d \in 0..(d - 1)
  BY SMT
<1>2. ASSUME NEW q \in Nat, n = d * q PROVE n % d = 0
  BY <1>2, SMT
<1>3. n % d = 0 => n = d * (n \div d)
  BY <1>1, SMT
<1> QED BY <1>1, <1>2, <1>3

\* An odd number has no even divisor.
LEMMA OddHasNoEvenDivisor ==
  ASSUME NEW n \in Nat, n % 2 # 0, NEW d \in Nat \ {0}, d % 2 = 0
  PROVE  n % d # 0
<1>1. SUFFICES ASSUME n % d = 0 PROVE FALSE
  OBVIOUS
<1>2. PICK q \in Nat : n = d * q
  BY <1>1, DividesMeans
<1>3. PICK e \in Nat : d = 2 * e
  BY DividesMeans, SMT
<1>4. n = 2 * (e * q) /\ e * q \in Nat
  BY <1>2, <1>3, SMT
<1> HIDE <1>2, <1>3
<1> QED BY <1>4, DividesMeans, SMT

\* When no number below k divides n and k * k exceeds n, n is prime: of two
\* factors of n one would be below k.
LEMMA SquareRootSuffices ==
  ASSUME NEW n \in Nat, n > 2, NEW k \in Nat, k > 2, k * k > n,
         \A d \in 2..(k - 1) : n % d # 0
  PROVE  IsPrime(n)
<1>1. SUFFICES ASSUME NEW d \in 2..(n - 1), n % d = 0 PROVE FALSE
  BY DEF IsPrime
<1>2. d \in Nat /\ d > 1 /\ d < n
  OBVIOUS
<1>3. PICK q \in Nat : n = d * q
  BY <1>1, <1>2, DividesMeans
<1>4. q > 1 /\ q <= n
  <2>1. q # 0 BY <1>2, <1>3, SMT
  <2>2. q # 1 BY <1>2, <1>3, SMT
  <2>3. q > 1 BY <2>1, <2>2
  <2>4. d * q >= q BY <1>2, SMT
  <2> QED BY <2>3, <2>4, <1>3
<1>5. n % q = 0
  <2>1. n = q * d BY <1>2, <1>3, SMT
  <2> QED BY <2>1, <1>2, <1>4, DividesMeans
<1>6. d >= k
  BY <1>1, <1>2
<1>7. q >= k
  <2>1. SUFFICES ASSUME q < k PROVE FALSE
    OBVIOUS
  <2>2. q \in 2..(k - 1)
    BY <1>4, <2>1
  <2> QED BY <1>5, <2>2
<1>8. d * q >= k * k
  <2>1. d * q >= k * q BY <1>2, <1>6, SMT
  <2>2. k * q >= k * k BY <1>7, SMT
  <2> QED BY <1>2, <2>1, <2>2
<1> QED BY <1>3, <1>8

\* A number that a smaller one divides is not prime.
LEMMA DividedIsNotPrime ==
  ASSUME NEW n \in Nat, NEW k \in Nat, k > 2, k * k <= n, n % k = 0
  PROVE  ~IsPrime(n)
<1>1. k < k * k
  BY SMT
<1>2. k \in 2..(n - 1)
  BY <1>1
<1> QED BY <1>2 DEF IsPrime

LEMMA SmallDecided ==
  ASSUME NEW n \in Int, n <= 2 \/ n % 2 = 0
  PROVE  (n = 2) = IsPrime(n)
<1>1. CASE n < 2
  BY <1>1 DEF IsPrime
<1>2. CASE n = 2
  BY <1>2 DEF IsPrime
<1>3. CASE n > 2
  <2>1. 2 \in 2..(n - 1) BY <1>3
  <2> QED BY <1>3, <2>1 DEF IsPrime
<1> QED BY <1>1, <1>2, <1>3
-----------------------------------------------------------------------------
\* What handle_prime has established before it tries divisor i: i is odd, and no
\* smaller number divides.
PrimeLoop ==
  pc = "prime" =>
    /\ task.type = "prime"
    /\ i \in Nat /\ i > 2 /\ i % 2 # 0
    /\ OddPrimeCandidate => \A d \in 2..(i - 1) : Whole % d # 0

\* The thread runs the handler of the task's type.
Handling ==
  /\ pc \in HANDLERS => task.type = pc
  /\ pc = "sleeping" => task.type = "wait"
  /\ pc = "done" /\ task.type = "prime" /\ worker_type = "prime" /\ Whole \in Numbers
       => answer = Result(IsPrime(Whole))

PrimeInv == PrimeLoop /\ Handling

LEMMA NumbersAreInt == Numbers \subseteq Int
BY HandlersAssumption

LEMMA PrimeInit == Init => PrimeInv
BY DEF Init, PrimeInv, PrimeLoop, Handling, HANDLERS, NoTask

LEMMA PrimeStart ==
  ASSUME NEW ty \in HANDLERS \cup {"unsupported"}, NEW payload \in Payloads,
         Start(ty, payload)
  PROVE  PrimeInv'
<1>1. CASE ty = worker_type /\ ty \in HANDLERS
  <2>1. pc' = ty /\ task'.type = ty /\ (ty = "prime" => i' = 3)
    BY <1>1 DEF Start
  <2>2. PrimeLoop'
    <3> SUFFICES ASSUME ty = "prime" PROVE PrimeLoop'
      BY <2>1 DEF PrimeLoop
    <3>1. i' = 3 /\ task'.type = "prime"
      BY <2>1
    <3>2. OddPrimeCandidate' => \A d \in 2..2 : Whole' % d # 0
      BY DEF OddPrimeCandidate
    <3> QED BY <3>1, <3>2 DEF PrimeLoop
  <2> QED BY <1>1, <2>1, <2>2 DEF PrimeInv, Handling, HANDLERS
<1>2. CASE ~(ty = worker_type /\ ty \in HANDLERS)
  <2>1. pc' = "done" /\ task'.type = ty /\ worker_type' = worker_type
    BY <1>2 DEF Start
  <2>2. ~(task'.type = "prime" /\ worker_type' = "prime")
    BY <1>2, <2>1 DEF HANDLERS
  <2> QED BY <2>1, <2>2 DEF PrimeInv, PrimeLoop, Handling, HANDLERS
<1> QED BY <1>1, <1>2

\* A step that ends the handler of another type.
LEMMA OtherDone ==
  ASSUME PrimeInv, pc \in (HANDLERS \ {"prime"}) \cup {"sleeping"},
         NEW a, Finish(a)
  PROVE  PrimeInv'
BY DEF PrimeInv, PrimeLoop, Handling, Finish, HANDLERS

LEMMA PrimeEnds ==
  ASSUME PrimeInv, pc = "prime", Whole \notin Numbers \/ answer' = Result(IsPrime(Whole)),
         NEW a, Finish(a)
  PROVE  PrimeInv'
<1>1. Whole' = Whole
  BY DEF Finish, Whole
<1> QED BY <1>1 DEF PrimeInv, PrimeLoop, Handling, Finish, HANDLERS

LEMMA PrimeStepInv ==
  ASSUME PrimeInv, PrimeStep
  PROVE  PrimeInv'
<1>0. pc = "prime"
  BY DEF PrimeStep, PrimeInvalid, PrimeSmall, PrimeDivides, PrimeNext, PrimeDone, OddPrimeCandidate
<1>1. CASE PrimeInvalid
  BY <1>0, <1>1, PrimeEnds DEF PrimeInvalid
<1>2. CASE PrimeSmall
  <2>1. (Whole = 2) = IsPrime(Whole)
    BY <1>2, SmallDecided, NumbersAreInt DEF PrimeSmall
  <2>2. answer' = Result(IsPrime(Whole))
    BY <1>2, <2>1 DEF PrimeSmall, Finish
  <2> QED BY <1>0, <1>2, <2>2, PrimeEnds DEF PrimeSmall
<1>3. ASSUME OddPrimeCandidate
      PROVE  /\ Whole \in Nat /\ Whole > 2 /\ Whole % 2 # 0
             /\ i \in Nat /\ i > 2 /\ i % 2 # 0 /\ task.type = "prime"
             /\ \A d \in 2..(i - 1) : Whole % d # 0
  BY <1>0, <1>3, NumbersAreInt DEF OddPrimeCandidate, PrimeInv, PrimeLoop
<1>4. CASE PrimeDivides
  <2>1. ~IsPrime(Whole)
    BY <1>3, <1>4, DividedIsNotPrime DEF PrimeDivides
  <2>2. IsPrime(Whole) = FALSE
    BY <2>1 DEF IsPrime
  <2>3. answer' = Result(IsPrime(Whole))
    BY <1>4, <2>2 DEF PrimeDivides, Finish
  <2> QED BY <1>0, <1>4, <2>3, PrimeEnds DEF PrimeDivides
<1>5. CASE PrimeDone
  <2>1. IsPrime(Whole)
    BY <1>3, <1>5, SquareRootSuffices DEF PrimeDone
  <2>2. IsPrime(Whole) = TRUE
    BY <2>1 DEF IsPrime
  <2>3. answer' = Result(IsPrime(Whole))
    BY <1>5, <2>2 DEF PrimeDone, Finish
  <2> QED BY <1>0, <1>5, <2>3, PrimeEnds DEF PrimeDone
<1>6. CASE PrimeNext
  <2> DEFINE n == Whole
  <2>1. n \in Nat /\ n % 2 # 0 /\ i \in Nat /\ i > 2 /\ i % 2 # 0 /\ n % i # 0
    BY <1>3, <1>6 DEF PrimeNext
  <2>2. \A d \in 2..(i - 1) : n % d # 0
    BY <1>3, <1>6 DEF PrimeNext
  <2>3. i' = i + 2 /\ Whole' = n /\ task' = task /\ pc' = "prime"
    BY <1>0, <1>6 DEF PrimeNext, NextDivisor, Whole
  <2> HIDE DEF n
  <2>4. (i + 1) % 2 = 0 /\ (i + 2) % 2 # 0
    BY <2>1, SMT
  <2>5. n % (i + 1) # 0
    <3> DEFINE e == i + 1
    <3>1. e \in Nat \ {0} /\ e % 2 = 0
      BY <2>1, <2>4
    <3> HIDE DEF e
    <3>2. n % e # 0
      BY <2>1, <3>1, OddHasNoEvenDivisor
    <3> QED BY <3>2 DEF e
  <2>6. ASSUME NEW d \in 2..(i + 2 - 1) PROVE n % d # 0
    <3>1. d \in 2..(i - 1) \/ d = i \/ d = i + 1
      BY <2>1
    <3> QED BY <3>1, <2>1, <2>2, <2>5
  <2>7. i' \in Nat /\ i' > 2 /\ i' % 2 # 0
    BY <2>1, <2>3, <2>4
  <2>8. \A d \in 2..(i' - 1) : Whole' % d # 0
    <3>1. i' = i + 2 /\ Whole' = n
      BY <2>3
    <3>2. SUFFICES ASSUME NEW d \in 2..(i' - 1) PROVE n % d # 0
      BY <3>1
    <3>3. d \in 2..(i + 2 - 1)
      BY <3>1, <2>1
    <3> QED BY <2>6, <3>3
  <2>9. task.type = "prime"
    BY <1>0 DEF PrimeInv, PrimeLoop
  <2> QED BY <2>3, <2>7, <2>8, <2>9 DEF PrimeInv, PrimeLoop, Handling, HANDLERS
<1> QED BY <1>1, <1>2, <1>4, <1>5, <1>6, PrimeStep DEF PrimeStep

\* Steps of the other handlers that do not end them.
LEMMA OtherGoesOn ==
  ASSUME PrimeInv, SumBlank \/ SumNumber \/ WaitSleep
  PROVE  PrimeInv'
<1>1. CASE SumBlank
  BY <1>1 DEF SumBlank, PrimeInv, PrimeLoop, Handling, HANDLERS
<1>2. CASE SumNumber
  BY <1>2 DEF SumNumber, PrimeInv, PrimeLoop, Handling, HANDLERS
<1>3. CASE WaitSleep
  BY <1>3 DEF WaitSleep, PrimeInv, PrimeLoop, Handling, HANDLERS
<1> QED BY <1>1, <1>2, <1>3

LEMMA PrimeNextInv ==
  ASSUME PrimeInv, [Next]_vars
  PROVE  PrimeInv'
<1>1. ASSUME NEW ty \in HANDLERS \cup {"unsupported"}, NEW payload \in Payloads,
             Start(ty, payload)
      PROVE  PrimeInv'
  BY <1>1, PrimeStart
<1>2. CASE Convert
  BY <1>2, OtherDone DEF Convert
<1>3. CASE SumStep
  <2>1. CASE SumInvalid BY <2>1, OtherDone DEF SumInvalid, HANDLERS
  <2>2. CASE SumDone    BY <2>2, OtherDone DEF SumDone, HANDLERS
  <2> QED BY <1>3, <2>1, <2>2, OtherGoesOn DEF SumStep
<1>4. CASE WaitStep
  <2>1. CASE WaitRefused BY <2>1, OtherDone DEF WaitRefused, HANDLERS
  <2>2. CASE WaitOver    BY <2>2, OtherDone DEF WaitOver
  <2> QED BY <1>4, <2>1, <2>2, OtherGoesOn DEF WaitStep
<1>5. CASE PrimeStep
  BY <1>5, PrimeStepInv
<1>6. CASE Return
  BY <1>6 DEF Return, PrimeInv, PrimeLoop, Handling, HANDLERS
<1>7. CASE UNCHANGED vars
  BY <1>7 DEF vars, PrimeInv, PrimeLoop, Handling, OddPrimeCandidate, Whole
<1> QED BY <1>1, <1>2, <1>3, <1>4, <1>5, <1>6, <1>7 DEF Next, Step

\* The answer of handle_prime is right for every number, of any size.
THEOREM PrimeCorrect == Spec => []PrimeDecided
<1>1. PrimeInv => PrimeDecided
  BY DEF PrimeInv, Handling, PrimeDecided
<1> QED BY PrimeInit, PrimeNextInv, <1>1, PTL DEF Spec
-----------------------------------------------------------------------------
LEMMA MinimalSubset ==
  ASSUME NEW S, IsFiniteSet(S), NEW B \in SUBSET (SUBSET S), B # {}
  PROVE  \E t \in B : \A u \in B : u \subseteq t => u = t
<1>1. IsWellFoundedOn(StrictSubsetOrdering(S), SUBSET S)
  BY FS_StrictSubsetOrderingWellFounded, FS_FiniteSubsetsOfFinite
<1> DEFINE R == StrictSubsetOrdering(S)
<1>2. PICK t \in B : \A u \in B : ~(<<u, t>> \in R)
  <2> HIDE DEF R
  <2> QED BY <1>1, WFMin DEF R
<1> QED BY <1>2 DEF StrictSubsetOrdering

First(s) == CHOOSE x \in s : TRUE
Unfolds(f, T, g) ==
  g = [s \in SUBSET T |-> IF s = {} THEN 0 ELSE f[First(s)] + g[s \ {First(s)}]]

LEMMA FirstIsOne == ASSUME NEW s, s # {} PROVE First(s) \in s
BY DEF First

LEMMA SumIsUnfolding ==
  ASSUME NEW f, NEW S PROVE SumOver(f, S) = (CHOOSE g : Unfolds(f, S, g))[S]
BY DEF SumOver, MapThenSumSet, MapThenFoldSet, First, Unfolds

LEMMA UnfoldingStep ==
  ASSUME NEW f, NEW T, NEW g, Unfolds(f, T, g), NEW s \in SUBSET T
  PROVE  g[s] = IF s = {} THEN 0 ELSE f[First(s)] + g[s \ {First(s)}]
<1> DEFINE r == [t \in SUBSET T |-> IF t = {} THEN 0 ELSE f[First(t)] + g[t \ {First(t)}]]
<1>1. g = r
  BY DEF Unfolds
<1>2. r[s] = IF s = {} THEN 0 ELSE f[First(s)] + g[s \ {First(s)}]
  OBVIOUS
<1> HIDE DEF r
<1> QED BY <1>1, <1>2

LEMMA UnfoldingUnique ==
  ASSUME NEW f, NEW T, IsFiniteSet(T), NEW U \in SUBSET T,
         NEW g, Unfolds(f, T, g), NEW h, Unfolds(f, U, h)
  PROVE  \A s \in SUBSET U : g[s] = h[s]
<1> DEFINE B == {s \in SUBSET U : g[s] # h[s]}
<1>1. SUFFICES ASSUME B # {} PROVE FALSE
  OBVIOUS
<1>2. B \in SUBSET (SUBSET U) /\ IsFiniteSet(U)
  BY FS_Subset
<1>3. PICK s \in B : \A u \in B : u \subseteq s => u = s
  <2> HIDE DEF B
  <2> QED BY <1>1, <1>2, MinimalSubset
<1>4. CASE s = {}
  <2>1. g[s] = 0 /\ h[s] = 0
    BY <1>4, UnfoldingStep
  <2> QED BY <2>1
<1>5. CASE s # {}
  <2> DEFINE r == s \ {First(s)}
  <2>1. r \subseteq s /\ r # s /\ r \in SUBSET U /\ r \in SUBSET T
    BY <1>5, FirstIsOne
  <2>2. g[r] = h[r]
    BY <1>3, <2>1
  <2>3. g[s] = f[First(s)] + g[r] /\ h[s] = f[First(s)] + h[r]
    <3>1. s \in SUBSET U /\ s \in SUBSET T OBVIOUS
    <3> QED BY <1>5, <3>1, UnfoldingStep
  <2> QED BY <2>2, <2>3
<1> QED BY <1>4, <1>5

LEMMA UnfoldingExists ==
  ASSUME NEW f, NEW S, IsFiniteSet(S) PROVE \E g : Unfolds(f, S, g)
<1> DEFINE B == {t \in SUBSET S : ~\E g : Unfolds(f, t, g)}
<1>1. SUFFICES ASSUME B # {} PROVE FALSE
  OBVIOUS
<1>2. PICK t \in B : \A u \in B : u \subseteq t => u = t
  <2>1. B \in SUBSET (SUBSET S) OBVIOUS
  <2> HIDE DEF B
  <2> QED BY <1>1, <2>1, MinimalSubset
<1> DEFINE V(u) == (CHOOSE g : Unfolds(f, u, g))[u]
           W(u) == IF u = {} THEN 0 ELSE f[First(u)] + V(u \ {First(u)})
           r == [u \in SUBSET t |-> W(u)]
<1>3. ASSUME NEW u \in SUBSET t, u # t PROVE V(u) = W(u)
  <2> DEFINE gu == CHOOSE g : Unfolds(f, u, g)
             v == u \ {First(u)}
             gv == CHOOSE g : Unfolds(f, v, g)
  <2>1. u \in SUBSET S /\ u \notin B
    BY <1>2, <1>3
  <2>2. Unfolds(f, u, gu)
    BY <2>1
  <2>3. CASE u = {}
    <3> HIDE DEF gu
    <3> QED BY <2>2, <2>3, UnfoldingStep DEF gu
  <2>4. CASE u # {}
    <3>1. v \in SUBSET S /\ v \in SUBSET u /\ v # t /\ v \subseteq t
      BY <2>1, <2>4, <1>3, FirstIsOne
    <3>2. v \notin B
      BY <1>2, <3>1
    <3>3. Unfolds(f, v, gv)
      BY <3>1, <3>2
    <3>4. IsFiniteSet(u)
      BY <2>1, FS_Subset
    <3>5. gu[v] = gv[v]
      <4> HIDE DEF gu, gv, v
      <4> QED BY <2>2, <3>1, <3>3, <3>4, UnfoldingUnique
    <3>6. gu[u] = f[First(u)] + gu[v]
      <4> HIDE DEF gu
      <4> QED BY <2>2, <2>4, UnfoldingStep
    <3>7. V(u) = gu[u] /\ V(v) = gv[v] /\ W(u) = f[First(u)] + V(v)
      BY <2>4
    <3> HIDE DEF gu, gv, v, V, W
    <3> QED BY <3>5, <3>6, <3>7
  <2> QED BY <2>3, <2>4
<1>4. \A u \in SUBSET t : r[u] = W(u)
  OBVIOUS
<1>5. ASSUME NEW u \in SUBSET t
      PROVE  W(u) = IF u = {} THEN 0 ELSE f[First(u)] + r[u \ {First(u)}]
  <2>1. CASE u = {}
    BY <2>1
  <2>2. CASE u # {}
    <3> DEFINE v == u \ {First(u)}
    <3>1. v \in SUBSET t /\ v # t
      BY <2>2, FirstIsOne
    <3>2. r[v] = V(v)
      <4> HIDE DEF V, W, r, v
      <4> QED BY <1>3, <1>4, <3>1
    <3> HIDE DEF V, r
    <3> QED BY <2>2, <3>2
  <2> QED BY <2>1, <2>2
<1>6. Unfolds(f, t, r)
  <2> HIDE DEF W
  <2>1. [u \in SUBSET t |-> W(u)]
        = [u \in SUBSET t |-> IF u = {} THEN 0 ELSE f[First(u)] + r[u \ {First(u)}]]
    <3> HIDE DEF r
    <3> QED BY <1>5
  <2> QED BY <2>1 DEF Unfolds
<1> QED BY <1>6

LEMMA SumUnfolds ==
  ASSUME NEW f, NEW S, IsFiniteSet(S)
  PROVE  /\ S = {} => SumOver(f, S) = 0
         /\ S # {} => SumOver(f, S) = f[First(S)] + SumOver(f, S \ {First(S)})
<1> DEFINE g == CHOOSE g : Unfolds(f, S, g)
           U == S \ {First(S)}
           h == CHOOSE h : Unfolds(f, U, h)
<1>1. Unfolds(f, S, g) /\ g[S] = SumOver(f, S)
  BY UnfoldingExists, SumIsUnfolding
<1>2. Unfolds(f, U, h) /\ h[U] = SumOver(f, U)
  <2>1. IsFiniteSet(U) BY FS_Subset
  <2> HIDE DEF U
  <2> QED BY <2>1, UnfoldingExists, SumIsUnfolding
<1>3. U \in SUBSET S
  OBVIOUS
<1> HIDE DEF g, h
<1>4. g[U] = h[U]
  <2> HIDE DEF U
  <2>1. \A s \in SUBSET U : g[s] = h[s]
    BY <1>1, <1>2, <1>3, UnfoldingUnique
  <2> QED BY <2>1
<1>5. g[S] = IF S = {} THEN 0 ELSE f[First(S)] + g[U]
  BY <1>1, UnfoldingStep
<1> QED BY <1>1, <1>2, <1>4, <1>5

LEMMA SumType ==
  ASSUME NEW f, NEW S, IsFiniteSet(S), \A k \in S : f[k] \in Int
  PROVE  SumOver(f, S) \in Int
<1> DEFINE B == {t \in SUBSET S : SumOver(f, t) \notin Int}
<1>1. SUFFICES ASSUME B # {} PROVE FALSE
  OBVIOUS
<1>2. PICK t \in B : \A u \in B : u \subseteq t => u = t
  <2>1. B \in SUBSET (SUBSET S) OBVIOUS
  <2> HIDE DEF B
  <2> QED BY <1>1, <2>1, MinimalSubset
<1>3. t \in SUBSET S /\ IsFiniteSet(t) /\ SumOver(f, t) \notin Int
  BY FS_Subset
<1>4. t # {}
  <2>1. t = {} => SumOver(f, t) = 0
    BY <1>3, SumUnfolds
  <2> QED BY <1>3, <2>1
<1>5. SumOver(f, t \ {First(t)}) \in Int
  BY <1>2, <1>4, FirstIsOne
<1> QED BY <1>3, <1>4, <1>5, SumUnfolds, FirstIsOne

LEMMA SumCongruent ==
  ASSUME NEW f, NEW g, NEW S, IsFiniteSet(S), \A k \in S : f[k] = g[k]
  PROVE  SumOver(f, S) = SumOver(g, S)
<1> DEFINE B == {t \in SUBSET S : SumOver(f, t) # SumOver(g, t)}
<1>1. SUFFICES ASSUME B # {} PROVE FALSE
  OBVIOUS
<1>2. PICK t \in B : \A u \in B : u \subseteq t => u = t
  <2>1. B \in SUBSET (SUBSET S) OBVIOUS
  <2> HIDE DEF B
  <2> QED BY <1>1, <2>1, MinimalSubset
<1>3. t \in SUBSET S /\ IsFiniteSet(t) /\ SumOver(f, t) # SumOver(g, t)
  BY FS_Subset
<1>4. t # {}
  BY <1>3, SumUnfolds
<1>5. SumOver(f, t \ {First(t)}) = SumOver(g, t \ {First(t)})
  BY <1>2, <1>4, FirstIsOne
<1>6. f[First(t)] = g[First(t)]
  BY <1>3, <1>4, FirstIsOne
<1> QED BY <1>3, <1>4, <1>5, <1>6, SumUnfolds

LEMMA SumAdds ==
  ASSUME NEW f, NEW S, IsFiniteSet(S), NEW x \in S, \A k \in S : f[k] \in Int
  PROVE  SumOver(f, S) = f[x] + SumOver(f, S \ {x})
<1> DEFINE B == {t \in SUBSET S : \E y \in t : SumOver(f, t) # f[y] + SumOver(f, t \ {y})}
<1>1. SUFFICES ASSUME B # {} PROVE FALSE
  OBVIOUS
<1>2. PICK t \in B : \A u \in B : u \subseteq t => u = t
  <2>1. B \in SUBSET (SUBSET S) OBVIOUS
  <2> HIDE DEF B
  <2> QED BY <1>1, <2>1, MinimalSubset
<1>3. PICK y \in t : SumOver(f, t) # f[y] + SumOver(f, t \ {y})
  OBVIOUS
<1> DEFINE c == First(t)
           u == t \ {c}
           v == t \ {y}
           w == t \ {c, y}
<1>4. /\ t \in SUBSET S /\ t # {} /\ c \in t /\ y \in t
      /\ IsFiniteSet(t) /\ IsFiniteSet(u) /\ IsFiniteSet(v) /\ IsFiniteSet(w)
  <2>1. t \in SUBSET S /\ t # {} /\ c \in t /\ y \in t BY FirstIsOne
  <2>2. t \in SUBSET S /\ u \in SUBSET S /\ v \in SUBSET S /\ w \in SUBSET S BY <2>1
  <2> HIDE DEF u, v, w, c
  <2> QED BY <2>1, <2>2, FS_Subset
<1>5. SumOver(f, t) = f[c] + SumOver(f, u)
  BY <1>4, SumUnfolds
<1>6. c # y
  BY <1>3, <1>5
<1>7. SumOver(f, u) = f[y] + SumOver(f, w)
  <2>1. u \in SUBSET S /\ u \notin B /\ y \in u /\ w = u \ {y}
    BY <1>2, <1>4, <1>6
  <2> HIDE DEF c, w, u
  <2> QED BY <2>1
<1>8. SumOver(f, v) = f[c] + SumOver(f, w)
  <2>1. v \in SUBSET S /\ v \notin B /\ c \in v /\ w = v \ {c}
    BY <1>2, <1>4, <1>6
  <2> HIDE DEF c, w, v
  <2> QED BY <2>1
<1>9. f[c] \in Int /\ f[y] \in Int /\ SumOver(f, w) \in Int
  <2>1. \A k \in w : f[k] \in Int BY <1>4
  <2> HIDE DEF w, c
  <2> QED BY <1>4, <2>1, SumType
<1> HIDE DEF c, u, v, w
<1> QED BY <1>3, <1>5, <1>7, <1>8, <1>9 DEF v
-----------------------------------------------------------------------------
LEMMA TypeInit == Init => TypeOK
BY DEF Init, TypeOK, NoAnswer, NoTask, HANDLERS

\* A step that ends a handler keeps all but the place and the answer.
LEMMA TypeFinish ==
  ASSUME TypeOK, Finish(Failure) \/ \E r : Finish(Result(r))
  PROVE  TypeOK'
<1>1. answer'.success \in BOOLEAN
  <2>1. CASE Finish(Failure)
    BY <2>1 DEF Finish, Failure
  <2>2. CASE \E r : Finish(Result(r))
    BY <2>2 DEF Finish, Result
  <2> QED BY <2>1, <2>2
<1>2. pc' = "done" /\ UNCHANGED <<worker_type, task, i, numbers>>
  BY DEF Finish
<1> QED BY <1>1, <1>2 DEF TypeOK

LEMMA TypeNext ==
  ASSUME TypeOK, [Next]_vars
  PROVE  TypeOK'
<1>1. ASSUME NEW ty \in HANDLERS \cup {"unsupported"}, NEW payload \in Payloads,
             Start(ty, payload)
      PROVE  TypeOK'
  <2>1. task' = [type |-> ty, payload |-> payload] /\ i' \in Nat
    BY <1>1 DEF Start
  <2>2. pc' \in {"done"} \cup HANDLERS
    BY <1>1 DEF Start
  <2>3. answer' = answer \/ answer' = Failure
    BY <1>1 DEF Start
  <2>4. answer'.success \in BOOLEAN
    <3>1. Failure.success = FALSE
      BY DEF Failure
    <3>2. answer.success \in BOOLEAN
      BY DEF TypeOK
    <3> QED BY <2>3, <3>1, <3>2, Zenon
  <2> QED BY <1>1, <2>1, <2>2, <2>4 DEF TypeOK, Start
<1>2. CASE Convert
  BY <1>2, TypeFinish DEF Convert
<1>3. CASE SumStep
  <2>1. CASE SumBlank
    BY <2>1 DEF SumBlank, TypeOK
  <2>2. CASE SumNumber
    BY <2>2 DEF SumNumber, TypeOK
  <2>3. CASE SumInvalid
    BY <2>3, TypeFinish DEF SumInvalid
  <2>4. CASE SumDone
    BY <2>4, TypeFinish DEF SumDone
  <2> QED BY <1>3, <2>1, <2>2, <2>3, <2>4 DEF SumStep
<1>4. CASE WaitStep
  <2>1. CASE WaitRefused
    BY <2>1, TypeFinish DEF WaitRefused
  <2>2. CASE WaitSleep
    BY <2>2 DEF WaitSleep, TypeOK
  <2>3. CASE WaitOver
    BY <2>3, TypeFinish DEF WaitOver
  <2> QED BY <1>4, <2>1, <2>2, <2>3 DEF WaitStep
<1>5. CASE PrimeStep
  <2>1. CASE PrimeInvalid
    BY <2>1, TypeFinish DEF PrimeInvalid
  <2>2. CASE PrimeSmall
    BY <2>2, TypeFinish DEF PrimeSmall
  <2>3. CASE PrimeDivides
    BY <2>3, TypeFinish DEF PrimeDivides
  <2>4. CASE PrimeNext
    BY <2>4 DEF PrimeNext, NextDivisor, TypeOK
  <2>5. CASE PrimeDone
    BY <2>5, TypeFinish DEF PrimeDone
  <2> QED BY <1>5, <2>1, <2>2, <2>3, <2>4, <2>5 DEF PrimeStep
<1>6. CASE Return
  BY <1>6 DEF Return, TypeOK, NoAnswer
<1>7. CASE UNCHANGED vars
  BY <1>7 DEF vars, TypeOK
<1> QED BY <1>1, <1>2, <1>3, <1>4, <1>5, <1>6, <1>7 DEF Next, Step

\* Every variable of a task thread keeps its type: what handle_sum has parsed
\* are numbers and "nan" only, and the divisor of handle_prime stays a natural.
THEOREM TypeCorrect == Spec => []TypeOK
BY TypeInit, TypeNext, PTL DEF Spec
-----------------------------------------------------------------------------
\* What handle_wait has established: only a duration within the cap, or "nan", gets
\* as far as time.sleep; and each handler works on a task of its own type.
WaitInv ==
  /\ pc \in HANDLERS => task.type = pc
  /\ pc = "sleeping" => task.type = "wait" /\ Whole \in {NaN} \cup (Numbers \cap 0..max_seconds)
  /\ WaitDecided

LEMMA WholeIsPart == TypeOK /\ pc = "wait" => Whole \in Parts
<1> SUFFICES ASSUME TypeOK, Len(task.payload) = 1, pc = "wait", task # NoTask
             PROVE  task.payload[1] \in Parts
  BY DEF Whole, Parts, NoTask
<1>1. task.payload \in Seq(Parts)
  BY HandlersAssumption DEF TypeOK
<1> QED BY <1>1

LEMMA WaitNext ==
  ASSUME TypeOK, WaitInv, [Next]_vars
  PROVE  WaitInv'
<1> USE DEF WaitInv, WaitDecided
<1>1. ASSUME NEW ty \in HANDLERS \cup {"unsupported"}, NEW payload \in Payloads,
             Start(ty, payload)
      PROVE  WaitInv'
  BY <1>1 DEF Start, HANDLERS
<1>2. CASE Convert \/ SumStep \/ PrimeStep
  <2>1. task.type # "wait" /\ UNCHANGED task /\ (pc' = pc \/ pc' = "done")
    BY <1>2 DEF Convert, SumStep, SumBlank, SumNumber, SumInvalid, SumDone, PrimeStep,
       PrimeInvalid, PrimeSmall, PrimeDivides, PrimeNext, PrimeDone, OddPrimeCandidate,
       Finish, HANDLERS
  <2> QED BY <2>1, <1>2 DEF HANDLERS, Convert, SumStep, SumBlank, SumNumber, SumInvalid,
       SumDone, PrimeStep, PrimeInvalid, PrimeSmall, PrimeDivides, PrimeNext, PrimeDone,
       OddPrimeCandidate
<1>3. CASE WaitRefused
  <2>1. Whole' = Whole /\ Whole \notin Numbers \cap 0..max_seconds
    BY <1>3, HandlersAssumption DEF WaitRefused, Finish, Whole, Negative, TooLong
  <2> QED BY <1>3, <2>1 DEF WaitRefused, Finish, HANDLERS
<1>4. CASE WaitSleep
  <2>1. Whole' = Whole /\ Whole \in {NaN} \cup Numbers
    BY <1>4, WholeIsPart DEF WaitSleep, Whole, Parts
  <2>2. Whole \in {NaN} \cup (Numbers \cap 0..max_seconds)
    <3>1. Whole \in Numbers => ~(Whole < 0) /\ ~(Whole > max_seconds)
      BY <1>4 DEF WaitSleep, Negative, TooLong
    <3>2. ASSUME NEW x \in Numbers, ~(x < 0), ~(x > max_seconds) PROVE x \in 0..max_seconds
      BY <3>2, HandlersAssumption
    <3> QED BY <2>1, <3>1, <3>2
  <2> QED BY <1>4, <2>1, <2>2 DEF WaitSleep, HANDLERS
<1>5. CASE WaitOver
  <2>1. Whole' = Whole /\ (Whole = NaN => Whole \notin Numbers \cap 0..max_seconds)
    BY <1>5, HandlersAssumption DEF WaitOver, Finish, Whole
  <2> QED BY <1>5, <2>1 DEF WaitOver, Finish, HANDLERS
<1>6. CASE Return
  BY <1>6 DEF Return, HANDLERS
<1>7. CASE UNCHANGED vars
  BY <1>7 DEF vars, Whole
<1> QED BY <1>1, <1>2, <1>3, <1>4, <1>5, <1>6, <1>7 DEF Next, Step, WaitStep

\* handle_wait reports a wait for exactly the durations from zero to its cap: "nan"
\* gets past both of its tests and is caught where time.sleep raises.
THEOREM WaitCorrect == Spec => []WaitDecided
<1>1. Init => WaitInv
  BY DEF Init, WaitInv, WaitDecided, HANDLERS
<1>2. WaitInv => WaitDecided
  BY DEF WaitInv
<1> QED BY <1>1, <1>2, TypeCorrect, WaitNext, PTL DEF Spec
-----------------------------------------------------------------------------
\* The valid parts of the payload among its first n.
ValidParts(n) == {k \in 1..n : task.payload[k] \in Numbers \cup {NaN}}

\* What handle_sum has established before part i: none of the parts before it is
\* junk, and it has parsed the valid ones of them: as many, with the same sum.
SumLoop ==
  pc = "sum" =>
    /\ task.type = "sum"
    /\ i \in 1..(Len(task.payload) + 1)
    /\ \A k \in 1..(i - 1) : task.payload[k] # Junk
    /\ numbers = <<>> <=> ValidParts(i - 1) = {}
    /\ (\E k \in DOMAIN numbers : numbers[k] = NaN)
         <=> (\E k \in ValidParts(i - 1) : task.payload[k] = NaN)
    /\ (\A k \in DOMAIN numbers : numbers[k] # NaN)
         => SumOver(numbers, DOMAIN numbers) = SumOver(task.payload, ValidParts(i - 1))

SumInv ==
  /\ TypeOK
  /\ pc = "idle" => numbers = <<>>
  /\ SumLoop
  /\ SumComplete

LEMMA SumInit == Init => SumInv
BY TypeInit DEF Init, SumInv, SumLoop, SumComplete, HANDLERS

\* A task that names handle_sum comes with a payload.
LEMMA SumPayload ==
  ASSUME TypeOK, task.type = "sum"
  PROVE  task.payload \in Seq(Parts)
BY HandlersAssumption DEF TypeOK, NoTask

\* A sequence with one more element: what the sum of its elements becomes.
LEMMA SumAppend ==
  ASSUME NEW ns \in Seq(Int), NEW v \in Int
  PROVE  SumOver(Append(ns, v), DOMAIN Append(ns, v)) = v + SumOver(ns, DOMAIN ns)
<1> DEFINE ms == Append(ns, v)
           n == Len(ns)
<1>1. /\ n \in Nat /\ DOMAIN ns = 1..n /\ DOMAIN ms = 1..(n + 1)
      /\ ms[n + 1] = v /\ \A k \in 1..n : ms[k] = ns[k] /\ ms[k] \in Int
  OBVIOUS
<1>2. IsFiniteSet(1..n) /\ IsFiniteSet(1..(n + 1))
  BY <1>1, FS_Interval
<1>3. n + 1 \in 1..(n + 1) /\ (1..(n + 1)) \ {n + 1} = 1..n
  BY <1>1
<1> HIDE DEF ms, n
<1>4. \A k \in 1..(n + 1) : ms[k] \in Int
  BY <1>1
<1>5. SumOver(ms, 1..(n + 1)) = ms[n + 1] + SumOver(ms, 1..n)
  <2> DEFINE I == 1..(n + 1)
  <2>1. IsFiniteSet(I) /\ n + 1 \in I /\ \A k \in I : ms[k] \in Int
    BY <1>2, <1>3, <1>4
  <2> HIDE DEF I
  <2>2. SumOver(ms, I) = ms[n + 1] + SumOver(ms, I \ {n + 1})
    BY <2>1, SumAdds
  <2> QED BY <1>3, <2>2 DEF I
<1>6. SumOver(ms, 1..n) = SumOver(ns, 1..n)
  BY <1>1, <1>2, SumCongruent
<1> QED BY <1>1, <1>5, <1>6 DEF ms

LEMMA SumStart ==
  ASSUME SumInv, TypeOK', NEW ty \in HANDLERS \cup {"unsupported"}, NEW payload \in Payloads,
         Start(ty, payload)
  PROVE  SumInv'
<1>1. pc = "idle" /\ numbers' = <<>> /\ pc' # "idle" /\ worker_type' = worker_type
  BY DEF Start, SumInv, HANDLERS
<1>2. task' = [type |-> ty, payload |-> payload]
  BY DEF Start
<1>3. ASSUME pc' = "sum" PROVE SumLoop'
  <2>1. ty = "sum"
    BY <1>3 DEF Start
  <2>2. i' = 1
    BY <2>1 DEF Start
  <2>3. task'.type = "sum" /\ task'.payload \in Seq(Parts)
    BY <1>2, <2>1, HandlersAssumption
  <2>4. ValidParts(i - 1)' = {}
    BY <2>2 DEF ValidParts
  <2>5. DOMAIN numbers' = {} /\ numbers' = <<>>
    BY <1>1
  <2>6. SumOver(numbers', DOMAIN numbers') = SumOver(task'.payload, ValidParts(i - 1)')
    BY <2>4, <2>5, SumUnfolds, FS_EmptySet
  <2>7. i' \in 1..(Len(task'.payload) + 1) /\ 1..(i' - 1) = {}
    BY <2>2, <2>3
  <2>8. (\E k \in DOMAIN numbers' : numbers'[k] = NaN)
          <=> (\E k \in ValidParts(i - 1)' : task'.payload[k] = NaN)
    BY <2>4, <2>5
  <2> QED BY <2>3, <2>4, <2>5, <2>6, <2>7, <2>8 DEF SumLoop
<1>4. SumComplete'
  <2>1. ASSUME pc' = "done" PROVE ~(worker_type' = "sum" /\ task'.type = "sum")
    BY <1>1, <1>2, <2>1 DEF Start, HANDLERS
  <2> QED BY <2>1 DEF SumComplete
<1> QED BY <1>1, <1>3, <1>4 DEF SumInv, SumLoop

\* The part just parsed is one more valid part.
LEMMA SumNumberInv ==
  ASSUME SumInv, TypeOK', SumNumber
  PROVE  SumInv'
<1> DEFINE p == task.payload
           v == p[i]
           V == ValidParts(i - 1)
           NoNaN(ns) == \A k \in DOMAIN ns : ns[k] # NaN
<1>1. /\ task' = task /\ pc' = "sum" /\ pc = "sum" /\ i' = i + 1
      /\ numbers' = Append(numbers, v) /\ v \in Numbers \cup {NaN}
      /\ i \in 1..Len(p) /\ task.type = "sum" /\ p \in Seq(Parts)
      /\ numbers \in Seq(Numbers \cup {NaN})
  <2>1. pc = "sum" /\ TypeOK
    BY DEF SumNumber, SumInv
  <2>2. task.type = "sum" /\ i \in 1..(Len(p) + 1)
    BY <2>1 DEF SumInv, SumLoop
  <2>3. p \in Seq(Parts)
    BY <2>1, <2>2, SumPayload
  <2>4. i \in 1..Len(p)
    BY <2>2, <2>3 DEF SumNumber
  <2> QED BY <2>1, <2>2, <2>3, <2>4 DEF SumNumber, TypeOK
<1>2. /\ \A k \in 1..(i - 1) : p[k] # Junk
      /\ (\E k \in DOMAIN numbers : numbers[k] = NaN) <=> (\E k \in V : p[k] = NaN)
      /\ NoNaN(numbers) => SumOver(numbers, DOMAIN numbers) = SumOver(p, V)
  BY <1>1 DEF SumInv, SumLoop
<1>3. i' - 1 = i /\ i' \in 1..(Len(p) + 1) /\ i - 1 \in Nat /\ i \in Nat
  <2> DEFINE n == Len(p)
  <2>1. i' = i + 1 /\ i \in 1..n /\ n \in Nat
    BY <1>1
  <2> HIDE DEF n
  <2>2. i \in Nat /\ i >= 1 /\ i <= n
    BY <2>1
  <2>3. i' \in 1..(n + 1)
    BY <2>1, <2>2
  <2> QED BY <2>1, <2>2, <2>3 DEF n
<1>4. ValidParts(i) = V \cup {i} /\ i \notin V /\ i \in ValidParts(i)
  BY <1>1, <1>3 DEF ValidParts
<1>5. \A k \in 1..i : p[k] # Junk
  <2>1. v # Junk
    BY <1>1, HandlersAssumption
  <2>2. \A k \in 1..i : k = i \/ k \in 1..(i - 1)
    BY <1>3
  <2> QED BY <1>2, <2>1, <2>2
<1>6. numbers' # <<>> /\ ValidParts(i) # {}
  <2>1. Len(numbers') = Len(numbers) + 1 /\ Len(numbers) \in Nat
    BY <1>1
  <2> QED BY <1>4, <2>1
<1>7. NoNaN(numbers') <=> NoNaN(numbers) /\ v # NaN
  <2> DEFINE n == Len(numbers)
  <2>1. /\ n \in Nat /\ DOMAIN numbers = 1..n /\ DOMAIN numbers' = 1..(n + 1)
        /\ numbers'[n + 1] = v /\ \A k \in 1..n : numbers'[k] = numbers[k]
    BY <1>1
  <2>2. \A k \in 1..(n + 1) : k = n + 1 \/ k \in 1..n
    BY <2>1
  <2>3. n + 1 \in 1..(n + 1) /\ \A k \in 1..n : k \in 1..(n + 1)
    BY <2>1
  <2> HIDE DEF n
  <2> QED BY <2>1, <2>2, <2>3
<1>8. (\E k \in DOMAIN numbers' : numbers'[k] = NaN)
        <=> (\E k \in ValidParts(i) : p[k] = NaN)
  <2>1. (\E k \in ValidParts(i) : p[k] = NaN) <=> (\E k \in V : p[k] = NaN) \/ v = NaN
    BY <1>4
  <2> QED BY <1>2, <1>7, <2>1
<1>9. ASSUME NoNaN(numbers')
      PROVE  SumOver(numbers', DOMAIN numbers') = SumOver(p, ValidParts(i))
  <2>1. NoNaN(numbers) /\ v \in Int
    BY <1>1, <1>7, <1>9, HandlersAssumption
  <2>2. numbers \in Seq(Int)
    <3>1. DOMAIN numbers = 1..Len(numbers)
          /\ \A k \in 1..Len(numbers) : numbers[k] \in Numbers \cup {NaN}
      BY <1>1
    <3>2. \A k \in 1..Len(numbers) : numbers[k] \in Int
      BY <2>1, <3>1, HandlersAssumption
    <3> QED BY <1>1, <3>2
  <2>3. SumOver(numbers', DOMAIN numbers') = v + SumOver(numbers, DOMAIN numbers)
    BY <1>1, <2>1, <2>2, SumAppend
  <2>4. \A k \in ValidParts(i) : p[k] \in Int
    <3>1. \A k \in ValidParts(i) : p[k] \in Numbers \cup {NaN}
      BY DEF ValidParts
    <3>2. \A k \in ValidParts(i) : p[k] # NaN
      BY <1>8, <1>9
    <3> QED BY <3>1, <3>2, HandlersAssumption
  <2>5. IsFiniteSet(ValidParts(i))
    <3>1. IsFiniteSet(1..i)
      BY <1>3, FS_Interval
    <3> QED BY <3>1, FS_Subset DEF ValidParts
  <2>6. V = ValidParts(i) \ {i}
    BY <1>4
  <2> HIDE DEF V
  <2>7. SumOver(p, ValidParts(i)) = v + SumOver(p, V)
    BY <1>4, <2>4, <2>5, <2>6, SumAdds
  <2> QED BY <1>2, <2>1, <2>3, <2>7
<1>10. ValidParts(i - 1)' = ValidParts(i)
  BY <1>1, <1>3 DEF ValidParts
<1> HIDE DEF V
<1>11. SumLoop'
  BY <1>1, <1>3, <1>5, <1>6, <1>8, <1>9, <1>10 DEF SumLoop
<1> QED BY <1>1, <1>11 DEF SumInv, SumComplete

\* A blank part is no valid one.
LEMMA SumBlankInv ==
  ASSUME SumInv, TypeOK', SumBlank
  PROVE  SumInv'
<1> DEFINE p == task.payload
<1>1. /\ task' = task /\ pc' = "sum" /\ pc = "sum" /\ i' = i + 1
      /\ numbers' = numbers /\ p[i] = Blank
      /\ i \in 1..Len(p) /\ task.type = "sum" /\ p \in Seq(Parts)
  <2>1. pc = "sum" /\ TypeOK
    BY DEF SumBlank, SumInv
  <2>2. task.type = "sum" /\ i \in 1..(Len(p) + 1)
    BY <2>1 DEF SumInv, SumLoop
  <2>3. p \in Seq(Parts)
    BY <2>1, <2>2, SumPayload
  <2>4. i \in 1..Len(p)
    BY <2>2, <2>3 DEF SumBlank
  <2> QED BY <2>1, <2>2, <2>3, <2>4 DEF SumBlank
<1>2. i' - 1 = i /\ i' \in 1..(Len(p) + 1) /\ i - 1 \in Nat /\ i \in Nat
  BY <1>1
<1>3. \A k \in 1..i : k = i \/ k \in 1..(i - 1)
  BY <1>2
<1>4. Blank \notin Numbers \cup {NaN} /\ Blank # Junk
  BY HandlersAssumption
<1>5. \A k \in 1..i : p[k] # Junk
  BY <1>1, <1>3, <1>4 DEF SumInv, SumLoop
<1>6. ValidParts(i - 1)' = ValidParts(i - 1)
  <2>1. ValidParts(i) = ValidParts(i - 1)
    BY <1>1, <1>2, <1>3, <1>4 DEF ValidParts
  <2>2. ValidParts(i - 1)' = ValidParts(i)
    BY <1>1, <1>2 DEF ValidParts
  <2> QED BY <2>1, <2>2
<1>7. SumLoop'
  BY <1>1, <1>2, <1>5, <1>6 DEF SumInv, SumLoop
<1> QED BY <1>1, <1>7 DEF SumInv, SumComplete

\* The answer of handle_sum: all parts have been looked at.
LEMMA SumDoneInv ==
  ASSUME SumInv, TypeOK', SumDone
  PROVE  SumInv'
<1> DEFINE p == task.payload
           valid == {k \in DOMAIN p : p[k] \in Numbers \cup {NaN}}
<1>1. /\ task' = task /\ pc' = "done" /\ pc = "sum"
      /\ i \in 1..(Len(p) + 1) /\ i > Len(p) /\ task.type = "sum" /\ p \in Seq(Parts)
      /\ answer' = IF numbers = <<>> THEN Failure ELSE Result(Total(numbers))
  BY SumPayload DEF SumInv, SumLoop, SumDone, Finish
<1>2. i - 1 = Len(p) /\ DOMAIN p = 1..Len(p) /\ ValidParts(i - 1) = valid
  BY <1>1 DEF ValidParts
<1>3. /\ \A k \in DOMAIN p : p[k] # Junk
      /\ numbers = <<>> <=> valid = {}
      /\ (\E k \in DOMAIN numbers : numbers[k] = NaN) <=> (\E k \in valid : p[k] = NaN)
      /\ (\A k \in DOMAIN numbers : numbers[k] # NaN)
           => SumOver(numbers, DOMAIN numbers) = SumOver(p, valid)
  BY <1>1, <1>2 DEF SumInv, SumLoop
<1>4. Total(numbers) = IF \E k \in valid : p[k] = NaN THEN NaN ELSE SumOver(p, valid)
  BY <1>3 DEF Total
<1>5. SumComplete'
  BY <1>1, <1>3, <1>4 DEF SumComplete
<1> QED BY <1>1, <1>5 DEF SumInv, SumLoop

LEMMA SumInvalidInv ==
  ASSUME SumInv, TypeOK', SumInvalid
  PROVE  SumInv'
<1> DEFINE p == task.payload
<1>1. /\ task' = task /\ pc' = "done" /\ answer' = Failure /\ p[i] = Junk
      /\ i \in DOMAIN p
  <2>1. pc = "sum" /\ i <= Len(p)
    BY DEF SumInvalid
  <2>2. task.type = "sum" /\ i \in 1..(Len(p) + 1) /\ p \in Seq(Parts)
    BY <2>1, SumPayload DEF SumInv, SumLoop
  <2> QED BY <2>1, <2>2 DEF SumInvalid, Finish
<1> QED BY <1>1 DEF SumInv, SumLoop, SumComplete

\* A step of another handler, or after the last.
LEMMA SumOther ==
  ASSUME SumInv, TypeOK', PrimeInv,
         Convert \/ WaitStep \/ PrimeStep \/ Return \/ UNCHANGED vars
  PROVE  SumInv'
<1>1. ASSUME pc # "sum", pc \notin {"idle", "done"}, UNCHANGED <<worker_type, task, numbers>>,
             pc' = pc \/ pc' = "sleeping" \/ pc' = "done", task.type # "sum"
      PROVE  SumInv'
  BY <1>1 DEF SumInv, SumLoop, SumComplete, TypeOK
<1>2. CASE Convert
  BY <1>1, <1>2 DEF Convert, Finish, PrimeInv, Handling, HANDLERS
<1>3. CASE WaitStep
  BY <1>1, <1>3 DEF WaitStep, WaitRefused, WaitSleep, WaitOver, Finish, PrimeInv, Handling,
     HANDLERS
<1>4. CASE PrimeStep
  BY <1>1, <1>4 DEF PrimeStep, PrimeInvalid, PrimeSmall, PrimeDivides, PrimeNext,
     PrimeDone, OddPrimeCandidate, Finish, PrimeInv, Handling, HANDLERS
<1>5. CASE Return
  BY <1>5 DEF Return, SumInv, SumLoop, SumComplete
<1>6. CASE UNCHANGED vars
  BY <1>6 DEF vars, SumInv, SumLoop, SumComplete, ValidParts
<1> QED BY <1>2, <1>3, <1>4, <1>5, <1>6

LEMMA SumNext ==
  ASSUME SumInv, PrimeInv, [Next]_vars
  PROVE  SumInv'
<1>1. TypeOK'
  BY TypeNext DEF SumInv
<1>2. ASSUME NEW ty \in HANDLERS \cup {"unsupported"}, NEW payload \in Payloads,
             Start(ty, payload)
      PROVE  SumInv'
  BY <1>1, <1>2, SumStart
<1>3. CASE SumStep
  BY <1>1, <1>3, SumBlankInv, SumNumberInv, SumInvalidInv, SumDoneInv DEF SumStep
<1>4. CASE Convert \/ WaitStep \/ PrimeStep \/ Return \/ UNCHANGED vars
  BY <1>1, <1>4, SumOther
<1> QED BY <1>2, <1>3, <1>4 DEF Next, Step

\* handle_sum's answer covers every number of a payload, of any length and
\* whatever blank parts are in it, and is a failure exactly when a part is no
\* number or none is there.
THEOREM SumCorrect == Spec => []SumComplete
<1>1. SumInv => SumComplete
  BY DEF SumInv
<1> QED BY PrimeInit, PrimeNextInv, SumInit, SumNext, <1>1, PTL DEF Spec
=============================================================================
