----------------------- MODULE CacheFailSafeProofs ------------------------
(***************************************************************************)
(* Theorems of CacheFailSafe for any set of builds, any budgets and every  *)
(* threshold.  Tells relates the one breaker to the two histories, however *)
(* lookups, writes and resets of different builds overlap; Books is the    *)
(* bookkeeping of the metrics.  The lemmas about CircuitBreaker say what    *)
(* each operation does to the breaker.                                     *)
(***************************************************************************)
EXTENDS CacheFailSafe, FiniteSetTheorems, TLAPS

(* Type correctness, without the bound on skip_counter. *)
Typed ==
  /\ policy \in Policy
  /\ breaker \in Breaker
  /\ metrics \in [Counters -> Nat]
  /\ pc \in [Builds -> {"idle", "looking", "building", "writing"}]
  /\ got \in [Builds -> {"none", "hit", "miss", "skipped", "fallback", "error"}]
  /\ lookedUp \in [Builds -> 0 .. BuildBudget]
  /\ resets \in 0 .. ResetBudget
  /\ refused \in Nat /\ failures \in Nat

(* An open circuit has counted the refusals since it opened, any other has
   refused nothing; a closed one has counted the failures, and is below its
   threshold, as is a half-open one with its probes.                       *)
Tells ==
  /\ breaker.skip_counter <= Effective(SkipRequests)
  /\ breaker.state = "open" => breaker.skip_counter = refused
  /\ breaker.state # "open" => refused = 0
  /\ breaker.state = "closed" => /\ breaker.failure_count = failures
                                 /\ failures < Effective(FailureThreshold)
  /\ breaker.state = "half_open" => breaker.success_count < Effective(SuccessThreshold)

Books == IsFiniteSet(Outstanding) /\ MetricsBalance /\ FailuresDegradeGracefully

IInv == Typed /\ Tells /\ Books

---------------------------------------------------------------------------
(* What the operators of CircuitBreaker do to the fields of a breaker.     *)

(* A threshold is at least one and fits a counter (the "effective_"
   thresholds of allow()).                                                 *)
LEMMA EffectiveBounds ==
  /\ Effective(FailureThreshold) \in 1 .. MaxU32
  /\ Effective(SkipRequests) \in 1 .. MaxU32
  /\ Effective(SuccessThreshold) \in 1 .. MaxU32
BY ThresholdAssumption DEF Effective

(* The fields after each change of state.                                  *)
LEMMA OpenFields ==
  ASSUME NEW b \in Breaker
  PROVE  /\ Open(b) \in Breaker
         /\ Open(b).state = "open" /\ Open(b).skip_counter = 0
         /\ Open(b).failure_count = b.failure_count
         /\ Open(b).success_count = b.success_count
BY DEF Open, Breaker, CircuitState

LEMMA HalfOpenFields ==
  ASSUME NEW b \in Breaker
  PROVE  /\ HalfOpen(b) \in Breaker
         /\ HalfOpen(b).state = "half_open" /\ HalfOpen(b).skip_counter = 0
         /\ HalfOpen(b).success_count = 0
         /\ HalfOpen(b).failure_count = b.failure_count
BY DEF HalfOpen, Breaker, CircuitState

LEMMA CloseFields ==
  ASSUME NEW b \in Breaker
  PROVE  /\ Close(b) \in Breaker
         /\ Close(b).state = "closed" /\ Close(b).failure_count = 0
         /\ Close(b).success_count = 0
         /\ Close(b).skip_counter = b.skip_counter
BY DEF Close, Breaker, CircuitState

(* allow() on an open circuit: it counts the refusal, or turns the circuit
   half-open and starts the probes from nothing.                           *)
LEMMA AllowWhenOpen ==
  ASSUME NEW b \in Breaker, b.state = "open"
  PROVE  /\ Allow(b) \in Breaker
         /\ Allow(b).failure_count = b.failure_count
         /\ ~Allows(b) => /\ Allow(b).state = "open"
                          /\ Allow(b).skip_counter = b.skip_counter + 1
                          /\ b.skip_counter < Effective(SkipRequests)
                          /\ Allow(b).success_count = b.success_count
         /\ Allows(b) => /\ Allow(b).state = "half_open"
                         /\ Allow(b).skip_counter = 0 /\ Allow(b).success_count = 0
<1> USE EffectiveBounds, ThresholdAssumption
<1>1. CASE SkippedEnough(b)
  <2>1. Allow(b) = HalfOpen(b) /\ Allows(b)
    BY <1>1 DEF Allow, Allows
  <2>2. QED
    BY <2>1, HalfOpenFields
<1>2. CASE ~SkippedEnough(b)
  <2>1. Allow(b) = [b EXCEPT !.skip_counter = @ + 1] /\ ~Allows(b)
    BY <1>2 DEF Allow, Allows, Breaker, CircuitState
  <2>2. b.skip_counter < Effective(SkipRequests)
    BY <1>2 DEF SkippedEnough, Breaker
  <2>3. QED
    BY <2>1, <2>2 DEF Breaker, CircuitState
<1>3. QED
  BY <1>1, <1>2

(* recordFailure: a closed circuit counts, and opens exactly at its
   threshold; a half-open one opens; an open one ignores it.               *)
LEMMA FailureRecorded ==
  ASSUME NEW b \in Breaker,
         b.state = "closed" => b.failure_count < Effective(FailureThreshold)
  PROVE  /\ RecordFailure(b) \in Breaker
         /\ b.state = "open" => RecordFailure(b) = b
         /\ b.state # "open" /\ RecordFailure(b).state = "open"
              => RecordFailure(b).skip_counter = 0
         /\ b.state = "half_open" => RecordFailure(b).state = "open"
         /\ b.state = "closed" =>
              /\ RecordFailure(b).failure_count = b.failure_count + 1
              /\ \/ /\ RecordFailure(b).state = "open"
                    /\ b.failure_count + 1 >= Effective(FailureThreshold)
                 \/ /\ RecordFailure(b).state = "closed"
                    /\ b.failure_count + 1 < Effective(FailureThreshold)
                    /\ RecordFailure(b).skip_counter = b.skip_counter
<1> USE EffectiveBounds, ThresholdAssumption
<1>1. CASE b.state = "closed"
  <2> DEFINE failed == [b EXCEPT !.failure_count = SaturatingInc(@)]
  <2>1. /\ failed \in Breaker /\ failed.state = "closed"
        /\ failed.failure_count = b.failure_count + 1
        /\ failed.skip_counter = b.skip_counter
    BY <1>1 DEF SaturatingInc, Breaker, CircuitState
  <2>2. /\ FailedEnough(failed) => RecordFailure(b) = Open(failed)
        /\ ~FailedEnough(failed) => RecordFailure(b) = failed
    BY <1>1 DEF RecordFailure
  <2> HIDE DEF failed
  <2>3. FailedEnough(failed) <=> b.failure_count + 1 >= Effective(FailureThreshold)
    BY <2>1 DEF FailedEnough
  <2>4. CASE FailedEnough(failed)
    BY <1>1, <2>1, <2>2, <2>3, <2>4, OpenFields
  <2>5. CASE ~FailedEnough(failed)
    BY <1>1, <2>1, <2>2, <2>3, <2>5 DEF Breaker
  <2>6. QED
    BY <2>4, <2>5
<1>2. CASE b.state = "half_open"
  <2>1. RecordFailure(b) = Open(b)
    BY <1>2 DEF RecordFailure
  <2>2. QED
    BY <1>2, <2>1, OpenFields
<1>3. CASE b.state = "open"
  BY <1>3 DEF RecordFailure
<1>4. QED
  BY <1>1, <1>2, <1>3 DEF Breaker, CircuitState

(* recordSuccess: a closed circuit forgets its failures, a half-open one
   counts a probe and closes exactly at its threshold; an open one ignores
   it.                                                                     *)
LEMMA SuccessRecorded ==
  ASSUME NEW b \in Breaker,
         b.state = "half_open" => b.success_count < Effective(SuccessThreshold)
  PROVE  /\ RecordSuccess(b) \in Breaker
         /\ RecordSuccess(b).skip_counter = b.skip_counter
         /\ b.state = "open" => RecordSuccess(b) = b
         /\ b.state = "closed" => /\ RecordSuccess(b).state = "closed"
                                  /\ RecordSuccess(b).failure_count = 0
         /\ b.state = "half_open" =>
              \/ /\ RecordSuccess(b).state = "closed"
                 /\ b.success_count + 1 >= Effective(SuccessThreshold)
                 /\ RecordSuccess(b).failure_count = 0
              \/ /\ RecordSuccess(b).state = "half_open"
                 /\ b.success_count + 1 < Effective(SuccessThreshold)
                 /\ RecordSuccess(b).success_count = b.success_count + 1
<1> USE EffectiveBounds, ThresholdAssumption
<1>1. CASE b.state = "half_open"
  <2> DEFINE probed == [b EXCEPT !.success_count = SaturatingInc(@)]
  <2>1. /\ probed \in Breaker /\ probed.state = "half_open"
        /\ probed.success_count = b.success_count + 1
        /\ probed.skip_counter = b.skip_counter
    BY <1>1 DEF SaturatingInc, Breaker, CircuitState
  <2>2. /\ ProbedEnough(probed) => RecordSuccess(b) = Close(probed)
        /\ ~ProbedEnough(probed) => RecordSuccess(b) = probed
    BY <1>1 DEF RecordSuccess
  <2> HIDE DEF probed
  <2>3. ProbedEnough(probed) <=> b.success_count + 1 >= Effective(SuccessThreshold)
    BY <2>1 DEF ProbedEnough
  <2>4. CASE ProbedEnough(probed)
    BY <1>1, <2>1, <2>2, <2>3, <2>4, CloseFields
  <2>5. CASE ~ProbedEnough(probed)
    BY <1>1, <2>1, <2>2, <2>3, <2>5 DEF Breaker
  <2>6. QED
    BY <2>4, <2>5
<1>2. CASE b.state = "closed"
  <2>1. RecordSuccess(b) = [b EXCEPT !.failure_count = 0]
    BY <1>2 DEF RecordSuccess
  <2>2. QED
    BY <1>2, <2>1 DEF Breaker, CircuitState
<1>3. CASE b.state = "open"
  BY <1>3 DEF RecordSuccess
<1>4. QED
  BY <1>1, <1>2, <1>3 DEF Breaker, CircuitState

---------------------------------------------------------------------------
(* The breaker and its history, operation by operation.                    *)

LEMMA Refused ==
  ASSUME Typed, Tells, ~Allows(breaker),
         breaker' = Allow(breaker), refused' = refused + 1, failures' = failures
  PROVE  breaker' \in Breaker /\ Tells' /\ ~(breaker.state = "closed" /\ breaker'.state = "open")
<1>1. breaker.state = "open"
  BY EffectiveBounds DEF Typed, Tells, Allows, FailedEnough, Breaker, CircuitState
<1>2. QED
  BY <1>1, AllowWhenOpen, EffectiveBounds DEF Typed, Tells, Breaker

LEMMA Admitted ==
  ASSUME Typed, Tells, Allows(breaker),
         breaker' = Allow(breaker), refused' = 0, failures' = failures
  PROVE  breaker' \in Breaker /\ Tells' /\ ~(breaker.state = "closed" /\ breaker'.state = "open")
<1>1. CASE breaker.state = "open"
  BY <1>1, AllowWhenOpen, EffectiveBounds DEF Typed, Tells, Breaker
<1>2. CASE breaker.state # "open"
  <2>1. Allow(breaker) = breaker
    BY <1>2, EffectiveBounds
    DEF Allow, Typed, Tells, FailedEnough, ProbedEnough, Breaker, CircuitState
  <2>2. QED
    BY <1>2, <2>1 DEF Typed, Tells
<1>3. QED
  BY <1>1, <1>2

LEMMA RecordedOk ==
  ASSUME Typed, Tells, RecordOk, refused' = refused
  PROVE  breaker' \in Breaker /\ Tells' /\ ~(breaker.state = "closed" /\ breaker'.state = "open")
<1>1. breaker' = RecordSuccess(breaker) /\ failures' = 0
  BY DEF RecordOk
<1>2. breaker \in Breaker
  BY DEF Typed
<1>3. QED
  BY <1>1, <1>2, SuccessRecorded, EffectiveBounds DEF Tells, Breaker, CircuitState

LEMMA RecordedBad ==
  ASSUME Typed, Tells, RecordBad, refused' = refused
  PROVE  /\ breaker' \in Breaker /\ Tells'
         /\ breaker.state = "closed" /\ breaker'.state = "open"
              => failures' >= Effective(FailureThreshold)
<1>1. breaker' = RecordFailure(breaker) /\ failures' = failures + 1
  BY DEF RecordBad
<1>2. breaker \in Breaker /\ failures \in Nat
  BY DEF Typed
<1>3. QED
  BY <1>1, <1>2, FailureRecorded, EffectiveBounds DEF Tells, Breaker, CircuitState

---------------------------------------------------------------------------
(* What every step does to the breaker: it keeps Typed and Tells, and opens
   a closed circuit only at its threshold.                                 *)
Opens == breaker.state = "closed" /\ breaker'.state = "open"

LEMMA BreakerStep ==
  ASSUME Typed, Tells, [Next]_vars
  PROVE  Typed' /\ Tells' /\ (Opens => failures' >= Effective(FailureThreshold))
<1> USE DEF Opens
<1>1. ASSUME NEW b \in Builds, LookupDisabled(b)
      PROVE  Typed' /\ Tells' /\ ~Opens
  BY <1>1, CacheAssumption DEF LookupDisabled, BeginsLookup, Goto, Gets, Typed, Tells
<1>2. ASSUME NEW b \in Builds, LookupRefused(b)
      PROVE  Typed' /\ Tells' /\ ~Opens
  <2>1. breaker' \in Breaker /\ Tells' /\ ~Opens
    BY <1>2, Refused DEF LookupRefused, BeginsLookup
  <2>2. QED
    BY <1>2, <2>1, CacheAssumption DEF LookupRefused, BeginsLookup, Goto, Gets, Typed
<1>3. ASSUME NEW b \in Builds, LookupAdmitted(b)
      PROVE  Typed' /\ Tells' /\ ~Opens
  <2>1. breaker' \in Breaker /\ Tells' /\ ~Opens
    BY <1>3, Admitted DEF LookupAdmitted, BeginsLookup
  <2>2. QED
    BY <1>3, <2>1, CacheAssumption DEF LookupAdmitted, BeginsLookup, Goto, Gets, Count, Typed
<1>4. ASSUME NEW b \in Builds, LookupHits(b) \/ LookupMisses(b)
      PROVE  Typed' /\ Tells' /\ ~Opens
  <2>1. breaker' \in Breaker /\ Tells' /\ ~Opens /\ failures' = 0
    BY <1>4, RecordedOk DEF LookupHits, LookupMisses, RecordOk
  <2>2. QED
    BY <1>4, <2>1 DEF LookupHits, LookupMisses, Goto, Gets, Count, Typed
<1>5. ASSUME NEW b \in Builds, LookupFails(b)
      PROVE  Typed' /\ Tells' /\ (Opens => failures' >= Effective(FailureThreshold))
  <2>1. /\ breaker' \in Breaker /\ Tells' /\ failures' = failures + 1
        /\ Opens => failures' >= Effective(FailureThreshold)
    BY <1>5, RecordedBad DEF LookupFails, RecordBad
  <2>2. QED
    BY <1>5, <2>1 DEF LookupFails, Goto, Gets, Count, Typed
<1>6. ASSUME NEW b \in Builds, BuildEnds(b)
      PROVE  Typed' /\ Tells' /\ ~Opens
  BY <1>6 DEF BuildEnds, Goto, Typed, Tells
<1>7. ASSUME NEW b \in Builds, WriteEnds(b)
      PROVE  Typed' /\ Tells' /\ (Opens => failures' >= Effective(FailureThreshold))
  <2>1. /\ breaker' \in Breaker /\ Tells' /\ failures' \in Nat
        /\ Opens => failures' >= Effective(FailureThreshold)
    BY <1>7, RecordedOk, RecordedBad DEF WriteEnds, RecordOk, RecordBad, Typed
  <2>2. QED
    BY <1>7, <2>1 DEF WriteEnds, Goto, Typed
<1>8. CASE ResetCircuit
  <2>1. /\ breaker' \in Breaker /\ breaker'.state = "closed" /\ breaker'.failure_count = 0
        /\ breaker'.skip_counter = breaker.skip_counter
    BY <1>8 DEF ResetCircuit, Typed, Breaker, CircuitState
  <2>2. QED
    BY <1>8, <2>1, EffectiveBounds, CacheAssumption DEF ResetCircuit, Typed, Tells
<1>9. CASE UNCHANGED vars
  BY <1>9 DEF vars, Typed, Tells
<1>10. QED
  BY <1>1, <1>2, <1>3, <1>4, <1>5, <1>6, <1>7, <1>8, <1>9 DEF Next

---------------------------------------------------------------------------
(* The metrics.  A lookup that goes out is one more outstanding, one that
   comes back one fewer.                                                   *)

LEMMA GoesOut ==
  ASSUME Typed, IsFiniteSet(Outstanding), NEW b \in Builds,
         pc[b] # "looking", Goto(b, "looking")
  PROVE  IsFiniteSet(Outstanding') /\ Cardinality(Outstanding') = Cardinality(Outstanding) + 1
<1>1. Outstanding' = Outstanding \cup {b} /\ b \notin Outstanding
  BY DEF Outstanding, Goto, Typed
<1>2. QED
  BY <1>1, FS_AddElement

LEMMA ComesBack ==
  ASSUME Typed, IsFiniteSet(Outstanding), NEW b \in Builds, NEW to,
         pc[b] = "looking", to # "looking", Goto(b, to)
  PROVE  IsFiniteSet(Outstanding') /\ Cardinality(Outstanding') = Cardinality(Outstanding) - 1
<1>1. Outstanding' = Outstanding \ {b} /\ b \in Outstanding
  BY DEF Outstanding, Goto, Typed
<1>2. QED
  BY <1>1, FS_RemoveElement

LEMMA MovesOn ==
  ASSUME Typed, NEW b \in Builds, NEW to,
         pc[b] # "looking", to # "looking", Goto(b, to)
  PROVE  Outstanding' = Outstanding
BY DEF Outstanding, Goto, Typed

LEMMA BooksStep ==
  ASSUME Typed, Books, [Next]_vars
  PROVE  Books'
<1> DEFINE N == Cardinality(Outstanding)
<1>1. N \in Nat /\ IsFiniteSet(Outstanding)
  BY FS_CardinalityType DEF Books
<1>2. ASSUME NEW b \in Builds, LookupDisabled(b) \/ LookupRefused(b)
      PROVE  Books'
  <2>1. Outstanding' = Outstanding
    BY <1>2, MovesOn DEF LookupDisabled, LookupRefused, BeginsLookup
  <2>2. QED
    BY <1>2, <2>1 DEF LookupDisabled, LookupRefused, BeginsLookup, Gets, Typed, Books,
                      MetricsBalance, FailuresDegradeGracefully
<1>3. ASSUME NEW b \in Builds, LookupAdmitted(b)
      PROVE  Books'
  <2>1. IsFiniteSet(Outstanding') /\ Cardinality(Outstanding') = N + 1
    BY <1>1, <1>3, GoesOut DEF LookupAdmitted, BeginsLookup
  <2> HIDE DEF N
  <2>2. MetricsBalance'
    BY <1>1, <1>3, <2>1
    DEF LookupAdmitted, BeginsLookup, Count, Counters, Typed, Books, MetricsBalance, N
  <2>3. FailuresDegradeGracefully'
    BY <1>3 DEF LookupAdmitted, BeginsLookup, Count, Counters, Gets, Typed, Books,
                FailuresDegradeGracefully
  <2>4. QED
    BY <2>1, <2>2, <2>3 DEF Books
<1>4. ASSUME NEW b \in Builds, LookupHits(b) \/ LookupMisses(b) \/ LookupFails(b)
      PROVE  Books'
  <2>1. IsFiniteSet(Outstanding') /\ Cardinality(Outstanding') = N - 1
    BY <1>1, <1>4, ComesBack DEF LookupHits, LookupMisses, LookupFails
  <2> HIDE DEF N
  <2>2. MetricsBalance'
    BY <1>1, <1>4, <2>1
    DEF LookupHits, LookupMisses, LookupFails, Count, Counters, Typed, Books, MetricsBalance, N
  <2>3. FailuresDegradeGracefully'
    BY <1>4 DEF LookupHits, LookupMisses, LookupFails, Count, Counters, Gets, Typed, Books,
                FailuresDegradeGracefully
  <2>4. QED
    BY <2>1, <2>2, <2>3 DEF Books
<1>5. ASSUME NEW b \in Builds, BuildEnds(b) \/ WriteEnds(b)
      PROVE  Books'
  <2>1. Outstanding' = Outstanding
    BY <1>5, MovesOn DEF BuildEnds, WriteEnds, ShouldWriteCache
  <2>2. QED
    BY <1>5, <2>1 DEF BuildEnds, WriteEnds, Books, MetricsBalance, FailuresDegradeGracefully
<1>6. CASE ResetCircuit \/ UNCHANGED vars
  BY <1>6 DEF ResetCircuit, vars, Books, MetricsBalance, FailuresDegradeGracefully, Outstanding
<1>7. QED
  BY <1>2, <1>3, <1>4, <1>5, <1>6 DEF Next

---------------------------------------------------------------------------
LEMMA Inductive ==
  Spec => []IInv /\ [][Opens => failures' >= Effective(FailureThreshold)]_vars
<1>1. Init => IInv
  <2> SUFFICES ASSUME Init PROVE IInv
    OBVIOUS
  <2>1. Typed /\ Tells
    BY EffectiveBounds, CacheAssumption
    DEF Init, Typed, Tells, NewBreaker, Breaker, CircuitState, Counters
  <2>2. Outstanding = {}
    BY DEF Init, Outstanding
  <2>3. Books
    BY <2>2, FS_EmptySet
    DEF Init, Books, MetricsBalance, FailuresDegradeGracefully, Counters
  <2>4. QED
    BY <2>1, <2>3 DEF IInv
<1>2. IInv /\ [Next]_vars => IInv' /\ [Opens => failures' >= Effective(FailureThreshold)]_vars
  BY BreakerStep, BooksStep DEF IInv
<1>3. QED
  BY <1>1, <1>2, PTL DEF Spec

(* The types, and with them that the unguarded increment of skip_counter
   stays below skip_requests however many builds share the breaker.        *)
THEOREM TypeCorrect == Spec => []TypeOK
<1>1. IInv => TypeOK
  BY DEF IInv, Typed, Tells, TypeOK
<1>2. QED
  BY <1>1, Inductive, PTL

(* The counters of CacheMetrics add up, lookups in flight included, for any
   number of builds.                                                       *)
THEOREM MetricsAlwaysBalance == Spec => []MetricsBalance
<1>1. IInv => MetricsBalance
  BY DEF IInv, Books
<1>2. QED
  BY <1>1, Inductive, PTL

(* A build is failed by the cache only under .required.                    *)
THEOREM CacheNeverBreaksBuild == Spec => []FailuresDegradeGracefully
<1>1. IInv => FailuresDegradeGracefully
  BY DEF IInv, Books
<1>2. QED
  BY <1>1, Inductive, PTL

(* A circuit never refuses more than skip_requests lookups in a row,
   although writes, late lookups and resets touch it while it is open.     *)
THEOREM ColdSpellsBounded == Spec => []ColdSpellBounded
<1>1. IInv => ColdSpellBounded
  BY EffectiveBounds DEF IInv, Typed, Tells, Breaker, ColdSpellBounded
<1>2. QED
  BY <1>1, Inductive, PTL

(* A closed circuit has counted every failure since the last success, and
   they are fewer than failure_threshold.                                  *)
THEOREM OutagesOpenCircuit == Spec => []OutageOpensCircuit
<1>1. IInv => OutageOpensCircuit
  BY DEF IInv, Tells, OutageOpensCircuit
<1>2. QED
  BY <1>1, Inductive, PTL

(* And it opens only when they are as many.                                *)
THEOREM OpensOnlyOnOutages == Spec => OpensOnlyOnOutage
BY Inductive, PTL DEF OpensOnlyOnOutage, Opens
===========================================================================
