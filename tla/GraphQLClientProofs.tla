----------------------- MODULE GraphQLClientProofs ------------------------
(***************************************************************************)
(* Theorems of GraphQLClient for every set of tasks and clients, every     *)
(* retry policy and every threshold.  IInv is the inductive invariant of   *)
(* the breaker: what it adds to the properties is that a breaker and its   *)
(* history belong together (Good) and that a query under way keeps its     *)
(* client's circuit from being open.                                       *)
(***************************************************************************)
EXTENDS GraphQLClient, TLAPS

(* A breaker whose fields are in bounds and tell the history s. *)
Good(b, s) ==
  /\ CountersInBounds(b)
  /\ Reflects(b, s)
  /\ Run(s, "refused") <= Effective(SkipRequests)

---------------------------------------------------------------------------
(* What the operators of CircuitBreaker do to the fields of a breaker.     *)

(* A threshold is at least one and fits a counter (the "effective_"
   thresholds of allow()).                                                 *)
LEMMA EffectiveBounds ==
  /\ Effective(FailureThreshold) \in 1 .. MaxU32
  /\ Effective(SkipRequests) \in 1 .. MaxU32
  /\ Effective(SuccessThreshold) \in 1 .. MaxU32
BY ThresholdAssumption DEF Effective

(* The fields after each change of state.                                  *)
LEMMA OpenFields ==
  ASSUME NEW b \in Breaker
  PROVE  /\ Open(b) \in Breaker
         /\ Open(b).state = "open" /\ Open(b).skip_counter = 0
         /\ Open(b).failure_count = b.failure_count
         /\ Open(b).success_count = b.success_count
BY DEF Open, Breaker, CircuitState

LEMMA HalfOpenFields ==
  ASSUME NEW b \in Breaker
  PROVE  /\ HalfOpen(b) \in Breaker
         /\ HalfOpen(b).state = "half_open" /\ HalfOpen(b).skip_counter = 0
         /\ HalfOpen(b).success_count = 0
         /\ HalfOpen(b).failure_count = b.failure_count
BY DEF HalfOpen, Breaker, CircuitState

LEMMA CloseFields ==
  ASSUME NEW b \in Breaker
  PROVE  /\ Close(b) \in Breaker
         /\ Close(b).state = "closed" /\ Close(b).failure_count = 0
         /\ Close(b).success_count = 0
         /\ Close(b).skip_counter = b.skip_counter
BY DEF Close, Breaker, CircuitState

(* allow, recordSuccess and recordFailure keep a breaker a breaker, whatever
   its fields.                                                             *)
LEMMA BreakerTyped ==
  ASSUME NEW b \in Breaker
  PROVE  Allow(b) \in Breaker /\ RecordSuccess(b) \in Breaker /\ RecordFailure(b) \in Breaker
<1>1. Allow(b) \in Breaker
  BY OpenFields, HalfOpenFields, CloseFields DEF Allow, Breaker
<1>2. RecordSuccess(b) \in Breaker
  <2> DEFINE probed == [b EXCEPT !.success_count = SaturatingInc(@)]
  <2>1. probed \in Breaker
    BY ThresholdAssumption DEF SaturatingInc, Breaker
  <2>2. [b EXCEPT !.failure_count = 0] \in Breaker
    BY DEF Breaker
  <2>3. RecordSuccess(b) \in {[b EXCEPT !.failure_count = 0], Close(probed), probed, b}
    BY DEF RecordSuccess
  <2>4. Close(probed) \in Breaker
    BY <2>1, CloseFields
  <2>5. QED
    BY <2>1, <2>2, <2>3, <2>4
<1>3. RecordFailure(b) \in Breaker
  <2> DEFINE failed == [b EXCEPT !.failure_count = SaturatingInc(@)]
  <2>1. failed \in Breaker
    BY ThresholdAssumption DEF SaturatingInc, Breaker
  <2>2. RecordFailure(b) \in {Open(failed), failed, Open(b), b}
    BY DEF RecordFailure
  <2>3. Open(failed) \in Breaker /\ Open(b) \in Breaker
    BY <2>1, OpenFields
  <2>4. QED
    BY <2>1, <2>2, <2>3
<1>4. QED
  BY <1>1, <1>2, <1>3

(* allow() on an open circuit: it counts the refusal, or turns the circuit
   half-open and starts the probes from nothing.                           *)
LEMMA AllowWhenOpen ==
  ASSUME NEW b \in Breaker, b.state = "open"
  PROVE  /\ Allow(b) \in Breaker
         /\ Allow(b).failure_count = b.failure_count
         /\ ~Allows(b) => /\ Allow(b).state = "open"
                          /\ Allow(b).skip_counter = b.skip_counter + 1
                          /\ b.skip_counter < Effective(SkipRequests)
                          /\ Allow(b).success_count = b.success_count
         /\ Allows(b) => /\ Allow(b).state = "half_open"
                         /\ Allow(b).skip_counter = 0 /\ Allow(b).success_count = 0
<1> USE EffectiveBounds, ThresholdAssumption
<1>1. CASE SkippedEnough(b)
  <2>1. Allow(b) = HalfOpen(b) /\ Allows(b)
    BY <1>1 DEF Allow, Allows
  <2>2. QED
    BY <2>1, HalfOpenFields
<1>2. CASE ~SkippedEnough(b)
  <2>1. Allow(b) = [b EXCEPT !.skip_counter = @ + 1] /\ ~Allows(b)
    BY <1>2 DEF Allow, Allows, Breaker, CircuitState
  <2>2. b.skip_counter < Effective(SkipRequests)
    BY <1>2 DEF SkippedEnough, Breaker
  <2>3. QED
    BY <2>1, <2>2 DEF Breaker, CircuitState
<1>3. QED
  BY <1>1, <1>2

---------------------------------------------------------------------------
(* What allow(), recordSuccess() and recordFailure() preserve of a breaker
   and its history.                                                        *)

(* A refusal is an open circuit counting up to skip_requests.              *)
LEMMA RefusalKeepsGood ==
  ASSUME NEW b \in Breaker, NEW s \in Streak, Good(b, s), ~Allows(b)
  PROVE  /\ Allow(b) \in Breaker
         /\ Extend(s, "refused") \in Streak
         /\ Good(Allow(b), Extend(s, "refused"))
<1> USE EffectiveBounds, ThresholdAssumption
<1>1. b.state = "open"
  BY DEF Good, CountersInBounds, Allows, FailedEnough, Breaker, CircuitState
<1>2. Extend(s, "refused") \in Streak /\ Extend(s, "refused").of = "refused"
  BY DEF Extend, Streak
<1>3. Allow(b).skip_counter = Run(Extend(s, "refused"), "refused")
  BY <1>1, AllowWhenOpen DEF Good, Reflects, Run, Extend, Streak
<1>4. QED
  BY <1>1, <1>2, <1>3, AllowWhenOpen DEF Good, CountersInBounds, Reflects, Run, Breaker, Streak

(* An admission leaves the circuit closed, or half-open for a probe.       *)
LEMMA AdmissionKeepsGood ==
  ASSUME NEW b \in Breaker, NEW s \in Streak, Good(b, s), Allows(b)
  PROVE  /\ Allow(b) \in Breaker
         /\ Allow(b).state # "open"
         /\ Good(Allow(b), s)
<1> USE EffectiveBounds, ThresholdAssumption
<1>1. CASE b.state # "open"
  <2>1. Allow(b) = b
    BY <1>1 DEF Allow, Good, CountersInBounds, FailedEnough, ProbedEnough, Breaker, CircuitState
  <2>2. QED
    BY <1>1, <2>1
<1>2. CASE b.state = "open"
  <2>1. s.of = "refused"
    BY <1>2 DEF Allows, SkippedEnough, Good, Reflects, Run, CountersInBounds, Breaker, Streak
  <2>2. QED
    BY <1>2, <2>1, AllowWhenOpen DEF Good, CountersInBounds, Reflects, Run, Breaker
<1>3. QED
  BY <1>1, <1>2

(* A good query lengthens the run of successes, and closes the circuit on
   the last probe.                                                         *)
LEMMA SuccessKeepsGood ==
  ASSUME NEW b \in Breaker, NEW s \in Streak, Good(b, s), b.state # "open"
  PROVE  /\ RecordSuccess(b) \in Breaker
         /\ RecordSuccess(b).state # "open"
         /\ Extend(s, "ok") \in Streak
         /\ Good(RecordSuccess(b), Extend(s, "ok"))
<1> USE EffectiveBounds, ThresholdAssumption
<1>1. Extend(s, "ok") \in Streak /\ Extend(s, "ok").of = "ok"
  BY DEF Extend, Streak
<1>2. CASE b.state = "closed"
  <2>1. RecordSuccess(b) = [b EXCEPT !.failure_count = 0]
    BY <1>2 DEF RecordSuccess
  <2>2. QED
    BY <1>1, <1>2, <2>1 DEF Good, CountersInBounds, Reflects, Run, Breaker, Streak, CircuitState
<1>3. CASE b.state = "half_open"
  <2> DEFINE probed == [b EXCEPT !.success_count = SaturatingInc(@)]
  <2>1. /\ probed \in Breaker /\ probed.state = "half_open"
        /\ probed.success_count = b.success_count + 1
    BY <1>3 DEF SaturatingInc, Good, CountersInBounds, Breaker
  <2>2. probed.success_count = Run(Extend(s, "ok"), "ok")
    BY <1>3, <2>1 DEF Good, Reflects, Run, Extend, Breaker, Streak
  <2>3. CASE ProbedEnough(probed)
    <3>1. RecordSuccess(b) = Close(probed)
      BY <1>3, <2>3 DEF RecordSuccess
    <3>2. probed.skip_counter = b.skip_counter
      BY DEF Breaker
    <3> HIDE DEF probed
    <3>3. /\ RecordSuccess(b) \in Breaker
          /\ RecordSuccess(b).state = "closed"
          /\ RecordSuccess(b).failure_count = 0
          /\ RecordSuccess(b).success_count = 0
          /\ RecordSuccess(b).skip_counter = b.skip_counter
      BY <2>1, <3>1, <3>2, CloseFields
    <3>4. CountersInBounds(RecordSuccess(b))
      BY <1>3, <3>3 DEF Good, CountersInBounds, Breaker
    <3>5. Reflects(RecordSuccess(b), Extend(s, "ok"))
      BY <1>1, <3>3 DEF Reflects, Run
    <3>6. QED
      BY <1>1, <3>3, <3>4, <3>5 DEF Good, Run
  <2>4. CASE ~ProbedEnough(probed)
    <3>1. RecordSuccess(b) = probed
      BY <1>3, <2>4 DEF RecordSuccess
    <3>2. /\ probed.skip_counter = b.skip_counter /\ probed.failure_count = b.failure_count
      BY DEF Breaker
    <3> HIDE DEF probed
    <3>3. CountersInBounds(probed)
      BY <1>3, <2>1, <2>4, <3>2 DEF Good, CountersInBounds, ProbedEnough, Breaker
    <3>4. Reflects(probed, Extend(s, "ok"))
      BY <1>1, <2>1, <2>2 DEF Reflects
    <3>5. QED
      BY <1>1, <2>1, <3>1, <3>3, <3>4 DEF Good, Run
  <2>5. QED
    BY <2>3, <2>4
<1>4. QED
  BY <1>2, <1>3 DEF Breaker, CircuitState

(* A failed query lengthens the run of failures; it opens a closed circuit
   exactly on the FailureThreshold-th, and a half-open one at once.        *)
LEMMA FailureKeepsGood ==
  ASSUME NEW b \in Breaker, NEW s \in Streak, Good(b, s), b.state # "open"
  PROVE  /\ RecordFailure(b) \in Breaker
         /\ Extend(s, "bad") \in Streak
         /\ Extend(s, "bad").of = "bad"
         /\ Good(RecordFailure(b), Extend(s, "bad"))
         /\ b.state = "closed" /\ RecordFailure(b).state = "open"
              => Extend(s, "bad").len >= Effective(FailureThreshold)
<1> USE EffectiveBounds, ThresholdAssumption
<1>1. Extend(s, "bad") \in Streak /\ Extend(s, "bad").of = "bad"
  BY DEF Extend, Streak
<1>2. CASE b.state = "closed"
  <2> DEFINE failed == [b EXCEPT !.failure_count = SaturatingInc(@)]
  <2>1. /\ failed \in Breaker /\ failed.state = "closed"
        /\ failed.failure_count = b.failure_count + 1
        /\ failed.skip_counter = b.skip_counter
        /\ failed.success_count = b.success_count
    BY <1>2 DEF SaturatingInc, Good, CountersInBounds, Breaker
  <2>2. failed.failure_count = Extend(s, "bad").len
    BY <1>2, <2>1 DEF Good, Reflects, Run, Extend, Breaker, Streak
  <2>3. CASE FailedEnough(failed)
    <3>1. RecordFailure(b) = Open(failed)
      BY <1>2, <2>3 DEF RecordFailure
    <3> HIDE DEF failed
    <3>2. failed.failure_count <= MaxU32
      BY <1>2, <2>1 DEF Good, CountersInBounds, Breaker
    <3>3. QED
      BY <1>1, <2>1, <2>2, <2>3, <3>1, <3>2, OpenFields
      DEF FailedEnough, Good, CountersInBounds, Reflects, Run, Breaker, Streak
  <2>4. CASE ~FailedEnough(failed)
    <3>1. RecordFailure(b) = failed
      BY <1>2, <2>4 DEF RecordFailure
    <3> HIDE DEF failed
    <3>2. CountersInBounds(failed)
      BY <1>2, <2>1, <2>4 DEF FailedEnough, Good, CountersInBounds, Breaker
    <3>3. Reflects(failed, Extend(s, "bad"))
      BY <1>1, <2>1, <2>2 DEF Reflects, Run
    <3>4. QED
      BY <1>1, <2>1, <3>1, <3>2, <3>3 DEF Good, Run
  <2>5. QED
    BY <2>3, <2>4
<1>3. CASE b.state = "half_open"
  <2>1. RecordFailure(b) = Open(b)
    BY <1>3 DEF RecordFailure
  <2>2. QED
    BY <1>1, <1>3, <2>1, OpenFields DEF Good, CountersInBounds, Reflects, Run, Breaker, Streak
<1>4. QED
  BY <1>2, <1>3 DEF Breaker, CircuitState

---------------------------------------------------------------------------
ClientsGood == \A c \in Clients : Good(breaker[c], streak[c])

(* A client without a breaker never uses the one in its struct. *)
UnguardedIdle == \A c \in Clients \ Guarded : breaker[c] = NewBreaker

NotOpenInQuery == \A t \in Tasks : InQuery(t) => breaker[ClientOf[t]].state # "open"

(* A task backs off only while it has attempts left. *)
RetriesLeft == \A t \in Tasks : pc[t] = "sleeping" => attempt[t] < MaxRetries

TypeInv == TypeOK /\ RetriesLeft

IInv == TypeInv /\ UnguardedIdle /\ ClientsGood /\ NotOpenInQuery

---------------------------------------------------------------------------
(* Type correctness.                                                       *)

LEMMA FreshBreaker == NewBreaker \in Breaker /\ Good(NewBreaker, [of |-> "none", len |-> 0])
BY EffectiveBounds, ThresholdAssumption
DEF NewBreaker, Breaker, CircuitState, Good, CountersInBounds, Reflects, Run

LEMMA ObserveTyped ==
  ASSUME TypeOK, NEW c \in Clients, NEW b \in Breaker,
         NEW kind \in {"ok", "bad", "refused"}, Observe(c, kind, b)
  PROVE  breaker' \in [Clients -> Breaker] /\ streak' \in [Clients -> Streak]
<1>1. Extend(streak[c], kind) \in Streak
  BY DEF TypeOK, Extend, Streak
<1>2. QED
  BY <1>1 DEF TypeOK, Observe

(* The ways an attempt ends keep the types.                                *)
LEMMA AttemptFailsTyped ==
  ASSUME TypeOK, NEW t \in Tasks, NEW err \in Retryable \union Fatal, AttemptFails(t, err)
  PROVE  /\ pc' \in [Tasks -> {"idle", "connecting", "waiting", "sleeping"}]
         /\ verdict' \in [Tasks -> Verdicts]
         /\ breaker' \in [Clients -> Breaker] /\ streak' \in [Clients -> Streak]
         /\ UNCHANGED <<queryNo, attempt, backoff, done>>
         /\ pc'[t] \in {"idle", "sleeping"}
         /\ pc'[t] = "sleeping" => attempt[t] < MaxRetries
         /\ \A u \in Tasks \ {t} : pc'[u] = pc[u]
<1>1. ClientOf[t] \in Clients
  BY ClientAssumption
<1>2. CASE Retry(t)
  BY <1>2 DEF Retry, AttemptFails, TypeOK
<1>3. CASE GiveUp(t, err)
  <2>1. breaker' \in [Clients -> Breaker] /\ streak' \in [Clients -> Streak]
    BY <1>1, <1>3, BreakerTyped, ObserveTyped DEF GiveUp, TypeOK
  <2>2. QED
    BY <1>3, <2>1 DEF GiveUp, Return, AttemptFails, TypeOK, Verdicts
<1>4. QED
  BY <1>2, <1>3 DEF AttemptFails

LEMMA StartQueryTyped ==
  ASSUME TypeOK, NEW t \in Tasks, StartQuery(t)
  PROVE  /\ queryNo' \in [Tasks -> Nat]
         /\ cancel' \in [Tasks -> {"none", "requested", "delivered"}]
         /\ lastError' \in [Clients -> {"none", "http", "domain"}]
         /\ UNCHANGED <<sent, done>>
<1>1. queryNo' \in [Tasks -> Nat]
  BY DEF TypeOK, StartQuery
<1>2. cancel' \in [Tasks -> {"none", "requested", "delivered"}]
  BY DEF TypeOK, StartQuery
<1>3. lastError' \in [Clients -> {"none", "http", "domain"}]
  BY DEF TypeOK, StartQuery
<1>4. QED
  BY <1>1, <1>2, <1>3 DEF StartQuery

LEMMA ReturnTyped ==
  ASSUME TypeOK, NEW t \in Tasks, NEW v \in Verdicts, Return(t, v)
  PROVE  /\ pc' \in [Tasks -> {"idle", "connecting", "waiting", "sleeping"}]
         /\ verdict' \in [Tasks -> Verdicts]
         /\ pc'[t] = "idle"
         /\ \A u \in Tasks \ {t} : pc'[u] = pc[u]
BY DEF TypeOK, Return

LEMMA StepTyped == TypeInv /\ [Next]_vars => TypeInv'
<1> SUFFICES ASSUME TypeInv, [Next]_vars PROVE TypeInv'
  OBVIOUS
<1> USE ClientAssumption
<1>1. CASE UNCHANGED vars
  BY <1>1 DEF TypeInv, RetriesLeft, TypeOK, vars, taskVars, clientVars, wireVars
<1>2. ASSUME NEW t \in Tasks, QueryOutOfMemory(t) PROVE TypeInv'
  <2>1. /\ TypeOK /\ StartQuery(t) /\ Return(t, "OutOfMemory")
        /\ UNCHANGED <<attempt, backoff, breaker, streak>>
    BY <1>2 DEF QueryOutOfMemory, TypeInv
  <2>2. "OutOfMemory" \in Verdicts
    BY DEF Verdicts, Fatal
  <2>3. RetriesLeft'
    BY <2>1, <2>2, ReturnTyped DEF TypeInv, RetriesLeft
  <2>4. TypeOK'
    BY <2>1, <2>2, StartQueryTyped, ReturnTyped DEF TypeOK
  <2>5. QED
    BY <2>3, <2>4 DEF TypeInv
<1>3. ASSUME NEW t \in Tasks, QueryRefused(t) PROVE TypeInv'
  <2>1. breaker' \in [Clients -> Breaker] /\ streak' \in [Clients -> Streak]
    BY <1>3, BreakerTyped, ObserveTyped DEF QueryRefused, TypeInv, TypeOK
  <2>2. QED
    <3>1. /\ TypeOK /\ StartQuery(t) /\ Return(t, "CircuitOpen")
          /\ UNCHANGED <<attempt, backoff>>
      BY <1>3 DEF QueryRefused, TypeInv
    <3>2. "CircuitOpen" \in Verdicts
      BY DEF Verdicts
    <3>3. RetriesLeft'
      BY <3>1, <3>2, ReturnTyped DEF TypeInv, RetriesLeft
    <3>4. TypeOK'
      BY <2>1, <3>1, <3>2, StartQueryTyped, ReturnTyped DEF TypeOK
    <3>5. QED
      BY <3>3, <3>4 DEF TypeInv
<1>4. ASSUME NEW t \in Tasks, QueryAdmitted(t) PROVE TypeInv'
  <2>1. breaker' \in [Clients -> Breaker]
    BY <1>4, BreakerTyped DEF QueryAdmitted, TypeInv, TypeOK
  <2>2. QED
    BY <1>4, <2>1 DEF QueryAdmitted, StartQuery, TypeInv, RetriesLeft, TypeOK, Verdicts
<1>5. ASSUME NEW t \in Tasks, NEW err \in Retryable \union Fatal, AttemptFails(t, err),
             UNCHANGED sent, lastError' \in [Clients -> {"none", "http", "domain"}],
             cancel' \in [Tasks -> {"none", "requested", "delivered"}]
      PROVE  TypeInv'
  <2>1. TypeOK
    BY DEF TypeInv
  <2>2. QED
    BY <1>5, <2>1, AttemptFailsTyped DEF TypeInv, RetriesLeft, TypeOK
<1>6. ASSUME NEW t \in Tasks, ConnectFails(t) \/ ConnectionLost(t) PROVE TypeInv'
  <2>1. AttemptFails(t, "TransportFailed") /\ UNCHANGED <<sent, lastError, cancel>>
    BY <1>6 DEF ConnectFails, ConnectionLost, KeepLastError
  <2>2. QED
    BY <1>5, <2>1 DEF TypeInv, TypeOK, Retryable
<1>7. ASSUME NEW t \in Tasks, HttpError(t) PROVE TypeInv'
  <2>1. AttemptFails(t, "HttpStatus") /\ UNCHANGED <<sent, cancel>>
    BY <1>7 DEF HttpError
  <2>2. lastError' \in [Clients -> {"none", "http", "domain"}]
    BY <1>7 DEF HttpError, SetLastError, KeepLastError, TypeInv, TypeOK
  <2>3. QED
    BY <1>5, <2>1, <2>2 DEF TypeInv, TypeOK, Retryable
<1>8. ASSUME NEW t \in Tasks, BodyLost(t) PROVE TypeInv'
  <2>1. /\ AttemptFails(t, "OutOfMemory") /\ UNCHANGED <<sent, lastError>>
        /\ cancel' \in [Tasks -> {"none", "requested", "delivered"}]
    BY <1>8 DEF BodyLost, KeepLastError, TypeInv, TypeOK
  <2>2. QED
    BY <1>5, <2>1 DEF TypeInv, TypeOK, Fatal
<1>9. ASSUME NEW t \in Tasks, DomainError(t) PROVE TypeInv'
  <2>1. AttemptFails(t, "DomainError") /\ UNCHANGED <<sent, cancel>>
    BY <1>9 DEF DomainError
  <2>2. lastError' \in [Clients -> {"none", "http", "domain"}]
    BY <1>9 DEF DomainError, SetLastError, TypeInv, TypeOK
  <2>3. QED
    BY <1>5, <2>1, <2>2 DEF TypeInv, TypeOK, Fatal
<1>10. ASSUME NEW t \in Tasks, CancelInterrupts(t) PROVE TypeInv'
  <2>1. /\ AttemptFails(t, "TransportFailed") /\ UNCHANGED <<sent, lastError>>
        /\ cancel' \in [Tasks -> {"none", "requested", "delivered"}]
    BY <1>10 DEF CancelInterrupts, KeepLastError, TypeInv, TypeOK
  <2>2. QED
    BY <1>5, <2>1 DEF TypeInv, TypeOK, Retryable
<1>11. ASSUME NEW t \in Tasks, Succeed(t) PROVE TypeInv'
  <2>1. breaker' \in [Clients -> Breaker] /\ streak' \in [Clients -> Streak]
    BY <1>11, BreakerTyped, ObserveTyped DEF Succeed, TypeInv, TypeOK
  <2>2. QED
    BY <1>11, <2>1 DEF Succeed, Return, KeepLastError, TypeInv, RetriesLeft, TypeOK, Verdicts
<1>12. ASSUME NEW t \in Tasks, Send(t) PROVE TypeInv'
  <2>1. Current(t) \in Request
    BY DEF Current, Request, TypeInv, TypeOK
  <2>2. QED
    BY <1>12, <2>1 DEF Send, clientVars, TypeInv, RetriesLeft, TypeOK
<1>13. ASSUME NEW t \in Tasks, WakeUp(t) PROVE TypeInv'
  <2>1. Min2((backoff[t] * GrowthNum) \div GrowthDen, MaxBackoff) \in Nat
    BY DEF Min2, TypeInv, TypeOK
  <2>2. /\ backoff' \in [Tasks -> Nat]
        /\ attempt' \in [Tasks -> 0 .. MaxRetries]
    BY <1>13, <2>1 DEF WakeUp, TypeInv, RetriesLeft, TypeOK
  <2>3. QED
    BY <1>13, <2>2 DEF WakeUp, clientVars, wireVars, TypeInv, RetriesLeft, TypeOK
<1>14. ASSUME NEW t \in Tasks, UserCancels(t) PROVE TypeInv'
  BY <1>14 DEF UserCancels, clientVars, wireVars, TypeInv, RetriesLeft, TypeOK
<1>15. ASSUME NEW r \in sent, EngineRuns(r) PROVE TypeInv'
  BY <1>15 DEF EngineRuns, taskVars, clientVars, TypeInv, RetriesLeft, TypeOK
<1>16. QED
  BY <1>1, <1>2, <1>3, <1>4, <1>6, <1>7, <1>8, <1>9, <1>10, <1>11, <1>12, <1>13, <1>14, <1>15
  DEF Next, OwnStep, Answer

LEMMA InitTyped == Init => TypeInv
BY ClientAssumption, FreshBreaker
DEF Init, TypeInv, RetriesLeft, TypeOK, Verdicts, Streak

(* Every variable keeps its type; in particular no task makes more than
   max_retries + 1 attempts at a query.                                    *)
THEOREM TypeCorrect == Spec => []TypeOK
<1>1. Init => TypeInv
  BY InitTyped
<1>2. TypeInv /\ [Next]_vars => TypeInv'
  BY StepTyped
<1>3. TypeInv => TypeOK
  BY DEF TypeInv
<1>4. QED
  BY <1>1, <1>2, <1>3, PTL DEF Spec

---------------------------------------------------------------------------
(* The breaker.                                                            *)

(* What TripsOnlyOnFailureRun says of one step and one client.             *)
Trip(c) ==
  breaker[c].state # "open" /\ breaker'[c].state = "open"
    => /\ streak'[c].of = "bad"
       /\ breaker[c].state = "closed"
            => streak'[c].len >= Effective(FailureThreshold)

StepSound == UnguardedIdle' /\ ClientsGood' /\ NotOpenInQuery' /\ \A c \in Clients : Trip(c)

(* A step that leaves breakers alone and starts no query.                  *)
LEMMA QuietStep ==
  ASSUME IInv, UNCHANGED <<breaker, streak>>,
         \A u \in Tasks : pc'[u] # "idle" => pc[u] # "idle"
  PROVE  StepSound
BY DEF IInv, UnguardedIdle, ClientsGood, NotOpenInQuery, InQuery, StepSound, Trip

(* A step of task t that touches the breaker of its client alone.  This is
   where one client per task is needed: nobody else's query is under way on
   that client.                                                            *)
LEMMA LocalStep ==
  ASSUME IInv, OneTaskPerClient, NEW t \in Tasks,
         \A d \in Clients \ {ClientOf[t]} :
            breaker'[d] = breaker[d] /\ streak'[d] = streak[d],
         \A u \in Tasks \ {t} : pc'[u] = pc[u],
         ClientOf[t] \in Guarded \/ breaker'[ClientOf[t]] = breaker[ClientOf[t]],
         Good(breaker'[ClientOf[t]], streak'[ClientOf[t]]),
         pc'[t] # "idle" => breaker'[ClientOf[t]].state # "open",
         Trip(ClientOf[t])
  PROVE  StepSound
<1>1. ClientOf \in [Tasks -> Clients]
  BY ClientAssumption
<1>2. ClientsGood'
  BY DEF IInv, ClientsGood
<1>3. NotOpenInQuery'
  <2> SUFFICES ASSUME NEW u \in Tasks, pc'[u] # "idle"
               PROVE  breaker'[ClientOf[u]].state # "open"
    BY DEF NotOpenInQuery, InQuery
  <2>1. CASE u = t
    BY <2>1
  <2>2. CASE u # t
    <3>1. ClientOf[u] \in Clients \ {ClientOf[t]}
      BY <1>1, <2>2 DEF OneTaskPerClient
    <3>2. QED
      BY <2>2, <3>1 DEF IInv, NotOpenInQuery, InQuery
  <2>3. QED
    BY <2>1, <2>2
<1>4. \A c \in Clients : Trip(c)
  BY DEF Trip
<1>5. UnguardedIdle'
  <2>1. ClientOf[t] \in Clients
    BY <1>1
  <2>2. QED
    BY <2>1 DEF IInv, UnguardedIdle
<1>6. QED
  BY <1>2, <1>3, <1>4, <1>5 DEF StepSound

(* The end of a query: an outcome is observed and the task is idle again.  *)
LEMMA ObservedStep ==
  ASSUME IInv, OneTaskPerClient, NEW t \in Tasks, NEW v, NEW b, NEW kind,
         Return(t, v), Observe(ClientOf[t], kind, b),
         ClientOf[t] \in Guarded =>
           /\ Good(b, Extend(streak[ClientOf[t]], kind))
           /\ breaker[ClientOf[t]].state # "open" /\ b.state = "open" =>
                /\ Extend(streak[ClientOf[t]], kind).of = "bad"
                /\ breaker[ClientOf[t]].state = "closed"
                     => Extend(streak[ClientOf[t]], kind).len >= Effective(FailureThreshold)
  PROVE  StepSound
<1>1. /\ ClientOf[t] \in Clients
      /\ pc'[t] = "idle" /\ \A u \in Tasks \ {t} : pc'[u] = pc[u]
  BY ClientAssumption DEF IInv, TypeInv, TypeOK, Return
<1>2. CASE ClientOf[t] \in Guarded
  <2>1. /\ breaker'[ClientOf[t]] = b
        /\ streak'[ClientOf[t]] = Extend(streak[ClientOf[t]], kind)
        /\ \A d \in Clients \ {ClientOf[t]} :
             breaker'[d] = breaker[d] /\ streak'[d] = streak[d]
    BY <1>1, <1>2 DEF Observe, IInv, TypeInv, TypeOK
  <2>2. Trip(ClientOf[t])
    BY <1>2, <2>1 DEF Trip
  <2>3. Good(breaker'[ClientOf[t]], streak'[ClientOf[t]])
    BY <1>2, <2>1
  <2>4. QED
    BY <1>1, <1>2, <2>1, <2>2, <2>3, LocalStep
<1>3. CASE ClientOf[t] \notin Guarded
  <2>1. UNCHANGED <<breaker, streak>>
    BY <1>3 DEF Observe
  <2>2. QED
    BY <1>1, <2>1, QuietStep
<1>4. QED
  BY <1>2, <1>3

LEMMA RefusedStep ==
  ASSUME IInv, OneTaskPerClient, NEW t \in Tasks, QueryRefused(t)
  PROVE  StepSound
<1> DEFINE c == ClientOf[t]
<1>1. /\ c \in Guarded /\ ~Allows(breaker[c])
      /\ Return(t, "CircuitOpen") /\ Observe(c, "refused", Allow(breaker[c]))
  BY DEF QueryRefused, Admits
<1>2. c \in Clients /\ breaker[c] \in Breaker /\ streak[c] \in Streak /\ Good(breaker[c], streak[c])
  BY ClientAssumption DEF IInv, TypeInv, TypeOK, ClientsGood
<1>3. Good(Allow(breaker[c]), Extend(streak[c], "refused"))
  BY <1>1, <1>2, RefusalKeepsGood
<1>4. breaker[c].state = "open"
  BY <1>1, <1>2, EffectiveBounds
  DEF Allows, Good, CountersInBounds, FailedEnough, Breaker, CircuitState
<1>5. QED
  BY <1>1, <1>3, <1>4, ObservedStep

LEMMA AdmittedStep ==
  ASSUME IInv, OneTaskPerClient, NEW t \in Tasks, QueryAdmitted(t)
  PROVE  StepSound
<1> DEFINE c == ClientOf[t]
<1>1. c \in Clients /\ breaker[c] \in Breaker /\ streak[c] \in Streak /\ Good(breaker[c], streak[c])
  BY ClientAssumption DEF IInv, TypeInv, TypeOK, ClientsGood
<1>2. /\ streak' = streak
      /\ \A d \in Clients \ {c} : breaker'[d] = breaker[d]
      /\ \A u \in Tasks \ {t} : pc'[u] = pc[u]
      /\ breaker'[c] = IF c \in Guarded THEN Allow(breaker[c]) ELSE breaker[c]
  BY <1>1 DEF QueryAdmitted, IInv, TypeInv, TypeOK
<1>3. CASE c \in Guarded
  <2>1. Allows(breaker[c])
    BY <1>3 DEF QueryAdmitted, Admits
  <2>2. breaker'[c].state # "open" /\ Good(breaker'[c], streak[c])
    BY <1>1, <1>2, <1>3, <2>1, AdmissionKeepsGood
  <2>3. Trip(c)
    BY <2>2 DEF Trip
  <2>4. QED
    BY <1>2, <1>3, <2>2, <2>3, LocalStep
<1>4. CASE c \notin Guarded
  <2>1. breaker'[c] = breaker[c] /\ breaker[c].state # "open"
    BY <1>1, <1>2, <1>4 DEF IInv, UnguardedIdle, NewBreaker
  <2>2. Trip(c)
    BY <2>1 DEF Trip
  <2>3. QED
    BY <1>1, <1>2, <2>1, <2>2, LocalStep
<1>5. QED
  BY <1>3, <1>4

LEMMA FailedStep ==
  ASSUME IInv, OneTaskPerClient, NEW t \in Tasks, NEW err, InQuery(t), AttemptFails(t, err)
  PROVE  StepSound
<1> DEFINE c == ClientOf[t]
<1>1. /\ c \in Clients /\ breaker[c] \in Breaker /\ streak[c] \in Streak
      /\ Good(breaker[c], streak[c]) /\ breaker[c].state # "open"
  BY ClientAssumption DEF IInv, TypeInv, TypeOK, ClientsGood, NotOpenInQuery
<1>2. CASE Retry(t)
  BY <1>2, QuietStep DEF Retry, InQuery, IInv, TypeInv, TypeOK
<1>3. CASE GiveUp(t, err)
  BY <1>1, <1>3, FailureKeepsGood, ObservedStep DEF GiveUp
<1>4. QED
  BY <1>2, <1>3 DEF AttemptFails

LEMMA SucceededStep ==
  ASSUME IInv, OneTaskPerClient, NEW t \in Tasks, Succeed(t)
  PROVE  StepSound
<1> DEFINE c == ClientOf[t]
<1>1. /\ c \in Clients /\ breaker[c] \in Breaker /\ streak[c] \in Streak
      /\ Good(breaker[c], streak[c]) /\ breaker[c].state # "open"
  BY ClientAssumption DEF IInv, TypeInv, TypeOK, ClientsGood, NotOpenInQuery, Succeed, InQuery
<1>2. QED
  BY <1>1, SuccessKeepsGood, ObservedStep DEF Succeed

LEMMA BreakerStep ==
  ASSUME IInv, OneTaskPerClient, [Next]_vars
  PROVE  StepSound
<1>1. CASE UNCHANGED vars
  BY <1>1, QuietStep DEF vars, taskVars, clientVars
<1>2. ASSUME NEW t \in Tasks, QueryOutOfMemory(t) PROVE StepSound
  BY <1>2, QuietStep DEF QueryOutOfMemory, Return, IInv, TypeInv, TypeOK
<1>3. ASSUME NEW t \in Tasks, ConnectFails(t) \/ CancelInterrupts(t) \/ ConnectionLost(t)
                              \/ HttpError(t) \/ BodyLost(t) \/ DomainError(t)
      PROVE  StepSound
  <2>1. InQuery(t) /\ \E err : AttemptFails(t, err)
    BY <1>3 DEF InQuery, ConnectFails, CancelInterrupts, ConnectionLost, HttpError, BodyLost, DomainError
  <2>2. QED
    BY <2>1, FailedStep
<1>4. ASSUME NEW t \in Tasks, Send(t) \/ WakeUp(t) PROVE StepSound
  BY <1>4, QuietStep DEF Send, WakeUp, clientVars, IInv, TypeInv, TypeOK
<1>5. ASSUME NEW t \in Tasks, UserCancels(t) PROVE StepSound
  BY <1>5, QuietStep DEF UserCancels, clientVars
<1>6. ASSUME NEW r \in sent, EngineRuns(r) PROVE StepSound
  BY <1>6, QuietStep DEF EngineRuns, taskVars, clientVars
<1>7. QED
  BY <1>1, <1>2, <1>3, <1>4, <1>5, <1>6, RefusedStep, AdmittedStep, SucceededStep
  DEF Next, OwnStep, Answer

(* IInv holds of every reachable state, and no step trips a breaker that
   should hold.                                                            *)
LEMMA Inductive == ASSUME OneTaskPerClient PROVE Spec => []IInv /\ [][\A c \in Clients : Trip(c)]_vars
<1>1. Init => IInv
  <2> SUFFICES ASSUME Init PROVE IInv
    OBVIOUS
  <2>1. TypeInv
    BY InitTyped
  <2>2. UnguardedIdle /\ ClientsGood /\ NotOpenInQuery
    BY FreshBreaker DEF Init, UnguardedIdle, ClientsGood, NotOpenInQuery, InQuery
  <2>3. QED
    BY <2>1, <2>2 DEF IInv
<1>2. IInv /\ [Next]_vars => IInv' /\ [\A c \in Clients : Trip(c)]_vars
  <2> SUFFICES ASSUME IInv, [Next]_vars PROVE IInv' /\ \A c \in Clients : Trip(c)
    OBVIOUS
  <2>1. TypeInv'
    BY StepTyped DEF IInv
  <2>2. StepSound
    BY BreakerStep
  <2>3. QED
    BY <2>1, <2>2 DEF IInv, StepSound
<1>3. QED
  BY <1>1, <1>2, PTL DEF Spec

(* Every breaker keeps its counters in bounds and no query is under way on
   an open circuit, whatever tasks with a client each do.                  *)
THEOREM BreakerIsSound == ASSUME OneTaskPerClient PROVE Spec => []BreakerSound
<1>1. IInv => BreakerSound
  BY DEF IInv, ClientsGood, Good, NotOpenInQuery, BreakerSound
<1>2. QED
  BY <1>1, Inductive, PTL

(* The counters of every breaker are the history of its client's queries.  *)
THEOREM CircuitIsHistory == ASSUME OneTaskPerClient PROVE Spec => []CircuitReflectsHistory
<1>1. IInv => CircuitReflectsHistory
  BY DEF IInv, ClientsGood, Good, CircuitReflectsHistory
<1>2. QED
  BY <1>1, Inductive, PTL

(* No client is refused more than skip_requests times in a row, nor its
   circuit kept open through success_threshold good probes.                *)
THEOREM CircuitAlwaysRecovers == ASSUME OneTaskPerClient PROVE Spec => []CircuitRecovers
<1>1. IInv => CircuitRecovers
  <2> SUFFICES ASSUME IInv, NEW c \in Clients
               PROVE  /\ Run(streak[c], "refused") <= Effective(SkipRequests)
                      /\ Run(streak[c], "ok") >= Effective(SuccessThreshold)
                           => breaker[c].state = "closed"
    BY DEF CircuitRecovers
  <2>1. breaker[c] \in Breaker /\ streak[c] \in Streak /\ Good(breaker[c], streak[c])
    BY DEF IInv, TypeInv, TypeOK, ClientsGood
  <2>2. QED
    BY <2>1, EffectiveBounds
    DEF Good, CountersInBounds, Reflects, Run, Breaker, Streak, CircuitState
<1>2. QED
  BY <1>1, Inductive, PTL

(* A circuit opens only on its FailureThreshold-th failed query in a row or
   on a failed probe.                                                      *)
THEOREM TripsOnlyOnFailures == ASSUME OneTaskPerClient PROVE Spec => TripsOnlyOnFailureRun
<1>1. [\A c \in Clients : Trip(c)]_vars =>
        [\A c \in Clients :
           breaker[c].state # "open" /\ breaker'[c].state = "open"
             => /\ streak'[c].of = "bad"
                /\ breaker[c].state = "closed"
                     => streak'[c].len >= Effective(FailureThreshold)]_vars
  BY DEF Trip
<1>2. QED
  BY <1>1, Inductive, PTL DEF TripsOnlyOnFailureRun

---------------------------------------------------------------------------
(* The message of a DomainError.  What makes it inductive is the half about
   a query under way: no domain message is left in its client, since the
   query cleared last_error when it began and the one answer that sets a
   domain message ends it.                                                 *)
Payload(t) ==
  IF InQuery(t) THEN lastError[ClientOf[t]] # "domain"
  ELSE verdict[t] = "DomainError" <=> lastError[ClientOf[t]] = "domain"

PayloadInv == TypeInv /\ \A t \in Tasks : Payload(t)

(* A step of one task leaves the client of every other alone.              *)
OnlyTask(t) ==
  /\ \A u \in Tasks \ {t} : pc'[u] = pc[u] /\ verdict'[u] = verdict[u]
  /\ \A c \in Clients \ {ClientOf[t]} : lastError'[c] = lastError[c]

LEMMA PayloadOfOthers ==
  ASSUME OneTaskPerClient, \A u \in Tasks : Payload(u), NEW t \in Tasks, OnlyTask(t), Payload(t)'
  PROVE  (\A u \in Tasks : Payload(u))'
<1>1. ASSUME NEW u \in Tasks, u # t PROVE Payload(u)'
  <2>1. ClientOf[u] \in Clients \ {ClientOf[t]}
    BY <1>1, ClientAssumption DEF OneTaskPerClient
  <2>2. pc'[u] = pc[u] /\ verdict'[u] = verdict[u] /\ lastError'[ClientOf[u]] = lastError[ClientOf[u]]
    BY <1>1, <2>1 DEF OnlyTask
  <2>3. QED
    BY <1>1, <2>2 DEF Payload, InQuery
<1>2. QED
  BY <1>1

(* A query begins with last_error cleared.                                 *)
LEMMA PayloadCleared ==
  ASSUME TypeOK, OneTaskPerClient, \A u \in Tasks : Payload(u), NEW t \in Tasks, StartQuery(t),
         \A u \in Tasks \ {t} : pc'[u] = pc[u] /\ verdict'[u] = verdict[u],
         verdict'[t] # "DomainError"
  PROVE  (\A u \in Tasks : Payload(u))'
<1>1. /\ lastError'[ClientOf[t]] = "none"
      /\ \A c \in Clients \ {ClientOf[t]} : lastError'[c] = lastError[c]
  BY ClientAssumption DEF StartQuery, TypeOK
<1>2. Payload(t)' /\ OnlyTask(t)
  BY <1>1 DEF Payload, OnlyTask
<1>3. QED
  BY <1>2, PayloadOfOthers

(* An attempt that fails leaves no domain message, unless it ends the query
   as a DomainError.                                                       *)
LEMMA PayloadOfFailure ==
  ASSUME TypeOK, OneTaskPerClient, \A u \in Tasks : Payload(u), NEW t \in Tasks,
         NEW err \in Retryable \union Fatal, AttemptFails(t, err),
         \A c \in Clients \ {ClientOf[t]} : lastError'[c] = lastError[c],
         err = "DomainError" <=> lastError'[ClientOf[t]] = "domain"
  PROVE  (\A u \in Tasks : Payload(u))'
<1>1. CASE Retry(t) /\ err \in Retryable
  <2>1. /\ \A u \in Tasks \ {t} : pc'[u] = pc[u] /\ verdict'[u] = verdict[u]
        /\ pc'[t] = "sleeping"
    BY <1>1 DEF Retry, TypeOK
  <2>2. lastError'[ClientOf[t]] # "domain"
    BY <1>1 DEF Retryable
  <2>3. Payload(t)' /\ OnlyTask(t)
    BY <2>1, <2>2 DEF Payload, InQuery, OnlyTask
  <2>4. QED
    BY <2>3, PayloadOfOthers
<1>2. CASE GiveUp(t, err)
  <2>1. /\ \A u \in Tasks \ {t} : pc'[u] = pc[u] /\ verdict'[u] = verdict[u]
        /\ pc'[t] = "idle" /\ verdict'[t] = err
    BY <1>2 DEF GiveUp, Return, TypeOK
  <2>2. Payload(t)' /\ OnlyTask(t)
    BY <2>1 DEF Payload, InQuery, OnlyTask
  <2>3. QED
    BY <2>2, PayloadOfOthers
<1>3. QED
  BY <1>1, <1>2 DEF AttemptFails

LEMMA PayloadStep ==
  ASSUME OneTaskPerClient, PayloadInv, [Next]_vars
  PROVE  (\A u \in Tasks : Payload(u))'
<1> USE DEF PayloadInv, TypeInv
<1>1. ASSUME NEW t \in Tasks PROVE ClientOf[t] \in Clients /\ ClientOf[t] \in DOMAIN lastError
  BY ClientAssumption DEF TypeOK
<1>2. ASSUME UNCHANGED <<pc, verdict, lastError>> PROVE (\A u \in Tasks : Payload(u))'
  BY <1>2 DEF Payload, InQuery
<1>3. ASSUME NEW t \in Tasks, QueryOutOfMemory(t) PROVE (\A u \in Tasks : Payload(u))'
  <2>1. /\ \A u \in Tasks \ {t} : pc'[u] = pc[u] /\ verdict'[u] = verdict[u]
        /\ verdict'[t] = "OutOfMemory" /\ StartQuery(t)
    BY <1>3 DEF QueryOutOfMemory, Return, TypeOK
  <2>2. QED
    BY <2>1, PayloadCleared
<1>4. ASSUME NEW t \in Tasks, QueryRefused(t) PROVE (\A u \in Tasks : Payload(u))'
  <2>1. /\ \A u \in Tasks \ {t} : pc'[u] = pc[u] /\ verdict'[u] = verdict[u]
        /\ verdict'[t] = "CircuitOpen" /\ StartQuery(t)
    BY <1>4 DEF QueryRefused, Return, TypeOK
  <2>2. QED
    BY <2>1, PayloadCleared
<1>5. ASSUME NEW t \in Tasks, QueryAdmitted(t) PROVE (\A u \in Tasks : Payload(u))'
  <2>1. /\ \A u \in Tasks \ {t} : pc'[u] = pc[u] /\ verdict'[u] = verdict[u]
        /\ verdict'[t] = "none" /\ StartQuery(t)
    BY <1>5 DEF QueryAdmitted, TypeOK
  <2>2. QED
    BY <2>1, PayloadCleared
<1>6. ASSUME NEW t \in Tasks,
             ConnectFails(t) \/ CancelInterrupts(t) \/ ConnectionLost(t) \/ HttpError(t) \/ BodyLost(t)
      PROVE  (\A u \in Tasks : Payload(u))'
  <2>1. PICK err \in {"TransportFailed", "HttpStatus", "OutOfMemory"} : AttemptFails(t, err)
    BY <1>6 DEF ConnectFails, CancelInterrupts, ConnectionLost, HttpError, BodyLost
  <2>2. /\ \A c \in Clients \ {ClientOf[t]} : lastError'[c] = lastError[c]
        /\ lastError'[ClientOf[t]] \in {lastError[ClientOf[t]], "http"}
    <3>1. SetLastError(ClientOf[t], "http") \/ UNCHANGED lastError
      BY <1>6
      DEF ConnectFails, CancelInterrupts, ConnectionLost, HttpError, BodyLost, KeepLastError
    <3>2. CASE SetLastError(ClientOf[t], "http")
      BY <1>1, <3>2 DEF SetLastError, TypeOK
    <3>3. QED
      BY <3>1, <3>2
  <2>3. lastError[ClientOf[t]] # "domain"
    BY <1>6 DEF Payload, InQuery, ConnectFails, CancelInterrupts, ConnectionLost, HttpError, BodyLost
  <2>4. err \in Retryable \union Fatal /\ err # "DomainError" /\ lastError'[ClientOf[t]] # "domain"
    BY <2>2, <2>3 DEF Retryable, Fatal
  <2>5. QED
    BY <2>1, <2>2, <2>4, PayloadOfFailure
<1>7. ASSUME NEW t \in Tasks, DomainError(t) PROVE (\A u \in Tasks : Payload(u))'
  <2>1. /\ AttemptFails(t, "DomainError") /\ "DomainError" \in Retryable \union Fatal
        /\ \A c \in Clients \ {ClientOf[t]} : lastError'[c] = lastError[c]
        /\ lastError'[ClientOf[t]] = "domain"
    BY <1>1, <1>7 DEF DomainError, SetLastError, Fatal
  <2>2. QED
    BY <2>1, PayloadOfFailure
<1>8. ASSUME NEW t \in Tasks, Succeed(t) PROVE (\A u \in Tasks : Payload(u))'
  <2>1. /\ \A u \in Tasks \ {t} : pc'[u] = pc[u] /\ verdict'[u] = verdict[u]
        /\ pc'[t] = "idle" /\ verdict'[t] = "success" /\ UNCHANGED lastError
    BY <1>8 DEF Succeed, Return, KeepLastError, TypeOK
  <2>2. lastError[ClientOf[t]] # "domain"
    BY <1>8 DEF Payload, InQuery, Succeed
  <2>3. Payload(t)' /\ OnlyTask(t)
    BY <2>1, <2>2 DEF Payload, InQuery, OnlyTask
  <2>4. QED
    BY <2>3, PayloadOfOthers
<1>9. ASSUME NEW t \in Tasks, Send(t) \/ WakeUp(t) PROVE (\A u \in Tasks : Payload(u))'
  <2>1. /\ \A u \in Tasks \ {t} : pc'[u] = pc[u]
        /\ pc[t] # "idle" /\ pc'[t] # "idle" /\ UNCHANGED <<verdict, lastError>>
    BY <1>9 DEF Send, WakeUp, clientVars, TypeOK
  <2>2. Payload(t)' /\ OnlyTask(t)
    BY <2>1 DEF Payload, InQuery, OnlyTask
  <2>3. QED
    BY <2>2, PayloadOfOthers
<1>10. ASSUME UNCHANGED vars \/ (\E t \in Tasks : UserCancels(t)) \/ (\E r \in sent : EngineRuns(r))
       PROVE  (\A u \in Tasks : Payload(u))'
  BY <1>2, <1>10 DEF UserCancels, EngineRuns, vars, taskVars, clientVars
<1>11. QED
  BY <1>3, <1>4, <1>5, <1>6, <1>7, <1>8, <1>9, <1>10 DEF Next, OwnStep, Answer

(* A task told DomainError finds that query's message in last_error, and any
   other task no message of an earlier query, when no two tasks share a
   client (graphql_client.zig:41).                                         *)
THEOREM DomainErrorTold == ASSUME OneTaskPerClient PROVE Spec => []DomainErrorHasPayload
<1>1. Init => PayloadInv
  BY InitTyped, ClientAssumption DEF PayloadInv, Payload, InQuery, Init
<1>2. PayloadInv /\ [Next]_vars => PayloadInv'
  BY StepTyped, PayloadStep DEF PayloadInv
<1>3. PayloadInv => DomainErrorHasPayload
  BY DEF PayloadInv, Payload, DomainErrorHasPayload
<1>4. QED
  BY <1>1, <1>2, <1>3, PTL DEF Spec

---------------------------------------------------------------------------
(* The GraphQL client implements QueryService, the promise its tasks rely
   on.  All the variables of the promise but one are the client's own; busy
   is the set of tasks inside query().  Every step of a task that backs off,
   reconnects or loses an attempt it can repeat is a stutter of the promise. *)

LEMMA PromiseInit == Init => Promise!SInit
BY DEF Init, InQuery, Promise!SInit

(* What busy becomes when a task's program counter changes.                *)
LEMMA BusyStays ==
  ASSUME \A u \in Tasks : (pc'[u] = "idle") = (pc[u] = "idle")
  PROVE  {u \in Tasks : InQuery(u)}' = {u \in Tasks : InQuery(u)}
BY DEF InQuery

LEMMA BusyLeaves ==
  ASSUME NEW t \in Tasks, pc'[t] = "idle", \A u \in Tasks \ {t} : pc'[u] = pc[u]
  PROVE  {u \in Tasks : InQuery(u)}' = {u \in Tasks : InQuery(u)} \ {t}
BY DEF InQuery

(* A query turned away begins and ends in one step.                        *)
LEMMA TurnedAwayBegins ==
  ASSUME TypeOK, NEW t \in Tasks, NEW v \in Promise!TurnedAway, StartQuery(t), Return(t, v)
  PROVE  Promise!SBegin(t)
<1>1. \A u \in Tasks : (pc'[u] = "idle") = (pc[u] = "idle")
  BY DEF StartQuery, Return, InQuery, TypeOK
<1>2. {u \in Tasks : InQuery(u)}' = {u \in Tasks : InQuery(u)}
  BY <1>1, BusyStays
<1>3. t \notin {u \in Tasks : InQuery(u)}
  BY DEF StartQuery
<1>4. QED
  BY <1>2, <1>3 DEF Promise!SBegin, StartQuery, Return

LEMMA AdmittedBegins ==
  ASSUME TypeOK, NEW t \in Tasks, QueryAdmitted(t)
  PROVE  Promise!SBegin(t)
<1>1. {u \in Tasks : InQuery(u)}' = {u \in Tasks : InQuery(u)} \union {t}
  BY DEF QueryAdmitted, InQuery, TypeOK
<1>2. t \notin {u \in Tasks : InQuery(u)}
  BY DEF QueryAdmitted, StartQuery
<1>3. QED
  BY <1>1, <1>2 DEF Promise!SBegin, QueryAdmitted, StartQuery

(* An attempt that fails is repeated, which nobody sees, or ends the query. *)
LEMMA FailureReturns ==
  ASSUME TypeOK, NEW t \in Tasks, NEW err \in Promise!Failures, InQuery(t),
         AttemptFails(t, err), UNCHANGED sent
  PROVE  Promise!SReturn(t) \/ UNCHANGED Promise!svars
<1>1. UNCHANGED <<queryNo, sent, done>>
  BY DEF AttemptFails
<1>2. CASE Retry(t)
  <2>1. \A u \in Tasks : (pc'[u] = "idle") = (pc[u] = "idle")
    BY <1>2 DEF Retry, InQuery, TypeOK
  <2>2. {u \in Tasks : InQuery(u)}' = {u \in Tasks : InQuery(u)}
    BY <2>1, BusyStays
  <2>3. QED
    BY <1>1, <1>2, <2>2 DEF Retry, Promise!svars
<1>3. CASE GiveUp(t, err)
  <2>1. pc'[t] = "idle" /\ \A u \in Tasks \ {t} : pc'[u] = pc[u]
    BY <1>3 DEF GiveUp, Return, TypeOK
  <2>2. {u \in Tasks : InQuery(u)}' = {u \in Tasks : InQuery(u)} \ {t}
    BY <2>1, BusyLeaves
  <2>3. QED
    BY <1>1, <1>3, <2>2 DEF GiveUp, Return, Promise!SReturn
<1>4. QED
  BY <1>2, <1>3 DEF AttemptFails

LEMMA SuccessReturns ==
  ASSUME TypeOK, NEW t \in Tasks, Succeed(t)
  PROVE  Promise!SReturn(t)
<1>1. pc'[t] = "idle" /\ \A u \in Tasks \ {t} : pc'[u] = pc[u]
  BY DEF Succeed, Return, TypeOK
<1>2. {u \in Tasks : InQuery(u)}' = {u \in Tasks : InQuery(u)} \ {t}
  BY <1>1, BusyLeaves
<1>3. t \in {u \in Tasks : InQuery(u)}
  BY DEF Succeed, InQuery
<1>4. Current(t) \in Promise!RequestsOf(t) \intersect done
  BY DEF Succeed, Current, TypeOK, Promise!RequestsOf
<1>5. QED
  BY <1>2, <1>3, <1>4 DEF Promise!SReturn, Succeed, Return

LEMMA SendSends ==
  ASSUME TypeOK, NEW t \in Tasks, Send(t)
  PROVE  Promise!SSend(t) \/ UNCHANGED Promise!svars
<1>1. \A u \in Tasks : (pc'[u] = "idle") = (pc[u] = "idle")
  BY DEF Send, TypeOK
<1>2. {u \in Tasks : InQuery(u)}' = {u \in Tasks : InQuery(u)}
  BY <1>1, BusyStays
<1>3. t \in {u \in Tasks : InQuery(u)}
  BY DEF Send, InQuery
<1>4. attempt[t] \in 0 .. (MaxRetries + 1) - 1
  BY ClientAssumption DEF TypeOK
<1>5. CASE Current(t) \in sent
  BY <1>2, <1>5 DEF Send, Promise!svars
<1>6. CASE Current(t) \notin sent
  BY <1>2, <1>3, <1>4, <1>6 DEF Send, Current, Promise!SSend
<1>7. QED
  BY <1>5, <1>6

LEMMA PromiseStep == TypeOK /\ [Next]_vars => [Promise!SNext]_(Promise!svars)
<1> SUFFICES ASSUME TypeOK, [Next]_vars PROVE [Promise!SNext]_(Promise!svars)
  OBVIOUS
<1>1. CASE UNCHANGED vars
  BY <1>1 DEF vars, taskVars, wireVars, InQuery, Promise!svars
<1>2. ASSUME NEW t \in Tasks, QueryOutOfMemory(t) \/ QueryRefused(t)
      PROVE  Promise!SBegin(t)
  <2>1. \E v \in Promise!TurnedAway : StartQuery(t) /\ Return(t, v)
    BY <1>2 DEF QueryOutOfMemory, QueryRefused, Promise!TurnedAway
  <2>2. QED
    BY <2>1, TurnedAwayBegins
<1>3. ASSUME NEW t \in Tasks, ConnectFails(t) \/ CancelInterrupts(t) \/ ConnectionLost(t)
                              \/ HttpError(t) \/ BodyLost(t) \/ DomainError(t)
      PROVE  Promise!SReturn(t) \/ UNCHANGED Promise!svars
  <2>1. /\ InQuery(t) /\ UNCHANGED sent
        /\ \E err \in Promise!Failures : AttemptFails(t, err)
    BY <1>3 DEF InQuery, ConnectFails, CancelInterrupts, ConnectionLost, HttpError,
                BodyLost, DomainError, Promise!Failures
  <2>2. QED
    BY <2>1, FailureReturns
<1>4. ASSUME NEW t \in Tasks, WakeUp(t) \/ UserCancels(t)
      PROVE  UNCHANGED Promise!svars
  <2>1. \A u \in Tasks : (pc'[u] = "idle") = (pc[u] = "idle")
    BY <1>4 DEF WakeUp, UserCancels, TypeOK
  <2>2. {u \in Tasks : InQuery(u)}' = {u \in Tasks : InQuery(u)}
    BY <2>1, BusyStays
  <2>3. QED
    BY <1>4, <2>2 DEF WakeUp, UserCancels, wireVars, Promise!svars
<1>5. ASSUME NEW r \in sent, EngineRuns(r)
      PROVE  Promise!SExecute(r)
  BY <1>5 DEF EngineRuns, taskVars, InQuery, Promise!SExecute
<1>6. QED
  BY <1>1, <1>2, <1>3, <1>4, <1>5, AdmittedBegins, SuccessReturns, SendSends
  DEF Next, OwnStep, Answer, Promise!SNext

(* The client keeps the promise of QueryService, however many tasks share a
   client and whatever the retry policy: at most max_retries + 1 requests a
   query, none after a refusal, success only for what the engine ran.      *)
THEOREM ClientKeepsPromise == Spec => ImplementsQueryService
<1>1. Spec => []TypeOK
  BY TypeCorrect
<1>2. QED
  BY <1>1, PromiseInit, PromiseStep, PTL DEF Spec, ImplementsQueryService, Promise!SSpec
=============================================================================
