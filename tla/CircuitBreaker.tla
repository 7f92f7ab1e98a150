-------------------------- MODULE CircuitBreaker --------------------------
(***************************************************************************)
(* The circuit breaker of core/resilience.zig as a value: a record of its  *)
(* run-time fields, and what allow(), recordSuccess() and recordFailure()  *)
(* make of it.  The module has no variables: every client that owns a      *)
(* breaker (the GraphQL client, the build cache) keeps such a record in a  *)
(* variable of its own and applies these operators to it.                  *)
(*                                                                         *)
(* Counters are u32 in the code.  MaxU32 stands for 2^32 - 1; the model    *)
(* checker takes it small, the theorems hold for every value.              *)
(***************************************************************************)
EXTENDS Naturals

CONSTANTS
  FailureThreshold,  \* failed queries in a row that open the circuit
  SkipRequests,      \* refusals before an open circuit lets a probe through
  SuccessThreshold,  \* successful probes that close a half-open circuit
  MaxU32             \* the largest value of a counter

(* The three thresholds are u32 fields a caller may set, zero included.    *)
ASSUME ThresholdAssumption ==
  /\ MaxU32 \in Nat \ {0}
  /\ FailureThreshold \in 0 .. MaxU32
  /\ SkipRequests \in 0 .. MaxU32
  /\ SuccessThreshold \in 0 .. MaxU32

CircuitState == {"closed", "half_open", "open"}

Breaker == [ state : CircuitState, failure_count : Nat,
             success_count : Nat, skip_counter : Nat ]

NewBreaker == [ state |-> "closed", failure_count |-> 0,
                success_count |-> 0, skip_counter |-> 0 ]

(* A threshold of zero is read as one, "to prevent stuck states".          *)
Effective(threshold) == IF threshold = 0 THEN 1 ELSE threshold

SaturatingInc(n) == IF n < MaxU32 THEN n + 1 ELSE n

Open(b)  == [b EXCEPT !.state = "open", !.skip_counter = 0]
Close(b) == [b EXCEPT !.state = "closed", !.failure_count = 0,
                      !.success_count = 0]
HalfOpen(b) == [b EXCEPT !.state = "half_open", !.skip_counter = 0,
                         !.success_count = 0]

---------------------------------------------------------------------------
(* allow() answers and changes the breaker: Allows is the answer, Allow    *)
(* the breaker it leaves behind.                                           *)

(* Slips of the kind a rewrite of the breaker could make, kept next to the
   definitions they change to show which property notices them.            *)
SkippedOneTooMany(b)  == b.skip_counter > Effective(SkipRequests)
ProbedOneTooMany(b)   == b.success_count > Effective(SuccessThreshold)

SkippedEnough(b)  == b.skip_counter >= Effective(SkipRequests)
FailedEnough(b)   == b.failure_count >= Effective(FailureThreshold)
ProbedEnough(b)   == b.success_count >= Effective(SuccessThreshold)

Allows(b) ==
  \/ b.state = "closed" /\ ~FailedEnough(b)
  \/ b.state = "half_open"
  \/ b.state = "open" /\ SkippedEnough(b)

Allow(b) ==
  CASE b.state = "closed" /\ FailedEnough(b) -> Open(b)
    [] b.state = "half_open" /\ ProbedEnough(b) -> Close(b)
    [] b.state = "open" /\ SkippedEnough(b) -> HalfOpen(b)
    [] b.state = "open" /\ ~SkippedEnough(b) -> [b EXCEPT !.skip_counter = @ + 1]
    [] OTHER -> b

(* Slip: a success of a closed circuit leaves old failures on the count.   *)
RecordSuccessOnlyProbes(b) ==
  IF b.state = "half_open"
  THEN LET probed == [b EXCEPT !.success_count = @ + 1]
       IN IF ProbedEnough(probed) THEN Close(probed) ELSE probed
  ELSE b

RecordSuccess(b) ==
  LET probed == [b EXCEPT !.success_count = SaturatingInc(@)]
  IN CASE b.state = "closed" -> [b EXCEPT !.failure_count = 0]
       [] b.state = "half_open" /\ ProbedEnough(probed) -> Close(probed)
       [] b.state = "half_open" /\ ~ProbedEnough(probed) -> probed
       [] OTHER -> b

RecordFailure(b) ==
  LET failed == [b EXCEPT !.failure_count = SaturatingInc(@)]
  IN CASE b.state = "closed" /\ FailedEnough(failed) -> Open(failed)
       [] b.state = "closed" /\ ~FailedEnough(failed) -> failed
       [] b.state = "half_open" -> Open(b)
       [] OTHER -> b

---------------------------------------------------------------------------
(* What every reachable breaker satisfies.  A closed circuit is below its  *)
(* failure threshold and a half-open one below its success threshold, so   *)
(* the re-checks at the head of allow() never act; skip_counter stops at   *)
(* skip_requests, so its unguarded increment cannot overflow a u32.        *)
CountersInBounds(b) ==
  /\ b.state = "closed" => b.failure_count < Effective(FailureThreshold)
  /\ b.state = "half_open" => b.success_count < Effective(SuccessThreshold)
  /\ b.skip_counter <= Effective(SkipRequests)
  /\ b.state # "open" => b.skip_counter = 0
  /\ b.failure_count <= MaxU32 /\ b.success_count <= MaxU32
===========================================================================
