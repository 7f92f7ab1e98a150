--------------------------- MODULE CacheFailSafe ---------------------------
(***************************************************************************)
(* core/cache_safe.zig: builds look something up in a cache that may fail, *)
(* fall back to building it, and write it back.  One CacheFailSafe serves  *)
(* all builds; a lookup calls the caller's operation, and while that is    *)
(* out other builds go on, so breaker and metrics change under it.         *)
(*                                                                         *)
(* The builds themselves are callers outside the repository: they follow   *)
(* the order the module's operations suggest (look up, build without the   *)
(* cache when that gave nothing, write back if shouldWriteCache).          *)
(***************************************************************************)
EXTENDS CircuitBreaker, FiniteSets

CONSTANTS
  Builds,        \* tasks that build
  BuildBudget,   \* bound of the model: lookups a task makes
  ResetBudget    \* bound of the model: calls of resetCircuit

ASSUME CacheAssumption == BuildBudget \in Nat /\ ResetBudget \in Nat

VARIABLES
  policy,    \* config.policy
  breaker,   \* config.breaker
  metrics,   \* config.metrics
  pc,        \* where each build is
  got,       \* what its last lookup returned
  lookedUp,  \* lookups each build has made
  resets,    \* calls of resetCircuit so far
  refused,   \* history: lookups refused since one was admitted
  failures   \* history: failures recorded since a success or a reset

vars == <<policy, breaker, metrics, pc, got, lookedUp, resets, refused, failures>>

Policy   == {"auto", "required", "disabled", "read_only"}
Counters == {"lookups", "hits", "misses", "failures", "fallbacks"}

TypeOK ==
  /\ policy \in Policy
  /\ breaker \in Breaker /\ breaker.skip_counter <= Effective(SkipRequests)
  /\ metrics \in [Counters -> Nat]
  /\ pc \in [Builds -> {"idle", "looking", "building", "writing"}]
  /\ got \in [Builds -> {"none", "hit", "miss", "skipped", "fallback", "error"}]
  /\ lookedUp \in [Builds -> 0 .. BuildBudget]
  /\ resets \in 0 .. ResetBudget
  /\ refused \in Nat /\ failures \in Nat

Init ==
  /\ policy \in Policy
  /\ breaker = NewBreaker
  /\ metrics = [c \in Counters |-> 0]
  /\ pc = [b \in Builds |-> "idle"]
  /\ got = [b \in Builds |-> "none"]
  /\ lookedUp = [b \in Builds |-> 0]
  /\ resets = 0 /\ refused = 0 /\ failures = 0

Count(cs) == metrics' = [c \in Counters |-> metrics[c] + (IF c \in cs THEN 1 ELSE 0)]

Goto(b, where) == pc' = [pc EXCEPT ![b] = where]
Gets(b, what)  == got' = [got EXCEPT ![b] = what]

RecordOk  == breaker' = RecordSuccess(breaker) /\ failures' = 0
RecordBad == breaker' = RecordFailure(breaker) /\ failures' = failures + 1

---------------------------------------------------------------------------
(* executeLookup, up to the call of the operation. *)

BeginsLookup(b) ==
  /\ pc[b] = "idle" /\ lookedUp[b] < BuildBudget
  /\ lookedUp' = [lookedUp EXCEPT ![b] = @ + 1]
  /\ UNCHANGED <<policy, resets, failures>>

LookupDisabled(b) ==
  /\ policy = "disabled"
  /\ BeginsLookup(b)
  /\ Goto(b, "building") /\ Gets(b, "skipped")
  /\ UNCHANGED <<breaker, metrics, refused>>

(* Slips: the breaker is looked at instead of asked, and so does not count
   what it refuses; a lookup is counted before the breaker is asked.       *)
LookupRefusedPeeks(b) ==
  /\ policy # "disabled" /\ ~Allows(breaker)
  /\ BeginsLookup(b)
  /\ refused' = refused + 1
  /\ Goto(b, "building") /\ Gets(b, "skipped")
  /\ UNCHANGED <<breaker, metrics>>

LookupRefusedCounted(b) ==
  /\ policy # "disabled" /\ ~Allows(breaker)
  /\ BeginsLookup(b)
  /\ breaker' = Allow(breaker) /\ refused' = refused + 1
  /\ Count({"lookups"})
  /\ Goto(b, "building") /\ Gets(b, "skipped")

LookupRefused(b) ==
  /\ policy # "disabled" /\ ~Allows(breaker)
  /\ BeginsLookup(b)
  /\ breaker' = Allow(breaker) /\ refused' = refused + 1
  /\ Goto(b, "building") /\ Gets(b, "skipped")
  /\ UNCHANGED metrics

LookupAdmitted(b) ==
  /\ policy # "disabled" /\ Allows(breaker)
  /\ BeginsLookup(b)
  /\ breaker' = Allow(breaker) /\ refused' = 0
  /\ Count({"lookups"})
  /\ Goto(b, "looking") /\ Gets(b, "none")

(* What it makes of the operation's result. *)

LookupHits(b) ==
  /\ pc[b] = "looking"
  /\ Count({"hits"}) /\ RecordOk
  /\ Goto(b, "idle") /\ Gets(b, "hit")
  /\ UNCHANGED <<policy, lookedUp, resets, refused>>

LookupMisses(b) ==
  /\ pc[b] = "looking"
  /\ Count({"misses"}) /\ RecordOk
  /\ Goto(b, "building") /\ Gets(b, "miss")
  /\ UNCHANGED <<policy, lookedUp, resets, refused>>

(* Slip: the error is returned whatever the policy.                        *)
LookupFailsHard(b) ==
  /\ pc[b] = "looking"
  /\ RecordBad
  /\ Count({"failures"}) /\ Goto(b, "idle") /\ Gets(b, "error")
  /\ UNCHANGED <<policy, lookedUp, resets, refused>>

(* Slip: the failure is not recorded when the build can do without.        *)
LookupFailsUnrecorded(b) ==
  /\ pc[b] = "looking" /\ policy \in {"auto", "read_only"}
  /\ failures' = failures + 1
  /\ Count({"failures", "fallbacks"}) /\ Goto(b, "building") /\ Gets(b, "fallback")
  /\ UNCHANGED <<policy, breaker, lookedUp, resets, refused>>

LookupFails(b) ==
  /\ pc[b] = "looking"
  /\ RecordBad
  /\ \/ /\ policy = "required"
        /\ Count({"failures"}) /\ Goto(b, "idle") /\ Gets(b, "error")
     \/ /\ policy \in {"auto", "read_only"}
        /\ Count({"failures", "fallbacks"}) /\ Goto(b, "building") /\ Gets(b, "fallback")
  /\ UNCHANGED <<policy, lookedUp, resets, refused>>

---------------------------------------------------------------------------
ShouldWriteCache == policy \in {"auto", "required"}

BuildEnds(b) ==
  /\ pc[b] = "building"
  /\ Goto(b, IF ShouldWriteCache THEN "writing" ELSE "idle")
  /\ UNCHANGED <<policy, breaker, metrics, got, lookedUp, resets, refused, failures>>

(* recordWriteSuccess and recordWriteFailure, open circuit or not. *)
WriteEnds(b) ==
  /\ pc[b] = "writing"
  /\ RecordOk \/ RecordBad
  /\ Goto(b, "idle")
  /\ UNCHANGED <<policy, metrics, got, lookedUp, resets, refused>>

(* Slip: only the state is put back.                                       *)
ResetCircuitStateOnly ==
  /\ resets < ResetBudget
  /\ resets' = resets + 1
  /\ breaker' = [breaker EXCEPT !.state = "closed"]
  /\ refused' = 0 /\ failures' = 0
  /\ UNCHANGED <<policy, metrics, pc, got, lookedUp>>

(* skip_counter keeps its value; Open puts it back before it is read.      *)
ResetCircuit ==
  /\ resets < ResetBudget
  /\ resets' = resets + 1
  /\ breaker' = [breaker EXCEPT !.state = "closed", !.failure_count = 0, !.success_count = 0]
  /\ refused' = 0 /\ failures' = 0
  /\ UNCHANGED <<policy, metrics, pc, got, lookedUp>>

Next ==
  \/ \E b \in Builds :
       \/ LookupDisabled(b) \/ LookupRefused(b) \/ LookupAdmitted(b)
       \/ LookupHits(b) \/ LookupMisses(b) \/ LookupFails(b)
       \/ BuildEnds(b) \/ WriteEnds(b)
  \/ ResetCircuit

Spec == Init /\ [][Next]_vars

---------------------------------------------------------------------------
(* Properties.                                                             *)

(* Every lookup counted is a hit, a miss, a failure or still out, and the
   fallbacks are the failures of the policies that fall back: the rates of
   CacheMetrics, and the health derived from them, are true at any time,
   lookups in flight included (cache_safe.zig:67).                         *)
Outstanding == {b \in Builds : pc[b] = "looking"}

MetricsBalance ==
  /\ metrics["lookups"] = metrics["hits"] + metrics["misses"] + metrics["failures"]
                            + Cardinality(Outstanding)
  /\ metrics["fallbacks"] = IF policy = "required" THEN 0 ELSE metrics["failures"]

(* "Cache failures should NEVER break a build" (cache_safe.zig:10): a build
   gets an error only if it required the cache, and then only for a failure
   that was counted.                                                       *)
FailuresDegradeGracefully ==
  \A b \in Builds : got[b] = "error" => policy = "required" /\ metrics["failures"] > 0

(* A cache that is back is found again: never are more than skip_requests
   lookups refused in a row, whatever lookups, writes and resets overlap.  *)
ColdSpellBounded == refused <= Effective(SkipRequests)

(* An outage is noticed: after failure_threshold recorded failures with no
   success or reset among them the circuit is not closed, and a closed one
   has counted each of them.                                               *)
OutageOpensCircuit ==
  breaker.state = "closed" =>
    failures < Effective(FailureThreshold) /\ breaker.failure_count = failures

(* And only then: a closed circuit opens on no fewer.                      *)
OpensOnlyOnOutage ==
  [][breaker.state = "closed" /\ breaker'.state = "open"
       => failures' >= Effective(FailureThreshold)]_vars
===========================================================================
