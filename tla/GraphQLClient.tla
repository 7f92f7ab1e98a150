--------------------------- MODULE GraphQLClient --------------------------
(***************************************************************************)
(* core/graphql_client.zig: query() with its retry loop, its breaker and   *)
(* its last_error, run by concurrent tasks against an engine that may be   *)
(* slow, refuse, lose answers or run a request twice.                      *)
(*                                                                         *)
(* A step is what a task does between two blocking calls on its std.Io: a  *)
(* query blocks while it connects, while it waits for an answer and while  *)
(* it backs off, and other tasks run meanwhile.  The state of a query      *)
(* (attempt, backoff_ms) lives on the task's stack; breaker and last_error *)
(* live in the client, which ClientOf gives to each task.  branch() gives  *)
(* every task a client of its own (OneTaskPerClient).                      *)
(***************************************************************************)
EXTENDS CircuitBreaker, FiniteSets

CONSTANTS
  Tasks, Clients,
  ClientOf,       \* which client a task queries through
  Guarded,        \* the clients connected with enable_circuit_breaker
  MaxRetries,     \* retry_policy.max_retries
  InitialBackoff, MaxBackoff,
  GrowthNum, GrowthDen,   \* backoff_multiplier as a fraction
  Cancellable,    \* the tasks somebody may cancel
  QueryBudget     \* bound of the model: queries a task issues

ASSUME ClientAssumption ==
  /\ ClientOf \in [Tasks -> Clients]
  /\ Guarded \subseteq Clients
  /\ MaxRetries \in Nat
  /\ InitialBackoff \in Nat /\ MaxBackoff \in Nat
  /\ GrowthNum \in Nat /\ GrowthDen \in Nat \ {0}
  /\ QueryBudget \in [Tasks -> Nat]

(* The discipline docs/async-patterns.md asks for: one branch() per task.  *)
OneTaskPerClient == \A t, u \in Tasks : ClientOf[t] = ClientOf[u] => t = u

VARIABLES
  pc,         \* where each task is in query()
  queryNo,    \* queries issued so far
  attempt,    \* loop counter of queryWithRetry
  backoff,    \* backoff_ms of queryWithRetry
  verdict,    \* what the last query returned
  cancel,     \* a cancellation of the query's task: asked for, delivered
  breaker,    \* circuit_breaker of each client
  lastError,  \* last_error of each client
  streak,     \* history: the run of equal outcomes each breaker saw last
  sent, done  \* requests put on the wire, requests the engine ran

taskVars   == <<pc, queryNo, attempt, backoff, verdict, cancel>>
clientVars == <<breaker, lastError, streak>>
wireVars   == <<sent, done>>
vars       == <<taskVars, clientVars, wireVars>>

(* The default predicate; a caller may set another (resilience.zig:33).   *)
Retryable == {"TransportFailed", "HttpStatus"}
Fatal     == {"DomainError", "OutOfMemory"}
Verdicts  == Retryable \union Fatal \union {"CircuitOpen", "success", "none"}
Streak    == [of : {"none", "ok", "bad", "refused"}, len : Nat]
Request   == [task : Tasks, query : Nat, attempt : Nat]

InQuery(t)  == pc[t] # "idle"
Current(t)  == [task |-> t, query |-> queryNo[t], attempt |-> attempt[t]]
Min2(m, n)  == IF m <= n THEN m ELSE n

TypeOK ==
  /\ pc \in [Tasks -> {"idle", "connecting", "waiting", "sleeping"}]
  /\ queryNo \in [Tasks -> Nat]
  /\ attempt \in [Tasks -> 0 .. MaxRetries]
  /\ backoff \in [Tasks -> Nat]
  /\ verdict \in [Tasks -> Verdicts]
  /\ cancel \in [Tasks -> {"none", "requested", "delivered"}]
  /\ breaker \in [Clients -> Breaker]
  /\ lastError \in [Clients -> {"none", "http", "domain"}]
  /\ streak \in [Clients -> Streak]
  /\ sent \subseteq Request /\ done \subseteq sent

(* init() and fork(): a fresh breaker and no error, whatever the parent's. *)
Init ==
  /\ pc = [t \in Tasks |-> "idle"]
  /\ queryNo = [t \in Tasks |-> 0]
  /\ attempt = [t \in Tasks |-> 0]
  /\ backoff = [t \in Tasks |-> 0]
  /\ verdict = [t \in Tasks |-> "none"]
  /\ cancel = [t \in Tasks |-> "none"]
  /\ breaker = [c \in Clients |-> NewBreaker]
  /\ lastError = [c \in Clients |-> "none"]
  /\ streak = [c \in Clients |-> [of |-> "none", len |-> 0]]
  /\ sent = {} /\ done = {}

---------------------------------------------------------------------------
(* Breaker and history of client c after it saw one more outcome.  A       *)
(* client without a breaker records nothing.                               *)
Extend(s, kind) ==
  IF s.of = kind THEN [s EXCEPT !.len = @ + 1] ELSE [of |-> kind, len |-> 1]

Observe(c, kind, b) ==
  IF c \in Guarded
  THEN /\ breaker' = [breaker EXCEPT ![c] = b]
       /\ streak' = [streak EXCEPT ![c] = Extend(streak[c], kind)]
  ELSE UNCHANGED <<breaker, streak>>

SetLastError(c, e) == lastError' = [lastError EXCEPT ![c] = e]
KeepLastError      == UNCHANGED lastError

Return(t, v) ==
  /\ pc' = [pc EXCEPT ![t] = "idle"]
  /\ verdict' = [verdict EXCEPT ![t] = v]

---------------------------------------------------------------------------
(* Slip: last_error is left over from the query before.                    *)
StartQueryStaleError(t) ==
  /\ ~InQuery(t)
  /\ queryNo[t] < QueryBudget[t]
  /\ queryNo' = [queryNo EXCEPT ![t] = @ + 1]
  /\ cancel' = [cancel EXCEPT ![t] = "none"]
  /\ UNCHANGED <<lastError, sent, done>>

(* query() frees and clears last_error, whatever happens next.             *)
StartQuery(t) ==
  /\ ~InQuery(t)
  /\ queryNo[t] < QueryBudget[t]
  /\ queryNo' = [queryNo EXCEPT ![t] = @ + 1]
  /\ cancel' = [cancel EXCEPT ![t] = "none"]
  /\ lastError' = [lastError EXCEPT ![ClientOf[t]] = "none"]
  /\ UNCHANGED <<sent, done>>

(* buildRequestBody could not allocate. *)
QueryOutOfMemory(t) ==
  /\ StartQuery(t)
  /\ Return(t, "OutOfMemory")
  /\ UNCHANGED <<attempt, backoff, breaker, streak>>

Admits(c) == c \in Guarded => Allows(breaker[c])

QueryRefused(t) ==
  /\ StartQuery(t)
  /\ ~Admits(ClientOf[t])
  /\ Return(t, "CircuitOpen")
  /\ Observe(ClientOf[t], "refused", Allow(breaker[ClientOf[t]]))
  /\ UNCHANGED <<attempt, backoff>>

QueryAdmitted(t) ==
  LET c == ClientOf[t]
  IN /\ StartQuery(t)
     /\ Admits(c)
     /\ breaker' = IF c \in Guarded
                   THEN [breaker EXCEPT ![c] = Allow(breaker[c])]
                   ELSE breaker
     /\ pc' = [pc EXCEPT ![t] = "connecting"]
     /\ attempt' = [attempt EXCEPT ![t] = 0]
     /\ backoff' = [backoff EXCEPT ![t] = InitialBackoff]
     /\ verdict' = [verdict EXCEPT ![t] = "none"]
     /\ UNCHANGED streak

---------------------------------------------------------------------------
(* The end of an attempt: back to the retry loop, or out of query().       *)

(* Slips: one attempt too many; a failure recorded for every attempt.      *)
RetryOnceMore(t) ==
  /\ attempt[t] <= MaxRetries
  /\ pc' = [pc EXCEPT ![t] = "sleeping"]
  /\ UNCHANGED <<verdict, breaker, streak>>

RetryRecordsFailure(t) ==
  /\ attempt[t] < MaxRetries
  /\ pc' = [pc EXCEPT ![t] = "sleeping"]
  /\ breaker' = [breaker EXCEPT ![ClientOf[t]] = RecordFailure(@)]
  /\ UNCHANGED <<verdict, streak>>

Retry(t) ==
  /\ attempt[t] < MaxRetries
  /\ pc' = [pc EXCEPT ![t] = "sleeping"]
  /\ UNCHANGED <<verdict, breaker, streak>>

GiveUp(t, err) ==
  /\ Return(t, err)
  /\ Observe(ClientOf[t], "bad", RecordFailure(breaker[ClientOf[t]]))

AttemptFails(t, err) ==
  /\ \/ err \in Retryable /\ Retry(t)
     \/ err \in Retryable /\ attempt[t] = MaxRetries /\ GiveUp(t, err)
     \/ err \in Fatal /\ GiveUp(t, err)
  /\ UNCHANGED <<queryNo, attempt, backoff, done>>

(* Connecting, or writing the body, fails before the engine has the request. *)
ConnectFails(t) ==
  /\ pc[t] = "connecting"
  /\ AttemptFails(t, "TransportFailed")
  /\ KeepLastError
  /\ UNCHANGED <<cancel, sent>>

Send(t) ==
  /\ pc[t] = "connecting"
  /\ pc' = [pc EXCEPT ![t] = "waiting"]
  /\ sent' = sent \union {Current(t)}
  /\ UNCHANGED <<queryNo, attempt, backoff, verdict, cancel, done, clientVars>>

(* The connection is lost before the response head, the request run or not. *)
ConnectionLost(t) ==
  /\ pc[t] = "waiting"
  /\ AttemptFails(t, "TransportFailed")
  /\ KeepLastError
  /\ UNCHANGED <<cancel, sent>>

(* A status of 400 or more: its body, when it can be read, becomes
   last_error.  The engine may have run the request or not.                *)
HttpError(t) ==
  /\ pc[t] = "waiting"
  /\ AttemptFails(t, "HttpStatus")
  /\ SetLastError(ClientOf[t], "http") \/ KeepLastError
  /\ UNCHANGED <<cancel, sent>>

(* The answer started and its body could not be read to the end: whatever
   the cause, the code reports OutOfMemory, which is not retried.          *)
BodyLost(t) ==
  /\ pc[t] = "waiting" /\ Current(t) \in done
  /\ AttemptFails(t, "OutOfMemory")
  /\ KeepLastError
  /\ cancel' \in {cancel, [cancel EXCEPT ![t] = IF @ = "requested" THEN "delivered" ELSE @]}
  /\ UNCHANGED sent

DomainError(t) ==
  /\ pc[t] = "waiting" /\ Current(t) \in done
  /\ AttemptFails(t, "DomainError")
  /\ SetLastError(ClientOf[t], "domain")
  /\ UNCHANGED <<cancel, sent>>

(* Also the end of a body that is no JSON, or of a GraphQL error whose
   message could not be copied: the raw body is returned as data.          *)
Succeed(t) ==
  /\ pc[t] = "waiting" /\ Current(t) \in done
  /\ Return(t, "success")
  /\ Observe(ClientOf[t], "ok", RecordSuccess(breaker[ClientOf[t]]))
  /\ KeepLastError
  /\ UNCHANGED <<queryNo, attempt, backoff, cancel, sent, done>>

(* Slip: the loop forgets to count the attempt.                            *)
WakeUpUncounted(t) ==
  /\ pc[t] = "sleeping"
  /\ pc' = [pc EXCEPT ![t] = "connecting"]
  /\ backoff' = [backoff EXCEPT ![t] = Min2((@ * GrowthNum) \div GrowthDen, MaxBackoff)]
  /\ UNCHANGED <<queryNo, attempt, verdict, cancel, clientVars, wireVars>>

(* The sleep is over, or was cut short: its error.Canceled is ignored.     *)
WakeUp(t) ==
  /\ pc[t] = "sleeping"
  /\ pc' = [pc EXCEPT ![t] = "connecting"]
  /\ attempt' = [attempt EXCEPT ![t] = @ + 1]
  /\ backoff' = [backoff EXCEPT ![t] = Min2((@ * GrowthNum) \div GrowthDen, MaxBackoff)]
  /\ cancel' \in {cancel, [cancel EXCEPT ![t] = IF @ = "requested" THEN "delivered" ELSE @]}
  /\ UNCHANGED <<queryNo, verdict, clientVars, wireVars>>

---------------------------------------------------------------------------
(* Cancellation: the next blocking call of the task returns error.Canceled,
   once; queryOnce turns it into TransportFailed.                          *)
UserCancels(t) ==
  /\ t \in Cancellable /\ InQuery(t) /\ cancel[t] = "none"
  /\ cancel' = [cancel EXCEPT ![t] = "requested"]
  /\ UNCHANGED <<pc, queryNo, attempt, backoff, verdict, clientVars, wireVars>>

CancelInterrupts(t) ==
  /\ pc[t] \in {"connecting", "waiting"} /\ cancel[t] = "requested"
  /\ AttemptFails(t, "TransportFailed")
  /\ cancel' = [cancel EXCEPT ![t] = "delivered"]
  /\ KeepLastError
  /\ UNCHANGED sent

(* The engine runs a request it was sent, perhaps long after the client
   has given up on it.                                                     *)
EngineRuns(r) ==
  /\ r \in sent \ done
  /\ done' = done \union {r}
  /\ UNCHANGED <<taskVars, clientVars, sent>>

---------------------------------------------------------------------------
Answer(t) ==
  \/ ConnectionLost(t) \/ HttpError(t) \/ BodyLost(t)
  \/ DomainError(t) \/ Succeed(t)

(* What the task does without the engine: these steps only need the CPU,
   a clock and the local network stack.                                    *)
OwnStep(t) == ConnectFails(t) \/ Send(t) \/ WakeUp(t) \/ CancelInterrupts(t)

Next ==
  \/ \E t \in Tasks :
       \/ QueryOutOfMemory(t) \/ QueryRefused(t) \/ QueryAdmitted(t)
       \/ OwnStep(t) \/ Answer(t) \/ UserCancels(t)
  \/ \E r \in sent : EngineRuns(r)

Spec == Init /\ [][Next]_vars

(* The scheduler runs a task that can run; and an engine, or the operating
   system in its place, ends every exchange somehow: by an answer, an error
   status or a closed connection.  The client has no deadline of its own.  *)
FairSpec ==
  /\ Spec
  /\ \A t \in Tasks : WF_vars(OwnStep(t)) /\ WF_vars(Answer(t))

---------------------------------------------------------------------------
(* Properties.                                                             *)

(* A breaker's fields stay in their bounds, and while a query is under way
   on a client its circuit is not open: the branches of recordSuccess and
   recordFailure marked "Shouldn't happen" are never taken, as long as no
   two tasks share a client (resilience.zig:204, 228).                     *)
BreakerSound ==
  /\ \A c \in Clients : CountersInBounds(breaker[c])
  /\ \A t \in Tasks : InQuery(t) => breaker[ClientOf[t]].state # "open"

(* The breaker's counters are exactly the history of what queries returned:
   failure_count counts the failures in a row of a closed circuit,
   success_count the good probes in a row of a half-open one, skip_counter
   the refusals in a row of an open one.  No query is counted twice (once
   per attempt, say) and none is forgotten.                                *)
Run(s, kind) == IF s.of = kind THEN s.len ELSE 0

Reflects(b, s) ==
  /\ b.state = "closed" => s.of # "refused" /\ b.failure_count = Run(s, "bad")
  /\ b.state = "half_open" => s.of \in {"ok", "refused"} /\ b.success_count = Run(s, "ok")
  /\ b.state = "open" => s.of \in {"bad", "refused"} /\ b.skip_counter = Run(s, "refused")

CircuitReflectsHistory == \A c \in Clients : Reflects(breaker[c], streak[c])

(* A closed circuit opens only on the FailureThreshold-th failed query in a
   row, and a half-open one on its first failed probe: retries inside a
   query, refusals and earlier outages do not count (docs/resilience.md,
   "opens after the configured failure threshold").                        *)
TripsOnlyOnFailureRun ==
  [][\A c \in Clients :
       breaker[c].state # "open" /\ breaker'[c].state = "open"
         => /\ streak'[c].of = "bad"
            /\ breaker[c].state = "closed"
                 => streak'[c].len >= Effective(FailureThreshold)]_vars

(* Recovery: no run of refusals is longer than skip_requests, and after
   success_threshold good queries in a row the circuit is closed again, so
   an engine that is back is never shut out for good.                      *)
CircuitRecovers ==
  \A c \in Clients :
    /\ Run(streak[c], "refused") <= Effective(SkipRequests)
    /\ Run(streak[c], "ok") >= Effective(SuccessThreshold) => breaker[c].state = "closed"

(* A task told DomainError finds the engine's message of that very query in
   last_error, and after any other outcome there is no domain message left
   from an earlier query (graphql_client.zig:41, errors.zig:79).           *)
DomainErrorHasPayload ==
  \A t \in Tasks :
    ~InQuery(t) => (verdict[t] = "DomainError" <=> lastError[ClientOf[t]] = "domain")

(* The client implements the promise made to its tasks: at most
   max_retries + 1 requests a query, none after a refusal, and success only
   for a query the engine ran.                                             *)
Promise == INSTANCE QueryService
             WITH busy <- {t \in Tasks : InQuery(t)}, MaxAttempts <- MaxRetries + 1

ImplementsQueryService == Promise!SSpec

(* The retry loop ends: with an engine that ends every exchange, every query
   returns.                                                                *)
QueryReturns == \A t \in Tasks : InQuery(t) ~> ~InQuery(t)

(* "user can cancel() any in-flight pipeline; we see error.Canceled coming
   back" (graphql_client.zig:21): once a query's task has been told it is
   cancelled, the query puts no further request on the wire.               *)
NothingSentAfterCancel ==
  [][\A t \in Tasks : cancel[t] = "delivered" /\ queryNo'[t] = queryNo[t]
       => {r \in sent' : r.task = t} = {r \in sent : r.task = t}]_vars
===========================================================================
