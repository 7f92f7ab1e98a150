# A verification project for the Dagger SDK for Zig

TLA+ models of the run-time core of this repository (`sdk/lib/src`), of the
telemetry its Go side sends (`sdk/otel-go`) and of the SDK module that scaffolds,
generates and builds modules (`sdk/main.go`, `sdk/runtimeutil`, `sdk/codegen`);
TLC configurations that check them on small instances; and theorems about them
that TLAPS proves for every value of the constants.

To check a run: `tlc -workers 2 -config BreakerHistory.cfg MCGraphQLClient.tla`.
To check the proofs: `tlapm GraphQLClientProofs.tla` (and the other seven modules
that hold theorems). `PROJECT.json` lists the runs, maps every definition to the lines of
source it stands for, and lists the hazards and the findings.

Contents: [inventory](#the-system) - [modules](#modules-and-how-they-correspond-to-the-code) -
[runs](#runs) - [fairness](#fairness) - [proofs](#what-is-proved) -
[findings](#where-code-and-documentation-disagree) - [left out](#what-is-not-modelled) - [plan](#plan).

## The system

A program links the SDK. `connect()` finds an engine session (in the
environment, or by starting `dagger session` as a subprocess), and every
operation of the generated bindings becomes one GraphQL query over HTTP to that
session. Tasks run on a `std.Io`, which decides how they are scheduled; each
task is expected to query through a client of its own, made by `branch()`.

The engine runs the Go part: it calls the SDK module to create a module or a
client, to generate bindings (`dagger develop`) and to build the module in a
container. Go processes report what they do through `otel-go`, which sets
exporters up from the environment, forwards what other processes send, and
translates it to and from OTLP.

| Component | State it keeps | Operations | Talks to |
|---|---|---|---|
| **Circuit breaker**, `core/resilience.zig` | `state`, `failure_count`, `success_count`, `skip_counter` | `allow`, `recordSuccess`, `recordFailure`, `getState` | owned by a GraphQL client or by the build cache |
| **Retry executor**, `core/resilience.zig` | the loop's attempt and backoff | `execute`, `validate`, `calculateJitter` | a breaker |
| **GraphQL client**, `core/graphql_client.zig` | `circuit_breaker`, `last_error`; per query: attempt, `backoff_ms` | `init`, `fork`, `query`, `deinit` | the engine, over HTTP |
| **CLI session**, `core/cli_session.zig` | child process, its pipes, two drain tasks | `connect`, `shutdown` | the CLI subprocess, the logger, the Io |
| **Engine and client life cycle**, `core/engine.zig`, `root.zig`, `parallel.zig` | session or parameters, arena, `query_in_progress`, ownership of strings | `connect`, `branch`, `query`, `resetArena`, `close`, `parallel.map` | CLI session, GraphQL client |
| **C API**, `c_api.zig` | opaque handles, a thread-local last error | one function per client operation | the client |
| **Module server**, `module/server.zig`, `dispatch.zig` | the current call, its arguments | `serve`: introspection, constructor, function dispatch | the engine (`currentFunctionCall`, `returnValue`, `returnError`) |
| **Cache fail-safe**, `core/cache_safe.zig` | policy, breaker, metrics | `executeLookup`, `recordWrite*`, `resetCircuit`, `health` | a breaker, the caller's lookup |
| **Secrets**, `core/secrets.zig` | registry, scrubber patterns | `register`, `load`, `scrub` | log writers |
| **Query builder**, `querybuilder.zig` | a selection chain | `select`, `arg`, `build`, `unpack` | GraphQL client |
| **Type marshalling**, `module/serde.zig`, `typedef.zig` | none | Zig types to Dagger type definitions, JSON to values | module server |
| **Telemetry and tracing**, `telemetry.zig`, `tracing.zig` | counters, span stack | `recordRequest`, `getStats`, spans | exporters |
| **Tracing pipeline**, `otel-go/init.go`, `live.go`, `exporters.go` | one batch queue per Init and exporter, `SpanProcessors`, the exporter of the environment (once per process) | `Init`, span start and end, `SpanForwarder`, `Close` | OTLP endpoints, the OpenTelemetry SDK |
| **Logger and meter providers**, `otel-go/init.go`, `logging.go` | the providers in the context, `LogProcessors`, `MetricExporters`, `closeCtx`, the streams of a span | `Init`, `SpanStdio`, `LogForwarder`, `Close` | as above |
| **Error origins**, `otel-go/span.go` | none: the stamp is in the error's text | `EndWithCause`, `TrackOrigin`, `ParseErrorOrigins` | spans |
| **OTLP translation**, `otel-go/transform.go` | none | spans, logs and metrics to messages and back | other processes |
| **SPIFFE identities**, `spiffe/` | parsed IDs, fetched SVIDs | parse, fetch | `spire-agent` |
| **Schema validation**, `schema/` | none | check of one document | - |
| **SDK module**, `sdk/main.go`, `runtimeutil/build.go`, `codegen/stub.go`, `gen_command.go` | files of a context directory | `InitModule`, `InitClient`, `Codegen`, `ModuleRuntime` | the engine, the Zig compiler |
| **Bindings generator**, `sdk/codegen/generator.go` | none | `GenerateZigTypes` | - |
| **Generator in Zig**, `codegen/` | none | the same, for the SDK's own library | - |

What is hard, and what has to hold:

* **Breaker.** Its behaviour is a function of a *sequence* of calls. It has to
  count what it says it counts (consecutive failures, good probes, refusals),
  open on a run of failures only, and let an engine that is back in again.
  Thresholds may be zero and counters are `u32`. It is read before a blocking
  call and written after it, so two tasks sharing one may surprise it.
* **GraphQL client.** Requests, answers and connections get lost, engines run a
  request after the client has given up on it, users cancel tasks. A query has
  to stay within its number of attempts, has to send nothing after a refusal,
  may report success only for what ran, has to keep the error payload of *this*
  query, and has to return.
* **CLI session.** Two bounded pipes, two tasks, one subprocess, and a parent
  that waits for all of them: no orphan, no lost or repeated line, no use of
  the logger after its owner was told it is over, and no deadlock.
* **Life cycle.** Who owns which string and arena across `connect`, `branch`,
  `close` and their error paths.
* **Module server.** Exactly one of `returnValue` and `returnError` should reach
  the engine, though either is itself a query that can fail or be retried.
* **Cache.** A policy other than `required` must never fail a build; lookups and
  writes share a breaker.
* **Secrets.** No registered value passes the scrubber; no copy leaks or is
  freed twice.
* **Telemetry.** Counters read one by one while they change.
* **Tracing pipeline.** A span is reported twice through one queue, spans of other
  processes come in by a goroutine per processor, `Init` may run again and share
  an exporter with the `Init` before, `Close` has a deadline. No exporter should
  see a start after an end, anything twice, or something that runs when it asked
  for what is finished; and it should be clear what a `Close` may lose.
* **Providers.** `Close` goes by a context, forwarding by two lists that only
  grow, an EOF by the logger a stream was opened with.
* **Error origins.** The one that is named must be where the failure began,
  whatever joined, wrapped or dropped the error, with calls without a span between.
* **OTLP translation.** Grouping must lose nothing and keep the order of a scope;
  a running span has the zero time, which no 64-bit count of nanoseconds holds,
  for its end; a value must survive any number of hops.
* **Generator.** Four switches over the type of a field must agree, and Zig only
  compiles the methods somebody uses.
* **SDK module.** Two places work out where the module's directory is; one build
  file too many and another project is built.

## Modules and how they correspond to the code

| Module | Models | Depends on |
|---|---|---|
| `CircuitBreaker` | the breaker as a record with `Allows`/`Allow`, `RecordSuccess`, `RecordFailure`; no variables, so that every owner can keep one | - |
| `QueryService` | abstract: what a client promises a task | - |
| `GraphQLClient` | `query`, `queryWithRetry`, `queryOnce`, cancellation, the engine | `CircuitBreaker`; implements `QueryService` |
| `MCGraphQLClient` | two tasks, two clients, one of them guarded | `GraphQLClient` |
| `ModuleServer` | `serve()`: introspection, constructor, dispatch of one invocation | `QueryService`, whose only task it is |
| `MCModuleServer` | a module of one function over a scalar and a list | `ModuleServer` |
| `CacheFailSafe` | lookups, fallbacks, write-backs and resets of builds that share a cache | `CircuitBreaker` |
| `CliSession` | spawn, handshake, drain tasks, shutdown, pipes, the Io's workers, the CLI | - |
| `LiveSpans`, `MCLiveSpans` | spans from start to exporter, forwarding, `Init`, `Close` | - |
| `OtlpConfig` | which exporter the environment configures for each signal | - |
| `TelemetryProviders`, `MCTelemetryProviders` | logger and meter providers, streams, log forwarding, `Close` | `OtlpConfig` |
| `ErrorOrigins` | `EndWithCause` in nested calls | - |
| `OtlpBatches` | a batch through several processes: grouping, times, metrics; what becomes of values is a parameter | - |
| `OtlpRelay`, `MCOtlpRelay` | the conversions of attribute values and log bodies that the parameters stand for | `OtlpBatches` |
| `ZigBindings` | what the generator decides for a type, what compiler and engine make of it; no variables | - |
| `SdkModule`, `MCSdkModule` | scaffolding, `Codegen`, the build script, a call of a generated method | `ZigBindings` |
| `SequenceInduction` | lemmas: induction over numbers, flattened sequences, arrangements | - |
| `GraphQLClientProofs`, `CacheFailSafeProofs` | theorems; the first also of the refinement, the second also of the breaker alone | their module |
| `ModuleServerProofs` | theorems | `ModuleServer`, `SdkModule`, `SequenceInduction` |
| `CliSessionProofs` | theorems | `CliSession` |
| `LiveSpansProofs` | theorems | `LiveSpans` |
| `TelemetryProvidersProofs` | theorems | `TelemetryProviders` |
| `OtelDataProofs` | theorems | `ErrorOrigins`, `OtlpBatches`, `SequenceInduction` |

`CircuitBreaker` has two owners, and `QueryService` joins client and server: the
client is shown to implement it, the server is modelled on it and never looks
inside the client. The Go modules meet in two ideas: that a running span is one
whose end lies before its start, which `OtlpBatches` shows to survive the wire
(`LiveStaysLive`) and `LiveSpans` builds on when it forwards and filters; and
`Close`, whose tracer provider is all of `LiveSpans` and a shutdown that takes
time in `TelemetryProviders`.

**Slips.** Next to some definitions there is an operator commented *Slip*. It is
no part of any specification: it is the definition with a plausible bug, kept to
show, in `PROJECT.json` under `mutants`, that the property written for that bug
does notice it.

### CircuitBreaker

`allow()` both answers and changes the breaker, so it is two operators on the
record: `Allows(b)` and `Allow(b)`. The code's `maxThreshold(n, 1)` is
`Effective`, its guarded increments are `SaturatingInc` at `MaxU32`.
`CountersInBounds` says what every reachable breaker satisfies; it makes
unreachable the re-checks at the head of `allow()` and the overflow of
`skip_counter`, the one counter without a guard.

### GraphQLClient

| Variable | Code |
|---|---|
| `pc` | where the task is: `idle`, `connecting` (up to the moment the body is on the wire), `waiting` (`receiveHead` and the body), `sleeping` (backoff) |
| `attempt`, `backoff` | locals of `queryWithRetry` |
| `verdict` | the error or success `query()` returned |
| `breaker`, `lastError` | `circuit_breaker`, `last_error` of each client |
| `cancel` | a cancellation of the task: none, requested, delivered as `error.Canceled` |
| `sent`, `done` | requests on the wire, requests the engine ran |
| `streak` | history only, to state properties: the run of equal outcomes |

A step is what a task does between two blocking calls. `StartQuery` is the head
of `query()`, and each way on is an action: `QueryOutOfMemory` (no body),
`QueryRefused` (`allow()` says no), `QueryAdmitted`. The ways an attempt ends are
`ConnectFails`, `ConnectionLost`, `HttpError`, `BodyLost`, `DomainError`,
`Succeed` and `CancelInterrupts`; all failures pass through `AttemptFails`, which
is the decision of the retry loop together with the `recordFailure` that follows
it. `WakeUp` is the loop's increment. `EngineRuns` is external and may happen at
any time after `Send`, even when the query has long failed.

`Init` is what `init()` and `fork()` produce. A client connected without
`enable_circuit_breaker` is one outside `Guarded`.

### QueryService

Five variables (`busy`, `queryNo`, `sent`, `done`, `verdict`) and four actions.
A query is turned away before anything is sent, or it is sent at most
`MaxAttempts` times and then answered, with success only if one of its requests
ran. The client implements it with `MaxAttempts <- MaxRetries + 1` and
`busy <- {t : InQuery(t)}`; breaker, backoff, error payload and cancellation are
stutters or resolve its choices.

### CliSession

`sdk` is where `connect()` or `shutdown()` stands, `proc` the child, `pipe` the
content of each bounded pipe, `hsBuf` the buffered reader of the handshake,
`drain[s]`/`drainBuf[s]` the task and reader of each pipe, `logged[s]` what the
logger got. Lines are numbered and have a kind. The CLI and the Io are external,
modelled by what the code relies on: the CLI writes lines in order, blocks on a
full pipe, may die at any moment and exits when it reads EOF on stdin and is not
blocked; `io.async` runs a task beside the caller when one of `Workers` is free
and inside the call when none is; `child.wait` closes the pipes only after the
child has exited, so the read ends stay open, unread, while it waits. Each of the
error paths after `spawn` is `ConnectFails` with its `errdefer`.

### ModuleServer

| Variable | Code |
|---|---|
| `mode` | why the engine invoked the module: what `parentName` and `name` will say |
| `pc` | the query `serve()` waits for, by its kind; or `start`, `running` (the user's function), `ended` |
| `received` | how many ids of the registration are there |
| `calls` | calls of the user's function |
| `asked` | history: the kind of every query issued, so that a request can be told by its number |
| `outcome` | how `serve()` returned: `reported` if `returnError` succeeded, `unreported` if that failed too, `failed` if it was not tried |

A query is two steps of `serve()`, its `Ask` and what it makes of the answer;
between them `QueryService` sends, loses, runs and answers it. `Plan` is the list
of queries of a registration in the order in which `buildTypeDefID`,
`buildFunctionID` and `buildModuleObjectID` call each other; `embeds` says
which earlier answers each one carries. An answer that is read
(`fetchScalarString`, `fetchArgList`, `executeLeafString`) may also fail after
the query succeeded, for want of data in it (`ReadFails`); `returnValue` and
`returnError` ignore what a successful query brings back (`WriteFails`). The
user's function may query, return or fail, or do nothing for ever.

### CacheFailSafe

`pc` is where a build is: `looking` is the time the caller's operation takes inside
`executeLookup`, `building` and `writing` belong to the caller. `refused` and
`failures` are history: refusals since the last admission, failures since the
last success or reset. A step is what happens between two calls of an
operation. That is right for tasks of one thread, for which the operation is
the only place to be interrupted at; builds in several threads that share the
struct would race on its plain counters, which nothing in the module protects.
The order of a build (look up, build, write back if `shouldWriteCache()`) is that
of a caller outside the repository.

### LiveSpans

| Variable | Code |
|---|---|
| `env` | whether the `OTEL_*` variables name an endpoint for spans, and `OTEL_EXPORTER_OTLP_TRACES_LIVE` |
| `gen`, `pipeline` | how often `Init` ran, and the live and batched exporters of each run; `SpanProcessors` and the global provider are those of `pipeline[gen]` |
| `processor`, `queue` | each `BatchSpanProcessor`: open, stopped (drains), shut; its queue |
| `span` | a span of this process and the `Init` whose tracer started it |
| `inbox`, `call` | what another process forwards, and what each goroutine of `SpanForwarder.ExportSpans` has still to hand on |
| `envShut` | the exporter of the environment, made by a `sync.Once`, was shut down |
| `closing` | where `Close` is |
| `received`, `refused` | what each exporter took, in order; what came to one that was shut |

`StartSpan` and `EndSpan` are `OnStart` and `OnEnd` of all processors of the span's
provider. `Forward` starts a call of the forwarder, `ForwardSpan(x)` is one step of
the goroutine of processor `x`, so goroutines, exports, `Init` and `Close`
interleave at each span. `Export` hands one entry over; a batch is several of
them. `Close` stops processor after processor (`StopProcessor`); each drains and shuts its
exporter down (`ShutExporter`), and `Close` returns when all are through or
after its deadline. The batch processor itself belongs to the OpenTelemetry SDK and is
external: it drops what does not fit, and drains before it shuts its exporter.

### OtlpConfig, TelemetryProviders

`Configured(signal, e)` is `ConfiguredSpanExporter` and its siblings on the variables
`e`; the three differ on purpose and by accident (logs over grpc ignore the
endpoint) and are kept apart. `TelemetryProviders` starts in one of `Cases`.
`exporter` is the `Once` of each signal; `closeCtx` the providers found in the context
`Init` returned last; `registered` is `LogProcessors` and `MetricExporters`, by
the `Init` of each entry; `stream` a stream of `SpanStdio` with the logger
it was opened with; `closing`, `inTime` and `slow` say which provider `Close` is at,
whether some of its 30 seconds are left, and whether a shutdown used them up.
`Shutdown` is a provider's, external: once, with a flush that the rest of the
deadline may or may not suffice for.

### ErrorOrigins

`calls` is the stack of calls with the error each has so far; an error is the set of
stamps in its text, with `roots`, which only the model knows: the calls whose own
code failed. `Return` is the deferred `EndWithCause` (`Report` is what it
puts on the span, `Returned` what it leaves in the named result) and what the caller
does with the error: join it to its own or drop it. An error passed on without its
text is a `Fail` of the call that does so. A call without a tracer has a
context of zeros, whose stamp matches the expression and is not valid.

### OtlpBatches, OtlpRelay

A batch goes `Send`, `Arrive`, `Send`, ... The operators carry the names of the
functions of `transform.go`. Fields that are copied as they are stand together as `id`.
Times are numbers modulo `Width`, the 2^64 nanoseconds in units of 10^17, so that
the zero time (year 1) wraps as it does in the code: to an end before any start since
1970. The groups of a message come out of a Go map: `Send` takes any order.

What becomes of attribute values and log bodies is a parameter of `OtlpBatches`. Their
conversions recurse over nested values; `OtlpRelay` has them, as recursive
operators, and `OtlpRelay.cfg` gives them to the parameters.

### ZigBindings, SdkModule

`ZigBindings` has one operator for each of the generator's switches
(`ZigReturnType`, `ZigArgType`, `FormOf`, `HelperOf`) and for names and
declarations; `Generate` is the file. The Zig compiler (`Compiles`) and the engine
(`Takes`, `Answers`) are external. `HelperReads` is what the generated helpers accept.
`SdkModule` has the engine's `schema`, the module's `subpath`, the `tree` of two
directories, the library's bindings `lib`, and what the last `ModuleRuntime` and the
last call came to. `Edit` stands for any change: `InitModule`, `InitClient`, `UserEdits`,
`Codegen`. The texts of scaffolds are what they are for the build: who wrote
`build.zig`, which `main.zig`, which bindings, and the copy of the library that
`InitClient` made, if it did: where there is one the build uses it and not `lib` (`LibrariesOf`), since
`ln -sfn` does not replace a directory. `Parses` knows all names of the file: its
imports, helpers and types, the fields of a handle (`StructFields`), the locals a method's body
declares at its top (`Locals`) and in blocks (`Blocks`), which are made of the names
of arguments or fixed, and the words of Zig that the generator's list of keywords
lacks (`ZigReserved`: `type`, `u8`, `orelse`, ...).

## Runs

| Run | Specification | Question | Result |
|---|---|---|---|
| `breaker_history` | `MCGraphQLClient`, `Spec` | do counters, circuit and history of queries agree, over every history? | holds |
| `query_retries` | `MCGraphQLClient`, `FairSpec` | two tasks, cancellable: is `QueryService` implemented, does the payload belong to the query, does every query return? | holds |
| `session_lifecycle` | `CliSession`, `Spec` | orphans, lost lines, late use of the logger, and which waits can be for ever | holds |
| `serve_invocation` | `MCModuleServer`, `Spec` | does the engine get exactly the answer that `serve()` believes it gave? | holds |
| `cache_outages` | `CacheFailSafe`, `Spec` | does the shared circuit follow outages, and does the build go on? | holds |
| `cancel_retried` | `Spec` | does a cancelled query stop sending? | violated |
| `live_spans` | `MCLiveSpans`, `Spec` | what is an exporter told of a span, in which order, and what may a `Close` lose? | holds |
| `telemetry_providers` | `MCTelemetryProviders`, `Spec` | do records arrive once, does `Close` reach what `Init` made, what does an EOF confirm? | holds |
| `error_origins` | `ErrorOrigins`, `Spec` | is the origin shown for an error where it began? | holds |
| `otlp_relay` | `MCOtlpRelay`, `BatchSpec` | is anything lost, reordered or changed on the way through three processes? | holds |
| `sdk_module` | `MCSdkModule`, `SdkSpec` | does a call work for every type the switches agree on, and is the right directory built? | holds |
| `values_converted` | `MCSdkModule`, `SdkSpec` | does every compiled call return the engine's value? | violated |

### What the properties say

* `BreakerSound`: counters in bounds, and no query under way on an open circuit,
  so the branches marked "Shouldn't happen" are indeed never taken.
* `CircuitReflectsHistory`: each counter is the run it stands for.
* `TripsOnlyOnFailureRun`: a closed circuit opens only on the
  `failure_threshold`-th failed *query* in a row; the attempts inside a query,
  refusals and earlier outages do not count.
* `CircuitRecovers`: never more than `skip_requests` refusals in a row, and
  `success_threshold` good queries close the circuit.
* `DomainErrorHasPayload`: `DomainError` if and only if `last_error` holds the
  message of that query.
* `ImplementsQueryService`, `QueryReturns`: the refinement, and termination.
* `NoOrphan`, `StderrLoggedInOrder`, `LoggerQuietAfterEnd`: see the table above.
* `OutcomeIsDelivered`: `serve()` returns success only if the engine ran a
  `returnValue`, and an error as reported only if it ran a `returnError` for an
  error object it had made.
* `AnswersExclusive`: a function call is never sent the answers of two queries. A
  constructor or a registration may be, but only in one order: the value, of which `serve()`
  was told that it failed (`refused`), then the error, and `serve()` does not end well:
  that is the most the code guarantees, since the engine may have run the value
  whose answer was lost.
* `CalledBeforeAnswered`: the function is called once at the most, on arguments
  that came from the engine, and its value is not sent before it returned.
* `RegistrationComplete`: no query embeds an id that is not there yet, and nothing
  that was registered is left out of the module.
* `StallsOnlyInUserCode`: liveness of `serve()`.
* `MetricsBalance`: lookups = hits + misses + failures + those in flight.
* `FailuresDegradeGracefully`: only `.required` passes an error on.
* `ColdSpellBounded`, `OutageOpensCircuit`, `OpensOnlyOnOutage`: the circuit of the
  cache, with the interference the client's does not have: writes and answers of
  old lookups reach it while it is open, half-open or just reset.
* `ConnectStallsOnlyOn`, `ShutdownStallsOnlyOn`: the complete list of reasons for
  which `connect()` or `shutdown()` may wait for ever. For `connect()`, in whichever of its
  steps, the CLI lives in all cases: it is stuck on the stderr pipe during the handshake, its
  handshake line was swallowed, or `io.async` runs a drain inline, with no worker free, and the
  CLI prints no more. At EOF a drain ends, inline too.
* `NoEntryTwice`: no exporter is told a start or an end twice: snapshots are
  copies, and a forwarded span goes through the processors of one `Init`.
* `BatchedSeesFinished`: an exporter for finished spans never gets a running one.
* `LiveBeforeDone`: of what one processor sends, no start comes after its end.
  Across processors there is no such order, and none is claimed.
* `CloseLosesNothing`: a `Close` in time leaves empty queues, and an entry is
  lost only when it comes to the environment's exporter after another `Init` was closed.
* `CloseEnds`: `Close` returns though no exporter answers.
* `OneCopyPerInit`: a forwarded record arrives at most once for each `Init` that put its
  log processor on the list for forwarding, which no `Init` resets.
* `CloseReachesProviders`: `Close` shuts the last providers down, if contexts were
  passed on from `Init` to `Init`; a record is lost to the deadline only if a shutdown used it up,
  never because the caller's context was cancelled.
* `EofIsLast`: a line that did not come before the EOF was pushed out of a full queue.
* `OriginIsCause`, `ErrorHasOrigin`: a span with an error names at least one
  origin, and every origin named is a traced span whose own code failed, or that
  of a call without a tracer below it.
* `NothingLost`: records survive grouping, in the order of their scope; metrics
  are missing, be it a scope, a metric of one or its data, only when one that is no gauge, or
  has no points, was with them.
* `LiveStaysLive`: running is running after any number of hops, finished finished.
* `RelayKeepsValues`: attribute values arrive as they were sent; and what the
  first process received, later ones receive unchanged, but for the exceptions it names.
* `GoodCallsWork`: for every type on which the four switches agree (`Good`), and names that
  do not clash in the file (`ClearNames`), a module that is built with the bindings of the
  whole schema compiles, be they those of the mounted library or of a copy in the client's
  directory, and the call returns the value, unless the answer is one the helpers cannot
  read: no JSON string, or a list with a null in it. Every other type is a disagreement (see
  the findings).
* `OwnModuleIsBuilt`: the build takes the module's own directory and entrypoint
  whatever lies around it; bindings are written nowhere else.

### Bounds, and why they are enough

* `breaker_history`: one client, five queries, `failure_threshold` 2,
  `skip_requests` 1, `success_threshold` 2, one retry. Five queries are the
  shortest history that opens the circuit (2), refuses once, and closes it again
  by two probes; all shorter detours (a failed probe, a success between failures)
  fit in as well. `MaxU32` is 3, above every threshold. Larger histories
  are covered by the theorems.
* `query_retries`: a guarded client with two queries beside an unguarded one with
  one, one retry, thresholds 1 (0 read as 1). Clients share nothing but the
  engine, so a second task is there for interleavings of the refinement and the
  fairness, not for the breaker. The refinement too is proved in general.
* `session_lifecycle`: pipes of one line, so that both pipes fill; three lines per
  pipe, so that noise precedes the handshake and something follows it; two
  workers of which 0, 1 or 2 are taken, so that each drain task runs beside and
  inside `connect()`. The safety properties hold for any capacity, number of lines and
  workers, by the theorems.
* `serve_invocation`: one function with a list for its value and a scalar for its
  argument, which gives a registration of nine queries with ids embedded at
  several distances; one query of the user's function; every mode. One attempt a
  query: an answer that is lost, late or an error occurs with one, retries only
  multiply the requests left over, and the theorems hold for any number of them and
  any length of the plan.
* `cache_outages`: two builds of four lookups each, thresholds 2, 1 and 2, one
  reset, all four policies. Two failures open the circuit while a third lookup is
  out, a refusal and two probes close it, with four lookups to spare for what
  overlaps.
* `live_spans`: one own and one forwarded span, two `Init`s, one exporter of the caller
  beside the environment's, queues of two. Two `Init`s are what it takes to share
  the exporter and to end a span at a provider that was replaced; two entries are a start and an
  end, a third overflows. Larger instances are covered by the theorems.
* `telemetry_providers`: three environments, two `Init`s, a queue of two, three
  lines: a queue overflows with a line to spare before the EOF. Covered by the theorems too.
* `error_origins`: five calls, three failures: an error joined of two, with a
  call without a span between a traced cause and a traced caller. Covered by the theorems too.
* `otlp_relay`: three records over five combinations of resource and scope, so that a scope comes
  back after another and a schema differs alone; one span or log with each type of value;
  two scopes of metrics; three hops, since exceptions such as the
  type of an empty list settle after the first.
* `sdk_module`: each type the switches distinguish, bare, non-null and in a
  list, as result and as argument; names that are keywords, or collide with a method, an argument, a
  local, a struct's field or a name of the file; libraries of a cut document that a client keeps; two changes to the tree
  before a build, the fewest that leave files of two origins in two places.
* The bounds in the modules are `QueryBudget` (queries per task), `MaxLines`
  (lines per pipe), `UserQueries` (queries of the user's function), `BuildBudget`
  (lookups per build), `ResetBudget`, `MaxInits`, `MaxWrites`, `MaxSpans`,
  `MaxFails`, `MaxHops` and `MaxEdits`. They only stop the environment from
  starting more.

`CHECK_DEADLOCK FALSE` in every configuration but those of `SdkModule`, where a
build may always be repeated: a task that has used its budget and a session, an
invocation, a build, a batch and a process that have ended stop, as the program does.

## Fairness

* `FairSpec` of `GraphQLClient`: weak fairness of each task's own steps: the Io's
  scheduler resumes a task whose blocking call is over; connecting, sleeping and
  writing to a socket end by the operating system's own timeouts. And weak
  fairness of `Answer`: somebody ends each exchange. Nothing in the code does
  (`execute_timeout_ms` is not used), so `QueryReturns` is a statement about the
  retry loop under an engine that answers or hangs up.
* `ModuleServer!Spec`: weak fairness of `ServeStep`, since `serve()` is sequential
  code, and of `ClientReturns`, which is what `QueryReturns` shows of the client.
  None of the user's function, of sending, or of the engine's running a request.
* `LiveSpans!Spec`: weak fairness of `CloseReturns` and `CloseTimesOut`: `Close` waits
  with a context that expires after 30 seconds. No export, shutdown or
  forwarder is fair: an exporter may never answer.
* `CacheFailSafe!Spec` and those of the other Go modules have none: their
  properties are safety.
* Nobody is obliged to issue a query, to cancel, to fail or to run a request.
* `CliSession!Spec`: weak fairness of the CLI's writes, announcement and reaction
  to EOF, of `connect()`/`shutdown()` and of each drain task. `CliPrints`,
  `CliDies`, `Shutdown`, failures of allocation and of `wait` are never obliged.
  Without the fairness of the CLI the liveness properties would only restate
  that a subprocess may hang of its own.

## What is proved

Assumptions: `ThresholdAssumption` (thresholds within a `u32`, zero included),
`ClientAssumption`, `ServerAssumption`, `CacheAssumption`, `SessionAssumption`,
`LiveSpansAssumption`, `ProvidersAssumption`, `OriginsAssumption`, `SchemasAssumption`
and `BatchesAssumption`. They give the parameters their types, and beyond that only

* `LiveSpans`: another process forwards of a span at most a start and then an end, and
  nobody names the environment's exporter twice;
* `ModuleServer`: no Zig type is part of itself, so each has a size above that of its parts;
* `SdkModule`: a document is well formed as GraphQL is (the types it names are there, of
  the kind it says), `id` and `sync` answer an ID, and what an escape writes (`@"n"`) is none of
  the names in the file, while `n_` and `m_` differ if `n` and `m` do;
* `OtlpBatches`: the records an SDK exports have different ids, spans begin between 1970 and
  2262 and end there or have the zero time, and points are of integers or doubles.
  Batches made by others are not restricted.

TLC evaluates each in the runs of its module. No bound on tasks, clients, builds, queries, retries,
thresholds, workers, lines, the capacity of pipes and queues, environments, spans,
exporters, `Init`s, calls, types of a module, documents, edits, records or hops. One
hypothesis is stated in the theorems that need it: `OneTaskPerClient`, below.

| Theorem | Of | Needs `OneTaskPerClient` |
|---|---|---|
| `TypeCorrect` | `Spec => []TypeOK` | no |
| `ClientKeepsPromise` | `Spec => ImplementsQueryService` | no |
| `BreakerIsSound` | `Spec => []BreakerSound` | yes |
| `CircuitIsHistory` | `Spec => []CircuitReflectsHistory` | yes |
| `CircuitAlwaysRecovers` | `Spec => []CircuitRecovers` | yes |
| `TripsOnlyOnFailures` | `Spec => TripsOnlyOnFailureRun` | yes |
| `DomainErrorTold` | `Spec => []DomainErrorHasPayload` | yes |
| `FailureKeepsGood` and its siblings | what one call makes of a good breaker | - |
| `FailureRecorded`, `SuccessRecorded` (in `CacheFailSafeProofs`) | the breaker alone: thresholds are met exactly | - |

| Theorem (`ModuleServerProofs`) | Of |
|---|---|
| `OutcomesAreDelivered` | `Spec => []OutcomeIsDelivered` |
| `OneAnswer` | `Spec => []AnswersExclusive` |
| `CallPrecedesAnswer` | `Spec => []CalledBeforeAnswered` |
| `RegistersEverything` | `Spec => []RegistrationComplete` |
| `ServerTypes` | `Spec => []TypeOK` |
| `BuildsOwnModule` | `SdkSpec => []OwnModuleIsBuilt` |
| `CallsComeToTheirValue` | `SdkSpec => []GoodCallsWork` |

| Theorem (`CliSessionProofs`) | Of |
|---|---|
| `SessionTypes` | `Spec => []TypeOK` |
| `NoChildLeft` | `Spec => []NoOrphan` |
| `StderrIsLogged` | `Spec => []StderrLoggedInOrder` |
| `LoggedOnceInOrder` | what is logged of either pipe was written to it, once at the most, in order |
| `LoggerStaysQuiet` | `Spec => LoggerQuietAfterEnd` |

| Theorem (`CacheFailSafeProofs`) | Of |
|---|---|
| `TypeCorrect` | `Spec => []TypeOK` |
| `MetricsAlwaysBalance` | `Spec => []MetricsBalance` |
| `CacheNeverBreaksBuild` | `Spec => []FailuresDegradeGracefully` |
| `ColdSpellsBounded` | `Spec => []ColdSpellBounded` |
| `OutagesOpenCircuit` | `Spec => []OutageOpensCircuit` |
| `OpensOnlyOnOutages` | `Spec => OpensOnlyOnOutage` |

| Theorem (`LiveSpansProofs`) | Of |
|---|---|
| `LiveSpansTypes` | `Spec => []TypeOK` |
| `BatchedFinished` | `Spec => []BatchedSeesFinished` |
| `CloseKeeps` | `Spec => []CloseLosesNothing` |
| `StartsBeforeEnds` | `Spec => []LiveBeforeDone` |
| `NothingTwice` | `Spec => []NoEntryTwice` |

| Theorem (`TelemetryProvidersProofs`) | Of |
|---|---|
| `ProvidersTyped` | `Spec => []TypeOK` |
| `CloseReaches` | `Spec => []CloseReachesProviders` |
| `EofComesLast` | `Spec => []EofIsLast` |
| `CopiesAreOfInits` | `Spec => []OneCopyPerInit` |

| Theorem (`OtelDataProofs`) | Of |
|---|---|
| `OriginsAreCauses` | `Spec => []OriginIsCause` |
| `ErrorsHaveOrigins` | `Spec => []ErrorHasOrigin` |
| `BatchesArriveWhole` | `BatchSpec => []NothingLost` |
| `LiveSpansArriveLive` | `BatchSpec => []LiveStaysLive` |

`OneTaskPerClient` is the discipline the documentation asks for (one `branch()`
per task). It is needed: with two tasks on one client, a failure of the first
opens the circuit under the second, and the outcome of the second is then
dropped in the branch marked "Shouldn't happen".

**The client's invariant.** The four properties of the breaker are not inductive. A
failing query counts correctly only if its circuit is not open when it ends, and
that is a fact about the *task*, not about the breaker. So the induction carries,
beside the types,

* for every guarded client a `Good` pair of breaker and streak: counters in
  bounds *and* equal to the runs they stand for;
* for every unguarded client a breaker and streak that never change;
* that no task is in a query on a client whose circuit is open (`NotOpenInQuery`).

The first lemmas say what each operation does to the fields, with no word
about an owner. `GraphQLClientProofs` then concludes that a good pair stays good
(`allow` when it admits and when it refuses, `recordSuccess`, `recordFailure`),
then splits `Next` by action, reduces each to "the pair of one client changes by
one of those calls while no other task is inside a query on it", and cites the
lemma. The properties follow from `Good`, and `TripsOnlyOnFailureRun` from the
invariant and the step.

`DomainErrorTold` needs an invariant of its own (`Payload`). That a task which was
told `DomainError` finds its message is kept by a *new* query of the task only
because that query clears `last_error`, and by the answer only because no message
of an earlier query can be left while one is under way; the induction carries both
halves. Again it is `OneTaskPerClient` that keeps the others away from the field.

For the refinement, `PromiseStep` maps each action to a step of `QueryService`: admission,
refusal and lack of memory to `SBegin`, `Send` to `SSend`, the end of an attempt
to `SReturn` or to a stutter, `EngineRuns` to `SExecute`. It needs only
`TypeOK`: `attempt <= MaxRetries` is what bounds the attempts.

**The server's invariant.** What `serve()` may do next is known from the kinds of
queries it has asked. `Wire` ties requests to queries and a success to a request
of the last query that ran; `Order` says which kinds may have been asked at each
`pc` (after a `returnValue` of a function, only the end is left); `Told` what
`serve()` was told: that it has an error id only if the engine made one, that the
function ran only on arguments that came. `Answering` is about the answers sent: of any two the first is a
value that was refused and the second an error, and once a value may have been taken no other
is asked for (`ValuesRefused`, which holds but while `serve()` waits for the value or has
ended). They need each other: an answer
is for the query `serve()` waits for only because the requests of earlier
queries carry other numbers.

**The registration.** `Registering` counts: the steps of the plan that were asked
are those answered and at most one more, and the value is asked for only after
the last. That `Plan` is well formed, each step embedding earlier ones only and each but the
last embedded by a later one (`PlanClosed`), is a fact about a recursion over the
module's types, proved by induction on their size: a plan is a tree, the plan of a
node is the plans of its children and one step (`NodeClosed`), and joining closed
plans moves the distances along and changes none (`FlattenBlocks` and its siblings in
`SequenceInduction`). For a plan of any length, answers that fail, come late or come
without data never leave a hole in it.

**Induction.** The library's induction theorems take an operator, which no installed prover
can instantiate. `SequenceInduction` does without: a set of numbers that is not empty
has a least one (from `WFMin`, which is about sets), so a set with 0 and every successor
is `Nat`. The same way it is shown that the recursive functions of the model and of the
library exist (`FlattenDefined`, `TypeDefsDefined`): on the numbers below a bound first.

**The session's invariant.** A line of a pipe is logged, in a reader, or still in the pipe:
`Flow` puts the three in a row. `Flowing` says that this row is part of what
was written, each line once and in order, and for stderr all of it until its task is done.
That needs the numbers the lines were written with (`Numbered`), since
`connect()` skips blank lines and drops what its reader has buffered when the
handshake is over, so that on stdout the row has gaps. And it needs `Stages`: what
`connect()` and `shutdown()` know of the child and of both tasks where they
stand. Without it a task could be started twice, or be running when
`shutdown()` has returned; `LoggerQuietAfterEnd` follows from what `Stages` says of
`ended`, that both tasks are over or never began, and a spawn that fails leaves no
child because there was none while `idle`.

**The cache's invariant.** `Tells` relates the breaker to the two histories, but,
unlike `Good`, only as far as the state asks: an open circuit has
`skip_counter = refused`, a closed one `failure_count = failures` below the
threshold, a half-open one its probes below theirs. Stale counters in the other
states, which resets and late answers leave behind, are allowed, and the lemmas
about the breaker's operations need no more. `Books` is the metrics, with the set of
lookups in flight finite, so that its cardinality changes by one.

**The pipeline's invariants.** `LiveSpansProofs` needs what an `Init` has not
reached yet to be empty (`Generated`), a processor that is idle or shut to have an empty queue
(`Drained`), and the environment's exporter to be shut by some `Init`'s own
processor (`EnvShutByClose`): then an entry can be refused only there (`Lost`). What is
queued for a batched exporter that is not also live is finished
(`BatchedQueues`, `BatchedSent`). The second half of the module is about the one path an
entry takes: what is queued is in order (`QueuesOrdered`) and after what was
sent by the same processor (`SentFirst`), what a forwarder's goroutine still
holds comes after both (`ComesAfter`), and what the other process has yet to send after that
(`Coming`). `OnePath` says that a span's entries go through one `Init`: an own span's by
its provider (`OwnSpans`), a forwarded one's by its call. That two `Init`s cannot both send
the same start to the exporter they share (`NothingTwice`) follows from it.

**The providers' invariant.** `Close` goes by the providers in `closeCtx`, and `Wired`
says which those are: each was made by some `Init`, and as long as every `Init` is given the
context of the one before, the last one of each signal. `Closing` says which of them `Close` has
dealt with, `Timely` that its time runs out in a shutdown that was slow. The end
of a stream is last for a different reason in each place: while it is queued, since
what was written before is queued before it or gone (`Kept`, `EofLastInQueue`), and when it has
arrived, since the queue is sent from its head (`EofLastSent`). Both need the
exporter to take records still: a processor whose exporter was shut by another
`Init`'s provider drops what it has, so the claim about the queue ends there, while
what has arrived stays in its order. `OneCopy` counts the record of another process, in queues and at
the exporter, against the processors on the list, of which each forwards it once; the entries of the list are
different `Init`s (`Listed`), so that a new one makes room for one more.

**The origins' invariant.** The spans of the calls and of what was reported are
those up to `Started`, each once (`Fresh`), so that a new span was never seen. Every
stamp but zero names a reported, traced span with a cause of its own (`Stamped`); and an
error with no such stamp, on its way through a call, has its roots in that
call or in calls without a tracer (`Unstamped`). The second is what makes a span that
finds no stamp entitled to record the error as its own.

**The SDK module's invariant.** `BuiltFirst`: what the last `ModuleRuntime` came to is what
it would come to now, because every edit and every regeneration makes the result
forgotten; likewise for the last call (`LastCall`). `SourcesTyped`: bindings of a document are only
in the module's directory, since `Codegen` and the build script work it out alike
(`HomeIsDir`). So `OwnModuleIsBuilt` is a fact about the candidates: the own directory is
the first (`HomeFirst`). `GoodCallsWork` is one about the generator: the four switches by the
kind and name of a type (`ReturnAgrees`, `ArgumentAgrees`, `GoodReads`), the method being the
one written for the field (`MethodWritten`, and `MethodsWritten` for the others), and the file
being free of clashes (`NamesStayApart`). The library that was built with is one of
`Libraries`, the bindings of a document (`DocumentsKnown`), also where it is a copy made earlier. A
file in which *any* method has a name that clashes does not parse, and then no call works:
a keyword for a method's name and for an argument, two arguments `n` and `n_`, an argument `cur`
or `std`, one `x_str` beside a number `x`, a field `gql`. `ClearNames` says so of the document,
in its names before they are escaped (`NamesKnown`); it concerns every method of it, not only
the one that is called.

**The batches' invariant.** A hop groups what it has and takes it apart again, so a
record's place changes with every hop and the grouping of one hop works on the order that
an earlier one left. The induction carries a map `F` from the places of the
batch now to those it started with (`Carried`): one to one and onto, and increasing
among the places of one resource and scope (`Arranges`). A batch in groups is arranged by
resource, a group by scope, each scope by place; arrangements of blocks combine
to one of the whole (`BlocksArranged`, `FlattenArranged`) and arrangements of successive hops to one
(`Rearranged`). The key by which it is ordered changes on the first hop, as the schema of
a scope is dropped from all but logs (`Landed`): after it records of two schemas may be in one group,
and their order is kept only among those of the old keys. `OnTheWay` says the same of a
batch on the wire. Of metrics it says that they are all there, gauges with points
(`AllGauges`), unless one was not to begin with. Times: between 1970 and 2262 they come back as they were, and
the zero time as a number before every start (`TimesArrive`). What becomes of values is
a parameter of `OtlpBatches`, so the theorems hold whatever the conversions are.

Only model-checked:

* `RelayKeepsValues` of `OtlpRelay`: attribute values and log bodies are nested to any
  depth, their conversions are recursive operators, and no theorem may be in reach
  of one;
* liveness (`QueryReturns`, `ConnectStallsOnlyOn`, `ShutdownStallsOnlyOn`,
  `StallsOnlyInUserCode`, `CloseEnds`), which is out of the prover's reach.

`TypeOK` of `CliSession`, `ModuleServer` and `TelemetryProviders` is proved and left out
of their runs.

## Where code and documentation disagree

Each is an entry of `findings` with the quoted line.

* `execute_timeout_ms`, `connect_timeout_ms` and the cache's `timeout_ms` are stored
  and read nowhere (no run).
* A cancelled task retries: `error.Canceled` becomes `TransportFailed` (`cancel_retried`).
* A generated method that returns a number or a truth value fails on every answer
  (`values_converted`).
* The breaker counts queries, the documentation says attempts (`breaker_history`
  checks the rule of the code).
* Client, session, server and cache, without a run: the error body of a retried
  `HttpStatus` is not freed; `shutdown()` can hang on a CLI that still has output,
  and `connect()` on a backend that runs `io.async` inline; what arrives together with the
  handshake line is not logged; errors of a dispatch that do not reach
  `returnError`; `.required` lookups that fall back when the circuit is open.
* Telemetry, without a run: a `Close` that loses what is queued, and what a second
  `Init` copies or leaves open; an EOF that confirms less than it says; stamps of zeros
  that stay in an error's text; the interval of metrics; one bad metric that drops
  its scope, or its message.
* Generator and SDK module, without a run: number fields of input objects and
  optional arguments named as keywords that do not compile; lists of objects; bindings that import
  what is not there; a fallback that is an error; a link that does not replace
  a vendored library.
* Further, without a run: the uncapped jittered backoff, every `HttpStatus` retried,
  probes not limited in half-open, the order of the caps in `validate()`, a
  second `close()`, malformed session variables that are dropped, the string
  `executeLeafString` returns out of a parse it has released, the argument slice
  freed with another allocator than its own, the branches marked "Shouldn't
  happen" that the cache's writes reach.

## What is not modelled

* In the client: the escaping of `buildRequestBody` and the jitter (time is not
  modelled: `WakeUp` may come at any time); an `is_retryable` of the caller's
  own (`resilience.zig:33`): `Retryable` is the default one; reading of `session.token`; a failed
  copy of an error body, which leaves `last_error` as it was, is a choice of
  `HttpError`.
* In the session: the text of the handshake's JSON; a line longer than the 4096
  bytes of the buffer is one of the failures of `HandshakeBreaks`.
* In the server: texts of ids and values, hence the life time of the string
  `executeLeafString` returns; what `serde` and `typedef` make of types and
  values (a decoding error is `BadArgs`, an encoding error `FunctionFails` or the
  second branch of `GetsName`).
* In the cache: `health()` and the rates, which only read; `timeout_ms`, which
  nothing reads.
* In the telemetry pipeline: `attrs.go` (names), `env.go` and the baggage for global logs
  (values handed through the context), `SpanProcessors` a caller passes to `Init`,
  `Shutdown` of the forwarders, failures of the network below an exporter, the wording of
  a span's description. A batch is exported an entry at a time. `Init` does not run while
  `Close` waits.
* In `OtlpBatches`: the merge of `OTEL_RESOURCE_ATTRIBUTES` into relayed logs, and inputs that
  make the code panic (a message without a value or with short ids), which no sender of this
  repository makes.
* In the generator: doc comments and formatting; `GeneratedModuleBindingsFromIntrospection`, which
  nothing calls; `executeObjectList`, which no method reaches. The second generator, in Zig under `codegen/`.
* Straight-line code without state: the generated bindings, CI pipelines, policy
  documents, schema validation.

## Plan

Done: `CircuitBreaker`, `QueryService`, `GraphQLClient`, `ModuleServer`,
`CacheFailSafe`, `CliSession`, `LiveSpans`, `TelemetryProviders`, `ErrorOrigins`,
`OtlpBatches`, `ZigBindings` and `SdkModule` with their proofs; `OtlpRelay`, model-checked. Next:

1. `ClientLifecycle`: `connect`, `branch`, `parallel.map`, `resetArena`, `close`
   and the C handles, with each allocation owned by one party; composes the
   session's promise. Properties: nothing used after it is freed, nothing leaked
   on an error path.
2. `Telemetry` in Zig: the counters read one by one, the span stack and its
   thread-local current span.
3. `RetryPolicy` and other pure operators: `validate` and the jitter in their
   widths, selection chains, type definitions, SPIFFE IDs, the scrubber,
   each against a reference definition on bounded inputs.
4. Secrets: registration and its error paths.
5. Proofs: the conversions of `OtlpRelay` as functions on values of bounded depth; the
   ownership invariants of `ClientLifecycle`.
