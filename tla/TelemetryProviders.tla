-------------------------- MODULE TelemetryProviders -------------------------
(***************************************************************************)
(* sdk/otel-go: the logger and meter providers that Init puts into the     *)
(* context, the processors it registers for forwarding, the streams of     *)
(* SpanStdio that write through a logger, and Close, which shuts tracer,   *)
(* logger and meter provider down one after the other within 30 seconds.   *)
(* How spans travel is LiveSpans; here their shutdown only uses up time.   *)
(***************************************************************************)
EXTENDS OtlpConfig, FiniteSets, Sequences, SequencesExt

CONSTANTS
  Cases,      \* the environments to start in, by signal
  QueueSize,  \* records a batch log processor holds (2048 in the library)
  MaxWrites,  \* bound of the model: writes to the stream
  MaxInits    \* bound of the model: calls of Init

ASSUME ProvidersAssumption ==
  /\ Cases \subseteq [Signals -> Environments]
  /\ QueueSize \in Nat \ {0} /\ MaxWrites \in Nat /\ MaxInits \in Nat \ {0}

Generations == 1 .. MaxInits
Held        == {"logs", "metrics"}   \* the signals whose provider is in the context

VARIABLES
  environment,  \* the variables of the process, by signal
  exporter,     \* the exporter of each signal, "unset" until it is first asked for
  exporterShut, \* the exporters that were shut down
  inits,        \* Init calls so far
  chained,      \* every Init was given the context the one before returned
  closeCtx,     \* the providers in the context the last Init returned; 0 for none
  registered,   \* LogProcessors and MetricExporters: the Init each entry is from
  provider,     \* state of the provider of each signal and Init
  queue,        \* the batch log processor of each Init
  forwarded,    \* the other process has sent its record
  cancelled,    \* the caller has cancelled the context it gave Init
  closing,      \* the provider Close is shutting down
  inTime,       \* some of Close's 30 seconds are left
  slow,         \* a shutdown has used all of them up
  stream,       \* a stdout of SpanStdio: the logger it holds, lines written, closed
  received,     \* the log records the exporter accepted, in order
  lost          \* the ones that were dropped, and why

initVars  == <<exporter, inits, chained, closeCtx, registered>>
closeVars == <<closing, inTime, slow>>
logVars   == <<queue, forwarded, received, lost>>
vars == <<environment, exporterShut, provider, cancelled, stream, initVars, closeVars, logVars>>

Record == [line : 0 .. MaxWrites + 1]

TypeOK ==
  /\ environment \in [Signals -> Environments]
  /\ exporter \in [Signals -> {"unset", "none", "http", "grpc"}]
  /\ exporterShut \subseteq Signals
  /\ inits \in 0 .. MaxInits /\ chained \in BOOLEAN
  /\ closeCtx \in [Held -> 0 .. MaxInits]
  /\ registered \in [Held -> Seq(Generations)]
  /\ provider \in [Signals -> [Generations -> {"none", "open", "shut"}]]
  /\ queue \in [Generations -> Seq(Record)]
  /\ \A g \in Generations : Len(queue[g]) <= QueueSize
  /\ forwarded \in BOOLEAN /\ cancelled \in BOOLEAN
  /\ closing \in {"no", "spans", "logs", "metrics", "done"}
  /\ inTime \in BOOLEAN /\ slow \in BOOLEAN
  /\ stream \in [state : {"none", "open", "closed"}, logger : 0 .. MaxInits,
                 written : 0 .. MaxWrites]
  /\ received \in Seq(Record)
  /\ lost \subseteq [record : Record, why : {"full", "shut", "deadline"}]

---------------------------------------------------------------------------
(* The Once of ConfiguredSpanExporter and of its two siblings. *)
Exporter(signal) ==
  IF exporter[signal] # "unset" THEN exporter[signal]
  ELSE Configured(signal, environment[signal]).protocol

NoProviders == [signal \in Held |-> 0]

(* The context an Init returns: the one it was given, with the new providers. *)
ContextWith(ctx, on) == [signal \in Held |-> IF signal \in on THEN inits + 1 ELSE ctx[signal]]

(* Slip: InitEmbedded passes the exporters on and leaves Detect on.        *)
RegisteredTwice(list) == list \o <<inits + 1, inits + 1>>

(* LogProcessors and MetricExporters grow with every Init. *)
Registered(list) == Append(list, inits + 1)

(* Init, with Detect or without exporters, in a fresh context or in the one the
   Init before returned.                                                    *)
Initialize(detect, chain) ==
  LET on == {signal \in Signals : detect /\ Exporter(signal) # "none"}
  IN /\ inits < MaxInits /\ closing \in {"no", "done"}
     /\ exporter' = [signal \in Signals |-> IF detect THEN Exporter(signal) ELSE exporter[signal]]
     /\ inits' = inits + 1
     /\ chained' = (chained /\ (chain \/ inits = 0))
     /\ closeCtx' = ContextWith(IF chain THEN closeCtx ELSE NoProviders, on)
     /\ registered' = [signal \in Held |->
          IF signal \in on THEN Registered(registered[signal]) ELSE registered[signal]]
     /\ provider' = [signal \in Signals |->
          [provider[signal] EXCEPT ![inits + 1] = IF signal \in on THEN "open" ELSE @]]
     /\ closing' = "no"
     /\ UNCHANGED <<environment, exporterShut, cancelled, inTime, slow, stream, logVars>>

CallerCancels ==
  /\ inits > 0 /\ ~ cancelled
  /\ cancelled' = TRUE
  /\ UNCHANGED <<environment, exporterShut, provider, stream, initVars, closeVars, logVars>>

---------------------------------------------------------------------------
(* The library's batch log processor: a full queue drops its oldest record, a
   stopped one takes none.                                                  *)
Enqueued(g, record) ==
  IF provider["logs"][g] # "open" THEN queue[g]
  ELSE IF Len(queue[g]) < QueueSize THEN Append(queue[g], record)
  ELSE Append(Tail(queue[g]), record)

Overflown(targets) ==
  {[record |-> Head(queue[g]), why |-> "full"]
     : g \in {h \in targets : provider["logs"][h] = "open" /\ Len(queue[h]) = QueueSize}}

Emit(targets, record) ==
  /\ queue' = [g \in Generations |-> IF g \in targets THEN Enqueued(g, record) ELSE queue[g]]
  /\ lost' = lost \union Overflown(targets)
  /\ UNCHANGED <<forwarded, received>>

Line(n) == [line |-> n]
Eof     == [line |-> 0]
Other   == [line |-> MaxWrites + 1]   \* a record of another process

(* SpanStdio: the stream keeps the logger of the context it was made in; without
   one, a logger of a provider of its own, which goes nowhere.              *)
OpenStream ==
  /\ inits > 0 /\ stream.state = "none"
  /\ stream' = [stream EXCEPT !.state = "open", !.logger = closeCtx["logs"]]
  /\ UNCHANGED <<environment, exporterShut, provider, cancelled, initVars, closeVars, logVars>>

Write ==
  /\ stream.state = "open" /\ stream.written < MaxWrites
  /\ stream' = [stream EXCEPT !.written = @ + 1]
  /\ Emit({stream.logger} \ {0}, Line(stream.written + 1))
  /\ UNCHANGED <<environment, exporterShut, provider, cancelled, initVars, closeVars>>

(* Slip: the end is sent with the logger of the current context.           *)
CloseStreamElsewhere ==
  /\ stream.state = "open"
  /\ stream' = [stream EXCEPT !.state = "closed"]
  /\ Emit({closeCtx["logs"]} \ {0}, Eof)
  /\ UNCHANGED <<environment, exporterShut, provider, cancelled, initVars, closeVars>>

(* Close sends an empty record marked as the end. *)
CloseStream ==
  /\ stream.state = "open"
  /\ stream' = [stream EXCEPT !.state = "closed"]
  /\ Emit({stream.logger} \ {0}, Eof)
  /\ UNCHANGED <<environment, exporterShut, provider, cancelled, initVars, closeVars>>

(* LogForwarder.Export gives a record of another process to every processor
   registered; each has a goroutine of its own.  One record, which finds room
   in the queues, is enough: the stream is the case of a full one.          *)
Copies(g) ==
  IF provider["logs"][g] = "open"
  THEN Cardinality({i \in DOMAIN registered["logs"] : registered["logs"][i] = g})
  ELSE 0

Forwarded(g) == queue[g] \o [i \in 1 .. Copies(g) |-> Other]

ForwardLog ==
  /\ ~ forwarded /\ forwarded' = TRUE
  /\ inits > 0
  /\ \A g \in Generations : Len(Forwarded(g)) <= QueueSize
  /\ queue' = [g \in Generations |-> Forwarded(g)]
  /\ UNCHANGED <<environment, exporterShut, provider, cancelled, stream, initVars, closeVars,
                 received, lost>>

(* The batch reaches the exporter, or is lost with one that was shut down. *)
Deliver(g, toExporter, why) ==
  /\ queue' = [queue EXCEPT ![g] = <<>>]
  /\ IF toExporter /\ "logs" \notin exporterShut
     THEN received' = received \o queue[g] /\ UNCHANGED lost
     ELSE /\ lost' = lost \union {[record |-> r, why |-> why] : r \in ToSet(queue[g])}
          /\ UNCHANGED received
  /\ UNCHANGED forwarded

ExportLogs(g) ==
  /\ provider["logs"][g] = "open" /\ queue[g] # <<>>
  /\ Deliver(g, TRUE, "shut")
  /\ UNCHANGED <<environment, exporterShut, provider, cancelled, stream, initVars, closeVars>>

---------------------------------------------------------------------------
(* Slip: the deadline is derived from the caller's context, cancelled or not. *)
CloseWithCallers ==
  /\ inits > 0 /\ closing = "no"
  /\ closing' = "spans" /\ inTime' = ~ cancelled
  /\ UNCHANGED <<environment, exporterShut, provider, cancelled, slow, stream, initVars, logVars>>

(* Close: 30 seconds from now for all three, whatever the caller's context. *)
Close ==
  /\ inits > 0 /\ closing = "no"
  /\ closing' = "spans" /\ inTime' = TRUE
  /\ UNCHANGED <<environment, exporterShut, provider, cancelled, slow, stream, initVars, logVars>>

(* A provider that has exporters is shut down once, and may use all the time that
   is left; one that has none, or was shut before, takes none.              *)
Shutdown(signal, g) ==
  IF g # 0 /\ provider[signal][g] = "open"
  THEN /\ provider' = [provider EXCEPT ![signal][g] = "shut"]
       /\ exporterShut' = exporterShut \union {signal}
       /\ inTime' \in {inTime, FALSE}
       /\ slow' = (slow \/ (inTime /\ ~ inTime'))
  ELSE UNCHANGED <<provider, exporterShut, inTime, slow>>

(* The tracer provider is the last Init's, whatever the context. *)
CloseSpans ==
  /\ closing = "spans" /\ closing' = "logs"
  /\ Shutdown("spans", inits)
  /\ UNCHANGED <<environment, cancelled, stream, initVars, logVars>>

(* The processor's queue is flushed, then its exporter is shut down. *)
CloseLogs ==
  /\ closing = "logs" /\ closing' = "metrics"
  /\ Shutdown("logs", closeCtx["logs"])
  /\ LET g == closeCtx["logs"]
     IN IF g # 0 /\ provider["logs"][g] = "open"
        THEN Deliver(g, inTime', IF "logs" \in exporterShut THEN "shut" ELSE "deadline")
        ELSE UNCHANGED logVars
  /\ UNCHANGED <<environment, cancelled, stream, initVars>>

CloseMetrics ==
  /\ closing = "metrics" /\ closing' = "done"
  /\ Shutdown("metrics", closeCtx["metrics"])
  /\ UNCHANGED <<environment, cancelled, stream, initVars, logVars>>

---------------------------------------------------------------------------
Init ==
  /\ environment \in Cases
  /\ exporter = [signal \in Signals |-> "unset"]
  /\ exporterShut = {}
  /\ inits = 0 /\ chained = TRUE
  /\ closeCtx = NoProviders
  /\ registered = [signal \in Held |-> <<>>]
  /\ provider = [signal \in Signals |-> [g \in Generations |-> "none"]]
  /\ queue = [g \in Generations |-> <<>>]
  /\ cancelled = FALSE
  /\ closing = "no" /\ inTime = TRUE /\ slow = FALSE
  /\ stream = [state |-> "none", logger |-> 0, written |-> 0]
  /\ forwarded = FALSE /\ received = <<>> /\ lost = {}

Next ==
  \/ \E detect, chain \in BOOLEAN : Initialize(detect, chain)
  \/ CallerCancels
  \/ OpenStream \/ Write \/ CloseStream
  \/ ForwardLog
  \/ \E g \in Generations : ExportLogs(g)
  \/ Close \/ CloseSpans \/ CloseLogs \/ CloseMetrics

Spec == Init /\ [][Next]_vars

---------------------------------------------------------------------------
(* Of a record of another process the exporter gets at most one copy for each
   Init that registered its processor for forwarding.  The list is never reset,
   so every such Init adds a copy (init.go:446), and nothing else does.     *)
OneCopyPerInit ==
  Cardinality({i \in DOMAIN received : received[i] = Other})
    <= Cardinality(ToSet(registered["logs"]))

(* When Close is through, the last provider of each signal that Init made is
   shut, if the Inits passed their contexts on; and a record is lost to the
   deadline only when a shutdown took all of the 30 seconds, never because the
   caller's context was cancelled (init.go:481).                            *)
CloseReachesProviders ==
  /\ (closing = "done" /\ chained) => \A signal \in Held :
       registered[signal] # <<>> => provider[signal][Last(registered[signal])] = "shut"
  /\ (\E l \in lost : l.why = "deadline") => slow

(* The end of a stream is the last of it to arrive, and every line that did not
   arrive before it was pushed out of a full queue (logging.go:42).         *)
EofIsLast ==
  \A i \in DOMAIN received : received[i] = Eof =>
    \A n \in 1 .. stream.written :
      \/ Line(n) \in ToSet(SubSeq(received, 1, i))
      \/ [record |-> Line(n), why |-> "full"] \in lost
===========================================================================
