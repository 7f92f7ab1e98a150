------------------------------ MODULE LiveSpans ------------------------------
(***************************************************************************)
(* sdk/otel-go: how spans reach the exporters.  Init builds a tracer       *)
(* provider out of the exporters it is given and of the one the OTEL_*     *)
(* environment configures; a live processor reports a span when it starts  *)
(* and again when it ends, a batched one only when it ends.  Spans of      *)
(* other processes come in through a SpanForwarder.  Close shuts the       *)
(* provider of the last Init down and waits 30 seconds for it.             *)
(*                                                                         *)
(* The exporter of the environment is made once per process, so every Init *)
(* that uses it shares it, and the first Close ends it for all.            *)
(***************************************************************************)
EXTENDS Naturals, FiniteSets, Sequences, SequencesExt

CONSTANTS
  Spans,      \* spans of this process
  RemoteSpans,\* spans of another process ...
  Remote,     \* ... and what it forwards of them: at most one start, then one end of each
  Exporters,  \* live and batched exporters a caller may hand to Init
  Env,        \* the exporter of the environment
  Configs,    \* the Config values the callers of Init use
  QueueSize,  \* entries a batch processor holds (2048 in the library)
  MaxInits    \* bound of the model: calls of Init

View == {"live", "done"}

ASSUME LiveSpansAssumption ==
  /\ Spans \intersect RemoteSpans = {}
  /\ Remote \in Seq([span : RemoteSpans, view : View])
  /\ \A i, j \in 1 .. Len(Remote) : i < j /\ Remote[i].span = Remote[j].span =>
       Remote[i].view = "live" /\ Remote[j].view = "done"
  /\ Env \notin Exporters
  /\ Configs \subseteq [detect : BOOLEAN, live : SUBSET (Exporters \union {Env}),
                        batched : SUBSET Exporters]
  /\ \A c \in Configs : c.live \intersect c.batched = {} /\ ~ (c.detect /\ Env \in c.live)
  /\ QueueSize \in Nat \ {0} /\ MaxInits \in Nat \ {0}

AnyExporter == Exporters \union {Env}
Generations == 1 .. MaxInits

VARIABLES
  env,        \* what the environment says: [otlp, live]
  gen,        \* Init calls so far; the tracer provider and SpanProcessors are the last one's
  pipeline,   \* the live and batched exporters of each Init
  processor,  \* state of the batch processor of each Init and exporter
  queue,      \* its queue
  span,       \* the spans of this process: phase, and the provider they belong to
  inbox,      \* what the other process has still to forward
  call,       \* the SpanForwarder's call: what each processor is still to be given
  envShut,    \* the exporter of the environment was shut down
  closing,    \* "no", "waiting" for the processors or "returned", with or without timeout
  received,   \* the entries each exporter accepted, in order
  refused     \* the entries handed to an exporter that was shut down

vars == <<env, gen, pipeline, processor, queue, span, inbox, call, envShut, closing,
          received, refused>>

---------------------------------------------------------------------------
(* Slip: the entry follows the span instead of being a copy of it.         *)
SnapshotOfReference(s) == [span |-> s, view |-> "current"]

(* What OnStart hands on: the span as it is now, without an end time.      *)
SnapshotSpan(s) == [span |-> s, view |-> "live"]
Finished(s)     == [span |-> s, view |-> "done"]

(* What an entry shows when an exporter reads it. *)
Shown(entry) ==
  IF entry.view # "current" THEN entry
  ELSE [entry EXCEPT !.view = IF span[entry.span].phase = "ended" THEN "done" ELSE "live"]

Processors(g) == pipeline[g].live \union pipeline[g].batched

(* The exporter each processor writes to, one per Init except Env. *)
Sink(g, x) == IF x = Env THEN <<0, Env>> ELSE <<g, x>>

(* Slip: the queue grows without a bound.                                  *)
AcceptsAny(g, x) == processor[g][x] = "open"

(* OnEnd of the library's batch processor: nothing blocks, an entry that does
   not fit is dropped.                                                      *)
Accepts(g, x) == processor[g][x] = "open" /\ Len(queue[g][x]) < QueueSize

Enqueue(g, targets, entry) ==
  queue' = [queue EXCEPT ![g] = [x \in AnyExporter |->
              IF x \in targets /\ Accepts(g, x) THEN Append(@[x], entry) ELSE @[x]]]

---------------------------------------------------------------------------
(* Init.  Detect adds the exporter of the environment as a live or a batched
   one; InitEmbedded passes it as a live exporter and leaves Detect off, so it
   is the config whose live exporters hold Env.  A caller who names Env where
   the environment has none gets nothing.                                   *)
Detected(cfg) ==
  LET live == IF env.otlp THEN cfg.live ELSE cfg.live \ {Env}
      on   == env.otlp /\ cfg.detect
  IN [live    |-> live \union {x \in {Env} : on /\ env.live},
      batched |-> cfg.batched \union {x \in {Env} : on /\ ~ env.live}]

Initialize(cfg) ==
  /\ gen < MaxInits
  /\ closing # "waiting"
  /\ gen' = gen + 1
  /\ pipeline' = [pipeline EXCEPT ![gen + 1] = Detected(cfg)]
  /\ processor' = [processor EXCEPT ![gen + 1] = [x \in AnyExporter |->
       IF x \in Detected(cfg).live \union Detected(cfg).batched THEN "open" ELSE "none"]]
  /\ closing' = "no"
  /\ UNCHANGED <<env, queue, span, inbox, call, envShut, received, refused>>

(* A span starts at the tracer of the current provider. *)
StartSpan(s) ==
  /\ span[s].phase = "idle" /\ gen > 0
  /\ span' = [span EXCEPT ![s] = [phase |-> "running", gen |-> gen]]
  /\ Enqueue(gen, pipeline[gen].live, SnapshotSpan(s))
  /\ UNCHANGED <<env, gen, pipeline, processor, inbox, call, envShut, closing, received, refused>>

(* It ends at the provider that started it, whatever Init has put in its place. *)
EndSpan(s) ==
  /\ span[s].phase = "running"
  /\ span' = [span EXCEPT ![s].phase = "ended"]
  /\ Enqueue(span[s].gen, Processors(span[s].gen), Finished(s))
  /\ UNCHANGED <<env, gen, pipeline, processor, inbox, call, envShut, closing, received, refused>>

---------------------------------------------------------------------------
(* SpanForwarder.ExportSpans: one goroutine per processor walks the batch; the
   call returns, and the sender makes the next one, when all are through.   *)
ForwarderIdle == \A x \in AnyExporter : call.left[x] = <<>>

(* Slip: the call returns at once, the next one overtakes it.              *)
ForwardAtOnce(n) ==
  /\ gen > 0 /\ n \in 1 .. Len(inbox)
  /\ call' = [gen |-> gen, left |-> [x \in AnyExporter |->
                IF x \in Processors(gen)
                THEN SubSeq(inbox, 1, n) \o (IF call.gen = gen THEN call.left[x] ELSE <<>>)
                ELSE <<>>]]
  /\ inbox' = SubSeq(inbox, n + 1, Len(inbox))
  /\ UNCHANGED <<env, gen, pipeline, processor, queue, span, envShut, closing, received, refused>>

Forward(n) ==
  /\ gen > 0 /\ n \in 1 .. Len(inbox)
  /\ ForwarderIdle
  /\ call' = [gen |-> gen, left |-> [x \in AnyExporter |->
                IF x \in Processors(gen) THEN SubSeq(inbox, 1, n) ELSE <<>>]]
  /\ inbox' = SubSeq(inbox, n + 1, Len(inbox))
  /\ UNCHANGED <<env, gen, pipeline, processor, queue, span, envShut, closing, received, refused>>

(* Slip: a span without an end time is taken for a finished one.           *)
ForwardTargetsAll(entry, x) == {x}

(* OnStart for a span that still runs, which a batched processor ignores. *)
ForwardTargets(entry, x) ==
  IF entry.view = "done" \/ x \in pipeline[call.gen].live THEN {x} ELSE {}

ForwardSpan(x) ==
  /\ call.left[x] # <<>>
  /\ LET entry == Head(call.left[x])
     IN Enqueue(call.gen, ForwardTargets(entry, x), entry)
  /\ call' = [call EXCEPT !.left[x] = Tail(@)]
  /\ UNCHANGED <<env, gen, pipeline, processor, span, inbox, envShut, closing, received, refused>>

---------------------------------------------------------------------------
(* FilterLiveSpansExporter wraps the environment's exporter where it is a
   batched one, and leaves out what still runs.                             *)
Filters(g, x, entry) == x = Env /\ x \in pipeline[g].batched /\ entry.view = "live"

Refuses(g, x) == processor[g][x] = "shut" \/ (x = Env /\ envShut)

(* The processor's timer fires, its batch is full or it drains.  Entries of one
   batch go to the exporter one after the other here.                       *)
Export(g, x) ==
  /\ queue[g][x] # <<>>
  /\ queue' = [queue EXCEPT ![g][x] = Tail(@)]
  /\ LET entry == Shown(Head(queue[g][x]))
         e     == [span |-> entry.span, view |-> entry.view, by |-> g]
     IN CASE Filters(g, x, entry) -> UNCHANGED <<received, refused>>
          [] ~ Filters(g, x, entry) /\ Refuses(g, x) ->
               /\ refused' = refused \union {[to |-> <<g, x>>, entry |-> entry]}
               /\ UNCHANGED received
          [] OTHER ->
               /\ received' = [received EXCEPT ![Sink(g, x)] = Append(@, e)]
               /\ UNCHANGED refused
  /\ UNCHANGED <<env, gen, pipeline, processor, span, inbox, call, envShut, closing>>

(* Close: TracerProvider.Shutdown goes through the processors of the last
   Init; a span that ends meanwhile still reaches those not yet stopped ... *)
Close ==
  /\ closing = "no" /\ gen > 0
  /\ closing' = "waiting"
  /\ UNCHANGED <<env, gen, pipeline, processor, queue, span, inbox, call, envShut, received, refused>>

StopProcessor(x) ==
  /\ closing = "waiting" /\ processor[gen][x] = "open"
  /\ processor' = [processor EXCEPT ![gen][x] = "stopped"]
  /\ UNCHANGED <<env, gen, pipeline, queue, span, inbox, call, envShut, closing, received, refused>>

(* Slip: the exporter goes first, its queue after it.                      *)
ShutExporterFirst(g, x) ==
  /\ processor[g][x] = "stopped"
  /\ processor' = [processor EXCEPT ![g][x] = "shut"]
  /\ envShut' = (envShut \/ x = Env)
  /\ UNCHANGED <<env, gen, pipeline, queue, span, inbox, call, closing, received, refused>>

(* ... each drains its queue, then shuts its exporter down ... *)
ShutExporter(g, x) ==
  /\ processor[g][x] = "stopped" /\ queue[g][x] = <<>>
  /\ processor' = [processor EXCEPT ![g][x] = "shut"]
  /\ envShut' = (envShut \/ x = Env)
  /\ UNCHANGED <<env, gen, pipeline, queue, span, inbox, call, closing, received, refused>>

(* ... and Close returns when they are done, ... *)
CloseReturns ==
  /\ closing = "waiting"
  /\ \A x \in AnyExporter : processor[gen][x] \in {"none", "shut"}
  /\ closing' = "returned"
  /\ UNCHANGED <<env, gen, pipeline, processor, queue, span, inbox, call, envShut, received, refused>>

(* Slip: the deadline is looked at between two drained processors only.    *)
CloseTimesOutDrained ==
  /\ closing = "waiting"
  /\ \A x \in AnyExporter : queue[gen][x] = <<>>
  /\ closing' = "timed out"
  /\ processor' = [processor EXCEPT ![gen] = [x \in AnyExporter |->
                     IF @[x] = "open" THEN "stopped" ELSE @[x]]]
  /\ UNCHANGED <<env, gen, pipeline, queue, span, inbox, call, envShut, received, refused>>

(* ... or after 30 seconds; what has been stopped goes on in the background. *)
CloseTimesOut ==
  /\ closing = "waiting"
  /\ \E x \in AnyExporter : processor[gen][x] \in {"open", "stopped"}
  /\ closing' = "timed out"
  /\ processor' = [processor EXCEPT ![gen] = [x \in AnyExporter |->
                     IF @[x] = "open" THEN "stopped" ELSE @[x]]]
  /\ UNCHANGED <<env, gen, pipeline, queue, span, inbox, call, envShut, received, refused>>

---------------------------------------------------------------------------
Init ==
  /\ env \in [otlp : BOOLEAN, live : BOOLEAN]
  /\ env.otlp \/ ~ env.live
  /\ gen = 0
  /\ pipeline  = [g \in Generations |-> [live |-> {}, batched |-> {}]]
  /\ processor = [g \in Generations |-> [x \in AnyExporter |-> "none"]]
  /\ queue     = [g \in Generations |-> [x \in AnyExporter |-> <<>>]]
  /\ span      = [s \in Spans |-> [phase |-> "idle", gen |-> 0]]
  /\ inbox = Remote
  /\ call  = [gen |-> 0, left |-> [x \in AnyExporter |-> <<>>]]
  /\ envShut = FALSE
  /\ closing = "no"
  /\ received = [e \in {<<0, Env>>} \union (Generations \X Exporters) |-> <<>>]
  /\ refused = {}

Next ==
  \/ \E cfg \in Configs : Initialize(cfg)
  \/ \E s \in Spans : StartSpan(s) \/ EndSpan(s)
  \/ \E n \in 1 .. Len(Remote) : Forward(n)
  \/ \E x \in AnyExporter : ForwardSpan(x) \/ StopProcessor(x)
  \/ \E g \in Generations, x \in AnyExporter : Export(g, x) \/ ShutExporter(g, x)
  \/ Close \/ CloseReturns \/ CloseTimesOut

(* The context of Close has a deadline; nothing promises that an exporter
   answers, so no export is fair here.                                      *)
Spec == Init /\ [][Next]_vars /\ WF_vars(CloseReturns) /\ WF_vars(CloseTimesOut)

---------------------------------------------------------------------------
AnySpan == Spans \union RemoteSpans
Entry   == [span : AnySpan, view : View]
Place   == Generations \X AnyExporter
Sinks   == {<<0, Env>>} \union (Generations \X Exporters)

TypeOK ==
  /\ env \in [otlp : BOOLEAN, live : BOOLEAN]
  /\ gen \in 0 .. MaxInits
  /\ pipeline \in [Generations -> [live : SUBSET AnyExporter, batched : SUBSET AnyExporter]]
  /\ processor \in [Generations -> [AnyExporter -> {"none", "open", "stopped", "shut"}]]
  /\ queue \in [Generations -> [AnyExporter -> Seq(Entry)]]
  /\ \A g \in Generations, x \in AnyExporter : Len(queue[g][x]) <= QueueSize
  /\ span \in [Spans -> [phase : {"idle", "running", "ended"}, gen : 0 .. MaxInits]]
  /\ inbox \in Seq(Entry)
  /\ call \in [gen : 0 .. MaxInits, left : [AnyExporter -> Seq(Entry)]]
  /\ envShut \in BOOLEAN
  /\ closing \in {"no", "waiting", "returned", "timed out"}
  /\ received \in [Sinks -> Seq([span : AnySpan, view : View, by : Generations])]
  /\ refused \in SUBSET [to : Place, entry : Entry]

SameView(e, f) == e.span = f.span /\ e.view = f.view

(* No exporter is told twice that a span started, or that it ended: the
   snapshot taken by OnStart does not turn into a second finished span while
   it waits in the queue (live.go), and replacing SpanProcessors keeps a
   forwarded span from arriving once per Init (init.go).                    *)
NoEntryTwice ==
  \A e \in DOMAIN received : \A i, j \in DOMAIN received[e] :
    SameView(received[e][i], received[e][j]) => i = j

(* An exporter that takes spans after they have ended never gets one that
   still runs, of this process or of another one (exporters.go).            *)
BatchedSeesFinished ==
  \A g \in Generations : \A x \in pipeline[g].batched :
    \A e \in ToSet(received[Sink(g, x)]) :
      (e.by = g /\ x \notin pipeline[g].live) => e.view = "done"

(* What one processor sends is in order: no span is reported running after it
   was reported finished, although the two entries travel apart (live.go) and
   a forwarded batch is walked by one goroutine per processor.              *)
LiveBeforeDone ==
  \A e \in DOMAIN received : \A i, j \in DOMAIN received[e] :
    (i < j /\ received[e][i].span = received[e][j].span /\ received[e][i].by = received[e][j].by)
      => received[e][j].view = "done"

(* A Close that returns in time leaves nothing in the queues it shut, and an
   entry is only lost to an exporter that was shut when that exporter is the
   environment's and another Init's Close did it.                           *)
CloseLosesNothing ==
  /\ closing = "returned" => \A x \in AnyExporter : queue[gen][x] = <<>>
  /\ \A r \in refused :
       /\ r.to[2] = Env
       /\ \E g \in Generations \ {r.to[1]} : processor[g][Env] = "shut"

(* Close returns even when no exporter answers. *)
CloseEnds == closing = "waiting" ~> closing # "waiting"
===========================================================================
