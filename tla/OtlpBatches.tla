----------------------------- MODULE OtlpBatches -----------------------------
(***************************************************************************)
(* sdk/otel-go/transform.go: telemetry on its way through several          *)
(* processes.  A sender groups what it has by resource and scope and turns *)
(* it into OTLP messages, a receiver turns those back into records, which  *)
(* it sends on.  The module follows one batch of spans, logs or metrics,   *)
(* made by the SDK of this process or on the wire by somebody else's.      *)
(*                                                                         *)
(* A field that is copied as it is both ways is part of "id"; the others   *)
(* are here.  What becomes of attribute values and of the bodies of logs   *)
(* is a parameter; OtlpRelay has the conversions that take its place.      *)
(***************************************************************************)
EXTENDS Integers, FiniteSets, Sequences, SequencesExt, FiniteSetsExt

CONSTANTS
  Batches,                        \* that may start: [signal, form, content]
  MaxHops,                        \* bound of the model: processes a batch goes through
  ValueToPB(_), ValueFromPB(_),   \* an attribute value to the wire and back
  BodyToPB(_), BodyFromPB(_)      \* the body of a log

VARIABLES
  signal,   \* "spans", "logs" or "metrics"
  form,     \* "sdk" in a process, "wire" between two
  content,  \* the batch
  start,    \* the batch as it started, and its form
  hops,     \* processes that have received it
  arrived   \* what the first of them got

batchVars == <<signal, form, content, start, hops, arrived>>

(* The elements of a sequence that are in a set, in their order.           *)
Those(s, T) == FlattenSeq([i \in DOMAIN s |-> IF s[i] \in T THEN <<s[i]>> ELSE <<>>])

---------------------------------------------------------------------------
(* Times are int64 nanoseconds and uint64 on the wire, here in units of 10^17
   ns with their width in proportion.  ZeroTime, year 1, is out of range.   *)
Width    == 184
ZeroTime == -621

UnixNano(t) == t % Width

(* Slip: the number is read without its sign.                              *)
UnixUnsigned(n) == n

Unix(n) == IF n >= Width \div 2 THEN n - Width ELSE n

(* The times of metrics are not below 1970, where the zero time lands, too. *)
TimeUnixNano(t) == LET n == Unix(UnixNano(t)) IN IF n < 0 THEN 0 ELSE n

---------------------------------------------------------------------------
(* One span.  The trace state of a link and the number of attributes it dropped
   are not read back, nor the flags, which say if the parent is remote.     *)
StatusToPB(c)   == IF c \in {"ok", "error"} THEN c ELSE "unset"
StatusFromPB(c) == IF c \in {"ok", "error"} THEN c ELSE "unset"

Kinds == {"internal", "client", "server", "producer", "consumer"}
SpanKindToPB(k)   == IF k \in Kinds THEN k ELSE "unspecified"
SpanKindFromPB(k) == IF k \in Kinds THEN k ELSE "unspecified"

SpanLinksToPB(links) ==
  [i \in DOMAIN links |-> [to |-> links[i].to, dropped |-> links[i].dropped,
                           attribute |-> ValueToPB(links[i].attribute)]]
SpanLinksFromPB(links) ==
  [i \in DOMAIN links |-> [to |-> links[i].to, dropped |-> 0,
                           attribute |-> ValueFromPB(links[i].attribute)]]

SpanEventsToPB(events) ==
  [i \in DOMAIN events |-> [time |-> UnixNano(events[i].time), attribute |-> ValueToPB(events[i].attribute)]]
SpanEventsFromPB(events) ==
  [i \in DOMAIN events |-> [time |-> Unix(events[i].time), attribute |-> ValueFromPB(events[i].attribute)]]

SpanToPB(s) ==
  [id |-> s.id, kind |-> SpanKindToPB(s.kind), status |-> StatusToPB(s.status),
   start |-> UnixNano(s.start), end |-> UnixNano(s.end),
   attribute |-> ValueToPB(s.attribute), links |-> SpanLinksToPB(s.links),
   events |-> SpanEventsToPB(s.events)]

ReadOnlySpan(p) ==
  [id |-> p.id, kind |-> SpanKindFromPB(p.kind), status |-> StatusFromPB(p.status),
   start |-> Unix(p.start), end |-> Unix(p.end),
   attribute |-> ValueFromPB(p.attribute), links |-> SpanLinksFromPB(p.links),
   events |-> SpanEventsFromPB(p.events)]

(* One log record.  The time it was observed is not sent and read back as 1970. *)
LogRecord(l) ==
  [id |-> l.id, time |-> UnixNano(l.time), observed |-> 0, body |-> BodyToPB(l.body)]
ReexportedLog(p) ==
  [id |-> p.id, time |-> Unix(p.time), observed |-> Unix(p.observed), body |-> BodyFromPB(p.body)]

RecordToPB(r)   == IF signal = "spans" THEN SpanToPB(r) ELSE LogRecord(r)
RecordFromPB(p) == IF signal = "spans" THEN ReadOnlySpan(p) ELSE ReexportedLog(p)

---------------------------------------------------------------------------
(* SpansToPB and LogsToPB group alike: by the attributes of the resource, whose
   schema is the one of its first record, then by scope, in the order in which
   the scopes first occur.  An item is a record with its resource and scope. *)

(* Slip: a scope that is new to a known resource is not added to it.       *)
ScopesOfFirst(items) == <<Head(items).scope>>

Scopes(items) ==
  FlattenSeq([i \in DOMAIN items |->
    IF \E j \in 1 .. i - 1 : items[j].scope = items[i].scope THEN <<>> ELSE <<items[i].scope>>])

InstrumentationScopeToPB(scope) == scope.name

ResourceGroup(items) ==
  [resource |-> Head(items).resource,
   scopes   |-> [k \in DOMAIN Scopes(items) |->
     LET scope == Scopes(items)[k]
         mine  == Those(items, {item \in ToSet(items) : item.scope = scope})
     IN [scope |-> InstrumentationScopeToPB(scope), schema |-> scope.schema,
         records |-> [i \in DOMAIN mine |-> RecordToPB(mine[i].record)]]]]

(* The groups come out of a Go map, so in any order. *)
ToPB(items, order) ==
  [g \in DOMAIN order |->
     ResourceGroup(Those(items, {item \in ToSet(items) : item.resource.attributes = order[g]}))]

(* The schema of a scope is kept for logs only. *)
ScopeFromPB(group) ==
  [name |-> group.scope, schema |-> IF signal = "logs" THEN group.schema ELSE ""]

GroupFromPB(group) ==
  FlattenSeq([k \in DOMAIN group.scopes |->
    LET scope == group.scopes[k]
    IN [i \in DOMAIN scope.records |->
          [resource |-> group.resource, scope |-> ScopeFromPB(scope),
           record |-> RecordFromPB(scope.records[i])]]])

FromPB(groups) == FlattenSeq([g \in DOMAIN groups |-> GroupFromPB(groups[g])])

---------------------------------------------------------------------------
(* Metrics: a batch is a sequence of scopes, a scope a sequence of metrics.  A
   gauge holds points with exemplars, a sum or a histogram a temporality; "nil"
   is a metric without data.                                                *)
ExemplarsToPB(es) == [i \in DOMAIN es |-> [es[i] EXCEPT !.time = TimeUnixNano(@)]]
ExemplarsFromPB(t, es) ==
  LET mine == Those(es, {e \in ToSet(es) : e.t = t})
  IN [i \in DOMAIN mine |-> [mine[i] EXCEPT !.time = Unix(@)]]

DataPointsToPB(ps) ==
  [i \in DOMAIN ps |-> [ps[i] EXCEPT !.time = TimeUnixNano(@), !.exemplars = ExemplarsToPB(@)]]
DataPointsFromPB(t, ps) ==
  LET mine == Those(ps, {p \in ToSet(ps) : p.t = t})
  IN [i \in DOMAIN mine |->
        [mine[i] EXCEPT !.time = Unix(@), !.exemplars = ExemplarsFromPB(t, @)]]

TemporalityKnown(m) == m.temporality \in {"delta", "cumulative"}

(* Which metrics can be sent, and which can be received. *)
MetricToPBFails(m) ==
  \/ m.data = "nil"
  \/ m.data \in {"sum", "histogram", "exponential"} /\ ~ TemporalityKnown(m)
MetricFromPBFails(m) == m.data # "gauge"

MetricToPB(m) == IF m.data = "gauge" THEN [m EXCEPT !.points = DataPointsToPB(@)] ELSE m

(* A gauge is one of integers if it has any, otherwise one of doubles; without
   points it is left without data, and no error is raised.                  *)
MetricFromPB(m) ==
  LET ints    == DataPointsFromPB("int", m.points)
      doubles == DataPointsFromPB("double", m.points)
  IN IF ints # <<>> THEN [m EXCEPT !.points = ints]
     ELSE IF doubles # <<>> THEN [m EXCEPT !.points = doubles]
     ELSE [m EXCEPT !.data = "nil"]

(* A metric that cannot be sent takes its scope with it. *)
ScopeMetricsToPB(scopes) ==
  LET good == Those(scopes, {ms \in ToSet(scopes) : \A i \in DOMAIN ms : ~ MetricToPBFails(ms[i])})
  IN [k \in DOMAIN good |-> [i \in DOMAIN good[k] |-> MetricToPB(good[k][i])]]

(* One that cannot be received takes the whole message with it. *)
ResourceMetricsFromPB(scopes) ==
  IF \E k \in DOMAIN scopes : \E i \in DOMAIN scopes[k] : MetricFromPBFails(scopes[k][i])
  THEN <<>>
  ELSE [k \in DOMAIN scopes |-> [i \in DOMAIN scopes[k] |-> MetricFromPB(scopes[k][i])]]

---------------------------------------------------------------------------
(* What the SDK of a process gives to an exporter.  Times are those of clocks
   after 1970 and before 2262, and a span that has not ended has none; points of
   metrics are of integers or of doubles.                                   *)
Times == 0 .. Width \div 2 - 1

RecordsApart(items) ==
  \A i, j \in DOMAIN items : items[i].record.id = items[j].record.id => i = j

Timed(span) == span.start \in Times /\ span.end \in Times \union {ZeroTime}

IsPoint(p) ==
  p = [t |-> p.t, time |-> p.time, exemplars |-> p.exemplars] /\ p.t \in {"int", "double"}

Measured(m) ==
  /\ m = [data |-> m.data, points |-> m.points, temporality |-> m.temporality]
  /\ m.points \in Seq(ToSet(m.points)) /\ \A p \in ToSet(m.points) : IsPoint(p)

ASSUME BatchesAssumption ==
  \A b \in Batches :
    /\ b.signal \in {"spans", "logs", "metrics"} /\ b.form \in {"sdk", "wire"}
    /\ b.form = "sdk" =>
         /\ b.content \in Seq(ToSet(b.content))
         /\ b.signal # "metrics" => RecordsApart(b.content)
         /\ b.signal = "spans" => \A item \in ToSet(b.content) : Timed(item.record)
         /\ b.signal = "metrics" =>
              \A ms \in ToSet(b.content) : ms \in Seq(ToSet(ms)) /\ \A m \in ToSet(ms) : Measured(m)

---------------------------------------------------------------------------
Resources == {content[i].resource.attributes : i \in DOMAIN content}

Send ==
  /\ form = "sdk" /\ form' = "wire"
  /\ hops < MaxHops
  /\ \/ /\ signal = "metrics"
        /\ content' = ScopeMetricsToPB(content)
     \/ /\ signal # "metrics"
        /\ \E order \in SetToSeqs(Resources) : content' = ToPB(content, order)
  /\ UNCHANGED <<signal, start, hops, arrived>>

Arrive ==
  /\ form = "wire" /\ form' = "sdk"
  /\ content' = IF signal = "metrics" THEN ResourceMetricsFromPB(content) ELSE FromPB(content)
  /\ hops' = hops + 1
  /\ arrived' = IF hops = 0 THEN content' ELSE arrived
  /\ UNCHANGED <<signal, start>>

BatchInit ==
  /\ \E b \in Batches :
       /\ signal = b.signal /\ form = b.form /\ content = b.content
       /\ start = [form |-> b.form, content |-> b.content]
  /\ hops = 0 /\ arrived = <<>>

BatchNext == Send \/ Arrive

BatchSpec == BatchInit /\ [][BatchNext]_batchVars

---------------------------------------------------------------------------
HasArrived == form = "sdk" /\ hops > 0
Grouped    == signal # "metrics"

Key(item)  == <<item.resource.attributes, item.scope>>
Ids(items) == {items[i].record.id : i \in DOMAIN items}

(* The records that started with one resource and scope, still in that order. *)
InOrder ==
  \A i, j \in DOMAIN start.content :
    i < j /\ Key(start.content[i]) = Key(start.content[j]) =>
      \E p, q \in DOMAIN content :
        /\ p < q
        /\ content[p].record.id = start.content[i].record.id
        /\ content[q].record.id = start.content[j].record.id

(* Every scope with all its metrics, each a gauge still. *)
MetricsThere ==
  /\ Len(content) = Len(start.content)
  /\ \A k \in DOMAIN content :
       /\ Len(content[k]) = Len(start.content[k])
       /\ \A i \in DOMAIN content[k] : content[k][i].data = "gauge"

(* Nothing is lost, doubled or reordered on the way: the records of a batch are
   there after every hop, those of one resource and scope in their order,
   however the grouping mixed them; a scope, a metric of one or the data of a metric
   is missing only because a metric that is no gauge, or has no points, was in the
   batch (transform.go:314).                                                *)
NothingLost ==
  (HasArrived /\ start.form = "sdk") =>
    IF Grouped
    THEN Len(content) = Len(start.content) /\ Ids(content) = Ids(start.content) /\ InOrder
    ELSE \/ MetricsThere
         \/ \E ms \in ToSet(start.content) : \E m \in ToSet(ms) : m.data # "gauge" \/ m.points = <<>>

Running(span) == span.end < span.start

(* A span that runs is known for one after any number of hops, by the end time
   before its start that the zero time turns into, and one that has ended never
   is: FilterLiveSpansExporter and SpanForwarder go by it (exporters.go:32). *)
LiveStaysLive ==
  (signal = "spans" /\ HasArrived /\ start.form = "sdk") =>
    \A s \in ToSet(content), t \in ToSet(start.content) :
      s.record.id = t.record.id => (Running(s.record) <=> Running(t.record))
===========================================================================
