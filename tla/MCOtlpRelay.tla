----------------------------- MODULE MCOtlpRelay -----------------------------
(***************************************************************************)
(* Batches for OtlpRelay.  Three spans or logs over two resources, with    *)
(* two schemas, and three scopes show the grouping; one span or log with   *)
(* every kind of value shows the conversions; two scopes of two metrics    *)
(* show what fails with what.                                              *)
(***************************************************************************)
EXTENDS OtlpRelay

Now == 17
Ints == List("int", <<"1", "2">>)

PlainSpan(id) ==
  [id |-> id, kind |-> "internal", status |-> "ok", start |-> Now, end |-> ZeroTime,
   attribute |-> Text("a"), links |-> <<>>, events |-> <<>>]
PlainLog(id) == [id |-> id, time |-> Now, observed |-> Now, body |-> Text("line")]

ResourceA == [attributes |-> "A", schema |-> "old"]
Places ==
  { <<ResourceA, [name |-> "m", schema |-> "s"]>>,
    <<ResourceA, [name |-> "m", schema |-> "t"]>>,
    <<ResourceA, [name |-> "n", schema |-> ""]>>,
    <<[attributes |-> "A", schema |-> "new"], [name |-> "m", schema |-> "s"]>>,
    <<[attributes |-> "B", schema |-> "new"], [name |-> "n", schema |-> ""]>> }

At(place, record) == [resource |-> place[1], scope |-> place[2], record |-> record]
Home == <<ResourceA, [name |-> "m", schema |-> "s"]>>

GroupedBatches ==
  { [signal |-> "spans", form |-> "sdk",
     content |-> <<At(p, PlainSpan(1)), At(q, [PlainSpan(2) EXCEPT !.end = Now + 1]), At(r, PlainSpan(3))>>]
      : p, q, r \in Places } \union
  { [signal |-> "logs", form |-> "sdk",
     content |-> <<At(p, PlainLog(1)), At(q, PlainLog(2)), At(r, PlainLog(3))>>]
      : p, q, r \in Places }

SdkValues ==
  { [t |-> "bool", v |-> "true"], [t |-> "int", v |-> "3"], [t |-> "double", v |-> "4"], Text("a"),
    Ints, List("bool", <<"true">>), List("double", <<"5">>), List("string", <<"a", "b">>),
    List("int", <<>>), [t |-> "invalid"] }

WireValues ==
  { Array(<<>>), Array(<<[t |-> "int", v |-> "1"], Text("a")>>), Array(<<Array(<<Text("a")>>)>>),
    [t |-> "bytes", v |-> "raw"], [t |-> "none"], Array(<<[t |-> "none"]>>),
    Array(<<Array(<<Text("a")>>), Array(<<[t |-> "int", v |-> "1"]>>)>>), Array(<<[t |-> "bytes", v |-> "raw"]>>),
    [t |-> "kvlist", elems |-> <<Text("a")>>], Array(<<[t |-> "bool", v |-> "true"]>>) }

RichSpans ==
  { [id |-> 1, kind |-> k, status |-> c, start |-> Now, end |-> e, attribute |-> a,
     links |-> <<[to |-> 2, dropped |-> 1, attribute |-> a]>>,
     events |-> <<[time |-> Now, attribute |-> a]>>]
      : k \in {"client", "other"}, c \in {"error", "unset"}, e \in {ZeroTime, Now + 1}, a \in SdkValues }

WireGroup(p) ==
  << [resource |-> ResourceA, scopes |-> <<[scope |-> "m", schema |-> "s", records |-> <<p>>]>>] >>

ValueBatches ==
  { [signal |-> "spans", form |-> "sdk", content |-> <<At(Home, s)>>] : s \in RichSpans } \union
  { [signal |-> "spans", form |-> "wire",
     content |-> WireGroup([SpanToPB(PlainSpan(1)) EXCEPT !.attribute = a])] : a \in WireValues } \union
  { [signal |-> "logs", form |-> "wire",
     content |-> WireGroup([id |-> 1, time |-> Now, observed |-> Now, body |-> a])] : a \in WireValues }

Point(t) == [t |-> t, time |-> Now, exemplars |-> <<[t |-> t, time |-> ZeroTime]>>]
Metrics ==
  { [data |-> "gauge", points |-> ps, temporality |-> "none"]
      : ps \in {<<>>, <<Point("int")>>, <<Point("double"), Point("double")>>} } \union
  { [data |-> "sum", points |-> <<>>, temporality |-> t] : t \in {"delta", "unknown"} } \union
  { [data |-> "summary", points |-> <<>>, temporality |-> "none"] }

MetricBatches ==
  { [signal |-> "metrics", form |-> "sdk", content |-> <<<<m, n>>, <<o>>>>]
      : m, n, o \in Metrics } \union
  { [signal |-> "metrics", form |-> "wire",
     content |-> <<<<[data |-> "gauge", points |-> DataPointsToPB(<<Point("int"), Point("double")>>),
                      temporality |-> "none"]>>>>] }

RelayBatches == GroupedBatches \union ValueBatches \union MetricBatches
===========================================================================
