------------------------------ MODULE OtlpRelay ------------------------------
(***************************************************************************)
(* The batches of OtlpBatches with the values they carry: attributes and   *)
(* the bodies of log records (sdk/otel-go/transform.go).                   *)
(*                                                                         *)
(* Texts the code makes up, such as "INVALID", are kept.                   *)
(***************************************************************************)
EXTENDS OtlpBatches

(* Attribute values.  In the SDK a list has one type of element; on the wire it
   is an array of any values.  t is the type, v the value in writing.       *)
Scalars == {"bool", "int", "double", "string"}

Text(s) == [t |-> "string", v |-> s]
Array(vs) == [t |-> "array", elems |-> vs]

(* The getters of the protocol buffers yield the type's zero for a value of
   another type.                                                            *)
Get(t, a) ==
  IF a.t = t THEN a.v ELSE CASE t = "bool" -> "false" [] t = "string" -> "" [] OTHER -> "0"

List(t, vs) == [t |-> "list", of |-> t, v |-> vs]

(* The elements of a list of integers and of one of texts differ in type.  *)
AttrType(a) == IF a.t = "list" THEN "list of " \o a.of ELSE a.t

Value(a) ==
  CASE a.t \in Scalars -> a
    [] a.t = "list"    -> Array([i \in DOMAIN a.v |-> [t |-> a.of, v |-> a.v[i]]])
    [] OTHER           -> Text("INVALID")

RECURSIVE AttrValue(_)

(* Slip: booleans and numbers alike are read as texts.                     *)
AnyArrayOfTexts(vs) == List("string", [i \in DOMAIN vs |-> Get("string", vs[i])])

(* The elements decide the type.  An empty array becomes a list of strings,
   whatever it was a list of.                                               *)
AnyArrayToAttrValue(vs) ==
  LET types == {AttrType(AttrValue(vs[i])) : i \in DOMAIN vs}
  IN CASE types = {}                 -> List("string", <<>>)
       [] Cardinality(types) > 1     -> Text("mixed")
       [] types \subseteq Scalars    ->
            LET t == CHOOSE x \in types : TRUE
            IN List(t, [i \in DOMAIN vs |-> Get(t, vs[i])])
       [] OTHER                      -> Text("UNHANDLED ARRAY ELEM TYPE")

AttrValue(a) ==
  CASE a.t \in Scalars -> a
    [] a.t = "array"   -> AnyArrayToAttrValue(a.elems)
    [] a.t = "bytes"   -> Text(a.v)
    [] OTHER           -> Text("UNHANDLED ATTR TYPE")

(* The body of a log record may be structured; its maps are lists of values
   here, in the order of their keys.                                        *)
RECURSIVE LogValueToPB(_), LogValueFromPB(_)

LogValueToPB(a) ==
  CASE a.t \in Scalars          -> a
    [] a.t \in {"slice", "map"} ->
         [t |-> IF a.t = "slice" THEN "array" ELSE "kvlist",
          elems |-> [i \in DOMAIN a.elems |-> LogValueToPB(a.elems[i])]]
    [] OTHER                    -> Text("INVALID")

LogValueFromPB(a) ==
  CASE a.t \in Scalars \union {"bytes"} -> a
    [] a.t \in {"array", "kvlist"}      ->
         [t |-> IF a.t = "array" THEN "slice" ELSE "map",
          elems |-> [i \in DOMAIN a.elems |-> LogValueFromPB(a.elems[i])]]
    [] OTHER                            -> Text("UNHANDLED LOG VALUE TYPE")

---------------------------------------------------------------------------
(* The records of a batch, in the order of one resource and scope; for
   metrics, the metrics of each scope.                                      *)
Lane(items, resource, scope) ==
  SelectSeq(items, LAMBDA item : item.resource.attributes = resource /\ item.scope.name = scope)

Unobserved(item) == IF signal = "logs" THEN [item EXCEPT !.record.observed = 0] ELSE item

Lanes(items) ==
  [key \in {<<items[i].resource.attributes, items[i].scope.name>> : i \in DOMAIN items} |->
     LET lane == Lane(items, key[1], key[2]) IN [i \in DOMAIN lane |-> Unobserved(lane[i])]]

RECURSIVE HasBytes(_)
HasBytes(a) ==
  \/ a.t = "bytes"
  \/ a.t \in {"slice", "map"} /\ \E i \in DOMAIN a.elems : HasBytes(a.elems[i])

(* An attribute value arrives as it left, but for the type of an empty list and
   what has no type; and what the first process received, of whoever's making,
   every later one receives, but for the time a log was observed, bytes in a
   log, and gauges without points (transform.go:116, 789, 903, 1130).       *)
RelayKeepsValues ==
  HasArrived =>
    /\ (signal = "spans" /\ start.form = "sdk") =>
         \A s \in ToSet(content), t \in ToSet(start.content) :
           s.record.id = t.record.id =>
             LET a == t.record.attribute
             IN (a.t \in Scalars \/ (a.t = "list" /\ a.v # <<>>)) => s.record.attribute = a
    /\ \/ Grouped /\ Lanes(content) = Lanes(arrived)
       \/ ~ Grouped /\ content = arrived
       \/ signal = "logs" /\ \E item \in ToSet(arrived) : HasBytes(item.record.body)
       \/ signal = "metrics" /\ \E ms \in ToSet(arrived) : \E m \in ToSet(ms) : m.data = "nil"
===========================================================================
