------------------------------ MODULE OtlpConfig -----------------------------
(***************************************************************************)
(* sdk/otel-go/init.go: which exporter the OTEL_EXPORTER_OTLP_* variables  *)
(* configure for spans, logs and metrics.  An environment holds the        *)
(* variables of one signal (endpoint, protocol) and those of all signals   *)
(* (anyEndpoint, anyProtocol); "" is a variable that is not set, "bad" an  *)
(* endpoint that does not parse, "unix" one that is a socket.              *)
(***************************************************************************)
EXTENDS Naturals

Signals   == {"spans", "logs", "metrics"}
Endpoints == {"", "tcp", "unix", "bad"}
Protocols == {"", "http/protobuf", "http", "grpc", "other"}

Environments == [endpoint : Endpoints, protocol : Protocols,
                 anyEndpoint : Endpoints, anyProtocol : Protocols]

None == [protocol |-> "none", endpoint |-> ""]

Protocol(e) ==
  CASE e.protocol # ""    -> e.protocol
    [] e.anyProtocol # "" -> e.anyProtocol
    [] OTHER              -> "http/protobuf"

(* The two constructors.  The http one keeps its default endpoint where it is
   given one it cannot parse.                                               *)
Made(proto, endpoint) ==
  CASE endpoint = ""                       -> None
    [] proto \in {"http/protobuf", "http"} ->
         [protocol |-> "http", endpoint |-> IF endpoint = "bad" THEN "default" ELSE endpoint]
    [] proto = "grpc" /\ endpoint # "bad"  -> [protocol |-> "grpc", endpoint |-> endpoint]
    [] OTHER                               -> None

(* The general endpoint counts for spans only: it may not take logs or metrics.
   It gets the path of the signal where the protocol is spelled out.        *)
SpanEndpoint(e) ==
  CASE e.endpoint # ""                                        -> e.endpoint
    [] Protocol(e) = "http/protobuf" /\ e.anyEndpoint = "bad" -> ""
    [] OTHER                                                  -> e.anyEndpoint

ConfiguredSpanExporter(e)   == Made(Protocol(e), SpanEndpoint(e))
ConfiguredMetricExporter(e) == Made(Protocol(e), e.endpoint)

(* The grpc constructor for logs is not given the endpoint. *)
ConfiguredLogExporter(e) ==
  IF e.endpoint # "" /\ Protocol(e) = "grpc"
  THEN [protocol |-> "grpc", endpoint |-> "default"]
  ELSE Made(Protocol(e), e.endpoint)

Configured(signal, e) ==
  CASE signal = "spans" -> ConfiguredSpanExporter(e)
    [] signal = "logs"  -> ConfiguredLogExporter(e)
    [] OTHER            -> ConfiguredMetricExporter(e)
===========================================================================
