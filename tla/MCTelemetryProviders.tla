------------------------ MODULE MCTelemetryProviders -----------------------
(***************************************************************************)
(* An instance of TelemetryProviders over three environments: an endpoint  *)
(* for each signal; a general one, which is none for logs and metrics; a   *)
(* protocol nobody knows, an endpoint that does not parse, a socket.       *)
(***************************************************************************)
EXTENDS TelemetryProviders

Variables(endpoint, protocol, any) ==
  [endpoint |-> endpoint, protocol |-> protocol, anyEndpoint |-> any, anyProtocol |-> ""]

SignalCases ==
  { [spans   |-> Variables("tcp", "grpc", ""),
     logs    |-> Variables("tcp", "grpc", ""),
     metrics |-> Variables("tcp", "", "")],
    [spans   |-> Variables("", "", "tcp"),
     logs    |-> Variables("tcp", "", "tcp"),
     metrics |-> Variables("", "", "tcp")],
    [spans   |-> Variables("bad", "grpc", ""),
     logs    |-> Variables("tcp", "other", ""),
     metrics |-> Variables("unix", "grpc", "")] }
===========================================================================
