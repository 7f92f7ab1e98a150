---------------------------- MODULE MCLiveSpans ----------------------------
(***************************************************************************)
(* An instance of LiveSpans: a caller may bring a batched exporter, and     *)
(* another process forwards the start and the end of one span.             *)
(***************************************************************************)
EXTENDS LiveSpans

(* A shim that detects and has a batched exporter of its own; InitEmbedded,
   which passes the environment's exporter as a live one.                   *)
CallerConfigs ==
  { [detect |-> TRUE,  live |-> {},      batched |-> {"jaeger"}],
    [detect |-> FALSE, live |-> {"otlp"}, batched |-> {}] }

RemoteSpan == << [span |-> "remote", view |-> "live"], [span |-> "remote", view |-> "done"] >>
===========================================================================
