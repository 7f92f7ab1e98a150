---------------------------- MODULE ErrorOrigins ----------------------------
(***************************************************************************)
(* sdk/otel-go/span.go: EndWithCause.  Nested calls each end their span    *)
(* with the error they return.  The first span to end with an error stamps *)
(* its own context into the error's text; the spans further out find the   *)
(* stamp and link to it instead.  The stamp survives whatever keeps the    *)
(* text of an error: wrapping, joining, a transport.                       *)
(*                                                                         *)
(* An error is the set of the stamps in its text.  A call whose context has *)
(* no span is given a no-op one, which is not reported and whose context    *)
(* is all zeros.                                                           *)
(***************************************************************************)
EXTENDS Naturals, FiniteSets, Sequences, SequencesExt

CONSTANTS
  MaxSpans,  \* bound of the model: calls
  MaxFails   \* bound of the model: failures of the code itself

ASSUME OriginsAssumption == MaxSpans \in Nat \ {0} /\ MaxFails \in Nat

Spans == 1 .. MaxSpans
Zero  == 0                            \* the span of a no-op context
NoError == [failed |-> FALSE, stamps |-> {}, roots |-> {}]

VARIABLES
  calls,    \* the calls in progress, the innermost last: span, and error so far
  traced,   \* the spans started by a real tracer
  fails,    \* failures so far
  reported  \* what each span that ended was reported with

vars == <<calls, traced, fails, reported>>

Started == Len(calls) + Cardinality(DOMAIN reported)
Top     == Last(calls)

---------------------------------------------------------------------------
(* errors.Join and %w keep the texts.  roots, of the model only, are the spans
   whose own code failed.                                                   *)
Join(e, f) ==
  [failed |-> e.failed \/ f.failed, stamps |-> e.stamps \union f.stamps, roots |-> e.roots \union f.roots]

(* The context a span stamps. *)
Context(s) == IF s \in traced THEN s ELSE Zero

(* A stamp of zeros matches the expression but is no valid span context. *)
ParseErrorOrigins(e) == e.stamps \ {Zero}

(* Slip: the caller's error is left as it was.                             *)
TrackOriginOnCopy(e, s) == e

TrackOrigin(e, s) == [e EXCEPT !.stamps = @ \union {Context(s)}]

(* Slip: the error is stamped first and read afterwards.                   *)
ReportStamped(e, s) ==
  LET origins == IF e.failed /\ ParseErrorOrigins(e) = {} THEN {Context(s)}
                 ELSE ParseErrorOrigins(e)
  IN [error    |-> e.failed,
      links    |-> origins \ {Context(s)},
      recorded |-> e.failed /\ origins = {},
      roots    |-> e.roots]

(* What the span is reported with. *)
Report(e, s) ==
  LET origins == ParseErrorOrigins(e)
  IN [error    |-> e.failed,
      links    |-> origins \ {Context(s)},
      recorded |-> e.failed /\ origins = {},
      roots    |-> e.roots]

(* The error EndWithCause leaves in the named result. *)
Returned(e, s) ==
  IF e.failed /\ ParseErrorOrigins(e) = {} THEN TrackOrigin(e, s) ELSE e

---------------------------------------------------------------------------
Call(real) ==
  /\ Started < MaxSpans
  /\ calls' = Append(calls, [span |-> Started + 1, error |-> NoError])
  /\ traced' = IF real THEN traced \union {Started + 1} ELSE traced
  /\ UNCHANGED <<fails, reported>>

(* The call's own code fails, or a callee's error is passed on without its text:
   the cause is this call.                                                  *)
Fail ==
  /\ calls # <<>> /\ fails < MaxFails
  /\ fails' = fails + 1
  /\ calls' = [calls EXCEPT ![Len(calls)].error =
                 Join(@, [failed |-> TRUE, stamps |-> {}, roots |-> {Top.span}])]
  /\ UNCHANGED <<traced, reported>>

(* defer EndWithCause(span, &err): the caller joins the error to what it has, or
   drops it.                                                                *)
Return ==
  /\ calls # <<>>
  /\ LET s == Top.span
         e == Returned(Top.error, s)
         outer == Front(calls)
     IN /\ reported' = [t \in DOMAIN reported \union {s} |->
                          IF t = s THEN Report(Top.error, s) ELSE reported[t]]
        /\ \/ calls' = outer
           \/ /\ outer # <<>> /\ e.failed
              /\ calls' = [outer EXCEPT ![Len(outer)].error = Join(@, e)]
  /\ UNCHANGED <<traced, fails>>

Init ==
  /\ calls = <<>> /\ traced = {} /\ fails = 0
  /\ reported = [s \in {} |-> 0]

Next == (\E real \in BOOLEAN : Call(real)) \/ Fail \/ Return

Spec == Init /\ [][Next]_vars

---------------------------------------------------------------------------
Errors == [failed : BOOLEAN, stamps : SUBSET (Spans \union {Zero}), roots : SUBSET Spans]
Reports == [error : BOOLEAN, links : SUBSET Spans, recorded : BOOLEAN, roots : SUBSET Spans]

TypeOK ==
  /\ calls \in Seq([span : Spans, error : Errors])
  /\ traced \subseteq Spans
  /\ fails \in 0 .. MaxFails
  /\ DOMAIN reported \subseteq Spans
  /\ reported \in [DOMAIN reported -> Reports]

Shown == DOMAIN reported \intersect traced

(* The span a reader is sent to as the origin of an error, by a link or because
   the error is recorded there, is one in which a failure began: its own code
   failed, or that of a call without a span of its own.  The spans the error
   merely passed through are never named (span.go:83).                      *)
OriginIsCause ==
  \A s \in Shown : reported[s].error =>
    \A o \in reported[s].links \union (IF reported[s].recorded THEN {s} ELSE {}) :
      /\ o \in traced
      /\ \E r \in reported[o].roots : r = o \/ r \notin traced

(* Every span that ends with an error says where it began, and where the error
   reaches it with no stamp it is the beginning itself (span.go:120).       *)
ErrorHasOrigin ==
  \A s \in Shown : reported[s].error <=> (reported[s].recorded \/ reported[s].links # {})
===========================================================================
