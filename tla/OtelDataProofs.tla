--------------------------- MODULE OtelDataProofs ---------------------------
(***************************************************************************)
(* What the telemetry of sdk/otel-go says when it arrives: the origins of  *)
(* errors (ErrorOrigins) and batches of records (OtlpBatches).             *)
(*                                                                         *)
(* That the origin shown for an error is where it began, for any number of *)
(* calls and failures.  The invariant follows the stamps: a stamp is only  *)
(* ever the context of a call that was reported with a cause of its own,   *)
(* and an error without one has not left the call it began in, unless the  *)
(* calls between have no span.                                             *)
(***************************************************************************)
EXTENDS ErrorOrigins, OtlpBatches, SequenceInduction, FiniteSetTheorems, SequenceTheorems, TLAPS

(* Spans are numbered as they start, and end once. *)
Fresh ==
  /\ IsFiniteSet(DOMAIN reported)
  /\ \A s \in DOMAIN reported : s <= Started
  /\ \A s \in traced : s <= Started
  /\ \A i \in DOMAIN calls : calls[i].span <= Started /\ calls[i].span \notin DOMAIN reported
  /\ \A i, j \in DOMAIN calls : calls[i].span = calls[j].span => i = j

(* A cause, for the one who is sent to o by an error. *)
Began(o, roots) == \E r \in roots : r <= Started /\ (r = o \/ r \notin traced)

Cause(o) == o \in DOMAIN reported /\ o \in traced /\ Began(o, reported[o].roots)

Stamped == \A i \in DOMAIN calls : \A o \in ParseErrorOrigins(calls[i].error) : Cause(o)

(* What may be known of an error in a call of span s without looking at stamps. *)
OwnRoots(e, s) ==
  /\ e.failed <=> e.roots # {}
  /\ e.failed \/ ParseErrorOrigins(e) = {}
  /\ \A r \in e.roots : r <= Started
  /\ ParseErrorOrigins(e) = {} => \A r \in e.roots : r = s \/ r \notin traced

Unstamped == \A i \in DOMAIN calls : OwnRoots(calls[i].error, calls[i].span)

Told(s) ==
  /\ reported[s].error <=> (reported[s].recorded \/ reported[s].links # {})
  /\ \A o \in reported[s].links : Cause(o)
  /\ reported[s].recorded => Began(s, reported[s].roots)

IInv == TypeOK /\ Fresh /\ Stamped /\ Unstamped /\ \A s \in DOMAIN reported : Told(s)

---------------------------------------------------------------------------
(* The innermost call and the ones around it. *)
LEMMA FrontOfCalls ==
  ASSUME NEW S, NEW q \in Seq(S), q # <<>>
  PROVE  /\ Last(q) = q[Len(q)] /\ Len(q) \in DOMAIN q /\ Last(q) \in S
         /\ Front(q) \in Seq(S) /\ Len(Front(q)) = Len(q) - 1
         /\ \A i \in DOMAIN Front(q) : i \in DOMAIN q /\ i # Len(q) /\ Front(q)[i] = q[i]
         /\ \A i \in DOMAIN q : i # Len(q) => i \in DOMAIN Front(q)
  <1>1. Len(q) \in Nat \ {0} /\ DOMAIN q = 1 .. Len(q)
    BY EmptySeq, LenProperties
  <1>2. Last(q) = q[Len(q)] /\ Len(q) \in DOMAIN q /\ Last(q) \in S
    BY <1>1, ElementOfSeq DEF Last
  <1>3. /\ Front(q) \in Seq(S) /\ Len(Front(q)) = Len(q) - 1
        /\ \A i \in 1 .. Len(q) - 1 : Front(q)[i] = q[i]
    BY <1>1, SubSeqProperties DEF Front
  <1>4. DOMAIN Front(q) = 1 .. Len(q) - 1
    BY <1>1, <1>3, LenProperties
  <1> QED BY <1>1, <1>2, <1>3, <1>4

WithError(q, k, f) == [q EXCEPT ![k] = [span |-> q[k].span, error |-> f]]

LEMMA ErrorUpdated ==
  ASSUME NEW q \in Seq([span : Spans, error : Errors]), NEW k \in DOMAIN q, NEW f
  PROVE  [q EXCEPT ![k].error = f] = WithError(q, k, f)
  <1>1. q[k] \in [span : Spans, error : Errors]  BY ElementOfSeq, LenProperties
  <1>2. ASSUME NEW c \in [span : Spans, error : Errors]
        PROVE  [c EXCEPT !.error = f] = [span |-> c.span, error |-> f]
    OBVIOUS
  <1>3. [q[k] EXCEPT !.error = f] = [span |-> q[k].span, error |-> f]
    BY <1>1, <1>2
  <1> QED BY <1>3, Zenon DEF WithError

LEMMA ErrorReplaced ==
  ASSUME NEW q \in Seq([span : Spans, error : Errors]), NEW k \in DOMAIN q, NEW f \in Errors
  PROVE  LET p == WithError(q, k, f) IN
         /\ p \in Seq([span : Spans, error : Errors])
         /\ Len(p) = Len(q) /\ DOMAIN p = DOMAIN q
         /\ p[k].error = f
         /\ \A i \in DOMAIN q : p[i].span = q[i].span /\ (i # k => p[i] = q[i])
  <1> DEFINE c == [span |-> q[k].span, error |-> f]
             p == WithError(q, k, f)
  <1>1. q[k] \in [span : Spans, error : Errors]  BY ElementOfSeq, LenProperties
  <1>2. c \in [span : Spans, error : Errors] /\ c.error = f /\ c.span = q[k].span  BY <1>1
  <1>3. p = [q EXCEPT ![k] = c]  BY DEF WithError
  <1>4. p \in Seq([span : Spans, error : Errors]) /\ Len(p) = Len(q)
    BY <1>2, <1>3, ExceptSeq, LenProperties
  <1>5. DOMAIN p = DOMAIN q /\ p[k] = c /\ \A i \in DOMAIN q : i # k => p[i] = q[i]
    BY <1>3
  <1>6. p[k].error = f /\ p[k].span = q[k].span
    BY <1>2, <1>5
  <1> QED BY <1>4, <1>5, <1>6

LEMMA StartedIsNat == IInv => Started \in Nat /\ Cardinality(DOMAIN reported) \in Nat
  <1>1. SUFFICES ASSUME IInv PROVE Started \in Nat /\ Cardinality(DOMAIN reported) \in Nat
    OBVIOUS
  <1>2. Cardinality(DOMAIN reported) \in Nat  BY <1>1, FS_CardinalityType DEF IInv, Fresh
  <1>3. Len(calls) \in Nat  BY <1>1 DEF IInv, TypeOK
  <1> QED BY <1>2, <1>3 DEF Started

LEMMA CallTypes ==
  ASSUME IInv, NEW i \in DOMAIN calls
  PROVE  /\ calls[i].span \in Spans /\ calls[i].span \in Nat \ {0}
         /\ calls[i].error \in Errors /\ calls[i].error.roots \subseteq Spans
         /\ calls[i] = [span |-> calls[i].span, error |-> calls[i].error]
  <1>1. calls[i] \in [span : Spans, error : Errors]
    BY ElementOfSeq, LenProperties DEF IInv, TypeOK
  <1> QED BY <1>1, OriginsAssumption DEF Errors, Spans, OriginsAssumption

(* At the start there is nothing to be wrong about. *)
LEMMA InitHolds == Init => IInv
  <1>1. SUFFICES ASSUME Init PROVE IInv  OBVIOUS
  <1> USE <1>1 DEF Init
  <1>2. DOMAIN reported = {} /\ DOMAIN calls = {}  OBVIOUS
  <1>3. TypeOK  BY <1>2, OriginsAssumption DEF TypeOK, OriginsAssumption
  <1>4. IsFiniteSet(DOMAIN reported)  BY <1>2, FS_EmptySet
  <1> QED BY <1>2, <1>3, <1>4 DEF IInv, Fresh, Stamped, Unstamped

(* A new call has a number that was not seen before: no root becomes a traced
   span afterwards.                                                         *)
LEMMA CallHolds == ASSUME IInv, NEW real \in BOOLEAN, Call(real) PROVE IInv'
  <1> DEFINE n == Started + 1
             c == [span |-> n, error |-> NoError]
  <1>1. Started \in Nat /\ Started < MaxSpans /\ n \in Spans /\ n > Started
    BY StartedIsNat, OriginsAssumption DEF Call, Spans, OriginsAssumption
  <1>2. c \in [span : Spans, error : Errors]  BY <1>1 DEF NoError, Errors
  <1>3. /\ calls \in Seq([span : Spans, error : Errors]) /\ calls' = Append(calls, c)
        /\ reported' = reported /\ fails' = fails
        /\ traced \subseteq traced' /\ traced' \subseteq traced \union {n}
    BY DEF Call, IInv, TypeOK
  <1>4. /\ Len(calls') = Len(calls) + 1
        /\ \A i \in DOMAIN calls' : (i \in DOMAIN calls /\ calls'[i] = calls[i]) \/ (i = Len(calls) + 1 /\ calls'[i] = c)
    BY <1>2, <1>3
  <1>5. Started' = Started + 1  BY <1>3, <1>4, StartedIsNat DEF Started, IInv, TypeOK
  <1>6. TypeOK'  BY <1>1, <1>2, <1>3 DEF IInv, TypeOK
  <1>7. Fresh'
    <2>1. \A s \in DOMAIN reported : s <= Started' /\ s # n
      BY <1>1, <1>5 DEF IInv, Fresh, TypeOK, Spans
    <2>2. \A s \in traced' : s <= Started'
      BY <1>1, <1>3, <1>5 DEF IInv, Fresh, TypeOK, Spans
    <2>3. \A i \in DOMAIN calls : calls[i].span <= Started' /\ calls[i].span # n
      BY <1>1, <1>5, CallTypes DEF IInv, Fresh
    <2>4. \A i \in DOMAIN calls' :
            calls'[i].span <= Started' /\ calls'[i].span \notin DOMAIN reported'
      BY <1>1, <1>3, <1>4, <1>5, <2>1, <2>3 DEF IInv, Fresh
    <2>5. \A i, j \in DOMAIN calls' : calls'[i].span = calls'[j].span => i = j
      BY <1>4, <2>3 DEF IInv, Fresh
    <2> QED BY <1>3, <2>1, <2>2, <2>4, <2>5 DEF IInv, Fresh
  <1>8. ASSUME NEW o, NEW roots \in SUBSET Spans, Began(o, roots) PROVE Began(o, roots)'
    BY <1>1, <1>3, <1>5, <1>8 DEF Began, Spans
  <1>9. ASSUME NEW o, Cause(o) PROVE Cause(o)'
    <2>1. reported[o].roots \in SUBSET Spans  BY <1>9 DEF Cause, IInv, TypeOK, Reports
    <2> QED BY <1>3, <1>8, <1>9, <2>1 DEF Cause
  <1>10. Stamped'
    <2>1. ParseErrorOrigins(c.error) = {}  BY DEF ParseErrorOrigins, NoError
    <2> QED BY <1>4, <1>9, <2>1 DEF IInv, Stamped, ParseErrorOrigins
  <1>11. Unstamped'
    <2>1. ASSUME NEW i \in DOMAIN calls PROVE OwnRoots(calls[i].error, calls[i].span)'
      <3>1. OwnRoots(calls[i].error, calls[i].span) /\ calls[i].error.roots \subseteq Spans
        BY CallTypes DEF IInv, Unstamped
      <3>2. \A r \in calls[i].error.roots : r <= Started' /\ (r \notin traced => r \notin traced')
        BY <1>1, <1>3, <1>5, <3>1 DEF OwnRoots, Spans
      <3>3. calls'[i] = calls[i]  BY <1>2, <1>3
      <3> QED BY <3>1, <3>2, <3>3 DEF OwnRoots, ParseErrorOrigins
    <2>2. ASSUME NEW i, calls'[i] = c PROVE OwnRoots(calls[i].error, calls[i].span)'
      BY <2>2 DEF OwnRoots, NoError, ParseErrorOrigins
    <2> QED BY <1>4, <2>1, <2>2 DEF Unstamped
  <1>12. \A s \in DOMAIN reported' : Told(s)'
    BY <1>3, <1>8, <1>9 DEF IInv, Told, TypeOK, Reports
  <1> QED BY <1>6, <1>7, <1>10, <1>11, <1>12 DEF IInv

(* A failure adds the innermost call to the roots of its error. *)
LEMMA FailHolds == ASSUME IInv, Fail PROVE IInv'
  <1> DEFINE k == Len(calls)
             e == calls[k].error
             f == [failed |-> TRUE, stamps |-> e.stamps, roots |-> e.roots \union {calls[k].span}]
  <1>1. calls \in Seq([span : Spans, error : Errors]) /\ calls # <<>>
    BY DEF Fail, IInv, TypeOK
  <1>2. k \in DOMAIN calls /\ Top = calls[k]
    BY <1>1, FrontOfCalls DEF Top
  <1>3. f \in Errors
    BY <1>2, CallTypes DEF Errors
  <1>4. calls' = [calls EXCEPT ![k].error = f]
    <2>1. Join(e, [failed |-> TRUE, stamps |-> {}, roots |-> {Top.span}]) = f
      BY <1>2, CallTypes DEF Join, Errors
    <2> QED BY <2>1 DEF Fail
  <1>5. /\ calls' \in Seq([span : Spans, error : Errors])
        /\ Len(calls') = k /\ DOMAIN calls' = DOMAIN calls
        /\ calls'[k].error = f
        /\ \A i \in DOMAIN calls : calls'[i].span = calls[i].span /\ (i # k => calls'[i] = calls[i])
    <2> HIDE DEF f
    <2>1. calls' = WithError(calls, k, f)
      BY <1>1, <1>2, <1>4, ErrorUpdated
    <2> QED BY <1>1, <1>2, <1>3, <2>1, ErrorReplaced
  <1>6. reported' = reported /\ traced' = traced  BY DEF Fail
  <1>7. Started' = Started  BY <1>5, <1>6 DEF Started
  <1>8. fails' \in 0 .. MaxFails
    BY OriginsAssumption DEF Fail, IInv, TypeOK, OriginsAssumption
  <1>9. TypeOK'  BY <1>5, <1>6, <1>8 DEF IInv, TypeOK
  <1>10. Fresh'
    <2>1. \A i \in DOMAIN calls' : calls'[i].span = calls[i].span /\ i \in DOMAIN calls  BY <1>5
    <2>2. \A i \in DOMAIN calls' :
            calls'[i].span <= Started' /\ calls'[i].span \notin DOMAIN reported'
      BY <1>6, <1>7, <2>1 DEF IInv, Fresh
    <2>3. \A i, j \in DOMAIN calls' : calls'[i].span = calls'[j].span => i = j
      BY <2>1 DEF IInv, Fresh
    <2> QED BY <1>6, <1>7, <2>2, <2>3 DEF IInv, Fresh
  <1>11. Stamped'
    BY <1>2, <1>5, <1>6, <1>7 DEF IInv, Stamped, ParseErrorOrigins, Cause, Began
  <1>12. Unstamped'
    <2>1. OwnRoots(e, calls[k].span) /\ calls[k].span <= Started
      BY <1>2 DEF IInv, Unstamped, Fresh
    <2>2. OwnRoots(f, calls[k].span)
      BY <2>1 DEF OwnRoots, ParseErrorOrigins
    <2> QED BY <1>5, <1>6, <1>7, <2>2 DEF IInv, Unstamped, OwnRoots, ParseErrorOrigins
  <1>13. \A s \in DOMAIN reported' : Told(s)'
    BY <1>6, <1>7 DEF IInv, Told, Cause, Began
  <1> QED BY <1>9, <1>10, <1>11, <1>12, <1>13 DEF IInv

---------------------------------------------------------------------------
(* What a span is reported with, and what it passes on, when its own error is
   as the invariant says.                                                   *)
LEMMA ReportIsRight ==
  ASSUME NEW s \in Nat \ {0}, NEW e \in Errors, OwnRoots(e, s), s \notin ParseErrorOrigins(e)
  PROVE  LET r == Report(e, s) IN
         /\ r.roots = e.roots
         /\ r.error <=> (r.recorded \/ r.links # {})
         /\ r.links \subseteq ParseErrorOrigins(e)
         /\ r.recorded => Began(s, e.roots)
  <1>1. Context(s) \in {s, 0}  BY DEF Context, Zero
  <1>2. ParseErrorOrigins(e) \ {Context(s)} = ParseErrorOrigins(e)
    BY <1>1 DEF ParseErrorOrigins, Zero
  <1>3. e.failed \in BOOLEAN  BY DEF Errors
  <1>4. ~ e.failed => e.roots = {}  BY DEF OwnRoots
  <1> QED BY <1>2, <1>3, <1>4 DEF Report, OwnRoots, Began

LEMMA ReturnedIsRight ==
  ASSUME NEW s \in Spans, NEW e \in Errors, OwnRoots(e, s)
  PROVE  LET f == Returned(e, s) IN
         /\ f \in Errors /\ f.failed = e.failed /\ f.roots = e.roots
         /\ f.failed \/ ParseErrorOrigins(f) = {}
         /\ \A o \in ParseErrorOrigins(f) :
              o \in ParseErrorOrigins(e) \/ (o = s /\ s \in traced /\ Began(s, e.roots))
         /\ ParseErrorOrigins(f) = {} => \A r \in e.roots : r \notin traced
  <1> DEFINE f == Returned(e, s)
  <1>1. s # Zero /\ Zero \notin Spans
    BY OriginsAssumption DEF Spans, Zero, OriginsAssumption
  <1>2. CASE ~ (e.failed /\ ParseErrorOrigins(e) = {})
    <2>1. f = e  BY <1>2 DEF Returned
    <2>2. ParseErrorOrigins(e) = {} => e.roots = {}
      BY <1>2 DEF OwnRoots
    <2> QED BY <2>1, <2>2 DEF OwnRoots
  <1>3. CASE e.failed /\ ParseErrorOrigins(e) = {}
    <2>1. f = [e EXCEPT !.stamps = @ \union {Context(s)}]
      BY <1>3 DEF Returned, TrackOrigin
    <2>2. /\ f.failed = e.failed /\ f.roots = e.roots
          /\ f.stamps = e.stamps \union {Context(s)}
      BY <2>1 DEF Errors
    <2>3. Context(s) \in Spans \union {Zero}  BY DEF Context
    <2>4. f \in Errors  BY <2>1, <2>3 DEF Errors
    <2>5. ParseErrorOrigins(f) = IF s \in traced THEN {s} ELSE {}
      BY <1>1, <1>3, <2>2 DEF ParseErrorOrigins, Context
    <2>6. Began(s, e.roots) /\ \A r \in e.roots : r = s \/ r \notin traced
      BY <1>3 DEF OwnRoots, Began
    <2> QED BY <1>3, <2>2, <2>4, <2>5, <2>6
  <1> QED BY <1>2, <1>3

(* A return ends the innermost call, which becomes the latest report; its error
   may be joined to the caller's.                                           *)
LEMMA ReturnHolds == ASSUME IInv, Return PROVE IInv'
  <1> DEFINE k == Len(calls)
             s == calls[k].span
             d == calls[k].error
             e == Returned(d, s)
             outer == Front(calls)
             m == Len(outer)
             f == Join(outer[m].error, e)
             Calls == Seq([span : Spans, error : Errors])
  <1>1. /\ calls \in Calls /\ k \in DOMAIN calls /\ Top = calls[k]
        /\ outer \in Calls /\ m = k - 1 /\ k \in Nat
        /\ \A i \in DOMAIN outer : i \in DOMAIN calls /\ i # k /\ outer[i] = calls[i]
    BY FrontOfCalls, LenProperties DEF Return, IInv, TypeOK, Top
  <1>2. /\ s \in Spans /\ s \in Nat \ {0} /\ d \in Errors
        /\ OwnRoots(d, s) /\ s \notin DOMAIN reported /\ s <= Started
        /\ \A o \in ParseErrorOrigins(d) : Cause(o)
    BY <1>1, CallTypes DEF IInv, Unstamped, Fresh, Stamped
  <1>3. /\ reported' = [t \in DOMAIN reported \union {s} |->
                          IF t = s THEN Report(d, s) ELSE reported[t]]
        /\ traced' = traced /\ fails' = fails
    BY <1>1 DEF Return
  <1>4. /\ DOMAIN reported' = DOMAIN reported \union {s}
        /\ reported'[s] = Report(d, s)
        /\ \A t \in DOMAIN reported : reported'[t] = reported[t]
    BY <1>2, <1>3
  <1>5. s \notin ParseErrorOrigins(d)  BY <1>2 DEF Cause
  <1>6. LET r == Report(d, s) IN
        /\ r.roots = d.roots /\ (r.error <=> (r.recorded \/ r.links # {}))
        /\ r.links \subseteq ParseErrorOrigins(d) /\ (r.recorded => Began(s, d.roots))
    BY <1>2, <1>5, ReportIsRight
  <1>7. /\ e \in Errors /\ e.failed = d.failed /\ e.roots = d.roots
        /\ e.failed \/ ParseErrorOrigins(e) = {}
        /\ \A o \in ParseErrorOrigins(e) :
             o \in ParseErrorOrigins(d) \/ (o = s /\ s \in traced /\ Began(s, d.roots))
        /\ ParseErrorOrigins(e) = {} => \A r \in d.roots : r \notin traced
    BY <1>2, ReturnedIsRight
  <1>8. /\ calls' \in Calls /\ Len(calls') = m /\ DOMAIN calls' = DOMAIN outer
        /\ \A i \in DOMAIN outer : calls'[i].span = calls[i].span
        /\ \A i \in DOMAIN outer :
             \/ calls'[i].error = calls[i].error
             \/ e.failed /\ calls'[i].error = Join(calls[i].error, e)
    <2>1. CASE calls' = outer  BY <1>1, <2>1
    <2>2. CASE outer # <<>> /\ e.failed /\ calls' = [outer EXCEPT ![m].error = f]
      <3>1. m \in DOMAIN outer  BY <1>1, <2>2, FrontOfCalls
      <3>2. outer[m].error \in Errors  BY <1>1, <3>1, CallTypes
      <3>3. f \in Errors  BY <1>7, <3>2 DEF Join, Errors
      <3>4. /\ calls' \in Calls /\ Len(calls') = m /\ DOMAIN calls' = DOMAIN outer
            /\ calls'[m].error = f
            /\ \A i \in DOMAIN outer : calls'[i].span = outer[i].span /\ (i # m => calls'[i] = outer[i])
        <4> HIDE DEF f, outer
        <4>1. calls' = WithError(outer, m, f)
          BY <1>1, <2>2, <3>1, ErrorUpdated
        <4>2. outer \in Seq([span : Spans, error : Errors])  BY <1>1
        <4>3. LET p == WithError(outer, m, f) IN
              /\ p \in Calls /\ Len(p) = m /\ DOMAIN p = DOMAIN outer
              /\ p[m].error = f
              /\ \A i \in DOMAIN outer : p[i].span = outer[i].span /\ (i # m => p[i] = outer[i])
          BY <3>1, <3>3, <4>2, ErrorReplaced
        <4> QED BY <4>1, <4>3
      <3>5. \A i \in DOMAIN outer : calls'[i].span = calls[i].span
        BY <1>1, <3>4
      <3>6. \A i \in DOMAIN outer :
              calls'[i].error = calls[i].error \/ calls'[i].error = Join(calls[i].error, e)
        <4> HIDE DEF e, outer
        <4> QED BY <1>1, <3>4
      <3> QED BY <2>2, <3>4, <3>5, <3>6
    <2> QED BY <1>1, <2>1, <2>2 DEF Return
  <1>9. Started' = Started /\ IsFiniteSet(DOMAIN reported')
    <2>1. IsFiniteSet(DOMAIN reported)  BY DEF IInv, Fresh
    <2>2. /\ IsFiniteSet(DOMAIN reported \union {s})
          /\ Cardinality(DOMAIN reported \union {s}) = Cardinality(DOMAIN reported) + 1
      BY <1>2, <2>1, FS_AddElement
    <2> QED BY <1>1, <1>4, <1>8, <2>2, StartedIsNat DEF Started
  <1>10. TypeOK'
    <2>1. Report(d, s) \in Reports
      BY <1>2 DEF Report, Reports, Errors, ParseErrorOrigins
    <2>2. reported' \in [DOMAIN reported' -> Reports] /\ DOMAIN reported' \subseteq Spans
      BY <1>2, <1>3, <1>4, <2>1 DEF IInv, TypeOK
    <2> QED BY <1>3, <1>8, <2>2 DEF IInv, TypeOK
  <1>11. Fresh'
    <2>1. \A i \in DOMAIN outer : calls[i].span # s
      BY <1>1 DEF IInv, Fresh
    <2>2. \A i \in DOMAIN calls' :
            calls'[i].span <= Started' /\ calls'[i].span \notin DOMAIN reported'
      BY <1>1, <1>4, <1>8, <1>9, <2>1 DEF IInv, Fresh
    <2>3. \A i, j \in DOMAIN calls' : calls'[i].span = calls'[j].span => i = j
      BY <1>1, <1>8 DEF IInv, Fresh
    <2>4. \A t \in DOMAIN reported' : t <= Started'
      BY <1>2, <1>4, <1>9 DEF IInv, Fresh
    <2>5. \A t \in traced' : t <= Started'  BY <1>3, <1>9 DEF IInv, Fresh
    <2> QED BY <1>9, <2>2, <2>3, <2>4, <2>5 DEF Fresh
  <1>12. ASSUME NEW o, Cause(o) PROVE Cause(o)'
    BY <1>3, <1>4, <1>9, <1>12 DEF Cause, Began
  <1>13. \A o \in ParseErrorOrigins(e) : Cause(o)'
    <2>1. ASSUME NEW o, o = s, s \in traced, Began(s, d.roots) PROVE Cause(o)'
      <3>1. reported'[o].roots = d.roots /\ o \in DOMAIN reported'  BY <1>4, <1>6, <2>1
      <3> QED BY <1>3, <1>9, <2>1, <3>1 DEF Cause, Began
    <2>2. ASSUME NEW o \in ParseErrorOrigins(e) PROVE Cause(o)'
      <3>1. CASE o \in ParseErrorOrigins(d)  BY <1>2, <1>12, <3>1
      <3>2. CASE o = s /\ s \in traced /\ Began(s, d.roots)  BY <2>1, <3>2
      <3> QED BY <1>7, <3>1, <3>2
    <2> QED BY <2>2
  <1>14. Stamped'
    <2>1. \A i \in DOMAIN outer : \A o \in ParseErrorOrigins(calls[i].error) : Cause(o)'
      BY <1>1, <1>12 DEF IInv, Stamped
    <2>2. \A i \in DOMAIN outer : \A o \in ParseErrorOrigins(calls'[i].error) :
            o \in ParseErrorOrigins(calls[i].error) \/ o \in ParseErrorOrigins(e)
      <3>1. ASSUME NEW a PROVE Join(a, e).stamps = a.stamps \union e.stamps  BY DEF Join
      <3> HIDE DEF e, outer
      <3> QED BY <1>8, <3>1 DEF ParseErrorOrigins
    <2>3. ASSUME NEW i \in DOMAIN outer, NEW o \in ParseErrorOrigins(calls'[i].error)
          PROVE  Cause(o)'
      <3> HIDE DEF e, outer
      <3> QED BY <1>13, <2>1, <2>2
    <2> QED BY <1>8, <2>3 DEF Stamped, ParseErrorOrigins
  <1>15. Unstamped'
    <2>1. ASSUME NEW i \in DOMAIN outer PROVE OwnRoots(calls'[i].error, calls[i].span)
      <3>1. OwnRoots(calls[i].error, calls[i].span) /\ calls[i].error \in Errors
        BY <1>1, CallTypes DEF IInv, Unstamped
      <3>2. CASE e.failed /\ calls'[i].error = Join(calls[i].error, e)
        <4>1. d.roots # {} /\ \A r \in d.roots : r <= Started
          BY <1>2, <1>7, <3>2 DEF OwnRoots
        <4>2. LET j == Join(calls[i].error, e) IN
              /\ j.failed = (calls[i].error.failed \/ e.failed)
              /\ j.roots = calls[i].error.roots \union d.roots
              /\ ParseErrorOrigins(j) = ParseErrorOrigins(calls[i].error) \union ParseErrorOrigins(e)
          BY <1>7 DEF Join, ParseErrorOrigins
        <4> HIDE DEF e, d, s, outer
        <4> QED BY <1>7, <3>1, <3>2, <4>1, <4>2 DEF OwnRoots
      <3> QED BY <1>8, <3>1, <3>2
    <2> QED BY <1>3, <1>8, <1>9, <2>1 DEF Unstamped, OwnRoots, ParseErrorOrigins
  <1>16. ASSUME NEW t \in DOMAIN reported' PROVE Told(t)'
    <2>1. CASE t = s
      BY <1>2, <1>3, <1>4, <1>6, <1>9, <1>12, <2>1 DEF Told, Began
    <2>2. CASE t \in DOMAIN reported
      BY <1>3, <1>4, <1>9, <1>12, <2>2 DEF IInv, Told, Began
    <2> QED BY <1>4, <2>1, <2>2
  <1> QED BY <1>10, <1>11, <1>14, <1>15, <1>16 DEF IInv

---------------------------------------------------------------------------
(* Nothing else ever happens. *)
LEMMA Invariance == Spec => []IInv
  <1>1. IInv /\ [Next]_vars => IInv'
    <2>1. CASE UNCHANGED vars
      BY <2>1 DEF IInv, vars, TypeOK, Fresh, Started, Stamped, Unstamped, Told, Cause, Began, OwnRoots, ParseErrorOrigins
    <2> QED BY <2>1, CallHolds, FailHolds, ReturnHolds DEF Next
  <1> QED BY <1>1, InitHolds, PTL DEF Spec

(* The variables keep their types. *)
THEOREM OriginsTypes == Spec => []TypeOK
  BY Invariance, PTL DEF IInv

(* Wherever an error is shown, by a link or by being recorded there, a failure
   began: of the span's own code, or of a call below it without a span.     *)
THEOREM OriginsAreCauses == Spec => []OriginIsCause
  <1>1. IInv => OriginIsCause
    <2> SUFFICES ASSUME IInv, NEW s \in Shown, reported[s].error,
                        NEW o \in reported[s].links \union (IF reported[s].recorded THEN {s} ELSE {})
                 PROVE  o \in traced /\ \E r \in reported[o].roots : r = o \/ r \notin traced
      BY DEF OriginIsCause
    <2>1. Told(s) /\ s \in traced  BY DEF IInv, Shown
    <2> QED BY <2>1 DEF Told, Cause, Began
  <1> QED BY <1>1, Invariance, PTL

(* A span that ends with an error always says where it began, and only such a
   span does.                                                               *)
THEOREM ErrorsHaveOrigins == Spec => []ErrorHasOrigin
  <1>1. IInv => ErrorHasOrigin  BY DEF IInv, Told, ErrorHasOrigin, Shown
  <1> QED BY <1>1, Invariance, PTL

---------------------------------------------------------------------------
(***************************************************************************)
(* That a batch arrives whole, for batches of any size, any number of hops *)
(* and whatever becomes of the values in it.  The invariant keeps a map F  *)
(* from places in the batch to places in the one that started; a hop       *)
(* groups by resource, then by scope, so its F is put together from those  *)
(* of the groups, which are put together from those of their scopes.       *)
(***************************************************************************)
(* Pairs of places in order. *)
Earlier == {e \in Nat \X Nat : e[1] < e[2]}

(* t is what s has at the members of K, in their order. *)
Selects(F, t, s, K) ==
  /\ Arranges(F, Len(t), K, Earlier)
  /\ \A p \in 1 .. Len(t) : t[p] = s[F[p]]

(* A sequence of short sequences: what is at i, if i is in K. *)
LEMMA OnesArranged ==
  ASSUME NEW S, NEW n \in Nat, NEW K \in SUBSET (1 .. n), NEW s, \A i \in K : s[i] \in S,
         NEW ss, ss = [i \in 1 .. n |-> IF i \in K THEN <<s[i]>> ELSE <<>>]
  PROVE  /\ FlattenSeq(ss) \in Seq(S)
         /\ \E F : Selects(F, FlattenSeq(ss), s, K)
<1> DEFINE f == [i \in 1 .. n |-> IF i \in K THEN <<i>> ELSE <<>>]
           C == [i \in 1 .. n |-> IF i \in K THEN {i} ELSE {}]
<1>1. Len(ss) = n /\ \A i \in 1 .. n : ss[i] \in Seq(S)
  <2>1. \A i \in 1 .. n : ss[i] = IF i \in K THEN <<s[i]>> ELSE <<>>
    OBVIOUS
  <2>2. \A i \in K : <<s[i]>> \in Seq(S)
    OBVIOUS
  <2>3. <<>> \in Seq(S)
    OBVIOUS
  <2>4. Len(ss) = n
    OBVIOUS
  <2>5. QED
    BY <2>1, <2>2, <2>3, <2>4
<1>2. ss \in Seq(Seq(S))
  <2> DEFINE X == Seq(S)
  <2>1. \A i \in 1 .. n : ss[i] \in X
    BY <1>1
  <2>2. ss = [i \in 1 .. n |-> ss[i]]
    OBVIOUS
  <2> HIDE DEF X
  <2>3. ss \in Seq(X)
    BY <2>1, <2>2
  <2>4. QED
    BY <2>3 DEF X
<1>3. \A k \in 1 .. n : Arranges(f[k], Len(ss[k]), C[k], Earlier) /\ C[k] \subseteq K
  <2>1. TAKE k \in 1 .. n
  <2>2. CASE k \in K
    <3>1. f[k] = <<k>> /\ Len(ss[k]) = 1 /\ C[k] = {k}
      BY <2>2
    <3>2. <<k>> \in [1 .. 1 -> {k}] /\ <<k>>[1] = k
      OBVIOUS
    <3>3. <<k, k>> \notin Earlier
      BY DEF Earlier
    <3> HIDE DEF f, C
    <3>4. QED
      BY <2>2, <3>1, <3>2, <3>3 DEF Arranges
  <2>3. CASE k \notin K
    <3>1. f[k] = <<>> /\ Len(ss[k]) = 0 /\ C[k] = {}
      BY <2>3
    <3> HIDE DEF f, C
    <3>2. QED
      BY <3>1 DEF Arranges
  <2>4. QED
    BY <2>2, <2>3
<1>4. BlocksArranged(f, ss, C, K, Earlier)
  <2>1. \A d \in K : \E k \in 1 .. n : d \in C[k]
    OBVIOUS
  <2>2. \A k, l \in 1 .. n : \A c \in C[k] : c \in C[l] => k = l
    OBVIOUS
  <2>3. \A k, l \in 1 .. n : \A c \in C[k], d \in C[l] : <<c, d>> \in Earlier => k <= l
    BY DEF Earlier
  <2> HIDE DEF f, C
  <2>4. QED
    BY <1>1, <1>3, <2>1, <2>2, <2>3 DEF BlocksArranged
<1>5. \A k \in 1 .. n : \A r \in 1 .. Len(ss[k]) : k \in K /\ ss[k][r] = s[k] /\ f[k][r] = k
  OBVIOUS
<1> HIDE DEF f, C
<1>6. /\ FlattenSeq(ss) \in Seq(S)
      /\ \E F : JoinsBlocks(F, FlattenSeq(ss), f, ss, K, Earlier)
  BY <1>2, <1>4, FlattenArranged
<1>7. PICK F : JoinsBlocks(F, FlattenSeq(ss), f, ss, K, Earlier)
  BY <1>6
<1>8. Selects(F, FlattenSeq(ss), s, K)
  <2>1. ASSUME NEW p \in 1 .. Len(FlattenSeq(ss)) PROVE FlattenSeq(ss)[p] = s[F[p]]
    <3>1. PICK k \in 1 .. Len(ss) : \E r \in 1 .. Len(ss[k]) :
                                       FlattenSeq(ss)[p] = ss[k][r] /\ F[p] = f[k][r]
      BY <1>7, <2>1 DEF JoinsBlocks
    <3>2. PICK r \in 1 .. Len(ss[k]) : FlattenSeq(ss)[p] = ss[k][r] /\ F[p] = f[k][r]
      BY <3>1
    <3>3. k \in 1 .. n
      BY <1>1
    <3>4. ss[k][r] = s[k] /\ f[k][r] = k
      BY <1>5, <3>3
    <3>5. QED
      BY <3>2, <3>4
  <2>2. QED
    BY <1>7, <2>1 DEF JoinsBlocks, Selects
<1>9. QED
  BY <1>6, <1>8

(* Those keeps the elements that are in T, in their order. *)
LEMMA ThoseArranged ==
  ASSUME NEW S, NEW s \in Seq(S), NEW T
  PROVE  /\ Those(s, T) \in Seq(S)
         /\ \E F : Selects(F, Those(s, T), s, {i \in 1 .. Len(s) : s[i] \in T})
<1> DEFINE n == Len(s)
           K == {i \in 1 .. n : s[i] \in T}
           ss == [i \in 1 .. n |-> IF i \in K THEN <<s[i]>> ELSE <<>>]
<1>1. n \in Nat /\ DOMAIN s = 1 .. n /\ \A i \in K : s[i] \in S
  OBVIOUS
<1>2. Those(s, T) = FlattenSeq(ss)
  <2>1. [i \in DOMAIN s |-> IF s[i] \in T THEN <<s[i]>> ELSE <<>>] = ss
    BY <1>1
  <2> HIDE DEF ss
  <2>2. QED
    BY <2>1 DEF Those
<1>3. ss = [i \in 1 .. n |-> IF i \in K THEN <<s[i]>> ELSE <<>>] /\ K \in SUBSET (1 .. n)
  OBVIOUS
<1> HIDE DEF ss, n, K
<1>4. /\ FlattenSeq(ss) \in Seq(S)
      /\ \E F : Selects(F, FlattenSeq(ss), s, K)
  BY <1>1, <1>3, OnesArranged
<1>5. QED
  BY <1>2, <1>4 DEF n, K

(* The scopes of a group: each that a record has, once. *)
LEMMA ScopesOnce ==
  ASSUME NEW S, NEW items \in Seq(S)
  PROVE  /\ Len(Scopes(items)) \in Nat
         /\ \A k \in 1 .. Len(Scopes(items)) : \E i \in 1 .. Len(items) : Scopes(items)[k] = items[i].scope
         /\ \A i \in 1 .. Len(items) : \E k \in 1 .. Len(Scopes(items)) : Scopes(items)[k] = items[i].scope
         /\ \A k, l \in 1 .. Len(Scopes(items)) : Scopes(items)[k] = Scopes(items)[l] => k = l
         /\ DOMAIN Scopes(items) = 1 .. Len(Scopes(items))
<1> DEFINE n  == Len(items)
           s  == [i \in 1 .. n |-> items[i].scope]
           X  == {s[i] : i \in 1 .. n}
           K  == {i \in 1 .. n : ~ \E j \in 1 .. i - 1 : s[j] = s[i]}
           ss == [i \in 1 .. n |-> IF i \in K THEN <<s[i]>> ELSE <<>>]
<1>1. n \in Nat /\ DOMAIN items = 1 .. n
  OBVIOUS
<1>2. \A i \in 1 .. n : s[i] = items[i].scope /\ s[i] \in X
  OBVIOUS
<1>3. K \in SUBSET (1 .. n) /\ ss = [i \in 1 .. n |-> IF i \in K THEN <<s[i]>> ELSE <<>>]
  OBVIOUS
<1>4. Scopes(items) = FlattenSeq(ss)
  <2>1. ASSUME NEW i \in 1 .. n
        PROVE  (IF \E j \in 1 .. i - 1 : items[j].scope = items[i].scope THEN <<>> ELSE <<items[i].scope>>)
                 = IF i \in K THEN <<s[i]>> ELSE <<>>
    <3>1. \A j \in 1 .. i - 1 : j \in 1 .. n
      BY <1>1
    <3>2. i \in K <=> ~ \E j \in 1 .. i - 1 : items[j].scope = items[i].scope
      BY <1>2, <3>1
    <3>3. QED
      BY <3>2
  <2>2. [i \in DOMAIN items |-> IF \E j \in 1 .. i - 1 : items[j].scope = items[i].scope
                                THEN <<>> ELSE <<items[i].scope>>] = ss
    BY <1>1, <2>1
  <2> HIDE DEF ss
  <2>3. QED
    BY <2>2 DEF Scopes
<1> HIDE DEF ss, s
<1>5. FlattenSeq(ss) \in Seq(X)
  <2> HIDE DEF K, X, n
  <2>1. QED
    BY <1>1, <1>2, <1>3, OnesArranged
<1>6. PICK F : Selects(F, FlattenSeq(ss), s, K)
  <2> HIDE DEF K, X, n
  <2>1. QED
    BY <1>1, <1>2, <1>3, OnesArranged
<1>7. PICK sc : sc = Scopes(items)
  OBVIOUS
<1>8. /\ sc \in Seq(X) /\ Arranges(F, Len(sc), K, Earlier)
      /\ \A p \in 1 .. Len(sc) : sc[p] = s[F[p]]
  BY <1>4, <1>5, <1>6, <1>7 DEF Selects
<1>9. Len(sc) \in Nat /\ DOMAIN sc = 1 .. Len(sc)
  BY <1>8
<1>10. ASSUME NEW k \in 1 .. Len(sc) PROVE \E i \in 1 .. n : sc[k] = items[i].scope
  <2>1. F[k] \in K
    BY <1>8, <1>9 DEF Arranges
  <2>2. F[k] \in 1 .. n
    BY <1>3, <2>1
  <2>3. QED
    BY <1>2, <1>8, <2>2
<1>11. ASSUME NEW i \in 1 .. n PROVE \E k \in 1 .. Len(sc) : sc[k] = items[i].scope
  <2> DEFINE Same == {j \in 1 .. n : s[j] = s[i]}
  <2>1. Same \in SUBSET Nat /\ i \in Same
    BY <1>1
  <2>2. PICK j \in Same : \A l \in Same : j <= l
    <3> HIDE DEF Same
    <3>1. QED
      BY <2>1, LeastNumber
  <2>3. j \in K
    BY <1>1, <2>2
  <2>4. PICK k \in 1 .. Len(sc) : F[k] = j
    BY <1>8, <2>3 DEF Arranges
  <2>5. QED
    BY <1>2, <1>8, <2>2, <2>4
<1>12. ASSUME NEW k \in 1 .. Len(sc), NEW l \in 1 .. Len(sc), sc[k] = sc[l] PROVE k = l
  <2>1. PICK i, j : i = F[k] /\ j = F[l]
    OBVIOUS
  <2>2. i \in K /\ j \in K
    BY <1>8, <1>9, <2>1 DEF Arranges
  <2>3. s[i] = s[j]
    BY <1>8, <1>12, <2>1
  <2>4. ~(i < j) /\ ~(j < i) /\ i \in Nat /\ j \in Nat
    BY <1>1, <2>2, <2>3
  <2>5. i = j
    BY <2>4
  <2>6. QED
    BY <1>8, <2>1, <2>5 DEF Arranges
<1>13. QED
  BY <1>7, <1>9, <1>10, <1>11, <1>12

(* What becomes of a scope and of a record in one hop. *)
Landed(scope) == [name |-> scope.name, schema |-> IF signal = "logs" THEN scope.schema ELSE ""]
Relayed(record) == RecordFromPB(RecordToPB(record))

(* Places in order whose items agree in scope, in resource and scope. *)
SameScope(items) == {e \in Earlier : items[e[1]].scope = items[e[2]].scope}
SameKey(items)   == {e \in Earlier : Key(items[e[1]]) = Key(items[e[2]])}

(* The records of scope k of a group, as they are received. *)
ScopeReceived(items, k) ==
  LET mine == Those(items, {item \in ToSet(items) : item.scope = Scopes(items)[k]})
  IN [i \in DOMAIN mine |-> [resource |-> Head(items).resource, scope |-> Landed(Scopes(items)[k]),
                             record |-> Relayed(mine[i].record)]]

(* out is what arrives of the items of one resource. *)
GroupMoved(F, out, items) ==
  /\ Arranges(F, Len(out), 1 .. Len(items), SameScope(items))
  /\ \A p \in 1 .. Len(out) :
       /\ out[p].resource = Head(items).resource
       /\ out[p].scope = Landed(items[F[p]].scope)
       /\ out[p].record = Relayed(items[F[p]].record)

(* What is received of a group is what is received of its scopes, in a row. *)
LEMMA GroupReceived ==
  ASSUME NEW items
  PROVE  GroupFromPB(ResourceGroup(items))
           = FlattenSeq([k \in DOMAIN Scopes(items) |-> ScopeReceived(items, k)])
<1> DEFINE group == ResourceGroup(items)
           mine(k) == Those(items, {item \in ToSet(items) : item.scope = Scopes(items)[k]})
           got(k) == LET scope == group.scopes[k]
                     IN [i \in DOMAIN scope.records |->
                           [resource |-> group.resource, scope |-> ScopeFromPB(scope),
                            record |-> RecordFromPB(scope.records[i])]]
<1>1. group.resource = Head(items).resource /\ DOMAIN group.scopes = DOMAIN Scopes(items)
  BY DEF ResourceGroup
<1>2. ASSUME NEW k \in DOMAIN Scopes(items) PROVE got(k) = ScopeReceived(items, k)
  <2>1. group.scopes[k] =
          [scope |-> InstrumentationScopeToPB(Scopes(items)[k]), schema |-> Scopes(items)[k].schema,
           records |-> [i \in DOMAIN mine(k) |-> RecordToPB(mine(k)[i].record)]]
    BY DEF ResourceGroup
  <2>2. /\ ScopeFromPB(group.scopes[k]) = Landed(Scopes(items)[k])
        /\ group.scopes[k].records = [i \in DOMAIN mine(k) |-> RecordToPB(mine(k)[i].record)]
    <3> HIDE DEF group
    <3>1. QED
      BY <2>1 DEF ScopeFromPB, Landed, InstrumentationScopeToPB
  <2> HIDE DEF group
  <2>3. got(k) = [i \in DOMAIN mine(k) |->
                    [resource |-> Head(items).resource, scope |-> Landed(Scopes(items)[k]),
                     record |-> RecordFromPB(RecordToPB(mine(k)[i].record))]]
    BY <1>1, <2>2
  <2>4. QED
    BY <2>3 DEF ScopeReceived, Relayed
<1>3. [k \in DOMAIN group.scopes |-> got(k)] = [k \in DOMAIN Scopes(items) |-> ScopeReceived(items, k)]
  <2> HIDE DEF got, group
  <2>1. QED
    BY <1>1, <1>2
<1>4. GroupFromPB(group) = FlattenSeq([k \in DOMAIN group.scopes |-> got(k)])
  <2> HIDE DEF group
  <2>1. QED
    BY DEF GroupFromPB
<1>5. QED
  <2> HIDE DEF got
  <2>1. QED
    BY <1>3, <1>4

(* A group arrives whole: its scopes have every record once. *)
LEMMA GroupArranged ==
  ASSUME NEW S, NEW items \in Seq(S), NEW out, out = GroupFromPB(ResourceGroup(items))
  PROVE  (\E X : out \in Seq(X)) /\ (\E F : GroupMoved(F, out, items))
<1> DEFINE n == Len(items)
           T(k) == {item \in ToSet(items) : item.scope = Scopes(items)[k]}
           mine(k) == Those(items, T(k))
           m == Len(Scopes(items))
           C == [k \in 1 .. m |-> {i \in 1 .. n : items[i].scope = Scopes(items)[k]}]
           ss == [k \in 1 .. m |-> ScopeReceived(items, k)]
           f == [k \in 1 .. m |-> CHOOSE F : Selects(F, mine(k), items, C[k])]
           Below == SameScope(items)
<1>1. /\ m \in Nat /\ DOMAIN Scopes(items) = 1 .. m
      /\ \A i \in 1 .. n : \E k \in 1 .. m : Scopes(items)[k] = items[i].scope
      /\ \A k, l \in 1 .. m : Scopes(items)[k] = Scopes(items)[l] => k = l
  BY ScopesOnce
<1>2. n \in Nat /\ DOMAIN items = 1 .. n /\ \A i \in 1 .. n : items[i] \in ToSet(items)
  BY DEF ToSet
<1>3. out = FlattenSeq(ss)
  BY <1>1, GroupReceived
<1>4. \A k \in 1 .. m : C[k] = {i \in 1 .. n : items[i].scope = Scopes(items)[k]}
  OBVIOUS
<1>5. \A k \in 1 .. m : f[k] = CHOOSE F : Selects(F, mine(k), items, C[k])
  OBVIOUS
<1>6. \A k \in 1 .. m : ss[k] = ScopeReceived(items, k)
  OBVIOUS
<1>7. ss = [k \in 1 .. m |-> ss[k]]
  OBVIOUS
<1> HIDE DEF C, f, ss, m, n, Below
<1>8. ASSUME NEW k \in 1 .. m
      PROVE  /\ Len(mine(k)) \in Nat /\ DOMAIN mine(k) = 1 .. Len(mine(k))
             /\ Selects(f[k], mine(k), items, C[k])
  <2>1. Those(items, T(k)) \in Seq(S)
    BY ThoseArranged
  <2>2. \E F : Selects(F, Those(items, T(k)), items, {i \in 1 .. Len(items) : items[i] \in T(k)})
    <3> HIDE DEF T
    <3>1. QED
      BY ThoseArranged
  <2>3. {i \in 1 .. Len(items) : items[i] \in T(k)} = C[k]
    BY <1>2, <1>4 DEF n
  <2>4. \E F : Selects(F, mine(k), items, C[k])
    BY <2>2, <2>3
  <2>5. Selects(f[k], mine(k), items, C[k])
    <3> HIDE DEF mine
    <3>1. QED
      BY <1>5, <2>4
  <2> HIDE DEF T
  <2>6. QED
    BY <2>1, <2>5
<1>9. ASSUME NEW k \in 1 .. m
      PROVE  /\ Len(ss[k]) = Len(mine(k)) /\ ss[k] = [r \in 1 .. Len(mine(k)) |-> ss[k][r]]
             /\ \A r \in 1 .. Len(mine(k)) :
                  ss[k][r] = [resource |-> Head(items).resource, scope |-> Landed(Scopes(items)[k]),
                              record |-> Relayed(mine(k)[r].record)]
  <2>1. ss[k] = [r \in DOMAIN mine(k) |->
                  [resource |-> Head(items).resource, scope |-> Landed(Scopes(items)[k]),
                   record |-> Relayed(mine(k)[r].record)]]
    BY <1>6 DEF ScopeReceived
  <2> HIDE DEF mine
  <2>2. ss[k] = [r \in 1 .. Len(mine(k)) |->
                  [resource |-> Head(items).resource, scope |-> Landed(Scopes(items)[k]),
                   record |-> Relayed(mine(k)[r].record)]]
    BY <1>8, <2>1
  <2>3. QED
    BY <1>8, <2>2
<1>10. (\E X : ss \in Seq(Seq(X))) /\ Len(ss) = m
  <2>1. \A k \in 1 .. m : \E j \in Nat : ss[k] = [i \in 1 .. j |-> ss[k][i]]
    <3> HIDE DEF mine
    <3>1. QED
      BY <1>8, <1>9
  <2>2. QED
    BY <1>1, <1>7, <2>1, NestedIn
<1>11. PICK X : ss \in Seq(Seq(X))
  BY <1>10
<1> HIDE DEF mine
<1>12. \A k \in 1 .. m : Arranges(f[k], Len(ss[k]), C[k], Earlier)
  BY <1>8, <1>9 DEF Selects
<1>13. \A k \in 1 .. m : Arranges(f[k], Len(ss[k]), C[k], Below) /\ C[k] \subseteq 1 .. n
  <2>1. Below \subseteq Earlier
    BY DEF Below, SameScope
  <2>2. QED
    BY <1>4, <1>12, <2>1 DEF Arranges
<1>14. BlocksArranged(f, ss, C, 1 .. n, Below)
  <2>1. \A d \in 1 .. n : \E k \in 1 .. m : d \in C[k]
    BY <1>1, <1>4
  <2>2. \A k, l \in 1 .. m : \A c \in C[k] : c \in C[l] => k = l
    BY <1>1, <1>4
  <2>3. ASSUME NEW k \in 1 .. m, NEW l \in 1 .. m, NEW c \in C[k], NEW d \in C[l], <<c, d>> \in Below
        PROVE  k <= l
    <3>1. items[c].scope = items[d].scope
      BY <2>3 DEF Below, SameScope
    <3>2. k = l
      BY <1>1, <1>4, <3>1
    <3>3. QED
      BY <1>1, <3>2
  <2>4. QED
    BY <1>10, <1>13, <2>1, <2>2, <2>3 DEF BlocksArranged
<1>15. FlattenSeq(ss) \in Seq(X) /\ \E F : JoinsBlocks(F, FlattenSeq(ss), f, ss, 1 .. n, Below)
  BY <1>11, <1>14, FlattenArranged
<1>16. PICK F : JoinsBlocks(F, out, f, ss, 1 .. n, Below)
  BY <1>3, <1>15
<1>17. ASSUME NEW p \in 1 .. Len(out)
       PROVE  /\ out[p].resource = Head(items).resource
              /\ out[p].scope = Landed(items[F[p]].scope)
              /\ out[p].record = Relayed(items[F[p]].record)
  <2>1. PICK k \in 1 .. m : \E r \in 1 .. Len(ss[k]) : out[p] = ss[k][r] /\ F[p] = f[k][r]
    BY <1>10, <1>16 DEF JoinsBlocks
  <2>2. PICK r \in 1 .. Len(ss[k]) : out[p] = ss[k][r] /\ F[p] = f[k][r]
    BY <2>1
  <2>3. r \in 1 .. Len(mine(k))
    BY <1>9
  <2>4. out[p] = [resource |-> Head(items).resource, scope |-> Landed(Scopes(items)[k]),
                  record |-> Relayed(mine(k)[r].record)]
    BY <1>9, <2>2, <2>3
  <2>5. mine(k)[r] = items[F[p]] /\ F[p] \in C[k]
    BY <1>8, <2>2, <2>3 DEF Selects, Arranges
  <2>6. items[F[p]].scope = Scopes(items)[k]
    BY <1>4, <2>5
  <2>7. QED
    BY <2>4, <2>5, <2>6
<1>18. GroupMoved(F, out, items)
  BY <1>16, <1>17 DEF GroupMoved, JoinsBlocks, n, Below
<1>19. QED
  BY <1>3, <1>15, <1>18

(* out is what arrives of items: each record once, with its resource and scope,
   those of one resource and scope in their order.                          *)
Moved(F, out, items) ==
  /\ Arranges(F, Len(out), 1 .. Len(items), SameKey(items))
  /\ \A p \in 1 .. Len(out) :
       /\ out[p].resource.attributes = items[F[p]].resource.attributes
       /\ out[p].scope = Landed(items[F[p]].scope)
       /\ out[p].record = Relayed(items[F[p]].record)

(* The resources that a batch is grouped by. *)
ResourcesOf(items) == {items[i].resource.attributes : i \in DOMAIN items}

(* Any order of the resources names each of them once. *)
LEMMA OrderNamesAll ==
  ASSUME NEW S, NEW items \in Seq(S), NEW order \in SetToSeqs(ResourcesOf(items))
  PROVE  \E m \in Nat :
           /\ order \in [1 .. m -> ResourcesOf(items)]
           /\ \A r \in ResourcesOf(items) : \E g \in 1 .. m : order[g] = r
           /\ \A g, h \in 1 .. m : order[g] = order[h] => g = h
<1> DEFINE R == ResourcesOf(items)
           m == Cardinality(R)
           f == [i \in 1 .. Len(items) |-> items[i].resource.attributes]
<1>1. IsFiniteSet(R) /\ m \in Nat
  <2>1. Len(items) \in Nat /\ DOMAIN items = 1 .. Len(items)
    OBVIOUS
  <2>2. f \in Surjection(1 .. Len(items), R)
    BY <2>1 DEF Surjection, ResourcesOf
  <2>3. IsFiniteSet(1 .. Len(items))
    BY <2>1, FS_Interval
  <2> HIDE DEF f, R
  <2>4. IsFiniteSet(R)
    BY <2>2, <2>3, FS_Surjection
  <2>5. QED
    BY <2>4, FS_CardinalityType
<1> HIDE DEF R
<1>2. /\ order \in [1 .. m -> R]
      /\ \A g, h \in 1 .. m : g # h => order[g] # order[h]
  BY DEF SetToSeqs, R
<1>3. order \in Injection(1 .. m, R)
  BY <1>2 DEF Injection, IsInjective
<1>4. Cardinality(1 .. m) = m
  BY <1>1, FS_Interval
<1>5. order \in Surjection(1 .. m, R)
  BY <1>1, <1>3, <1>4, FS_Injection
<1>6. \A r \in R : \E g \in 1 .. m : order[g] = r
  BY <1>5 DEF Surjection
<1>7. QED
  BY <1>1, <1>2, <1>6 DEF R

(* A batch arrives whole, in whatever order the Go map yields its groups. *)
LEMMA BatchArranged ==
  ASSUME NEW S, NEW items \in Seq(S), NEW order \in SetToSeqs(ResourcesOf(items)),
         NEW out, out = FromPB(ToPB(items, order))
  PROVE  (\E X : out \in Seq(X)) /\ (\E F : Moved(F, out, items))
<1> DEFINE n == Len(items)
           att(i) == items[i].resource.attributes
           T(g) == {item \in ToSet(items) : item.resource.attributes = order[g]}
           mine(g) == Those(items, T(g))
<1>1. PICK m \in Nat :
        /\ order \in [1 .. m -> ResourcesOf(items)]
        /\ \A r \in ResourcesOf(items) : \E g \in 1 .. m : order[g] = r
        /\ \A g, h \in 1 .. m : order[g] = order[h] => g = h
  BY OrderNamesAll
<1> DEFINE C == [g \in 1 .. m |-> {i \in 1 .. n : att(i) = order[g]}]
           ss == [g \in 1 .. m |-> GroupFromPB(ResourceGroup(mine(g)))]
           e == [g \in 1 .. m |-> CHOOSE F : Selects(F, mine(g), items, C[g])]
           h == [g \in 1 .. m |-> CHOOSE F : GroupMoved(F, ss[g], mine(g))]
           f == [g \in 1 .. m |-> [p \in 1 .. Len(ss[g]) |-> e[g][h[g][p]]]]
           Below == SameKey(items)
<1>2. n \in Nat /\ DOMAIN items = 1 .. n /\ \A i \in 1 .. n : items[i] \in ToSet(items)
  BY DEF ToSet
<1>3. \A i \in 1 .. n : \E g \in 1 .. m : att(i) = order[g]
  <2>1. \A i \in 1 .. n : att(i) \in ResourcesOf(items)
    BY <1>2 DEF ResourcesOf
  <2>2. QED
    BY <1>1, <2>1
<1>4. out = FlattenSeq(ss)
  <2>1. DOMAIN order = 1 .. m
    BY <1>1
  <2>2. ToPB(items, order) = [g \in 1 .. m |-> ResourceGroup(mine(g))]
    BY <2>1 DEF ToPB
  <2>3. PICK groups : groups = ToPB(items, order)
    OBVIOUS
  <2> HIDE DEF mine
  <2>4. DOMAIN groups = 1 .. m /\ \A g \in 1 .. m : groups[g] = ResourceGroup(mine(g))
    BY <2>2, <2>3
  <2>5. [g \in DOMAIN groups |-> GroupFromPB(groups[g])] = ss
    BY <2>4
  <2> HIDE DEF ss
  <2>6. QED
    BY <2>3, <2>5 DEF FromPB
<1>5. \A g \in 1 .. m : C[g] = {i \in 1 .. n : att(i) = order[g]}
  OBVIOUS
<1>6. \A g \in 1 .. m : ss[g] = GroupFromPB(ResourceGroup(mine(g)))
  OBVIOUS
<1>7. \A g \in 1 .. m : e[g] = CHOOSE F : Selects(F, mine(g), items, C[g])
  OBVIOUS
<1>8. \A g \in 1 .. m : h[g] = CHOOSE F : GroupMoved(F, ss[g], mine(g))
  OBVIOUS
<1>9. \A g \in 1 .. m : f[g] = [p \in 1 .. Len(ss[g]) |-> e[g][h[g][p]]]
  OBVIOUS
<1>10. ss = [g \in 1 .. m |-> ss[g]]
  OBVIOUS
<1> HIDE DEF C, ss, e, h, f, n, Below
<1>11. ASSUME NEW g \in 1 .. m
       PROVE  mine(g) \in Seq(S) /\ Selects(e[g], mine(g), items, C[g])
  <2>1. Those(items, T(g)) \in Seq(S)
    BY ThoseArranged
  <2>2. \E F : Selects(F, Those(items, T(g)), items, {i \in 1 .. Len(items) : items[i] \in T(g)})
    <3> HIDE DEF T
    <3>1. QED
      BY ThoseArranged
  <2>3. {i \in 1 .. Len(items) : items[i] \in T(g)} = C[g]
    BY <1>2, <1>5 DEF n
  <2>4. \E F : Selects(F, mine(g), items, C[g])
    BY <2>2, <2>3
  <2>5. Selects(e[g], mine(g), items, C[g])
    <3> HIDE DEF mine
    <3>1. QED
      BY <1>7, <2>4
  <2> HIDE DEF T
  <2>6. QED
    BY <2>1, <2>5
<1> HIDE DEF mine, T
<1>12. ASSUME NEW g \in 1 .. m
       PROVE  (\E X : ss[g] \in Seq(X)) /\ GroupMoved(h[g], ss[g], mine(g))
  <2>1. (\E X : ss[g] \in Seq(X)) /\ \E F : GroupMoved(F, ss[g], mine(g))
    BY <1>6, <1>11, GroupArranged
  <2>2. QED
    BY <1>8, <2>1
<1>13. (\E X : ss \in Seq(Seq(X))) /\ Len(ss) = m
  <2>1. ASSUME NEW g \in 1 .. m PROVE \E j \in Nat : ss[g] = [i \in 1 .. j |-> ss[g][i]]
    <3>1. PICK X : ss[g] \in Seq(X)
      BY <1>12
    <3>2. Len(ss[g]) \in Nat /\ ss[g] = [i \in 1 .. Len(ss[g]) |-> ss[g][i]]
      BY <3>1
    <3>3. QED
      BY <3>2
  <2>2. QED
    BY <1>10, <2>1, NestedIn
<1>14. PICK X : ss \in Seq(Seq(X))
  BY <1>13
<1>15. ASSUME NEW g \in 1 .. m
       PROVE  Arranges(f[g], Len(ss[g]), C[g], Below)
  <2> DEFINE G == mine(g)
             k == Len(G)
             j == Len(ss[g])
  <2>1. k \in Nat /\ j \in Nat
    BY <1>11, <1>12
  <2>2. /\ e[g] \in [1 .. k -> C[g]] /\ \A c \in C[g] : \E p \in 1 .. k : e[g][p] = c
        /\ \A p, q \in 1 .. k : e[g][p] = e[g][q] => p = q
        /\ \A p, q \in 1 .. k : <<e[g][p], e[g][q]>> \in Earlier => p < q
        /\ \A p \in 1 .. k : G[p] = items[e[g][p]]
    BY <1>11 DEF Selects, Arranges
  <2>3. Arranges(h[g], j, 1 .. k, SameScope(G))
    BY <1>12 DEF GroupMoved
  <2>4. ASSUME NEW p \in 1 .. k, NEW q \in 1 .. k, <<e[g][p], e[g][q]>> \in Below
        PROVE  <<p, q>> \in SameScope(G)
    <3>1. PICK a, b : a = e[g][p] /\ b = e[g][q]
      OBVIOUS
    <3>2. <<a, b>> \in Earlier /\ items[a].scope = items[b].scope
      BY <2>4, <3>1 DEF Below, SameKey, Key
    <3>3. p < q /\ G[p].scope = G[q].scope
      BY <2>2, <3>1, <3>2
    <3>4. <<p, q>> \in Nat \X Nat
      BY <2>1
    <3>5. QED
      BY <3>3, <3>4 DEF SameScope, Earlier
  <2>5. Renames(e[g], k, C[g], Below, SameScope(G))
    <3> HIDE DEF G, k
    <3>1. QED
      BY <2>2, <2>4 DEF Renames
  <2>6. PICK E, H, D, I : E = e[g] /\ H = h[g] /\ D = C[g] /\ I = SameScope(G)
    OBVIOUS
  <2> HIDE DEF G, k, j
  <2>7. Arranges(H, j, 1 .. k, I) /\ Renames(E, k, D, Below, I)
    BY <2>3, <2>5, <2>6
  <2>8. Arranges([p \in 1 .. j |-> E[H[p]]], j, D, Below)
    BY <2>1, <2>7, Rearranged
  <2>9. QED
    BY <1>9, <2>6, <2>8 DEF j
<1>16. BlocksArranged(f, ss, C, 1 .. n, Below)
  <2>1. \A d \in 1 .. n : \E g \in 1 .. m : d \in C[g]
    BY <1>3, <1>5
  <2>2. \A k, l \in 1 .. m : \A c \in C[k] : c \in C[l] => k = l
    BY <1>1, <1>5
  <2>3. ASSUME NEW k \in 1 .. m, NEW l \in 1 .. m, NEW c \in C[k], NEW d \in C[l], <<c, d>> \in Below
        PROVE  k <= l
    <3>1. att(c) = att(d)
      BY <2>3 DEF Below, SameKey, Key
    <3>2. k = l
      BY <1>1, <1>5, <3>1
    <3>3. QED
      BY <3>2
  <2>4. \A k \in 1 .. m : C[k] \subseteq 1 .. n
    BY <1>5
  <2>5. QED
    BY <1>13, <1>15, <2>1, <2>2, <2>3, <2>4 DEF BlocksArranged
<1>17. FlattenSeq(ss) \in Seq(X) /\ \E F : JoinsBlocks(F, FlattenSeq(ss), f, ss, 1 .. n, Below)
  BY <1>14, <1>16, FlattenArranged
<1>18. PICK F : JoinsBlocks(F, out, f, ss, 1 .. n, Below)
  BY <1>4, <1>17
<1>19. ASSUME NEW p \in 1 .. Len(out)
       PROVE  /\ out[p].resource.attributes = items[F[p]].resource.attributes
              /\ out[p].scope = Landed(items[F[p]].scope)
              /\ out[p].record = Relayed(items[F[p]].record)
  <2>1. PICK g \in 1 .. m : \E r \in 1 .. Len(ss[g]) : out[p] = ss[g][r] /\ F[p] = f[g][r]
    BY <1>13, <1>18 DEF JoinsBlocks
  <2>2. PICK r \in 1 .. Len(ss[g]) : out[p] = ss[g][r] /\ F[p] = f[g][r]
    BY <2>1
  <2>3. PICK G, i : G = mine(g) /\ i = h[g][r]
    OBVIOUS
  <2>4. F[p] = e[g][i]
    BY <1>9, <2>2, <2>3
  <2>5. /\ i \in 1 .. Len(G) /\ ss[g][r].resource = Head(G).resource
        /\ ss[g][r].scope = Landed(G[i].scope) /\ ss[g][r].record = Relayed(G[i].record)
    BY <1>12, <2>3 DEF GroupMoved, Arranges
  <2>6. G \in Seq(S) /\ Selects(e[g], G, items, C[g])
    BY <1>11, <2>3
  <2>7. 1 \in 1 .. Len(G) /\ Head(G) = G[1]
    BY <2>5, <2>6
  <2>8. /\ e[g][1] \in C[g] /\ G[1] = items[e[g][1]]
        /\ e[g][i] \in C[g] /\ G[i] = items[e[g][i]]
    BY <2>5, <2>6, <2>7 DEF Selects, Arranges
  <2>9. att(e[g][1]) = att(e[g][i])
    BY <1>5, <2>8
  <2>10. QED
    BY <2>2, <2>4, <2>5, <2>7, <2>8, <2>9
<1>20. Moved(F, out, items)
  BY <1>18, <1>19 DEF Moved, JoinsBlocks, n, Below
<1>21. QED
  BY <1>4, <1>17, <1>20

(* items are the batch that started, on its way: F says which record is where. *)
Carried(F, items) ==
  LET from == start.content IN
  /\ Arranges(F, Len(items), 1 .. Len(from), SameKey(from))
  /\ \A p \in 1 .. Len(items) :
       /\ items[p].record.id = from[F[p]].record.id
       /\ items[p].resource.attributes = from[F[p]].resource.attributes
       /\ signal = "spans" =>
            /\ items[p].record.start = from[F[p]].record.start
            /\ \/ items[p].record.end = from[F[p]].record.end
               \/ items[p].record.end = -69 /\ from[F[p]].record.end = ZeroTime
  /\ \/ \A p \in 1 .. Len(items) : items[p].scope = from[F[p]].scope
     \/ \A p \in 1 .. Len(items) : items[p].scope = Landed(from[F[p]].scope)

(* -69 is what year 1 turns into on the wire. *)
LEMMA TimesArrive ==
  /\ \A t \in Times : Unix(UnixNano(t)) = t
  /\ Unix(UnixNano(ZeroTime)) = -69
  /\ Unix(UnixNano(-69)) = -69
<1>1. \A t \in Times : t % 184 = t
  BY DEF Times, Width
<1>2. \A x \in Int : x + 621 = 0 \/ x + 69 = 0 => x % 184 = 115
  BY Z3
<1>3. /\ -621 \in Int /\ (-621) + 621 = 0
      /\ -69 \in Int /\ (-69) + 69 = 0
  OBVIOUS
<1>4. (-621) % 184 = 115 /\ (-69) % 184 = 115
  BY <1>2, <1>3, Zenon
<1>5. QED
  BY <1>1, <1>4 DEF Unix, UnixNano, Times, Width, ZeroTime

(* A record keeps its id, and its times go to the wire and back. *)
LEMMA RecordArrives ==
  ASSUME NEW r
  PROVE  /\ Relayed(r).id = r.id
         /\ signal = "spans" =>
              Relayed(r).start = Unix(UnixNano(r.start)) /\ Relayed(r).end = Unix(UnixNano(r.end))
BY DEF Relayed, RecordFromPB, RecordToPB, ReadOnlySpan, SpanToPB, ReexportedLog, LogRecord

(* What BatchesAssumption says of records. *)
BatchSound(items) ==
  /\ \E X : items \in Seq(X)
  /\ RecordsApart(items)
  /\ signal = "spans" => \A i \in 1 .. Len(items) : Timed(items[i].record)

(* One hop. *)
LEMMA HopCarries ==
  ASSUME NEW F, NEW S, NEW items \in Seq(S), Carried(F, items), BatchSound(start.content),
         NEW order \in SetToSeqs(ResourcesOf(items))
  PROVE  /\ \E X : FromPB(ToPB(items, order)) \in Seq(X)
         /\ \E G : Carried(G, FromPB(ToPB(items, order)))
<1> DEFINE from == start.content
           n == Len(items)
           m == Len(from)
<1>1. PICK out : out = FromPB(ToPB(items, order))
  OBVIOUS
<1>2. (\E X : out \in Seq(X)) /\ \E G : Moved(G, out, items)
  BY <1>1, BatchArranged
<1>3. PICK G : Moved(G, out, items)
  BY <1>2
<1> DEFINE l == Len(out)
           H == [p \in 1 .. l |-> F[G[p]]]
<1>4. n \in Nat /\ m \in Nat /\ l \in Nat
  BY <1>2 DEF BatchSound
<1>5. /\ F \in [1 .. n -> 1 .. m]
      /\ \A c \in 1 .. m : \E p \in 1 .. n : F[p] = c
      /\ \A p, q \in 1 .. n : F[p] = F[q] => p = q
      /\ \A p, q \in 1 .. n : <<F[p], F[q]>> \in SameKey(from) => p < q
  BY DEF Carried, Arranges
<1>6. ASSUME NEW p \in 1 .. n, NEW q \in 1 .. n, <<F[p], F[q]>> \in SameKey(from)
      PROVE  <<p, q>> \in SameKey(items)
  <2>1. p < q /\ <<p, q>> \in Earlier
    BY <1>4, <1>5, <1>6 DEF Earlier
  <2>2. Key(from[F[p]]) = Key(from[F[q]])
    <3>1. PICK a, b : a = F[p] /\ b = F[q]
      OBVIOUS
    <3>2. <<a, b>> \in SameKey(from)
      BY <1>6, <3>1
    <3>3. Key(from[a]) = Key(from[b])
      BY <3>2 DEF SameKey
    <3>4. QED
      BY <3>1, <3>3
  <2>3. items[p].resource.attributes = items[q].resource.attributes
    BY <2>2 DEF Carried, Key
  <2>4. from[F[p]].scope = from[F[q]].scope
    BY <2>2 DEF Key
  <2>5. items[p].scope = items[q].scope
    <3>1. CASE \A x \in 1 .. n : items[x].scope = from[F[x]].scope
      BY <2>4, <3>1
    <3>2. CASE \A x \in 1 .. n : items[x].scope = Landed(from[F[x]].scope)
      BY <2>4, <3>2
    <3>3. QED
      BY <3>1, <3>2 DEF Carried
  <2>6. Key(items[p]) = Key(items[q])
    BY <2>3, <2>5 DEF Key
  <2>7. QED
    BY <2>1, <2>6 DEF SameKey
<1>7. Arranges(H, l, 1 .. m, SameKey(from))
  <2>1. Arranges(G, l, 1 .. n, SameKey(items))
    BY <1>3 DEF Moved
  <2>2. Renames(F, n, 1 .. m, SameKey(from), SameKey(items))
    BY <1>5, <1>6 DEF Renames
  <2>3. PICK N, I, B, D : N = n /\ I = SameKey(items) /\ B = SameKey(from) /\ D = 1 .. m
    OBVIOUS
  <2>4. N \in Nat /\ Arranges(G, l, 1 .. N, I) /\ Renames(F, N, D, B, I)
    BY <1>4, <2>1, <2>2, <2>3
  <2> HIDE DEF l
  <2>5. Arranges([p \in 1 .. l |-> F[G[p]]], l, D, B)
    BY <1>4, <2>4, Rearranged
  <2>6. QED
    BY <2>3, <2>5
<1>8. ASSUME NEW p \in 1 .. l
      PROVE  /\ H[p] = F[G[p]] /\ G[p] \in 1 .. n /\ H[p] \in 1 .. m
             /\ out[p].resource.attributes = items[G[p]].resource.attributes
             /\ out[p].scope = Landed(items[G[p]].scope)
             /\ out[p].record = Relayed(items[G[p]].record)
  BY <1>3, <1>5, <1>8 DEF Moved, Arranges
<1> HIDE DEF H
<1>9. ASSUME NEW p \in 1 .. l
      PROVE  /\ out[p].record.id = from[H[p]].record.id
             /\ out[p].resource.attributes = from[H[p]].resource.attributes
             /\ out[p].scope = Landed(from[H[p]].scope)
             /\ signal = "spans" =>
                  /\ out[p].record.start = from[H[p]].record.start
                  /\ \/ out[p].record.end = from[H[p]].record.end
                     \/ out[p].record.end = -69 /\ from[H[p]].record.end = ZeroTime
  <2>1. PICK i, j : i = G[p] /\ j = H[p]
    OBVIOUS
  <2>2. /\ i \in 1 .. n /\ j \in 1 .. m /\ j = F[i]
        /\ out[p].resource.attributes = items[i].resource.attributes
        /\ out[p].scope = Landed(items[i].scope)
        /\ out[p].record = Relayed(items[i].record)
    BY <1>8, <2>1
  <2>3. /\ items[i].record.id = from[j].record.id
        /\ items[i].resource.attributes = from[j].resource.attributes
        /\ items[i].scope = from[j].scope \/ items[i].scope = Landed(from[j].scope)
        /\ signal = "spans" =>
             /\ items[i].record.start = from[j].record.start
             /\ \/ items[i].record.end = from[j].record.end
                \/ items[i].record.end = -69 /\ from[j].record.end = ZeroTime
    BY <2>2 DEF Carried
  <2>4. Landed(Landed(from[j].scope)) = Landed(from[j].scope)
    BY DEF Landed
  <2>5. out[p].record.id = items[i].record.id
    BY <2>2, RecordArrives
  <2>6. ASSUME signal = "spans"
        PROVE  /\ out[p].record.start = from[j].record.start
               /\ \/ out[p].record.end = from[j].record.end
                  \/ out[p].record.end = -69 /\ from[j].record.end = ZeroTime
    <3>1. /\ out[p].record.start = Unix(UnixNano(items[i].record.start))
          /\ out[p].record.end = Unix(UnixNano(items[i].record.end))
      BY <2>2, <2>6, RecordArrives
    <3>2. Timed(from[j].record)
      BY <2>2, <2>6 DEF BatchSound
    <3>3. QED
      BY <2>3, <2>6, <3>1, <3>2, TimesArrive DEF Timed
  <2>7. out[p].resource.attributes = from[j].resource.attributes
    BY <2>2, <2>3
  <2>8. out[p].scope = Landed(from[j].scope)
    BY <2>2, <2>3, <2>4
  <2>9. out[p].record.id = from[j].record.id
    BY <2>3, <2>5
  <2>10. QED
    BY <2>1, <2>6, <2>7, <2>8, <2>9
<1>10. Carried(H, out)
  BY <1>7, <1>9 DEF Carried
<1>11. QED
  BY <1>1, <1>2, <1>10

(* The records on their way, in a process or grouped between two. *)
OnTheWay ==
  /\ BatchSound(start.content)
  /\ \E items :
       /\ \E X : items \in Seq(X)
       /\ \E F : Carried(F, items)
       /\ \/ form = "sdk" /\ content = items
          \/ form = "wire" /\ \E order \in SetToSeqs(ResourcesOf(items)) : content = ToPB(items, order)

(* At the start, every record is in its place. *)
LEMMA Begins ==
  ASSUME BatchInit, signal # "metrics", start.form = "sdk"
  PROVE  OnTheWay
<1>1. PICK b \in Batches : /\ signal = b.signal /\ form = b.form /\ content = b.content
                           /\ start = [form |-> b.form, content |-> b.content]
  BY DEF BatchInit
<1>2. /\ start.content = content /\ form = "sdk"
      /\ content \in Seq(ToSet(content)) /\ RecordsApart(content)
      /\ signal = "spans" => \A item \in ToSet(content) : Timed(item.record)
  BY <1>1, BatchesAssumption
<1> DEFINE n == Len(content)
           F == [i \in 1 .. n |-> i]
<1>3. n \in Nat /\ \A i \in 1 .. n : content[i] \in ToSet(content)
  BY <1>2 DEF ToSet
<1>4. BatchSound(start.content)
  BY <1>2, <1>3 DEF BatchSound
<1>5. Arranges(F, n, 1 .. n, SameKey(content))
  <2>1. \A p \in 1 .. n : F[p] = p
    OBVIOUS
  <2>2. F \in [1 .. n -> 1 .. n]
    OBVIOUS
  <2>3. \A p, q \in 1 .. n : <<p, q>> \in SameKey(content) => p < q
    BY DEF SameKey, Earlier
  <2> HIDE DEF F
  <2>4. QED
    BY <2>1, <2>2, <2>3 DEF Arranges
<1>6. \A p \in 1 .. n : F[p] = p
  OBVIOUS
<1> HIDE DEF F
<1>7. Carried(F, content)
  BY <1>2, <1>5, <1>6 DEF Carried
<1>8. QED
  BY <1>2, <1>4, <1>7 DEF OnTheWay

(* No step loses track of a record. *)
LEMMA Goes ==
  ASSUME OnTheWay, signal # "metrics", BatchNext
  PROVE  OnTheWay'
<1>1. /\ BatchSound(start.content)
      /\ \E items :
           /\ \E X : items \in Seq(X)
           /\ \E F : Carried(F, items)
           /\ \/ form = "sdk" /\ content = items
              \/ form = "wire" /\ \E order \in SetToSeqs(ResourcesOf(items)) : content = ToPB(items, order)
  BY DEF OnTheWay
<1>2. PICK items :
        /\ \E X : items \in Seq(X)
        /\ \E F : Carried(F, items)
        /\ \/ form = "sdk" /\ content = items
           \/ form = "wire" /\ \E order \in SetToSeqs(ResourcesOf(items)) : content = ToPB(items, order)
  BY <1>1
<1>3. PICK X : items \in Seq(X)
  BY <1>2
<1>4. PICK F : Carried(F, items)
  BY <1>2
<1>5. signal' = signal /\ start' = start
  BY DEF BatchNext, Send, Arrive
<1>6. BatchSound(start.content)' /\ \A its, H : Carried(H, its) => Carried(H, its)'
  <2>1. BatchSound(start.content)'
    BY <1>1, <1>5 DEF BatchSound
  <2>2. \A its, H : Carried(H, its) => Carried(H, its)'
    <3>1. \A scope : Landed(scope)' = Landed(scope)
      BY <1>5 DEF Landed
    <3>2. QED
      BY <1>5, <3>1 DEF Carried
  <2>3. QED
    BY <2>1, <2>2
<1>7. CASE Send
  <2>1. form = "sdk" /\ form' = "wire" /\ content = items
    BY <1>2, <1>7 DEF Send
  <2>2. PICK order \in SetToSeqs(Resources) : content' = ToPB(content, order)
    BY <1>7 DEF Send
  <2>3. Resources = ResourcesOf(items)
    BY <2>1 DEF Resources, ResourcesOf
  <2>4. ToPB(items, order)' = ToPB(items, order)
    BY <1>5 DEF ToPB, ResourceGroup, RecordToPB
  <2>5. QED
    BY <1>3, <1>4, <1>6, <2>1, <2>2, <2>3, <2>4 DEF OnTheWay
<1>8. CASE Arrive
  <2>1. form = "wire" /\ form' = "sdk" /\ content' = FromPB(content)
    BY <1>8 DEF Arrive
  <2>2. PICK order \in SetToSeqs(ResourcesOf(items)) : content = ToPB(items, order)
    BY <1>2, <2>1
  <2>3. PICK out : out = FromPB(ToPB(items, order))
    OBVIOUS
  <2>4. (\E Y : out \in Seq(Y)) /\ \E G : Carried(G, out)
    BY <1>1, <1>3, <1>4, <2>3, HopCarries
  <2>5. content' = out
    BY <2>1, <2>2, <2>3
  <2>6. \E G : Carried(G, out)'
    BY <1>6, <2>4
  <2>7. QED
    BY <1>6, <2>1, <2>4, <2>5, <2>6 DEF OnTheWay
<1>9. QED
  BY <1>7, <1>8 DEF BatchNext

(* Arranging everything takes as many places as there is. *)
LEMMA SameLength ==
  ASSUME NEW n \in Nat, NEW m \in Nat, NEW F, NEW Below, Arranges(F, n, 1 .. m, Below)
  PROVE  n = m
<1>1. F \in Bijection(1 .. n, 1 .. m)
  BY DEF Arranges, Bijection, Injection, Surjection, IsInjective
<1>2. /\ IsFiniteSet(1 .. n) /\ Cardinality(1 .. n) = n
      /\ IsFiniteSet(1 .. m) /\ Cardinality(1 .. m) = m
  BY FS_Interval
<1>3. QED
  <2>1. PICK A, B : A = 1 .. n /\ B = 1 .. m
    OBVIOUS
  <2>2. Cardinality(A) = Cardinality(B)
    BY <1>1, <1>2, <2>1, FS_Bijection DEF ExistsBijection
  <2>3. QED
    BY <1>2, <2>1, <2>2

(* A map that has every record once, in order, loses nothing. *)
LEMMA NothingLostInRecords ==
  ASSUME OnTheWay, form = "sdk", Grouped
  PROVE  Len(content) = Len(start.content) /\ Ids(content) = Ids(start.content) /\ InOrder
<1> DEFINE from == start.content
           n == Len(content)
           m == Len(from)
<1>1. (\E X : content \in Seq(X)) /\ (\E F : Carried(F, content)) /\ \E X : from \in Seq(X)
  BY DEF OnTheWay, BatchSound
<1>2. PICK F : Carried(F, content)
  BY <1>1
<1>3. /\ n \in Nat /\ m \in Nat /\ DOMAIN content = 1 .. n /\ DOMAIN from = 1 .. m
  BY <1>1
<1>4. /\ Arranges(F, n, 1 .. m, SameKey(from))
      /\ \A p \in 1 .. n : content[p].record.id = from[F[p]].record.id
  BY <1>2 DEF Carried
<1>5. /\ F \in [1 .. n -> 1 .. m]
      /\ \A c \in 1 .. m : \E p \in 1 .. n : F[p] = c
      /\ \A p, q \in 1 .. n : <<F[p], F[q]>> \in SameKey(from) => p < q
  BY <1>4 DEF Arranges
<1>6. n = m
  <2> HIDE DEF n, m, from
  <2>1. QED
    BY <1>3, <1>4, SameLength
<1>7. Ids(content) = Ids(from)
  <2>1. ASSUME NEW p \in 1 .. n PROVE \E i \in 1 .. m : content[p].record.id = from[i].record.id
    BY <1>4, <1>5
  <2>2. ASSUME NEW i \in 1 .. m PROVE \E p \in 1 .. n : content[p].record.id = from[i].record.id
    BY <1>4, <1>5
  <2> HIDE DEF n, m, from
  <2>3. \A x \in Ids(content) : x \in Ids(from)
    BY <1>3, <2>1 DEF Ids
  <2>4. \A x \in Ids(from) : x \in Ids(content)
    BY <1>3, <2>2 DEF Ids
  <2>5. QED
    BY <2>3, <2>4 DEF Ids
<1>8. InOrder
  <2>1. ASSUME NEW i \in 1 .. m, NEW j \in 1 .. m, i < j, Key(from[i]) = Key(from[j])
        PROVE  \E p, q \in 1 .. n :
                 /\ p < q
                 /\ content[p].record.id = from[i].record.id
                 /\ content[q].record.id = from[j].record.id
    <3>1. <<i, j>> \in SameKey(from)
      BY <1>3, <2>1 DEF SameKey, Earlier
    <3>2. PICK p \in 1 .. n : F[p] = i
      BY <1>5
    <3>3. PICK q \in 1 .. n : F[q] = j
      BY <1>5
    <3>4. p < q
      BY <1>5, <3>1, <3>2, <3>3
    <3>5. QED
      BY <1>4, <3>2, <3>3, <3>4
  <2> HIDE DEF n, m, from
  <2>2. \A i, j \in DOMAIN from : i < j /\ Key(from[i]) = Key(from[j]) =>
          \E p, q \in DOMAIN content : /\ p < q
                                       /\ content[p].record.id = from[i].record.id
                                       /\ content[q].record.id = from[j].record.id
    BY <1>3, <2>1
  <2>3. QED
    BY <2>2 DEF InOrder, from
<1>9. QED
  BY <1>6, <1>7, <1>8

(* An end before the start stays before it, and no other end gets there. *)
LEMMA LiveStaysLiveInRecords ==
  ASSUME OnTheWay, form = "sdk", signal = "spans"
  PROVE  \A s \in ToSet(content), t \in ToSet(start.content) :
           s.record.id = t.record.id => (Running(s.record) <=> Running(t.record))
<1> DEFINE from == start.content
<1>1. (\E X : content \in Seq(X)) /\ (\E F : Carried(F, content)) /\ \E X : from \in Seq(X)
  BY DEF OnTheWay, BatchSound
<1>2. PICK F : Carried(F, content)
  BY <1>1
<1>3. SUFFICES ASSUME NEW p \in 1 .. Len(content), NEW i \in 1 .. Len(from),
                      content[p].record.id = from[i].record.id
               PROVE  Running(content[p].record) <=> Running(from[i].record)
  BY <1>1 DEF ToSet
<1>4. /\ F[p] \in 1 .. Len(from) /\ content[p].record.id = from[F[p]].record.id
      /\ content[p].record.start = from[F[p]].record.start
      /\ \/ content[p].record.end = from[F[p]].record.end
         \/ content[p].record.end = -69 /\ from[F[p]].record.end = ZeroTime
  BY <1>2 DEF Carried, Arranges
<1>5. RecordsApart(from) /\ Timed(from[i].record)
  BY DEF OnTheWay, BatchSound
<1>6. F[p] = i
  <2>1. DOMAIN from = 1 .. Len(from)
    BY <1>1
  <2>2. from[F[p]].record.id = from[i].record.id
    BY <1>3, <1>4
  <2> HIDE DEF from
  <2>3. QED
    BY <1>4, <1>5, <2>1, <2>2 DEF RecordsApart
<1>7. PICK s, t : s = content[p].record /\ t = from[i].record
  OBVIOUS
<1>8. /\ s.start = t.start
      /\ \/ s.end = t.end
         \/ s.end = -69 /\ t.end = -621
  BY <1>4, <1>6, <1>7 DEF ZeroTime
<1>9. PICK a, b, c : a = t.start /\ b = t.end /\ c = s.end
  OBVIOUS
<1>10. a \in 0 .. 91
  BY <1>5, <1>7, <1>9 DEF Timed, Times, Width
<1>11. c < a <=> b < a
  <2>1. CASE c = b
    BY <2>1
  <2>2. CASE c = -69 /\ b = -621
    <3>1. -69 < a /\ -621 < a
      BY <1>10
    <3>2. QED
      BY <2>2, <3>1
  <2>3. QED
    BY <1>8, <1>9, <2>1, <2>2
<1>12. QED
  BY <1>7, <1>8, <1>9, <1>11 DEF Running

(* A sequence whose elements are all P. *)
IsSeqOf(s, P(_)) == s \in Seq(ToSet(s)) /\ \A i \in 1 .. Len(s) : P(s[i])

(* A metric that goes through, and a batch of such metrics. *)
Gauge(m) ==
  /\ m = [data |-> "gauge", points |-> m.points, temporality |-> m.temporality]
  /\ m.points # <<>> /\ IsSeqOf(m.points, IsPoint)

(* Metrics of one scope, and of several. *)
Gauges(ms)   == IsSeqOf(ms, Gauge)
Through(scopes) == IsSeqOf(scopes, Gauges)

(* A function on 1 .. n is a sequence of n. *)
LEMMA Listed ==
  ASSUME NEW n \in Nat, NEW s, s = [i \in 1 .. n |-> s[i]]
  PROVE  s \in Seq(ToSet(s)) /\ Len(s) = n /\ (n # 0 <=> s # <<>>)
<1>1. DOMAIN s = 1 .. n
  OBVIOUS
<1>2. \A i \in 1 .. n : s[i] \in ToSet(s)
  BY <1>1 DEF ToSet
<1>3. QED
  BY <1>2

(* The members of a sequence are the elements at its places. *)
LEMMA Members ==
  ASSUME NEW s, s \in Seq(ToSet(s))
  PROVE  /\ Len(s) \in Nat /\ DOMAIN s = 1 .. Len(s) /\ (Len(s) # 0 <=> s # <<>>)
         /\ \A i \in 1 .. Len(s) : s[i] \in ToSet(s)
         /\ \A x \in ToSet(s) : \E i \in 1 .. Len(s) : s[i] = x
<1>1. Len(s) \in Nat /\ DOMAIN s = 1 .. Len(s) /\ (Len(s) # 0 <=> s # <<>>)
  OBVIOUS
<1>2. QED
  BY <1>1 DEF ToSet

(* An arrangement of numbers in their order leaves each in its place. *)
LEMMA InPlace ==
  ASSUME NEW n \in Nat, NEW F, Arranges(F, n, 1 .. n, Earlier)
  PROVE  \A p \in 1 .. n : F[p] = p
<1>1. /\ F \in [1 .. n -> 1 .. n] /\ \A c \in 1 .. n : \E p \in 1 .. n : F[p] = c
      /\ \A p, q \in 1 .. n : F[p] = F[q] => p = q
  BY DEF Arranges
<1>1a. ASSUME NEW p \in 1 .. n PROVE F[p] \in 1 .. n /\ F[p] \in Nat
  <2>1. F[p] \in 1 .. n
    BY <1>1
  <2>2. QED
    BY <2>1
<1>2. ASSUME NEW p \in 1 .. n, NEW q \in 1 .. n, F[p] < F[q] PROVE p < q
  <2>1. F[p] \in Nat /\ F[q] \in Nat
    BY <1>1a
  <2>2. <<F[p], F[q]>> \in Earlier
    BY <1>2, <2>1 DEF Earlier
  <2>3. QED
    BY <2>2 DEF Arranges
<1> DEFINE Displaced == {p \in 1 .. n : F[p] # p}
<1> SUFFICES ASSUME Displaced # {} PROVE FALSE
  OBVIOUS
<1>3. Displaced \in SUBSET Nat
  OBVIOUS
<1>4. PICK p \in Displaced : \A q \in Displaced : p <= q
  <2> HIDE DEF Displaced
  <2>1. QED
    BY <1>3, LeastNumber
<1>5. p \in 1 .. n /\ F[p] # p /\ F[p] \in 1 .. n
  BY <1>1, <1>4
<1>6. ASSUME NEW q \in 1 .. n, q < p PROVE F[q] = q
  BY <1>4, <1>5, <1>6
<1>7. F[p] > p
  <2>1. ASSUME F[p] < p PROVE FALSE
    <3>1. F[F[p]] = F[p]
      BY <1>5, <1>6, <2>1
    <3>2. QED
      BY <1>1, <1>5, <3>1
  <2>2. QED
    BY <1>5, <2>1
<1>8. PICK q \in 1 .. n : F[q] = p
  BY <1>1, <1>5
<1>9. q < p
  BY <1>2, <1>5, <1>7, <1>8
<1>10. QED
  BY <1>5, <1>6, <1>8, <1>9

(* What a selection keeps. *)
LEMMA ThoseOf ==
  ASSUME NEW s, s \in Seq(ToSet(s)), NEW T
  PROVE  /\ Len(Those(s, T)) \in Nat /\ DOMAIN Those(s, T) = 1 .. Len(Those(s, T))
         /\ \A i \in 1 .. Len(Those(s, T)) :
              \E j \in 1 .. Len(s) : Those(s, T)[i] = s[j] /\ s[j] \in T
         /\ (\E j \in 1 .. Len(s) : s[j] \in T) => Len(Those(s, T)) # 0
         /\ (\A j \in 1 .. Len(s) : s[j] \in T) =>
              Len(Those(s, T)) = Len(s) /\ \A j \in 1 .. Len(s) : Those(s, T)[j] = s[j]
<1> DEFINE t == Those(s, T)
           K == {i \in 1 .. Len(s) : s[i] \in T}
<1>1. t \in Seq(ToSet(s)) /\ \E F : Selects(F, t, s, K)
  BY ThoseArranged
<1>2. PICK F : Selects(F, t, s, K)
  BY <1>1
<1> HIDE DEF t
<1>3. Len(t) \in Nat /\ DOMAIN t = 1 .. Len(t) /\ Len(s) \in Nat
  BY <1>1
<1>4. /\ F \in [1 .. Len(t) -> K] /\ \A c \in K : \E p \in 1 .. Len(t) : F[p] = c
      /\ \A p \in 1 .. Len(t) : t[p] = s[F[p]]
      /\ Arranges(F, Len(t), K, Earlier)
  BY <1>2 DEF Selects, Arranges
<1>5. ASSUME NEW i \in 1 .. Len(t) PROVE \E j \in 1 .. Len(s) : t[i] = s[j] /\ s[j] \in T
  BY <1>4
<1>6. ASSUME NEW j \in 1 .. Len(s), s[j] \in T PROVE Len(t) # 0
  BY <1>3, <1>4, <1>6
<1>7. ASSUME \A j \in 1 .. Len(s) : s[j] \in T
      PROVE  Len(t) = Len(s) /\ \A j \in 1 .. Len(s) : t[j] = s[j]
  <2>1. K = 1 .. Len(s)
    BY <1>7
  <2>2. Arranges(F, Len(t), 1 .. Len(s), Earlier)
    BY <1>4, <2>1
  <2>3. Len(t) = Len(s)
    BY <1>3, <2>2, SameLength
  <2>4. \A p \in 1 .. Len(s) : F[p] = p
    BY <1>3, <2>2, <2>3, InPlace
  <2>5. QED
    BY <1>4, <2>3, <2>4
<1>8. QED
  BY <1>3, <1>5, <1>6, <1>7 DEF t

(* q is the point p with another time and other exemplars. *)
Updated(q, p, x, y) == q = [p EXCEPT !.time = x, !.exemplars = y]

(* A point with another time is a point of the same type. *)
LEMMA PointUpdated ==
  ASSUME NEW q, NEW p, IsPoint(p), NEW x, NEW y, Updated(q, p, x, y)
  PROVE  IsPoint(q)
<1>1. p = [t |-> p.t, time |-> p.time, exemplars |-> p.exemplars] /\ p.t \in {"int", "double"}
  BY DEF IsPoint
<1>2. DOMAIN p = {"t", "time", "exemplars"}
  BY <1>1
<1>3. [p EXCEPT !.time = x, !.exemplars = y]
        = [f \in {"t", "time", "exemplars"} |-> IF f = "exemplars" THEN y ELSE IF f = "time" THEN x ELSE p[f]]
  BY <1>2
<1>4. [p EXCEPT !.time = x, !.exemplars = y] = [t |-> p.t, time |-> x, exemplars |-> y]
  BY <1>3
<1>5. QED
  BY <1>1, <1>4 DEF IsPoint, Updated

(* A gauge with other points is a gauge. *)
LEMMA GaugeUpdated ==
  ASSUME NEW m, Gauge(m), NEW ps, IsSeqOf(ps, IsPoint), ps # <<>>
  PROVE  Gauge([m EXCEPT !.points = ps])
<1>1. m = [data |-> "gauge", points |-> m.points, temporality |-> m.temporality]
  BY DEF Gauge
<1>2. DOMAIN m = {"data", "points", "temporality"}
  BY <1>1
<1>3. [m EXCEPT !.points = ps]
        = [f \in {"data", "points", "temporality"} |-> IF f = "points" THEN ps ELSE m[f]]
  BY <1>2
<1>4. [m EXCEPT !.points = ps] = [data |-> "gauge", points |-> ps, temporality |-> m.temporality]
  BY <1>1, <1>3
<1>5. QED
  BY <1>4 DEF Gauge

(* Points are points on the wire, as many as there were. *)
LEMMA PointsSent ==
  ASSUME NEW ps, IsSeqOf(ps, IsPoint), ps # <<>>
  PROVE  IsSeqOf(DataPointsToPB(ps), IsPoint) /\ DataPointsToPB(ps) # <<>>
<1>1. /\ Len(ps) \in Nat /\ DOMAIN ps = 1 .. Len(ps) /\ Len(ps) # 0
      /\ \A i \in 1 .. Len(ps) : IsPoint(ps[i])
  BY Members DEF IsSeqOf
<1> DEFINE n == Len(ps)
           q == DataPointsToPB(ps)
<1>2. q = [i \in 1 .. n |-> [ps[i] EXCEPT !.time = TimeUnixNano(@), !.exemplars = ExemplarsToPB(@)]]
  BY <1>1 DEF DataPointsToPB
<1> HIDE DEF q, n
<1>3. ASSUME NEW i \in 1 .. n PROVE IsPoint(q[i])
  <2>1. q[i] = [ps[i] EXCEPT !.time = TimeUnixNano(@), !.exemplars = ExemplarsToPB(@)]
    BY <1>2
  <2>2. PICK p, x, y : p = ps[i] /\ x = TimeUnixNano(p.time) /\ y = ExemplarsToPB(p.exemplars)
    OBVIOUS
  <2>3. Updated(q[i], p, x, y)
    BY <2>1, <2>2 DEF Updated
  <2>4. IsPoint(p)
    BY <1>1, <2>2 DEF n
  <2>5. QED
    BY <2>3, <2>4, PointUpdated
<1>4. q = [i \in 1 .. n |-> q[i]]
  BY <1>2
<1>5. q \in Seq(ToSet(q)) /\ Len(q) = n /\ q # <<>>
  BY <1>1, <1>4, Listed DEF n
<1>6. QED
  BY <1>3, <1>5 DEF IsSeqOf, q

(* The points of one type, as they are received. *)
LEMMA PointsReceived ==
  ASSUME NEW ps, IsSeqOf(ps, IsPoint), NEW t
  PROVE  /\ IsSeqOf(DataPointsFromPB(t, ps), IsPoint)
         /\ (\E j \in 1 .. Len(ps) : ps[j].t = t) => DataPointsFromPB(t, ps) # <<>>
<1>1. /\ Len(ps) \in Nat /\ ps \in Seq(ToSet(ps))
      /\ \A i \in 1 .. Len(ps) : IsPoint(ps[i]) /\ ps[i] \in ToSet(ps)
  BY Members DEF IsSeqOf
<1> DEFINE T == {p \in ToSet(ps) : p.t = t}
           mine == Those(ps, T)
           n == Len(mine)
           q == DataPointsFromPB(t, ps)
<1>2. /\ n \in Nat /\ DOMAIN mine = 1 .. n
      /\ \A i \in 1 .. n : \E j \in 1 .. Len(ps) : mine[i] = ps[j]
      /\ (\E j \in 1 .. Len(ps) : ps[j] \in T) => n # 0
  <2> HIDE DEF T
  <2>1. QED
    BY <1>1, ThoseOf
<1>3. q = [i \in DOMAIN mine |-> [mine[i] EXCEPT !.time = Unix(@), !.exemplars = ExemplarsFromPB(t, @)]]
  BY DEF DataPointsFromPB
<1>4. (\E j \in 1 .. Len(ps) : ps[j].t = t) => n # 0
  <2> HIDE DEF n
  <2>1. QED
    BY <1>1, <1>2
<1> HIDE DEF T, mine, n, q
<1>5. q = [i \in 1 .. n |-> [mine[i] EXCEPT !.time = Unix(@), !.exemplars = ExemplarsFromPB(t, @)]]
  BY <1>2, <1>3
<1>6. ASSUME NEW i \in 1 .. n PROVE IsPoint(q[i])
  <2>1. q[i] = [mine[i] EXCEPT !.time = Unix(@), !.exemplars = ExemplarsFromPB(t, @)]
    BY <1>5
  <2>2. PICK p, x, y : p = mine[i] /\ x = Unix(p.time) /\ y = ExemplarsFromPB(t, p.exemplars)
    OBVIOUS
  <2>3. Updated(q[i], p, x, y)
    BY <2>1, <2>2 DEF Updated
  <2>4. IsPoint(p)
    BY <1>1, <1>2, <2>2
  <2>5. QED
    BY <2>3, <2>4, PointUpdated
<1>7. q = [i \in 1 .. n |-> q[i]]
  BY <1>5
<1>8. q \in Seq(ToSet(q)) /\ Len(q) = n /\ (n # 0 <=> q # <<>>)
  BY <1>2, <1>7, Listed
<1>9. QED
  BY <1>4, <1>6, <1>8 DEF IsSeqOf, q

(* A gauge can be sent, and is one on the wire. *)
LEMMA MetricSent ==
  ASSUME NEW m, Gauge(m)
  PROVE  ~ MetricToPBFails(m) /\ Gauge(MetricToPB(m))
<1>1. m.data = "gauge" /\ m.points # <<>> /\ IsSeqOf(m.points, IsPoint)
  BY DEF Gauge
<1>2. ~ MetricToPBFails(m)
  BY <1>1 DEF MetricToPBFails
<1>3. MetricToPB(m) = [m EXCEPT !.points = DataPointsToPB(m.points)]
  BY <1>1 DEF MetricToPB
<1>4. QED
  BY <1>1, <1>2, <1>3, PointsSent, GaugeUpdated

(* A gauge can be received, with the points of one of the types. *)
LEMMA MetricReceived ==
  ASSUME NEW m, Gauge(m)
  PROVE  ~ MetricFromPBFails(m) /\ Gauge(MetricFromPB(m))
<1>1. m.data = "gauge" /\ m.points # <<>> /\ IsSeqOf(m.points, IsPoint)
  BY DEF Gauge
<1>2. ~ MetricFromPBFails(m)
  BY <1>1 DEF MetricFromPBFails
<1> DEFINE ints == DataPointsFromPB("int", m.points)
           doubles == DataPointsFromPB("double", m.points)
<1>3. IsSeqOf(ints, IsPoint) /\ IsSeqOf(doubles, IsPoint)
  BY <1>1, PointsReceived
<1>4. ints # <<>> \/ doubles # <<>>
  <2>1. 1 \in 1 .. Len(m.points) /\ IsPoint(m.points[1])
    BY <1>1, Members DEF IsSeqOf
  <2>2. m.points[1].t = "int" \/ m.points[1].t = "double"
    BY <2>1 DEF IsPoint
  <2>3. QED
    BY <1>1, <2>1, <2>2, PointsReceived
<1>5. MetricFromPB(m) = IF ints # <<>> THEN [m EXCEPT !.points = ints]
                        ELSE IF doubles # <<>> THEN [m EXCEPT !.points = doubles]
                        ELSE [m EXCEPT !.data = "nil"]
  BY DEF MetricFromPB
<1> HIDE DEF ints, doubles
<1>6. Gauge(MetricFromPB(m))
  BY <1>3, <1>4, <1>5, GaugeUpdated
<1>7. QED
  BY <1>2, <1>6

(* A sequence with an operator applied to every element. *)
LEMMA EachGauge ==
  ASSUME NEW ms, Gauges(ms), NEW out, DOMAIN out = DOMAIN ms,
         out = [i \in DOMAIN ms |-> out[i]], \A i \in DOMAIN ms : Gauge(out[i])
  PROVE  Gauges(out) /\ Len(out) = Len(ms)
<1>1. Len(ms) \in Nat /\ DOMAIN ms = 1 .. Len(ms)
  BY Members DEF Gauges, IsSeqOf
<1>2. out = [i \in 1 .. Len(ms) |-> out[i]]
  BY <1>1
<1>3. out \in Seq(ToSet(out)) /\ Len(out) = Len(ms)
  BY <1>1, <1>2, Listed
<1>4. QED
  BY <1>1, <1>3 DEF Gauges, IsSeqOf

(* As many scopes, each with as many metrics. *)
SameShape(c, d) == Len(c) = Len(d) /\ \A k \in 1 .. Len(d) : Len(c[k]) = Len(d[k])

(* With gauges alone, every scope is sent, and every metric. *)
LEMMA ScopesSent ==
  ASSUME NEW scopes, Through(scopes)
  PROVE  Through(ScopeMetricsToPB(scopes)) /\ SameShape(ScopeMetricsToPB(scopes), scopes)
<1> DEFINE T == {ms \in ToSet(scopes) : \A i \in DOMAIN ms : ~ MetricToPBFails(ms[i])}
           good == Those(scopes, T)
           n == Len(scopes)
           q == ScopeMetricsToPB(scopes)
<1>1. /\ scopes \in Seq(ToSet(scopes)) /\ n \in Nat
      /\ \A k \in 1 .. n : Gauges(scopes[k]) /\ scopes[k] \in ToSet(scopes)
  BY Members DEF Through, IsSeqOf
<1>2. \A k \in 1 .. n : scopes[k] \in T
  <2>1. TAKE k \in 1 .. n
  <2>2. \A i \in DOMAIN scopes[k] : Gauge(scopes[k][i])
    BY <1>1, Members DEF Gauges, IsSeqOf
  <2>3. QED
    BY <1>1, <2>2, MetricSent
<1>3. q = [k \in DOMAIN good |-> [i \in DOMAIN good[k] |-> MetricToPB(good[k][i])]]
  BY DEF ScopeMetricsToPB
<1> HIDE DEF T, n, q
<1>4. DOMAIN good = 1 .. n /\ \A k \in 1 .. n : good[k] = scopes[k]
  BY <1>1, <1>2, ThoseOf DEF n
<1> HIDE DEF good
<1>5. q = [k \in 1 .. n |-> [i \in DOMAIN good[k] |-> MetricToPB(good[k][i])]]
  BY <1>3, <1>4
<1>6. ASSUME NEW k \in 1 .. n PROVE Gauges(q[k]) /\ Len(q[k]) = Len(scopes[k])
  <2>1. q[k] = [i \in DOMAIN good[k] |-> MetricToPB(good[k][i])]
    BY <1>5
  <2>2. PICK ms : ms = good[k]
    OBVIOUS
  <2>3. Gauges(ms)
    BY <1>1, <1>4, <2>2
  <2>4. \A i \in DOMAIN ms : Gauge(ms[i])
    BY <2>3, Members DEF Gauges, IsSeqOf
  <2>5. /\ DOMAIN q[k] = DOMAIN ms /\ q[k] = [i \in DOMAIN ms |-> q[k][i]]
        /\ \A i \in DOMAIN ms : q[k][i] = MetricToPB(ms[i])
    BY <2>1, <2>2
  <2>6. \A i \in DOMAIN ms : Gauge(q[k][i])
    BY <2>4, <2>5, MetricSent
  <2>7. QED
    BY <1>4, <2>2, <2>3, <2>5, <2>6, EachGauge
<1>7. q = [k \in 1 .. n |-> q[k]]
  BY <1>5
<1>8. q \in Seq(ToSet(q)) /\ Len(q) = n
  BY <1>1, <1>7, Listed
<1>9. QED
  BY <1>6, <1>8 DEF Through, IsSeqOf, SameShape, q, n

(* With gauges alone, the whole message is received. *)
LEMMA ScopesReceived ==
  ASSUME NEW scopes, Through(scopes)
  PROVE  Through(ResourceMetricsFromPB(scopes)) /\ SameShape(ResourceMetricsFromPB(scopes), scopes)
<1> DEFINE n == Len(scopes)
           q == ResourceMetricsFromPB(scopes)
<1>1. /\ n \in Nat /\ DOMAIN scopes = 1 .. n
      /\ \A k \in 1 .. n : Gauges(scopes[k])
  BY Members DEF Through, IsSeqOf
<1>2. ASSUME NEW k \in 1 .. n PROVE \A i \in DOMAIN scopes[k] : Gauge(scopes[k][i])
  BY <1>1, Members DEF Gauges, IsSeqOf
<1>3. ~ \E k \in DOMAIN scopes : \E i \in DOMAIN scopes[k] : MetricFromPBFails(scopes[k][i])
  BY <1>1, <1>2, MetricReceived
<1>4. q = [k \in 1 .. n |-> [i \in DOMAIN scopes[k] |-> MetricFromPB(scopes[k][i])]]
  BY <1>1, <1>3 DEF ResourceMetricsFromPB
<1> HIDE DEF n, q
<1>5. ASSUME NEW k \in 1 .. n PROVE Gauges(q[k]) /\ Len(q[k]) = Len(scopes[k])
  <2>1. PICK ms : ms = scopes[k]
    OBVIOUS
  <2>2. /\ DOMAIN q[k] = DOMAIN ms /\ q[k] = [i \in DOMAIN ms |-> q[k][i]]
        /\ \A i \in DOMAIN ms : q[k][i] = MetricFromPB(ms[i])
    BY <1>4, <2>1
  <2>3. \A i \in DOMAIN ms : Gauge(q[k][i])
    BY <1>2, <2>1, <2>2, MetricReceived
  <2>4. QED
    BY <1>1, <2>1, <2>2, <2>3, EachGauge
<1>6. q = [k \in 1 .. n |-> q[k]]
  BY <1>4
<1>7. q \in Seq(ToSet(q)) /\ Len(q) = n
  BY <1>1, <1>6, Listed
<1>8. QED
  BY <1>5, <1>7 DEF Through, IsSeqOf, SameShape, q, n

(* Every metric of the batch that started is a gauge with points. *)
AllGauges == \A ms \in ToSet(start.content) : \A m \in ToSet(ms) : m.data = "gauge" /\ m.points # <<>>

(* Then every scope is there with its metrics, in a process and between two. *)
MetricsOnTheWay ==
  AllGauges => Through(content) /\ SameShape(content, start.content)

(* It is so at the start. *)
LEMMA MetricsBegin ==
  ASSUME BatchInit, signal = "metrics", start.form = "sdk"
  PROVE  MetricsOnTheWay
<1> SUFFICES ASSUME AllGauges PROVE Through(content) /\ SameShape(content, start.content)
  BY DEF MetricsOnTheWay
<1>1. PICK b \in Batches : /\ signal = b.signal /\ form = b.form /\ content = b.content
                           /\ start = [form |-> b.form, content |-> b.content]
  BY DEF BatchInit
<1>2. /\ start.content = content /\ content \in Seq(ToSet(content))
      /\ \A ms \in ToSet(content) : ms \in Seq(ToSet(ms)) /\ \A m \in ToSet(ms) : Measured(m)
  BY <1>1, BatchesAssumption
<1>3. ASSUME NEW ms \in ToSet(content) PROVE Gauges(ms)
  <2>1. ASSUME NEW m \in ToSet(ms) PROVE Gauge(m)
    <3>1. /\ m = [data |-> m.data, points |-> m.points, temporality |-> m.temporality]
          /\ m.points \in Seq(ToSet(m.points)) /\ \A p \in ToSet(m.points) : IsPoint(p)
      BY <1>2, <1>3, <2>1 DEF Measured
    <3>2. m.data = "gauge" /\ m.points # <<>>
      BY <1>2, <1>3, <2>1 DEF AllGauges
    <3>3. IsSeqOf(m.points, IsPoint)
      BY <3>1, Members DEF IsSeqOf
    <3>4. QED
      BY <3>1, <3>2, <3>3 DEF Gauge
  <2>2. ms \in Seq(ToSet(ms)) /\ \A i \in 1 .. Len(ms) : ms[i] \in ToSet(ms)
    BY <1>2, <1>3, Members
  <2>3. QED
    BY <2>1, <2>2 DEF Gauges, IsSeqOf
<1>4. QED
  BY <1>2, <1>3, Members DEF Through, IsSeqOf, SameShape

(* It is so after every step. *)
LEMMA MetricsGo ==
  ASSUME MetricsOnTheWay, signal = "metrics", BatchNext
  PROVE  MetricsOnTheWay'
<1>1. start' = start /\ (content' = ScopeMetricsToPB(content) \/ content' = ResourceMetricsFromPB(content))
  BY DEF BatchNext, Send, Arrive
<1>2. ASSUME AllGauges PROVE Through(content') /\ SameShape(content', start.content)
  <2>1. SameShape(content, start.content) /\ Through(content)
    BY <1>2 DEF MetricsOnTheWay
  <2>2. Through(content') /\ SameShape(content', content)
    BY <1>1, <2>1, ScopesSent, ScopesReceived
  <2>3. QED
    BY <2>1, <2>2 DEF SameShape
<1>3. /\ Through(content)' <=> Through(content')
      /\ SameShape(content, start.content)' <=> SameShape(content', start.content)
  BY <1>1 DEF SameShape
<1>4. AllGauges' <=> AllGauges
  BY <1>1 DEF AllGauges
<1>5. QED
  BY <1>1, <1>2, <1>3, <1>4 DEF MetricsOnTheWay

(* The invariant. *)
BatchInv ==
  /\ signal \in {"spans", "logs", "metrics"} /\ form \in {"sdk", "wire"}
  /\ start.form = "sdk" => IF Grouped THEN OnTheWay ELSE MetricsOnTheWay

(* It holds at the start. *)
LEMMA BatchStarts == BatchInit => BatchInv
<1> SUFFICES ASSUME BatchInit PROVE BatchInv
  OBVIOUS
<1>1. signal \in {"spans", "logs", "metrics"} /\ form \in {"sdk", "wire"}
  BY BatchesAssumption DEF BatchInit
<1>2. QED
  BY <1>1, Begins, MetricsBegin DEF BatchInv, Grouped

(* Every step keeps it. *)
LEMMA BatchMoves == ASSUME BatchInv, [BatchNext]_batchVars PROVE BatchInv'
<1>1. CASE BatchNext
  <2>1. signal' = signal /\ start' = start /\ form' \in {"sdk", "wire"}
    BY <1>1 DEF BatchNext, Send, Arrive
  <2>2. QED
    BY <1>1, <2>1, Goes, MetricsGo DEF BatchInv, Grouped
<1>2. CASE UNCHANGED batchVars
  <2>1. /\ UNCHANGED <<signal, form, content, start>>
        /\ \A scope : Landed(scope)' = Landed(scope)
        /\ \A items, order : ToPB(items, order)' = ToPB(items, order)
    BY <1>2 DEF batchVars, Landed, ToPB, ResourceGroup, RecordToPB
  <2>2. ASSUME NEW F, NEW items, Carried(F, items) PROVE Carried(F, items)'
    <3> DEFINE from == start.content
    <3>1. /\ Arranges(F, Len(items), 1 .. Len(from), SameKey(from))'
          /\ \A p \in 1 .. Len(items) :
               /\ items[p].record.id = from'[F[p]].record.id
               /\ items[p].resource.attributes = from'[F[p]].resource.attributes
      BY <2>1, <2>2 DEF Carried
    <3>2. \A p \in 1 .. Len(items) :
            signal' = "spans" =>
              /\ items[p].record.start = from'[F[p]].record.start
              /\ \/ items[p].record.end = from'[F[p]].record.end
                 \/ items[p].record.end = -69 /\ from'[F[p]].record.end = ZeroTime
      BY <2>1, <2>2 DEF Carried
    <3>3. CASE \A p \in 1 .. Len(items) : items[p].scope = from[F[p]].scope
      BY <2>1, <3>1, <3>2, <3>3 DEF Carried
    <3>4. CASE \A p \in 1 .. Len(items) : items[p].scope = Landed(from[F[p]].scope)
      <4>1. \A p \in 1 .. Len(items) :
              items[p].scope = [name   |-> from[F[p]].scope.name,
                                schema |-> IF signal = "logs" THEN from[F[p]].scope.schema ELSE ""]
        BY <3>4 DEF Landed
      <4>2. (\A p \in 1 .. Len(items) : items[p].scope = Landed(from[F[p]].scope))'
        BY <2>1, <4>1 DEF Landed
      <4>3. QED
        BY <3>1, <3>2, <4>2 DEF Carried
    <3>5. QED
      BY <2>2, <3>3, <3>4 DEF Carried
  <2>3. BatchSound(start.content)' = BatchSound(start.content)
    BY <2>1 DEF BatchSound
  <2>4. OnTheWay => OnTheWay'
    BY <2>1, <2>2, <2>3 DEF OnTheWay
  <2>5. MetricsOnTheWay => MetricsOnTheWay'
    BY <2>1 DEF MetricsOnTheWay, AllGauges
  <2>6. QED
    BY <2>1, <2>4, <2>5 DEF BatchInv, Grouped
<1>3. QED
  BY <1>1, <1>2

(* After any number of hops nothing of a batch is lost, doubled or reordered:
   each record is there once, those of one resource and scope in their order,
   however the batch was grouped, and a scope, a metric or its data is missing only
   when not all metrics were gauges with points (transform.go:314).          *)
THEOREM BatchesArriveWhole == BatchSpec => []NothingLost
<1>1. BatchInv /\ [BatchNext]_batchVars => BatchInv'
  BY BatchMoves
<1>2. BatchInv => NothingLost
  <2> SUFFICES ASSUME BatchInv, HasArrived, start.form = "sdk"
               PROVE IF Grouped
                     THEN Len(content) = Len(start.content) /\ Ids(content) = Ids(start.content) /\ InOrder
                     ELSE \/ MetricsThere
                          \/ \E ms \in ToSet(start.content) : \E m \in ToSet(ms) : m.data # "gauge" \/ m.points = <<>>
    BY DEF NothingLost
  <2>1. form = "sdk"
    BY DEF HasArrived
  <2>2. CASE Grouped
    BY <2>1, <2>2, NothingLostInRecords DEF BatchInv
  <2>3. CASE ~ Grouped
    <3>0. CASE ~ AllGauges
      BY <2>3, <3>0 DEF AllGauges
    <3> SUFFICES ASSUME AllGauges
                 PROVE  MetricsThere
      BY <2>3, <3>0
    <3>1. Through(content) /\ SameShape(content, start.content)
      BY <2>3 DEF BatchInv, MetricsOnTheWay
    <3>2. /\ DOMAIN content = 1 .. Len(content)
          /\ \A k \in 1 .. Len(content) : Gauges(content[k])
      BY <3>1, Members DEF Through, IsSeqOf
    <3>3. ASSUME NEW k \in DOMAIN content, NEW i \in DOMAIN content[k]
          PROVE  content[k][i].data = "gauge"
      <4>1. Gauges(content[k])
        BY <3>2
      <4>2. Gauge(content[k][i])
        BY <4>1, Members DEF Gauges, IsSeqOf
      <4>3. QED
        BY <4>2 DEF Gauge
    <3>4. QED
      BY <3>1, <3>2, <3>3 DEF SameShape, MetricsThere
  <2>4. QED
    BY <2>2, <2>3
<1>3. QED
  BY BatchStarts, <1>1, <1>2, PTL DEF BatchSpec

(* A span that runs is known for one after any number of hops, by the end time
   before its start, and one that has ended never is (exporters.go:32).       *)
THEOREM LiveSpansArriveLive == BatchSpec => []LiveStaysLive
<1>1. BatchInv /\ [BatchNext]_batchVars => BatchInv'
  BY BatchMoves
<1>2. BatchInv => LiveStaysLive
  BY LiveStaysLiveInRecords DEF BatchInv, LiveStaysLive, HasArrived, Grouped
<1>3. QED
  BY BatchStarts, <1>1, <1>2, PTL DEF BatchSpec
===========================================================================
