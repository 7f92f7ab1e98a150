---------------------- MODULE TelemetryProvidersProofs ----------------------
(***************************************************************************)
(* TelemetryProviders for any number of Inits, any queue size, any number  *)
(* of lines and any environments: its types, which providers Close         *)
(* reaches and what it loses, that a record is forwarded once to each Init *)
(* and that the end of a stream comes after all its lines.                 *)
(***************************************************************************)
EXTENDS TelemetryProviders, SequenceTheorems, FiniteSetTheorems, TLAPS

Has(s, x) == \E i \in DOMAIN s : s[i] = x

(* Every provider in the context Close will use, and every entry of the lists
   for forwarding, is of an Init that was; and as long as the Inits pass their
   contexts on, that context holds the last provider of each signal.        *)
Wired ==
  /\ \A s \in Held : closeCtx[s] <= inits /\ Len(registered[s]) <= inits
  /\ \A g \in Generations : g > inits => \A s \in Signals : provider[s][g] = "none"
  /\ \A s \in Held : closeCtx[s] # 0 => provider[s][closeCtx[s]] # "none"
  /\ chained => \A s \in Held :
       closeCtx[s] = IF registered[s] = <<>> THEN 0 ELSE Last(registered[s])
  /\ \A g \in Generations : provider["logs"][g] = "shut" => "logs" \in exporterShut

(* Close has dealt with the providers before the one it is at. *)
Closed(s) == closeCtx[s] # 0 => provider[s][closeCtx[s]] = "shut"

Closing ==
  /\ closing \in {"metrics", "done"} => Closed("logs")
  /\ closing = "done" => Closed("metrics")

(* Time runs out in a shutdown only. *)
Timely ==
  /\ ~ inTime => slow
  /\ \A l \in lost : l.why = "deadline" => slow

---------------------------------------------------------------------------
(* What an element of a typed variable is.                                 *)
LEMMA StateTyped ==
  ASSUME TypeOK
  PROVE  /\ inits \in Nat /\ inits <= MaxInits /\ MaxInits \in Nat
         /\ \A s \in Held : closeCtx[s] \in Nat /\ closeCtx[s] <= MaxInits
         /\ \A s \in Held : s \in Signals /\ registered[s] \in Seq(Generations)
         /\ \A s \in Signals : provider[s] \in [Generations -> {"none", "open", "shut"}]
         /\ \A g \in Generations : queue[g] \in Seq(Record)
         /\ stream.logger \in Nat /\ stream.logger <= MaxInits /\ stream.written \in Nat
         /\ stream.written <= MaxWrites
         /\ \A g \in 1 .. MaxInits : g \in Generations
BY ProvidersAssumption DEF TypeOK, Held, Signals, Generations

LEMMA LinesAreRecords ==
  /\ Eof \in Record /\ Other \in Record /\ Eof # Other
  /\ \A n \in 1 .. MaxWrites : Line(n) \in Record /\ Line(n) # Eof /\ Line(n) # Other
<1>1. MaxWrites \in Nat
  BY ProvidersAssumption
<1>2. \A m, n : [line |-> m] = [line |-> n] => m = n
  <2>1. SUFFICES ASSUME NEW m, NEW n, [line |-> m] = [line |-> n] PROVE m = n
    OBVIOUS
  <2>2. [line |-> m].line = [line |-> n].line
    BY <2>1
  <2>3. QED
    BY <2>2
<1>3. QED
  BY <1>1, <1>2 DEF Eof, Other, Line, Record

LEMMA ExporterTyped ==
  ASSUME TypeOK, NEW s \in Signals
  PROVE  Exporter(s) \in {"none", "http", "grpc"} \/ Exporter(s) = exporter[s]
<1>1. ASSUME NEW p, NEW e PROVE Made(p, e).protocol \in {"none", "http", "grpc"}
  BY DEF Made, None
<1>2. Configured(s, environment[s]).protocol \in {"none", "http", "grpc"}
  BY <1>1 DEF Configured, ConfiguredSpanExporter, ConfiguredMetricExporter, ConfiguredLogExporter
<1>3. QED
  BY <1>2 DEF Exporter

(* A provider is shut down once, and may use up all the time that is left. *)
LEMMA ShutdownEffect ==
  ASSUME TypeOK, NEW signal \in Signals, NEW g \in 0 .. MaxInits, Shutdown(signal, g)
  PROVE  /\ provider' \in [Signals -> [Generations -> {"none", "open", "shut"}]]
         /\ exporterShut' \subseteq Signals /\ exporterShut \subseteq exporterShut'
         /\ inTime' \in BOOLEAN /\ slow' \in BOOLEAN
         /\ \A s \in Signals \ {signal} : provider'[s] = provider[s]
         /\ \A h \in Generations \ {g} : provider'[signal][h] = provider[signal][h]
         /\ g # 0 /\ provider[signal][g] = "open" =>
              provider'[signal][g] = "shut" /\ exporterShut' = exporterShut \union {signal}
         /\ ~ (g # 0 /\ provider[signal][g] = "open") =>
              provider' = provider /\ exporterShut' = exporterShut
         /\ slow => slow'
         /\ (~ inTime => slow) => (~ inTime' => slow')
<1>1. CASE g # 0 /\ provider[signal][g] = "open"
  <2>1. g \in Generations
    BY <1>1, ProvidersAssumption DEF Generations
  <2>2. /\ provider' = [provider EXCEPT ![signal][g] = "shut"]
        /\ exporterShut' = exporterShut \union {signal}
        /\ inTime' \in {inTime, FALSE}
        /\ slow' = (slow \/ (inTime /\ ~ inTime'))
    BY <1>1 DEF Shutdown
  <2>3. inTime \in BOOLEAN /\ slow \in BOOLEAN /\ inTime' \in BOOLEAN /\ slow' \in BOOLEAN
    BY <2>2 DEF TypeOK
  <2>4. /\ slow => slow'
        /\ (~ inTime => slow) => (~ inTime' => slow')
    BY <2>2, <2>3
  <2>5. /\ provider' \in [Signals -> [Generations -> {"none", "open", "shut"}]]
        /\ \A s \in Signals \ {signal} : provider'[s] = provider[s]
        /\ \A h \in Generations \ {g} : provider'[signal][h] = provider[signal][h]
        /\ provider'[signal][g] = "shut"
    BY <2>1, <2>2 DEF TypeOK
  <2>6. QED
    BY <1>1, <2>2, <2>3, <2>4, <2>5 DEF TypeOK
<1>2. CASE ~ (g # 0 /\ provider[signal][g] = "open")
  BY <1>2 DEF Shutdown, TypeOK
<1>3. QED
  BY <1>1, <1>2

---------------------------------------------------------------------------
(* What the processors' queues do.                                         *)

(* A queue with one more record: it grows, or its oldest record makes room. *)
LEMMA EnqueuedTyped ==
  ASSUME TypeOK, NEW g \in Generations, NEW r \in Record
  PROVE  Enqueued(g, r) \in Seq(Record) /\ Len(Enqueued(g, r)) <= QueueSize
<1>1. /\ queue[g] \in Seq(Record) /\ Len(queue[g]) \in Nat /\ Len(queue[g]) <= QueueSize
      /\ QueueSize \in Nat \ {0}
  BY LenProperties, ProvidersAssumption DEF TypeOK
<1>2. CASE provider["logs"][g] # "open"
  BY <1>1, <1>2 DEF Enqueued
<1>3. CASE provider["logs"][g] = "open" /\ Len(queue[g]) < QueueSize
  <2>1. Append(queue[g], r) \in Seq(Record) /\ Len(Append(queue[g], r)) = Len(queue[g]) + 1
    BY <1>1, AppendProperties
  <2>2. QED
    BY <1>1, <1>3, <2>1 DEF Enqueued
<1>4. CASE provider["logs"][g] = "open" /\ ~ (Len(queue[g]) < QueueSize)
  <2> DEFINE t == Tail(queue[g])
  <2>1. queue[g] # <<>>
    BY <1>1, <1>4, EmptySeq
  <2>2. t \in Seq(Record) /\ Len(t) = Len(queue[g]) - 1
    BY <1>1, <2>1, HeadTailProperties
  <2>3. Enqueued(g, r) = Append(t, r)
    BY <1>4 DEF Enqueued
  <2> HIDE DEF t
  <2>4. Append(t, r) \in Seq(Record) /\ Len(Append(t, r)) = Len(t) + 1
    BY <2>2, AppendProperties
  <2>5. QED
    BY <1>1, <2>2, <2>3, <2>4
<1>5. QED
  BY <1>2, <1>3, <1>4

(* An emission only pushes records out of full queues. *)
LEMMA EmitTyped ==
  ASSUME TypeOK, NEW targets \in SUBSET Generations, NEW r \in Record, Emit(targets, r)
  PROVE  /\ queue' \in [Generations -> Seq(Record)]
         /\ \A g \in Generations : Len(queue'[g]) <= QueueSize
         /\ lost' \subseteq [record : Record, why : {"full", "shut", "deadline"}]
         /\ lost \subseteq lost' /\ \A l \in lost' \ lost : l.why = "full"
         /\ UNCHANGED <<forwarded, received>>
<1>1. /\ queue' = [g \in Generations |-> IF g \in targets THEN Enqueued(g, r) ELSE queue[g]]
      /\ lost' = lost \union Overflown(targets)
      /\ UNCHANGED <<forwarded, received>>
  BY DEF Emit
<1>2. \A g \in Generations : queue'[g] \in Seq(Record) /\ Len(queue'[g]) <= QueueSize
  BY <1>1, EnqueuedTyped DEF TypeOK
<1>3. ASSUME NEW l \in Overflown(targets)
      PROVE  l \in [record : Record, why : {"full", "shut", "deadline"}] /\ l.why = "full"
  <2>1. PICK g \in targets :
          /\ l = [record |-> Head(queue[g]), why |-> "full"]
          /\ Len(queue[g]) = QueueSize
    BY <1>3 DEF Overflown
  <2>2. queue[g] \in Seq(Record) /\ queue[g] # <<>>
    BY <2>1, EmptySeq, ProvidersAssumption DEF TypeOK
  <2>3. Head(queue[g]) \in Record
    BY <2>2, HeadTailProperties
  <2>4. QED
    BY <2>1, <2>3
<1>4. QED
  BY <1>1, <1>2, <1>3 DEF TypeOK

(* A batch is received as a whole, or lost as a whole. *)
LEMMA DeliverTyped ==
  ASSUME TypeOK, NEW g \in Generations, NEW toExporter \in BOOLEAN, NEW why \in {"shut", "deadline"},
         Deliver(g, toExporter, why)
  PROVE  /\ queue' \in [Generations -> Seq(Record)] /\ queue'[g] = <<>>
         /\ \A h \in Generations \ {g} : queue'[h] = queue[h]
         /\ \A h \in Generations : Len(queue'[h]) <= QueueSize
         /\ received' \in Seq(Record)
         /\ lost' \subseteq [record : Record, why : {"full", "shut", "deadline"}]
         /\ lost \subseteq lost' /\ \A l \in lost' \ lost : l.why = why
         /\ UNCHANGED forwarded
         /\ toExporter /\ "logs" \notin exporterShut =>
              received' = received \o queue[g] /\ lost' = lost
         /\ ~ (toExporter /\ "logs" \notin exporterShut) => received' = received
<1>1. /\ queue' = [queue EXCEPT ![g] = <<>>]
      /\ <<>> \in Seq(Record) /\ Len(<<>>) = 0 /\ QueueSize \in Nat
      /\ queue[g] \in Seq(Record) /\ received \in Seq(Record)
  BY ProvidersAssumption DEF Deliver, TypeOK
<1>2. /\ queue' \in [Generations -> Seq(Record)] /\ queue'[g] = <<>>
      /\ \A h \in Generations \ {g} : queue'[h] = queue[h]
      /\ \A h \in Generations : Len(queue'[h]) <= QueueSize
  BY <1>1 DEF TypeOK
<1>3. CASE toExporter /\ "logs" \notin exporterShut
  <2>1. received \o queue[g] \in Seq(Record)
    BY <1>1, ConcatProperties
  <2>2. QED
    BY <1>2, <1>3, <2>1 DEF Deliver, TypeOK
<1>4. CASE ~ (toExporter /\ "logs" \notin exporterShut)
  <2>1. \A r \in ToSet(queue[g]) : r \in Record
    BY <1>1 DEF ToSet
  <2>2. /\ lost' = lost \union {[record |-> r, why |-> why] : r \in ToSet(queue[g])}
        /\ UNCHANGED <<received, forwarded>>
    BY <1>4 DEF Deliver
  <2>3. QED
    BY <1>2, <1>4, <2>1, <2>2 DEF TypeOK
<1>5. QED
  BY <1>3, <1>4

(* A forwarded record joins a queue as often as its Init is registered. *)
LEMMA CopiesTyped ==
  ASSUME TypeOK, NEW g \in Generations
  PROVE  /\ Copies(g) \in Nat /\ Copies(g) <= Len(registered["logs"])
         /\ provider["logs"][g] # "open" => Copies(g) = 0
<1> DEFINE reg == registered["logs"]
           at  == {i \in DOMAIN reg : reg[i] = g}
<1>1. reg \in Seq(Generations) /\ Len(reg) \in Nat /\ DOMAIN reg = 1 .. Len(reg)
  BY StateTyped, LenProperties DEF Held
<1>2. Copies(g) = IF provider["logs"][g] = "open" THEN Cardinality(at) ELSE 0
  BY DEF Copies
<1> HIDE DEF reg
<1>3. IsFiniteSet(1 .. Len(reg)) /\ Cardinality(1 .. Len(reg)) = Len(reg)
  BY <1>1, FS_Interval
<1>4. at \in SUBSET (1 .. Len(reg))
  BY <1>1
<1> HIDE DEF at
<1>5. IsFiniteSet(at) /\ Cardinality(at) <= Len(reg)
  BY <1>3, <1>4, FS_Subset
<1>6. Cardinality(at) \in Nat
  BY <1>5, FS_CardinalityType
<1>7. QED
  BY <1>1, <1>2, <1>5, <1>6 DEF reg

LEMMA ForwardedTyped ==
  ASSUME TypeOK, NEW g \in Generations
  PROVE  /\ Forwarded(g) \in Seq(Record)
         /\ Len(Forwarded(g)) = Len(queue[g]) + Copies(g)
         /\ \A i \in 1 .. Len(queue[g]) : Forwarded(g)[i] = queue[g][i]
         /\ \A i \in Len(queue[g]) + 1 .. Len(queue[g]) + Copies(g) : Forwarded(g)[i] = Other
<1> DEFINE q == queue[g]
           c == Copies(g)
           added == [i \in 1 .. c |-> Other]
<1>1. q \in Seq(Record) /\ c \in Nat /\ Other \in Record
  BY StateTyped, CopiesTyped, LinesAreRecords
<1>2. Forwarded(g) = q \o added
  BY DEF Forwarded
<1> HIDE DEF q, c
<1>3. added \in Seq(Record) /\ Len(added) = c /\ \A i \in 1 .. c : added[i] = Other
  BY <1>1, IsASeq, LenProperties
<1> HIDE DEF added
<1>4. /\ q \o added \in Seq(Record) /\ Len(q \o added) = Len(q) + c /\ Len(q) \in Nat
      /\ \A i \in 1 .. Len(q) + c :
           (q \o added)[i] = IF i <= Len(q) THEN q[i] ELSE added[i - Len(q)]
  BY <1>1, <1>3, ConcatProperties, LenProperties
<1>5. /\ \A i \in 1 .. Len(q) : (q \o added)[i] = q[i]
      /\ \A i \in Len(q) + 1 .. Len(q) + c : (q \o added)[i] = Other
  BY <1>1, <1>3, <1>4
<1>6. QED
  BY <1>2, <1>4, <1>5 DEF q, c

LEMMA ForwardTyped ==
  ASSUME TypeOK, ForwardLog
  PROVE  /\ queue' \in [Generations -> Seq(Record)]
         /\ \A g \in Generations : queue'[g] = Forwarded(g) /\ Len(queue'[g]) <= QueueSize
BY ForwardedTyped DEF ForwardLog

---------------------------------------------------------------------------
(* Type correctness.                                                       *)

LEMMA InitTyped == Init => TypeOK
<1> SUFFICES ASSUME Init PROVE TypeOK
  OBVIOUS
<1>1. <<>> \in Seq(Record) /\ <<>> \in Seq(Generations) /\ Len(<<>>) = 0
  OBVIOUS
<1>2. environment \in [Signals -> Environments]
  BY ProvidersAssumption DEF Init
<1>3. MaxInits \in Nat /\ QueueSize \in Nat /\ MaxWrites \in Nat
  BY ProvidersAssumption
<1>4. closeCtx \in [Held -> 0 .. MaxInits] /\ registered \in [Held -> Seq(Generations)]
  BY <1>1, <1>3 DEF Init, NoProviders
<1>5. /\ queue \in [Generations -> Seq(Record)]
      /\ \A g \in Generations : Len(queue[g]) <= QueueSize
      /\ received \in Seq(Record)
  BY <1>1, <1>3 DEF Init
<1>6. /\ stream \in [state : {"none", "open", "closed"}, logger : 0 .. MaxInits,
                     written : 0 .. MaxWrites]
      /\ exporter \in [Signals -> {"unset", "none", "http", "grpc"}]
      /\ provider \in [Signals -> [Generations -> {"none", "open", "shut"}]]
      /\ inits \in 0 .. MaxInits
  BY <1>3 DEF Init
<1>7. QED
  BY <1>2, <1>4, <1>5, <1>6 DEF Init, TypeOK

LEMMA InitializeTyped ==
  ASSUME TypeOK, NEW detect \in BOOLEAN, NEW chain \in BOOLEAN, Initialize(detect, chain)
  PROVE  TypeOK'
<1> DEFINE on == {signal \in Signals : detect /\ Exporter(signal) # "none"}
           ctx == IF chain THEN closeCtx ELSE NoProviders
<1>1. inits \in Nat /\ MaxInits \in Nat /\ inits' = inits + 1 /\ inits + 1 \in Generations
      /\ inits + 1 \in 0 .. MaxInits
  BY StateTyped DEF Initialize, Generations
<1>2. /\ exporter' = [signal \in Signals |-> IF detect THEN Exporter(signal) ELSE exporter[signal]]
      /\ chained' = (chained /\ (chain \/ inits = 0))
      /\ closeCtx' = ContextWith(ctx, on)
      /\ registered' = [signal \in Held |->
           IF signal \in on THEN Registered(registered[signal]) ELSE registered[signal]]
      /\ provider' = [signal \in Signals |->
           [provider[signal] EXCEPT ![inits + 1] = IF signal \in on THEN "open" ELSE @]]
      /\ closing' = "no"
      /\ UNCHANGED <<environment, exporterShut, cancelled, inTime, slow, stream,
                     queue, forwarded, received, lost>>
  BY DEF Initialize, logVars
<1> HIDE DEF on
<1>3. exporter' \in [Signals -> {"unset", "none", "http", "grpc"}]
  BY <1>2, ExporterTyped DEF TypeOK
<1>4. closeCtx' \in [Held -> 0 .. MaxInits]
  BY <1>1, <1>2, StateTyped DEF ContextWith, NoProviders, TypeOK
<1>5. registered' \in [Held -> Seq(Generations)]
  BY <1>1, <1>2, AppendProperties DEF Registered, TypeOK
<1>6. provider' \in [Signals -> [Generations -> {"none", "open", "shut"}]]
  BY <1>2 DEF TypeOK
<1>7. chained' \in BOOLEAN
  BY <1>2
<1>8. QED
  BY <1>1, <1>2, <1>3, <1>4, <1>5, <1>6, <1>7 DEF TypeOK

(* An emission of the stream goes to the logger it holds. *)
LEMMA StreamEmits ==
  ASSUME TypeOK, Write \/ CloseStream
  PROVE  /\ stream.state = "open"
         /\ stream'.logger = stream.logger
         /\ {stream.logger} \ {0} \in SUBSET Generations
         /\ \/ /\ Write /\ Emit({stream.logger} \ {0}, Line(stream.written + 1))
               /\ stream'.state = "open" /\ stream'.written = stream.written + 1
               /\ stream.written + 1 \in 1 .. MaxWrites
            \/ /\ CloseStream /\ Emit({stream.logger} \ {0}, Eof)
               /\ stream'.state = "closed" /\ stream'.written = stream.written
         /\ UNCHANGED <<environment, exporterShut, provider, cancelled, exporter, inits, chained,
                        closeCtx, registered, closing, inTime, slow>>
         /\ stream' \in [state : {"none", "open", "closed"}, logger : 0 .. MaxInits,
                         written : 0 .. MaxWrites]
<1>1. {stream.logger} \ {0} \in SUBSET Generations
  BY StateTyped DEF Generations
<1>2. MaxWrites \in Nat /\ stream \in [state : {"none", "open", "closed"}, logger : 0 .. MaxInits,
                                       written : 0 .. MaxWrites]
  BY ProvidersAssumption DEF TypeOK
<1>3. QED
  BY <1>1, <1>2 DEF Write, CloseStream, initVars, closeVars

LEMMA StreamTyped == ASSUME TypeOK, Write \/ CloseStream PROVE TypeOK'
<1>1. PICK r \in Record : Emit({stream.logger} \ {0}, r)
  BY StreamEmits, LinesAreRecords
<1>2. /\ queue' \in [Generations -> Seq(Record)]
      /\ \A g \in Generations : Len(queue'[g]) <= QueueSize
      /\ lost' \subseteq [record : Record, why : {"full", "shut", "deadline"}]
      /\ UNCHANGED <<forwarded, received>>
  BY <1>1, StreamEmits, EmitTyped
<1>3. QED
  BY <1>2, StreamEmits DEF TypeOK

(* What Close does to the log provider and its queue. *)
LEMMA CloseLogsEffect ==
  ASSUME TypeOK, CloseLogs
  PROVE  LET g == closeCtx["logs"]
         IN /\ g \in 0 .. MaxInits /\ "logs" \in Signals /\ Shutdown("logs", g)
            /\ closing' = "metrics"
            /\ UNCHANGED <<environment, cancelled, stream, exporter, inits, chained, closeCtx,
                           registered>>
            /\ \/ /\ g \in Generations /\ g # 0 /\ provider["logs"][g] = "open" /\ inTime' \in BOOLEAN
                  /\ Deliver(g, inTime', IF "logs" \in exporterShut THEN "shut" ELSE "deadline")
               \/ /\ ~ (g # 0 /\ provider["logs"][g] = "open")
                  /\ UNCHANGED <<queue, forwarded, received, lost>>
<1> DEFINE g == closeCtx["logs"]
<1>1. g \in 0 .. MaxInits /\ "logs" \in Signals /\ Shutdown("logs", g)
  BY DEF CloseLogs, TypeOK, Held, Signals
<1>2. inTime' \in BOOLEAN
  BY <1>1, ShutdownEffect
<1>3. CASE g # 0 /\ provider["logs"][g] = "open"
  <2>1. g \in Generations
    BY <1>1, <1>3 DEF Generations
  <2>2. QED
    BY <1>1, <1>2, <1>3, <2>1 DEF CloseLogs, initVars
<1>4. CASE ~ (g # 0 /\ provider["logs"][g] = "open")
  BY <1>1, <1>4 DEF CloseLogs, initVars, logVars
<1>5. QED
  BY <1>3, <1>4

LEMMA CloseLogsTyped == ASSUME TypeOK, CloseLogs PROVE TypeOK'
<1> DEFINE g == closeCtx["logs"]
<1>1. /\ provider' \in [Signals -> [Generations -> {"none", "open", "shut"}]]
      /\ exporterShut' \subseteq Signals /\ inTime' \in BOOLEAN /\ slow' \in BOOLEAN
  BY CloseLogsEffect, ShutdownEffect
<1>2. /\ queue' \in [Generations -> Seq(Record)]
      /\ \A h \in Generations : Len(queue'[h]) <= QueueSize
      /\ received' \in Seq(Record) /\ UNCHANGED forwarded
      /\ lost' \subseteq [record : Record, why : {"full", "shut", "deadline"}]
  <2>1. CASE UNCHANGED <<queue, forwarded, received, lost>>
    BY <2>1 DEF TypeOK
  <2>2. CASE /\ g \in Generations /\ inTime' \in BOOLEAN
             /\ Deliver(g, inTime', IF "logs" \in exporterShut THEN "shut" ELSE "deadline")
    <3>1. PICK why \in {"shut", "deadline"} : Deliver(g, inTime', why)
      BY <2>2
    <3>2. QED
      BY <2>2, <3>1, DeliverTyped
  <2>3. QED
    BY <2>1, <2>2, CloseLogsEffect
<1>3. QED
  BY <1>1, <1>2, CloseLogsEffect DEF TypeOK

LEMMA ExportTyped ==
  ASSUME TypeOK, NEW g \in Generations, ExportLogs(g)
  PROVE  TypeOK'
<1>1. Deliver(g, TRUE, "shut")
  BY DEF ExportLogs
<1>2. /\ queue' \in [Generations -> Seq(Record)]
      /\ \A h \in Generations : Len(queue'[h]) <= QueueSize
      /\ received' \in Seq(Record) /\ UNCHANGED forwarded
      /\ lost' \subseteq [record : Record, why : {"full", "shut", "deadline"}]
  BY <1>1, DeliverTyped
<1>3. QED
  BY <1>2 DEF ExportLogs, initVars, closeVars, TypeOK

LEMMA StepTyped == ASSUME TypeOK, [Next]_vars PROVE TypeOK'
<1>1. CASE UNCHANGED vars
  BY <1>1 DEF vars, initVars, closeVars, logVars, TypeOK
<1>2. CASE CallerCancels \/ Close
  BY <1>2 DEF CallerCancels, Close, initVars, closeVars, logVars, TypeOK
<1>3. CASE OpenStream
  <2>1. stream' \in [state : {"none", "open", "closed"}, logger : 0 .. MaxInits,
                     written : 0 .. MaxWrites]
    BY <1>3 DEF OpenStream, TypeOK, Held
  <2>2. QED
    BY <1>3, <2>1 DEF OpenStream, initVars, closeVars, logVars, TypeOK
<1>4. CASE ForwardLog
  BY <1>4, ForwardTyped DEF ForwardLog, initVars, closeVars, TypeOK
<1>5. ASSUME NEW signal \in Signals, NEW g \in 0 .. MaxInits, Shutdown(signal, g),
             closing' \in {"logs", "done"},
             UNCHANGED <<environment, cancelled, stream, initVars, logVars>>
      PROVE  TypeOK'
  <2>1. /\ provider' \in [Signals -> [Generations -> {"none", "open", "shut"}]]
        /\ exporterShut' \subseteq Signals /\ inTime' \in BOOLEAN /\ slow' \in BOOLEAN
    BY <1>5, ShutdownEffect
  <2>2. QED
    BY <1>5, <2>1 DEF initVars, logVars, TypeOK
<1>6. CASE CloseSpans
  BY <1>5, <1>6 DEF CloseSpans, Signals, TypeOK
<1>7. CASE CloseMetrics
  BY <1>5, <1>7 DEF CloseMetrics, Signals, Held, TypeOK
<1>8. QED
  BY <1>1, <1>2, <1>3, <1>4, <1>6, <1>7, InitializeTyped, StreamTyped, CloseLogsTyped, ExportTyped
  DEF Next

---------------------------------------------------------------------------
(* The providers and Close.                                                *)

ProvidersSame == UNCHANGED <<inits, chained, closeCtx, registered, provider, exporterShut>>

LEMMA WiredStays == ASSUME Wired, ProvidersSame PROVE Wired'
BY DEF Wired, ProvidersSame

LEMMA WiredThroughShutdown ==
  ASSUME TypeOK, Wired, NEW signal \in Signals, NEW g \in 0 .. MaxInits, Shutdown(signal, g),
         UNCHANGED <<inits, chained, closeCtx, registered>>
  PROVE  Wired'
<1>1. \A s \in Signals, h \in Generations :
        \/ provider'[s][h] = provider[s][h]
        \/ s = signal /\ h = g /\ g # 0 /\ provider[s][h] = "open" /\ provider'[s][h] = "shut"
           /\ exporterShut' = exporterShut \union {s}
  <2>1. SUFFICES ASSUME NEW s \in Signals, NEW h \in Generations
                 PROVE  \/ provider'[s][h] = provider[s][h]
                        \/ s = signal /\ h = g /\ g # 0 /\ provider[s][h] = "open"
                           /\ provider'[s][h] = "shut" /\ exporterShut' = exporterShut \union {s}
    OBVIOUS
  <2>2. CASE s # signal
    BY <2>2, ShutdownEffect
  <2>3. CASE s = signal /\ h # g
    BY <2>3, ShutdownEffect
  <2>4. CASE s = signal /\ h = g
    BY <2>4, ShutdownEffect
  <2>5. QED
    BY <2>2, <2>3, <2>4
<1>2. exporterShut \subseteq exporterShut'
  BY ShutdownEffect
<1>3. ASSUME NEW s \in Held, closeCtx[s] # 0 PROVE provider'[s][closeCtx[s]] # "none"
  <2>1. s \in Signals /\ closeCtx[s] \in Generations /\ provider[s][closeCtx[s]] # "none"
    BY <1>3, StateTyped DEF Wired, Generations
  <2>2. QED
    BY <1>1, <2>1
<1>4. ASSUME NEW h \in Generations, h > inits, NEW s \in Signals PROVE provider'[s][h] = "none"
  BY <1>1, <1>4 DEF Wired
<1>5. ASSUME NEW h \in Generations, provider'["logs"][h] = "shut" PROVE "logs" \in exporterShut'
  <2>1. "logs" \in Signals
    BY DEF Signals
  <2>2. QED
    BY <1>1, <1>2, <1>5, <2>1 DEF Wired
<1>6. QED
  BY <1>3, <1>4, <1>5 DEF Wired

LEMMA WiredByInit ==
  ASSUME TypeOK, Wired, NEW detect \in BOOLEAN, NEW chain \in BOOLEAN, Initialize(detect, chain)
  PROVE  Wired'
<1> DEFINE on == {signal \in Signals : detect /\ Exporter(signal) # "none"}
           ctx == IF chain THEN closeCtx ELSE NoProviders
           new == inits + 1
<1>1. /\ inits \in Nat /\ new \in Generations /\ new # 0 /\ inits' = inits + 1 /\ new = inits + 1
      /\ \A g \in Generations : g \in Nat
      /\ \A s \in Held : s \in Signals /\ closeCtx[s] \in Nat /\ closeCtx[s] <= inits
                         /\ registered[s] \in Seq(Generations) /\ Len(registered[s]) \in Nat
                         /\ Len(registered[s]) <= inits
                         /\ (registered[s] = <<>> <=> Len(registered[s]) = 0)
  BY StateTyped, LenProperties, EmptySeq DEF Initialize, Generations, Wired
<1>2. /\ chained' = (chained /\ (chain \/ inits = 0))
      /\ \A s \in Held : /\ closeCtx'[s] = IF s \in on THEN new ELSE ctx[s]
                         /\ registered'[s] = IF s \in on THEN Append(registered[s], new)
                                                         ELSE registered[s]
      /\ \A s \in Signals, g \in Generations :
           provider'[s][g] = IF g = new /\ s \in on THEN "open" ELSE provider[s][g]
      /\ exporterShut' = exporterShut
  BY DEF Initialize, ContextWith, Registered, TypeOK
<1> HIDE DEF on, new
<1>3. \A s \in Held : ctx[s] = (IF chain THEN closeCtx[s] ELSE 0) /\ ctx[s] \in Nat /\ ctx[s] <= inits
  BY <1>1 DEF NoProviders
<1> HIDE DEF ctx
<1>4. ASSUME NEW s \in Held
      PROVE  /\ closeCtx'[s] <= inits' /\ Len(registered'[s]) <= inits'
             /\ s \in on => /\ closeCtx'[s] = new /\ registered'[s] # <<>>
                            /\ Last(registered'[s]) = new
  <2>1. CASE s \in on
    <3>1. /\ Append(registered[s], new) \in Seq(Generations)
          /\ Len(Append(registered[s], new)) = Len(registered[s]) + 1
          /\ Append(registered[s], new)[Len(registered[s]) + 1] = new
          /\ Append(registered[s], new) # <<>>
      BY <1>1, AppendProperties
    <3>2. closeCtx'[s] = new /\ registered'[s] = Append(registered[s], new)
      BY <1>2, <2>1
    <3>3. Len(registered'[s]) <= inits' /\ registered'[s] # <<>>
      BY <1>1, <3>1, <3>2
    <3>4. Last(registered'[s]) = new
      BY <3>1, <3>2 DEF Last
    <3>5. QED
      BY <1>1, <3>2, <3>3, <3>4
  <2>2. CASE s \notin on
    BY <1>1, <1>2, <1>3, <2>2
  <2>3. QED
    BY <2>1, <2>2
<1>5. ASSUME NEW g \in Generations, g > inits', NEW s \in Signals PROVE provider'[s][g] = "none"
  BY <1>1, <1>2, <1>5 DEF Wired, new
<1>6. ASSUME NEW s \in Held, closeCtx'[s] # 0 PROVE provider'[s][closeCtx'[s]] # "none"
  <2>1. CASE s \in on
    BY <1>1, <1>2, <2>1
  <2>2. CASE s \notin on
    <3>1. closeCtx'[s] = closeCtx[s]
      BY <1>2, <1>3, <1>6, <2>2
    <3>2. closeCtx[s] \in Generations
      BY <1>1, <1>6, <3>1, StateTyped DEF Generations
    <3>3. QED
      BY <1>1, <1>2, <1>6, <2>2, <3>1, <3>2 DEF Wired
  <2>3. QED
    BY <2>1, <2>2
<1>7. ASSUME chained', NEW s \in Held
      PROVE  closeCtx'[s] = IF registered'[s] = <<>> THEN 0 ELSE Last(registered'[s])
  <2>1. CASE s \in on
    BY <1>4, <2>1
  <2>2. CASE s \notin on
    <3>1. closeCtx'[s] = ctx[s] /\ registered'[s] = registered[s] /\ chained /\ (chain \/ inits = 0)
      BY <1>2, <1>7, <2>2
    <3>2. closeCtx[s] = IF registered[s] = <<>> THEN 0 ELSE Last(registered[s])
      BY <3>1 DEF Wired
    <3>3. ctx[s] = closeCtx[s]
      BY <1>1, <1>3, <3>1
    <3>4. QED
      BY <3>1, <3>2, <3>3
  <2>3. QED
    BY <2>1, <2>2
<1>8. ASSUME NEW g \in Generations, provider'["logs"][g] = "shut" PROVE "logs" \in exporterShut'
  BY <1>2, <1>8 DEF Wired, Signals
<1>9. QED
  BY <1>4, <1>5, <1>6, <1>7, <1>8 DEF Wired

(* Steps that are not of Init or of Close leave the providers alone. *)
LEMMA OthersLeaveProviders ==
  ASSUME TypeOK, \/ UNCHANGED vars \/ CallerCancels \/ OpenStream \/ Write \/ CloseStream
                 \/ ForwardLog \/ \E g \in Generations : ExportLogs(g)
  PROVE  ProvidersSame /\ UNCHANGED <<closing, inTime, slow>>
BY DEF vars, initVars, closeVars, CallerCancels, OpenStream, Write, CloseStream, ForwardLog,
       ExportLogs, ProvidersSame

LEMMA WiredStep == ASSUME TypeOK, Wired, [Next]_vars PROVE Wired'
<1>1. CASE CloseSpans
  <2>1. Shutdown("spans", inits) /\ UNCHANGED initVars /\ "spans" \in Signals /\ inits \in 0 .. MaxInits
    BY <1>1 DEF CloseSpans, Signals, TypeOK
  <2>2. QED
    BY <2>1, WiredThroughShutdown DEF initVars
<1>2. CASE CloseLogs
  BY <1>2, CloseLogsEffect, WiredThroughShutdown
<1>3. CASE CloseMetrics
  <2>1. /\ Shutdown("metrics", closeCtx["metrics"]) /\ UNCHANGED initVars
        /\ "metrics" \in Signals /\ closeCtx["metrics"] \in 0 .. MaxInits
    BY <1>3 DEF CloseMetrics, Signals, Held, TypeOK
  <2>2. QED
    BY <2>1, WiredThroughShutdown DEF initVars
<1>4. CASE Close
  BY <1>4, WiredStays DEF Close, initVars, ProvidersSame
<1>5. QED
  BY <1>1, <1>2, <1>3, <1>4, WiredByInit, OthersLeaveProviders, WiredStays DEF Next

LEMMA ClosingStep == ASSUME TypeOK, Wired, Closing, [Next]_vars PROVE Closing'
<1>1. CASE closing' \in {"no", "spans", "logs"}
  BY <1>1 DEF Closing
<1>2. ASSUME TRUE PROVE "logs" \in Signals /\ "metrics" \in Signals /\ "logs" \in Held /\ "metrics" \in Held
  BY DEF Signals, Held
<1>3. CASE CloseLogs
  <2> DEFINE g == closeCtx["logs"]
  <2>1. /\ g \in 0 .. MaxInits /\ Shutdown("logs", g) /\ closing' = "metrics"
        /\ closeCtx' = closeCtx
    BY <1>3, CloseLogsEffect
  <2>2. ASSUME g # 0 PROVE provider'["logs"][g] = "shut"
    <3>1. g \in Generations
      BY <2>1, <2>2 DEF Generations
    <3>2. provider["logs"][g] \in {"open", "shut"}
      BY <1>2, <2>2, <3>1, StateTyped DEF Wired
    <3>3. CASE provider["logs"][g] = "open"
      BY <1>2, <2>1, <2>2, <3>3, ShutdownEffect
    <3>4. CASE provider["logs"][g] = "shut"
      BY <1>2, <2>1, <3>4, ShutdownEffect
    <3>5. QED
      BY <3>2, <3>3, <3>4
  <2>3. QED
    BY <2>1, <2>2 DEF Closing, Closed
<1>4. CASE CloseMetrics
  <2> DEFINE g == closeCtx["metrics"]
  <2>1. /\ g \in 0 .. MaxInits /\ Shutdown("metrics", g) /\ closing = "metrics"
        /\ closeCtx' = closeCtx
    BY <1>2, <1>4 DEF CloseMetrics, initVars, TypeOK
  <2>2. ASSUME g # 0 PROVE provider'["metrics"][g] = "shut"
    <3>1. g \in Generations
      BY <2>1, <2>2 DEF Generations
    <3>2. provider["metrics"][g] \in {"open", "shut"}
      BY <1>2, <2>2, <3>1, StateTyped DEF Wired
    <3>3. CASE provider["metrics"][g] = "open"
      BY <1>2, <2>1, <2>2, <3>3, ShutdownEffect
    <3>4. CASE provider["metrics"][g] = "shut"
      BY <1>2, <2>1, <3>4, ShutdownEffect
    <3>5. QED
      BY <3>2, <3>3, <3>4
  <2>3. provider'["logs"] = provider["logs"]
    BY <1>2, <2>1, ShutdownEffect
  <2>4. QED
    BY <2>1, <2>2, <2>3 DEF Closing, Closed
<1>5. CASE ProvidersSame /\ UNCHANGED <<closing, inTime, slow>>
  BY <1>5 DEF ProvidersSame, Closing, Closed
<1>6. CASE \/ Close \/ CloseSpans \/ \E detect, chain \in BOOLEAN : Initialize(detect, chain)
  BY <1>1, <1>6 DEF Close, CloseSpans, Initialize
<1>7. QED
  BY <1>3, <1>4, <1>5, <1>6, OthersLeaveProviders DEF Next

LEMMA TimelyStep == ASSUME TypeOK, Timely, [Next]_vars PROVE Timely'
<1>1. CASE UNCHANGED <<inTime, slow, lost>>
  BY <1>1 DEF Timely
<1>2. CASE Close
  BY <1>2 DEF Close, Timely, initVars, logVars
<1>3. CASE Write \/ CloseStream
  <2>1. PICK r \in Record : Emit({stream.logger} \ {0}, r)
    BY <1>3, StreamEmits, LinesAreRecords
  <2>2. (\A l \in lost' \ lost : l.why = "full") /\ UNCHANGED <<inTime, slow>>
    BY <1>3, <2>1, StreamEmits, EmitTyped
  <2>3. QED
    BY <2>2 DEF Timely
<1>4. ASSUME NEW g \in Generations, ExportLogs(g) PROVE Timely'
  <2>1. (\A l \in lost' \ lost : l.why = "shut") /\ UNCHANGED <<inTime, slow>>
    BY <1>4, DeliverTyped DEF ExportLogs, closeVars
  <2>2. QED
    BY <2>1 DEF Timely
<1>5. ASSUME NEW signal \in Signals, NEW g \in 0 .. MaxInits, Shutdown(signal, g),
             \A l \in lost' \ lost : l.why = "deadline" => ~ inTime'
      PROVE  Timely'
  <2>1. (slow => slow') /\ (~ inTime' => slow')
    BY <1>5, ShutdownEffect DEF Timely
  <2>2. QED
    BY <1>5, <2>1 DEF Timely
<1>6. CASE CloseSpans
  <2>1. Shutdown("spans", inits) /\ "spans" \in Signals /\ inits \in 0 .. MaxInits /\ lost' = lost
    BY <1>6 DEF CloseSpans, Signals, TypeOK, logVars
  <2>2. QED
    BY <1>5, <2>1
<1>7. CASE CloseMetrics
  <2>1. /\ Shutdown("metrics", closeCtx["metrics"]) /\ lost' = lost
        /\ "metrics" \in Signals /\ closeCtx["metrics"] \in 0 .. MaxInits
    BY <1>7 DEF CloseMetrics, Signals, Held, TypeOK, logVars
  <2>2. QED
    BY <1>5, <2>1
<1>8. CASE CloseLogs
  <2> DEFINE g == closeCtx["logs"]
  <2>1. \A l \in lost' \ lost : l.why = "deadline" => ~ inTime'
    <3>1. CASE lost' = lost
      BY <3>1
    <3>2. CASE /\ g \in Generations /\ inTime' \in BOOLEAN
               /\ Deliver(g, inTime', IF "logs" \in exporterShut THEN "shut" ELSE "deadline")
      <4>1. CASE "logs" \in exporterShut
        BY <3>2, <4>1, DeliverTyped
      <4>2. CASE "logs" \notin exporterShut
        BY <3>2, <4>2, DeliverTyped
      <4>3. QED
        BY <4>1, <4>2
    <3>3. QED
      BY <1>8, <3>1, <3>2, CloseLogsEffect
  <2>2. QED
    BY <1>5, <1>8, <2>1, CloseLogsEffect
<1>9. CASE \/ UNCHANGED vars \/ CallerCancels \/ OpenStream \/ ForwardLog
           \/ \E detect, chain \in BOOLEAN : Initialize(detect, chain)
  BY <1>1, <1>9 DEF vars, closeVars, logVars, CallerCancels, OpenStream, ForwardLog, Initialize
<1>10. QED
  BY <1>2, <1>3, <1>4, <1>6, <1>7, <1>8, <1>9 DEF Next

---------------------------------------------------------------------------
(* The stream and its records.                                             *)

(* Line n was received, or pushed out of a full queue. *)
Gone(n) == Has(received, Line(n)) \/ [record |-> Line(n), why |-> "full"] \in lost

(* A stream has the logger of an Init that was; only a processor whose provider
   was made holds records; and the end of the stream is not sent before it is
   closed.                                                                  *)
Streamed ==
  /\ stream.logger <= inits
  /\ stream.logger # 0 => provider["logs"][stream.logger] # "none"
  /\ stream.state = "none" => stream.logger = 0 /\ stream.written = 0
  /\ \A g \in Generations : queue[g] # <<>> => provider["logs"][g] # "none"
  /\ \A g \in Generations : \A i \in DOMAIN queue[g] :
       queue[g][i] = Eof => stream.state = "closed"
  /\ Has(received, Eof) => stream.state = "closed"

(* While the exporter takes records, a line is still queued or it is gone. *)
Kept ==
  \/ stream.logger = 0 \/ "logs" \in exporterShut
  \/ \A n \in 1 .. stream.written : Has(queue[stream.logger], Line(n)) \/ Gone(n)

(* The lines that are still queued are queued before the end of the stream. *)
EofLastInQueue ==
  "logs" \notin exporterShut =>
    \A g \in Generations : \A i \in DOMAIN queue[g] : queue[g][i] = Eof =>
      \A n \in 1 .. stream.written : (\E j \in 1 .. i : queue[g][j] = Line(n)) \/ Gone(n)

EofLastSent ==
  \A i \in DOMAIN received : received[i] = Eof =>
    \A n \in 1 .. stream.written :
      \/ \E j \in 1 .. i : received[j] = Line(n)
      \/ [record |-> Line(n), why |-> "full"] \in lost

---------------------------------------------------------------------------
(* The steps of the log records, with what each leaves of queue g.         *)

(* k = 1: the oldest record was pushed out. *)
Pushed(g, r) ==
  \E k \in {0, 1} :
    /\ Len(queue'[g]) = Len(queue[g]) + 1 - k
    /\ \A i \in 1 .. Len(queue[g]) - k : queue'[g][i] = queue[g][i + k]
    /\ queue'[g][Len(queue'[g])] = r
    /\ k = 1 => Len(queue[g]) >= 1 /\ [record |-> queue[g][1], why |-> "full"] \in lost'

LEMMA EmitPushes ==
  ASSUME TypeOK, NEW targets \in SUBSET Generations, NEW r \in Record, Emit(targets, r),
         NEW g \in Generations
  PROVE  /\ g \in targets /\ provider["logs"][g] = "open" => Pushed(g, r)
         /\ ~ (g \in targets /\ provider["logs"][g] = "open") => queue'[g] = queue[g]
<1>1. /\ queue'[g] = IF g \in targets THEN Enqueued(g, r) ELSE queue[g]
      /\ lost' = lost \union Overflown(targets)
  BY DEF Emit
<1>2. /\ queue[g] \in Seq(Record) /\ Len(queue[g]) \in Nat /\ Len(queue[g]) <= QueueSize
      /\ QueueSize \in Nat \ {0}
  BY LenProperties, ProvidersAssumption DEF TypeOK
<1>3. CASE ~ (g \in targets /\ provider["logs"][g] = "open")
  BY <1>1, <1>3 DEF Enqueued
<1>4. CASE g \in targets /\ provider["logs"][g] = "open" /\ Len(queue[g]) < QueueSize
  <2>1. queue'[g] = Append(queue[g], r)
    BY <1>1, <1>4 DEF Enqueued
  <2>2. /\ Len(Append(queue[g], r)) = Len(queue[g]) + 1
        /\ \A i \in 1 .. Len(queue[g]) : Append(queue[g], r)[i] = queue[g][i]
        /\ Append(queue[g], r)[Len(queue[g]) + 1] = r
    BY <1>2, AppendProperties
  <2>3. Pushed(g, r)
    <3>1. /\ Len(queue'[g]) = Len(queue[g]) + 1 - 0
          /\ \A i \in 1 .. Len(queue[g]) - 0 : queue'[g][i] = queue[g][i + 0]
          /\ queue'[g][Len(queue'[g])] = r
      BY <1>2, <2>1, <2>2
    <3>2. QED
      BY <3>1 DEF Pushed
  <2>4. QED
    BY <1>4, <2>3
<1>5. CASE g \in targets /\ provider["logs"][g] = "open" /\ ~ (Len(queue[g]) < QueueSize)
  <2> DEFINE t == Tail(queue[g])
  <2>1. queue[g] # <<>> /\ Len(queue[g]) = QueueSize /\ Len(queue[g]) >= 1
    BY <1>2, <1>5, EmptySeq
  <2>2. /\ t \in Seq(Record) /\ Len(t) = Len(queue[g]) - 1
        /\ \A i \in 1 .. Len(queue[g]) - 1 : t[i] = queue[g][i + 1]
        /\ Head(queue[g]) = queue[g][1]
    BY <1>2, <2>1, HeadTailProperties
  <2>3. queue'[g] = Append(t, r)
    BY <1>1, <1>5 DEF Enqueued
  <2> HIDE DEF t
  <2>4. /\ Len(Append(t, r)) = Len(t) + 1
        /\ \A i \in 1 .. Len(t) : Append(t, r)[i] = t[i]
        /\ Append(t, r)[Len(t) + 1] = r
    BY <2>2, AppendProperties
  <2>5. [record |-> queue[g][1], why |-> "full"] \in lost'
    BY <1>1, <1>5, <2>1, <2>2 DEF Overflown
  <2>6. Pushed(g, r)
    <3>1. /\ Len(queue'[g]) = Len(queue[g]) + 1 - 1
          /\ \A i \in 1 .. Len(queue[g]) - 1 : queue'[g][i] = queue[g][i + 1]
          /\ queue'[g][Len(queue'[g])] = r
      BY <1>2, <2>2, <2>3, <2>4
    <3>2. QED
      BY <2>1, <2>5, <3>1 DEF Pushed
  <2>7. QED
    BY <1>5, <2>6
<1>6. QED
  BY <1>3, <1>4, <1>5

(* The stream's record goes into the queue of its logger and into no other. *)
Streams(r) ==
  /\ stream.state = "open" /\ stream'.logger = stream.logger
  /\ UNCHANGED <<forwarded, received, provider, exporterShut, inits>>
  /\ lost \subseteq lost'
  /\ \A g \in Generations :
       \/ g = stream.logger /\ provider["logs"][g] = "open" /\ Pushed(g, r)
       \/ ~ (g = stream.logger /\ provider["logs"][g] = "open") /\ queue'[g] = queue[g]

LEMMA StreamPushes ==
  ASSUME TypeOK, Write \/ CloseStream
  PROVE  \/ /\ Streams(Line(stream.written + 1)) /\ stream'.state = "open"
            /\ stream'.written = stream.written + 1 /\ stream.written + 1 \in 1 .. MaxWrites
         \/ /\ Streams(Eof) /\ stream'.state = "closed" /\ stream'.written = stream.written
<1> DEFINE targets == {stream.logger} \ {0}
<1>1. targets \in SUBSET Generations /\ 0 \notin Generations
  BY StreamEmits DEF Generations
<1>2. ASSUME NEW r \in Record, Emit(targets, r) PROVE Streams(r)
  <2>1. lost \subseteq lost' /\ UNCHANGED <<forwarded, received>>
    BY <1>1, <1>2, EmitTyped
  <2>2. \A g \in Generations :
          \/ g = stream.logger /\ provider["logs"][g] = "open" /\ Pushed(g, r)
          \/ ~ (g = stream.logger /\ provider["logs"][g] = "open") /\ queue'[g] = queue[g]
    BY <1>1, <1>2, EmitPushes
  <2>3. QED
    BY <2>1, <2>2, StreamEmits DEF Streams
<1>3. QED
  BY <1>2, StreamEmits, LinesAreRecords

(* A batch leaves queue g.  When the exporter does not get it, the exporter is
   shut down, now at the latest.                                            *)
Batch(g) ==
  /\ UNCHANGED <<stream, inits, forwarded>>
  /\ queue'[g] = <<>> /\ \A h \in Generations \ {g} : queue'[h] = queue[h]
  /\ lost \subseteq lost' /\ exporterShut \subseteq exporterShut'
  /\ \/ "logs" \notin exporterShut /\ received' = received \o queue[g]
     \/ "logs" \in exporterShut' /\ received' = received

LEMMA ExportBatch == ASSUME TypeOK, NEW g \in Generations, ExportLogs(g) PROVE Batch(g)
<1>1. Deliver(g, TRUE, "shut") /\ UNCHANGED <<stream, inits, exporterShut>>
  BY DEF ExportLogs, initVars
<1>2. QED
  BY <1>1, DeliverTyped DEF Batch

LEMMA CloseBatch ==
  ASSUME TypeOK, CloseLogs
  PROVE  \/ UNCHANGED <<queue, forwarded, received, lost, stream>>
         \/ \E g \in Generations : Batch(g)
<1> DEFINE g == closeCtx["logs"]
<1>1. CASE UNCHANGED <<queue, forwarded, received, lost>>
  BY <1>1, CloseLogsEffect
<1>2. CASE /\ g \in Generations /\ g # 0 /\ provider["logs"][g] = "open" /\ inTime' \in BOOLEAN
           /\ Deliver(g, inTime', IF "logs" \in exporterShut THEN "shut" ELSE "deadline")
  <2>1. UNCHANGED <<stream, inits>> /\ exporterShut' = exporterShut \union {"logs"}
    BY <1>2, CloseLogsEffect, ShutdownEffect
  <2>2. PICK why \in {"shut", "deadline"} : Deliver(g, inTime', why)
    BY <1>2
  <2>3. Batch(g)
    BY <1>2, <2>1, <2>2, DeliverTyped DEF Batch
  <2>4. QED
    BY <1>2, <2>3
<1>3. QED
  BY <1>1, <1>2, CloseLogsEffect

LogStill == UNCHANGED <<queue, forwarded, received, lost, stream>>

(* What a step does to the log records is one of these. *)
LEMMA LogSteps ==
  ASSUME TypeOK, [Next]_vars
  PROVE  \/ LogStill \/ OpenStream \/ Write \/ CloseStream \/ ForwardLog
         \/ \E g \in Generations : Batch(g)
<1>1. ASSUME \/ UNCHANGED vars \/ CallerCancels \/ Close \/ CloseSpans \/ CloseMetrics
             \/ \E detect, chain \in BOOLEAN : Initialize(detect, chain)
      PROVE  LogStill
  BY <1>1 DEF vars, logVars, CallerCancels, Close, CloseSpans, CloseMetrics, Initialize, LogStill
<1>2. QED
  BY <1>1, ExportBatch, CloseBatch DEF Next, LogStill

(* What never goes back. *)
LEMMA Monotone ==
  ASSUME TypeOK, Wired, [Next]_vars
  PROVE  /\ inits <= inits' /\ lost \subseteq lost' /\ exporterShut \subseteq exporterShut'
         /\ \A g \in Generations : provider["logs"][g] # "none" => provider'["logs"][g] # "none"
<1>1. "logs" \in Signals /\ inits \in Nat
  BY StateTyped DEF Signals
<1>2. lost \subseteq lost'
  <2>1. CASE LogStill \/ OpenStream \/ ForwardLog
    BY <2>1 DEF LogStill, OpenStream, ForwardLog, logVars
  <2>2. QED
    BY <2>1, LogSteps, StreamPushes DEF Streams, Batch
<1>4. CASE ProvidersSame
  BY <1>1, <1>2, <1>4 DEF ProvidersSame
<1>3. ASSUME NEW signal \in Signals, NEW g \in 0 .. MaxInits, Shutdown(signal, g), inits' = inits
      PROVE  /\ inits <= inits' /\ exporterShut \subseteq exporterShut'
             /\ \A h \in Generations : provider["logs"][h] # "none" => provider'["logs"][h] # "none"
  <2>1. ASSUME NEW h \in Generations, provider["logs"][h] # "none"
        PROVE  provider'["logs"][h] # "none"
    <3>1. CASE signal = "logs" /\ h = g
      BY <1>3, <2>1, <3>1, ShutdownEffect
    <3>2. CASE signal = "logs" /\ h # g
      BY <1>3, <2>1, <3>2, ShutdownEffect
    <3>3. CASE signal # "logs"
      BY <1>1, <1>3, <2>1, <3>3, ShutdownEffect
    <3>4. QED
      BY <3>1, <3>2, <3>3
  <2>2. QED
    BY <1>1, <1>3, <2>1, ShutdownEffect
<1>5. CASE CloseSpans
  <2>1. Shutdown("spans", inits) /\ "spans" \in Signals /\ inits \in 0 .. MaxInits /\ inits' = inits
    BY <1>5 DEF CloseSpans, Signals, TypeOK, initVars
  <2>2. QED
    BY <1>2, <1>3, <2>1
<1>6. CASE CloseMetrics
  <2>1. /\ Shutdown("metrics", closeCtx["metrics"]) /\ inits' = inits
        /\ "metrics" \in Signals /\ closeCtx["metrics"] \in 0 .. MaxInits
    BY <1>6 DEF CloseMetrics, Signals, Held, TypeOK, initVars
  <2>2. QED
    BY <1>2, <1>3, <2>1
<1>7. CASE CloseLogs
  BY <1>2, <1>3, <1>7, CloseLogsEffect
<1>8. ASSUME NEW detect \in BOOLEAN, NEW chain \in BOOLEAN, Initialize(detect, chain)
      PROVE  /\ inits <= inits' /\ exporterShut \subseteq exporterShut'
             /\ \A g \in Generations : provider["logs"][g] # "none" => provider'["logs"][g] # "none"
  BY <1>1, <1>8 DEF Initialize, TypeOK
<1>9. CASE Close
  BY <1>4, <1>9 DEF Close, initVars, ProvidersSame
<1>10. QED
  BY <1>2, <1>4, <1>5, <1>6, <1>7, <1>8, <1>9, OthersLeaveProviders DEF Next

---------------------------------------------------------------------------
(* The stream's invariants, step by step.                                  *)

(* Indices of the queue before and after an emission. *)
LEMMA PushedFrom ==
  ASSUME TypeOK, TypeOK', NEW g \in Generations, NEW r, Pushed(g, r)
  PROVE  /\ queue'[g] # <<>> /\ Len(queue'[g]) \in DOMAIN queue'[g]
         /\ queue'[g][Len(queue'[g])] = r
         /\ \A i \in DOMAIN queue'[g] :
              i = Len(queue'[g]) \/ \E j \in DOMAIN queue[g] : queue'[g][i] = queue[g][j]
         /\ \A j \in DOMAIN queue[g] :
              \/ \E i \in DOMAIN queue'[g] : i < Len(queue'[g]) /\ queue'[g][i] = queue[g][j]
              \/ [record |-> queue[g][j], why |-> "full"] \in lost'
<1>1. /\ Len(queue[g]) \in Nat /\ DOMAIN queue[g] = 1 .. Len(queue[g])
      /\ Len(queue'[g]) \in Nat /\ DOMAIN queue'[g] = 1 .. Len(queue'[g])
      /\ (queue'[g] = <<>> => Len(queue'[g]) = 0)
  BY LenProperties, EmptySeq DEF TypeOK
<1>2. PICK k \in {0, 1} :
        /\ Len(queue'[g]) = Len(queue[g]) + 1 - k
        /\ \A i \in 1 .. Len(queue[g]) - k : queue'[g][i] = queue[g][i + k]
        /\ queue'[g][Len(queue'[g])] = r
        /\ k = 1 => Len(queue[g]) >= 1 /\ [record |-> queue[g][1], why |-> "full"] \in lost'
  BY DEF Pushed
<1>3. Len(queue'[g]) \in DOMAIN queue'[g] /\ queue'[g] # <<>>
  BY <1>1, <1>2
<1>4. ASSUME NEW i \in DOMAIN queue'[g], i # Len(queue'[g])
      PROVE  \E j \in DOMAIN queue[g] : queue'[g][i] = queue[g][j]
  <2>1. i \in 1 .. Len(queue[g]) - k /\ i + k \in DOMAIN queue[g]
    BY <1>1, <1>2, <1>4
  <2>2. QED
    BY <1>2, <2>1
<1>5. ASSUME NEW j \in DOMAIN queue[g]
      PROVE  \/ \E i \in DOMAIN queue'[g] : i < Len(queue'[g]) /\ queue'[g][i] = queue[g][j]
             \/ [record |-> queue[g][j], why |-> "full"] \in lost'
  <2>1. CASE k = 1 /\ j = 1
    BY <1>2, <2>1
  <2>2. CASE ~ (k = 1 /\ j = 1)
    <3>1. /\ j - k \in 1 .. Len(queue[g]) - k /\ j - k \in DOMAIN queue'[g]
          /\ j - k < Len(queue'[g]) /\ (j - k) + k = j
      BY <1>1, <1>2, <2>2
    <3>2. QED
      BY <1>2, <3>1
  <2>3. QED
    BY <2>1, <2>2
<1>6. QED
  BY <1>2, <1>3, <1>4, <1>5

(* A forwarded record comes after what is queued. *)
LEMMA ForwardedFrom ==
  ASSUME TypeOK, ForwardLog, NEW g \in Generations
  PROVE  /\ \A i \in DOMAIN queue'[g] :
              \/ i \in DOMAIN queue[g] /\ queue'[g][i] = queue[g][i]
              \/ i \notin DOMAIN queue[g] /\ queue'[g][i] = Other
         /\ \A i \in DOMAIN queue[g] : i \in DOMAIN queue'[g] /\ queue'[g][i] = queue[g][i]
         /\ provider["logs"][g] # "open" => queue'[g] = queue[g]
         /\ Len(queue'[g]) = Len(queue[g]) + Copies(g)
<1>1. /\ Len(queue[g]) \in Nat /\ DOMAIN queue[g] = 1 .. Len(queue[g]) /\ queue[g] \in Seq(Record)
      /\ Forwarded(g) \in Seq(Record) /\ queue'[g] = Forwarded(g) /\ Copies(g) \in Nat
      /\ DOMAIN queue'[g] = 1 .. Len(queue'[g]) /\ Len(queue'[g]) = Len(queue[g]) + Copies(g)
  BY LenProperties, ForwardedTyped, ForwardTyped, CopiesTyped DEF TypeOK
<1>2. /\ \A i \in 1 .. Len(queue[g]) : queue'[g][i] = queue[g][i]
      /\ \A i \in Len(queue[g]) + 1 .. Len(queue[g]) + Copies(g) : queue'[g][i] = Other
  BY <1>1, ForwardedTyped
<1>3. /\ \A i \in DOMAIN queue'[g] :
           \/ i \in DOMAIN queue[g] /\ queue'[g][i] = queue[g][i]
           \/ i \notin DOMAIN queue[g] /\ queue'[g][i] = Other
      /\ \A i \in DOMAIN queue[g] : i \in DOMAIN queue'[g] /\ queue'[g][i] = queue[g][i]
  BY <1>1, <1>2
<1>4. ASSUME provider["logs"][g] # "open" PROVE queue'[g] = queue[g]
  <2>1. Len(queue'[g]) = Len(queue[g])
    BY <1>1, <1>4, CopiesTyped
  <2>2. QED
    BY <1>1, <1>2, <2>1, SeqEqual
<1>5. QED
  BY <1>1, <1>3, <1>4

(* Indices of what was received before and after a batch. *)
LEMMA BatchFrom ==
  ASSUME TypeOK, TypeOK', NEW g \in Generations, received' = received \o queue[g]
  PROVE  /\ \A i \in DOMAIN received : i \in DOMAIN received' /\ received'[i] = received[i]
         /\ \A j \in DOMAIN queue[g] :
              /\ j + Len(received) \in DOMAIN received' \ DOMAIN received
              /\ received'[j + Len(received)] = queue[g][j]
         /\ \A i \in DOMAIN received' :
              \/ i \in DOMAIN received /\ received'[i] = received[i]
              \/ i - Len(received) \in DOMAIN queue[g] /\ received'[i] = queue[g][i - Len(received)]
         /\ \A i \in DOMAIN received' : i \in Nat /\ Len(received) \in Nat
         /\ DOMAIN received = 1 .. Len(received)
<1>1. /\ queue[g] \in Seq(Record) /\ received \in Seq(Record)
      /\ Len(queue[g]) \in Nat /\ DOMAIN queue[g] = 1 .. Len(queue[g])
      /\ Len(received) \in Nat /\ DOMAIN received = 1 .. Len(received)
  BY LenProperties DEF TypeOK
<1>2. /\ Len(received') = Len(received) + Len(queue[g])
      /\ \A i \in 1 .. Len(received) + Len(queue[g]) :
           received'[i] = IF i <= Len(received) THEN received[i] ELSE queue[g][i - Len(received)]
  BY <1>1, ConcatProperties
<1>3. DOMAIN received' = 1 .. Len(received')
  BY LenProperties DEF TypeOK
<1>4. \A j \in DOMAIN queue[g] :
        /\ j + Len(received) \in DOMAIN received' \ DOMAIN received
        /\ received'[j + Len(received)] = queue[g][j]
  <2>1. SUFFICES ASSUME NEW j \in DOMAIN queue[g]
                 PROVE  /\ j + Len(received) \in DOMAIN received' \ DOMAIN received
                        /\ received'[j + Len(received)] = queue[g][j]
    OBVIOUS
  <2>2. /\ j \in Nat /\ j >= 1 /\ j + Len(received) \in 1 .. Len(received) + Len(queue[g])
        /\ ~ (j + Len(received) <= Len(received)) /\ (j + Len(received)) - Len(received) = j
    BY <1>1
  <2>3. received'[j + Len(received)] = queue[g][j]
    BY <1>2, <2>2
  <2>4. QED
    BY <1>1, <1>2, <1>3, <2>2, <2>3
<1>5. QED
  BY <1>1, <1>2, <1>3, <1>4

LEMMA StreamedStep ==
  ASSUME TypeOK, TypeOK', Wired, Streamed, [Next]_vars
  PROVE  Streamed'
<1>1. inits <= inits' /\ (\A g \in Generations : provider["logs"][g] # "none" => provider'["logs"][g] # "none")
      /\ inits \in Nat /\ inits' \in Nat /\ stream.logger \in Nat
  BY Monotone, StateTyped DEF TypeOK
<1>2. stream.logger # 0 => stream.logger \in Generations
  BY StateTyped DEF Generations
<1>3. CASE LogStill
  BY <1>1, <1>2, <1>3 DEF LogStill, Streamed, Has
<1>4. CASE OpenStream
  <2>1. /\ stream.state = "none" /\ stream'.state = "open" /\ stream'.logger = closeCtx["logs"]
        /\ stream'.written = stream.written
        /\ UNCHANGED <<inits, queue, received, provider>> /\ "logs" \in Held
    BY <1>4 DEF OpenStream, initVars, logVars, TypeOK, Held
  <2>2. QED
    BY <2>1 DEF Streamed, Wired, Has
<1>5. ASSUME NEW r \in Record, Streams(r), stream'.state \in {"open", "closed"},
             r = Eof => stream'.state = "closed"
      PROVE  Streamed'
  <2>1. ASSUME NEW g \in Generations
        PROVE  /\ queue'[g] # <<>> => provider'["logs"][g] # "none"
               /\ \A i \in DOMAIN queue'[g] : queue'[g][i] = Eof => stream'.state = "closed"
    <3>1. CASE queue'[g] = queue[g]
      BY <1>1, <1>5, <3>1 DEF Streamed, Streams
    <3>2. CASE g = stream.logger /\ provider["logs"][g] = "open" /\ Pushed(g, r)
      BY <1>1, <1>5, <3>2, PushedFrom DEF Streamed, Streams
    <3>3. QED
      BY <1>5, <3>1, <3>2 DEF Streams
  <2>2. QED
    BY <1>1, <1>2, <1>5, <2>1 DEF Streamed, Streams, Has
<1>6. CASE Write \/ CloseStream
  <2>1. \E r \in Record : /\ Streams(r) /\ stream'.state \in {"open", "closed"}
                          /\ r = Eof => stream'.state = "closed"
    BY <1>6, StreamPushes, LinesAreRecords
  <2>2. QED
    BY <1>5, <2>1
<1>7. CASE ForwardLog
  <2>1. UNCHANGED <<stream, provider, inits, received>>
    BY <1>7 DEF ForwardLog, initVars
  <2>2. ASSUME NEW g \in Generations
        PROVE  /\ queue'[g] # <<>> => provider'["logs"][g] # "none"
               /\ \A i \in DOMAIN queue'[g] : queue'[g][i] = Eof => stream'.state = "closed"
    BY <1>7, <2>1, ForwardedFrom, LinesAreRecords DEF Streamed
  <2>3. QED
    BY <2>1, <2>2 DEF Streamed, Has
<1>8. ASSUME NEW g \in Generations, Batch(g) PROVE Streamed'
  <2>1. \A h \in Generations :
          /\ queue'[h] # <<>> => provider'["logs"][h] # "none"
          /\ \A i \in DOMAIN queue'[h] : queue'[h][i] = Eof => stream'.state = "closed"
    BY <1>1, <1>8 DEF Batch, Streamed
  <2>2. Has(received', Eof) => stream'.state = "closed"
    BY <1>8, BatchFrom DEF Batch, Streamed, Has
  <2>3. QED
    BY <1>1, <1>2, <1>8, <2>1, <2>2 DEF Batch, Streamed, Has
<1>9. QED
  BY <1>3, <1>4, <1>6, <1>7, <1>8, LogSteps

(* What is received or lost stays so. *)
LEMMA GoneStays ==
  ASSUME TypeOK, TypeOK', Wired, [Next]_vars
  PROVE  /\ \A x : Has(received, x) => Has(received', x)
         /\ \A n : Gone(n) => Gone(n)'
<1>1. \A x : Has(received, x) => Has(received', x)
  <2>1. CASE received' = received
    BY <2>1
  <2>2. ASSUME NEW g \in Generations, received' = received \o queue[g]
        PROVE  \A x : Has(received, x) => Has(received', x)
    BY <2>2, BatchFrom DEF Has
  <2>3. CASE LogStill \/ OpenStream \/ ForwardLog
    BY <2>1, <2>3 DEF LogStill, OpenStream, ForwardLog, logVars
  <2>4. QED
    BY <2>1, <2>2, <2>3, LogSteps, StreamPushes DEF Streams, Batch
<1>2. lost \subseteq lost'
  BY Monotone
<1>3. QED
  BY <1>1, <1>2 DEF Gone

LEMMA KeptStep ==
  ASSUME TypeOK, TypeOK', Wired, Streamed, Kept, [Next]_vars
  PROVE  Kept'
<1> DEFINE L == stream.logger
<1>1. /\ exporterShut \subseteq exporterShut' /\ lost \subseteq lost'
      /\ \A n : Gone(n) => Gone(n)'
  BY Monotone, GoneStays
<1>2. CASE "logs" \in exporterShut'
  BY <1>2 DEF Kept
<1>3. CASE L = 0 /\ stream'.logger = L
  BY <1>3 DEF Kept
<1>4. ASSUME "logs" \notin exporterShut', L # 0
      PROVE  /\ L \in Generations /\ provider["logs"][L] = "open"
             /\ \A n \in 1 .. stream.written : Has(queue[L], Line(n)) \/ Gone(n)
  <2>1. L \in Generations /\ "logs" \in Signals
    BY <1>4, StateTyped DEF Generations, Signals
  <2>2. QED
    BY <1>1, <1>4, <2>1, StateTyped DEF Kept, Streamed, Wired
<1>5. CASE LogStill
  BY <1>1, <1>5 DEF LogStill, Kept, Has
<1>6. CASE OpenStream
  <2>1. stream'.written = 0
    BY <1>6 DEF OpenStream, Streamed, TypeOK
  <2>2. QED
    BY <2>1 DEF Kept
<1>7. ASSUME NEW r, Streams(r), stream'.logger = L, L # 0, "logs" \notin exporterShut'
      PROVE  /\ Has(queue'[L], r)
             /\ \A n \in 1 .. stream.written : Has(queue'[L], Line(n)) \/ Gone(n)'
  <2>1. L \in Generations /\ Pushed(L, r)
    BY <1>4, <1>7 DEF Streams
  <2>2. Has(queue'[L], r)
    BY <2>1, PushedFrom DEF Has
  <2>3. ASSUME NEW n \in 1 .. stream.written, Has(queue[L], Line(n))
        PROVE  Has(queue'[L], Line(n)) \/ Gone(n)'
    <3>1. PICK j \in DOMAIN queue[L] : queue[L][j] = Line(n)
      BY <2>3 DEF Has
    <3>2. \/ \E i \in DOMAIN queue'[L] : i < Len(queue'[L]) /\ queue'[L][i] = queue[L][j]
          \/ [record |-> queue[L][j], why |-> "full"] \in lost'
      BY <2>1, PushedFrom
    <3>3. CASE \E i \in DOMAIN queue'[L] : i < Len(queue'[L]) /\ queue'[L][i] = queue[L][j]
      BY <3>1, <3>3 DEF Has
    <3>4. CASE [record |-> queue[L][j], why |-> "full"] \in lost'
      BY <3>1, <3>4 DEF Gone
    <3>5. QED
      BY <3>2, <3>3, <3>4
  <2>4. QED
    BY <1>1, <1>4, <1>7, <2>2, <2>3
<1>8. CASE Write \/ CloseStream
  <2>1. CASE L = 0 \/ "logs" \in exporterShut'
    BY <1>2, <1>3, <1>8, <2>1, StreamPushes DEF Streams
  <2>2. CASE L # 0 /\ "logs" \notin exporterShut'
    <3>1. CASE Streams(Eof) /\ stream'.written = stream.written
      BY <1>7, <2>2, <3>1 DEF Streams, Kept
    <3>2. CASE Streams(Line(stream.written + 1)) /\ stream'.written = stream.written + 1
      <4>1. /\ stream.written \in Nat
            /\ \A n \in 1 .. stream'.written : n \in 1 .. stream.written \/ n = stream.written + 1
        BY <3>2 DEF TypeOK
      <4>2. \A n \in 1 .. stream'.written : Has(queue'[L], Line(n)) \/ Gone(n)'
        BY <1>7, <2>2, <3>2, <4>1 DEF Streams
      <4>3. QED
        BY <3>2, <4>2 DEF Kept, Streams
    <3>3. QED
      BY <1>8, <3>1, <3>2, StreamPushes
  <2>3. QED
    BY <2>1, <2>2
<1>9. CASE ForwardLog
  <2>1. stream' = stream
    BY <1>9 DEF ForwardLog
  <2>2. ASSUME L # 0, "logs" \notin exporterShut'
        PROVE  \A n \in 1 .. stream.written : Has(queue'[L], Line(n)) \/ Gone(n)'
    BY <1>1, <1>4, <1>9, <2>2, ForwardedFrom DEF Has
  <2>3. QED
    BY <1>2, <1>3, <2>1, <2>2 DEF Kept
<1>10. ASSUME NEW g \in Generations, Batch(g) PROVE Kept'
  <2>1. stream' = stream
    BY <1>10 DEF Batch
  <2>2. ASSUME L # 0, "logs" \notin exporterShut'
        PROVE  \A n \in 1 .. stream.written : Has(queue'[L], Line(n)) \/ Gone(n)'
    <3>1. received' = received \o queue[g] /\ \A h \in Generations \ {g} : queue'[h] = queue[h]
      BY <1>10, <2>2 DEF Batch
    <3>2. CASE L # g
      BY <1>1, <1>4, <2>2, <3>1, <3>2
    <3>3. CASE L = g
      <4>1. ASSUME NEW n, Has(queue[g], Line(n)) PROVE Gone(n)'
        BY <3>1, <4>1, BatchFrom DEF Has, Gone
      <4>2. QED
        BY <1>1, <1>4, <2>2, <3>3, <4>1
    <3>4. QED
      BY <3>2, <3>3
  <2>3. QED
    BY <1>2, <1>3, <2>1, <2>2 DEF Kept
<1>11. QED
  BY <1>5, <1>6, <1>8, <1>9, <1>10, LogSteps

LEMMA EofQueueStep ==
  ASSUME TypeOK, TypeOK', Wired, Streamed, Kept, EofLastInQueue, [Next]_vars
  PROVE  EofLastInQueue'
<1> DEFINE L == stream.logger
<1>1. /\ exporterShut \subseteq exporterShut' /\ lost \subseteq lost'
      /\ \A n : Gone(n) => Gone(n)'
  BY Monotone, GoneStays
<1>2. SUFFICES ASSUME "logs" \notin exporterShut', NEW g \in Generations,
                      NEW i \in DOMAIN queue'[g], queue'[g][i] = Eof, NEW n \in 1 .. stream'.written
               PROVE  (\E j \in 1 .. i : queue'[g][j] = Line(n)) \/ Gone(n)'
  BY DEF EofLastInQueue
<1>3. ASSUME stream.state # "closed" PROVE \A j \in DOMAIN queue[g] : queue[g][j] # Eof
  BY <1>3 DEF Streamed
<1>4. CASE i \in DOMAIN queue[g] /\ (\A j \in 1 .. i : queue'[g][j] = queue[g][j])
           /\ stream'.written = stream.written
  <2>1. i \in 1 .. i
    BY <1>4, LenProperties DEF TypeOK
  <2>2. queue[g][i] = Eof
    BY <1>2, <1>4, <2>1
  <2>3. (\E j \in 1 .. i : queue[g][j] = Line(n)) \/ Gone(n)
    BY <1>1, <1>2, <1>4, <2>2 DEF EofLastInQueue
  <2>4. QED
    BY <1>1, <1>4, <2>3
<1>5. CASE LogStill
  BY <1>4, <1>5 DEF LogStill
<1>6. CASE OpenStream
  <2>1. queue' = queue /\ stream.state = "none"
    BY <1>6 DEF OpenStream, logVars
  <2>2. QED
    BY <1>2, <1>3, <2>1
<1>7. CASE Write \/ CloseStream
  <2>1. PICK r \in Record :
          /\ Streams(r) /\ stream.state = "open"
          /\ r # Eof \/ stream'.written = stream.written
    BY <1>7, StreamPushes, LinesAreRecords DEF Streams
  <2>2. queue'[g] # queue[g]
    BY <1>2, <1>3, <2>1
  <2>3. g = L /\ provider["logs"][g] = "open" /\ Pushed(g, r) /\ L # 0
    <3>1. g # 0
      BY DEF Generations
    <3>2. QED
      BY <2>1, <2>2, <3>1 DEF Streams
  <2>4. i = Len(queue'[g]) /\ r = Eof
    BY <1>2, <1>3, <2>1, <2>3, PushedFrom
  <2>5. "logs" \notin exporterShut /\ n \in 1 .. stream.written
    BY <1>1, <1>2, <2>1, <2>4
  <2>6. Has(queue[g], Line(n)) \/ Gone(n)
    BY <2>3, <2>5 DEF Kept
  <2>7. CASE Has(queue[g], Line(n))
    <3>1. PICK j \in DOMAIN queue[g] : queue[g][j] = Line(n)
      BY <2>7 DEF Has
    <3>2. \/ \E m \in DOMAIN queue'[g] : m < Len(queue'[g]) /\ queue'[g][m] = queue[g][j]
          \/ [record |-> queue[g][j], why |-> "full"] \in lost'
      BY <2>3, PushedFrom
    <3>3. CASE [record |-> queue[g][j], why |-> "full"] \in lost'
      BY <3>1, <3>3 DEF Gone
    <3>4. CASE \E m \in DOMAIN queue'[g] : m < Len(queue'[g]) /\ queue'[g][m] = queue[g][j]
      <4>1. PICK m \in DOMAIN queue'[g] : m < Len(queue'[g]) /\ queue'[g][m] = queue[g][j]
        BY <3>4
      <4>2. m \in 1 .. i
        BY <2>4, <4>1, LenProperties DEF TypeOK
      <4>3. QED
        BY <3>1, <4>1, <4>2
    <3>5. QED
      BY <3>2, <3>3, <3>4
  <2>8. QED
    BY <1>1, <2>6, <2>7
<1>8. CASE ForwardLog
  <2>1. stream' = stream
    BY <1>8 DEF ForwardLog
  <2>2. i \in DOMAIN queue[g]
    BY <1>2, <1>8, ForwardedFrom, LinesAreRecords
  <2>3. \A j \in 1 .. i : j \in DOMAIN queue[g]
    BY <2>2, LenProperties DEF TypeOK
  <2>4. QED
    BY <1>4, <1>8, <2>1, <2>2, <2>3, ForwardedFrom
<1>9. ASSUME NEW h \in Generations, Batch(h)
      PROVE  (\E j \in 1 .. i : queue'[g][j] = Line(n)) \/ Gone(n)'
  <2>1. g # h
    BY <1>9, EmptySeq DEF Batch
  <2>2. QED
    BY <1>4, <1>9, <2>1 DEF Batch
<1>10. QED
  BY <1>5, <1>6, <1>7, <1>8, <1>9, LogSteps

LEMMA EofSentStep ==
  ASSUME TypeOK, TypeOK', Wired, Streamed, EofLastInQueue, EofLastSent, [Next]_vars
  PROVE  EofLastSent'
<1>1. lost \subseteq lost'
  BY Monotone
<1>2. SUFFICES ASSUME NEW i \in DOMAIN received', received'[i] = Eof, NEW n \in 1 .. stream'.written
               PROVE  \/ \E j \in 1 .. i : received'[j] = Line(n)
                      \/ [record |-> Line(n), why |-> "full"] \in lost'
  BY DEF EofLastSent
<1>3. ASSUME stream.state # "closed" PROVE \A j \in DOMAIN received : received[j] # Eof
  BY <1>3 DEF Streamed, Has
<1>4. ASSUME i \in DOMAIN received, \A j \in DOMAIN received : received'[j] = received[j],
             stream'.written = stream.written
      PROVE  \/ \E j \in 1 .. i : received'[j] = Line(n)
             \/ [record |-> Line(n), why |-> "full"] \in lost'
  <2>1. received[i] = Eof /\ n \in 1 .. stream.written
    BY <1>2, <1>4
  <2>2. \/ \E j \in 1 .. i : received[j] = Line(n)
        \/ [record |-> Line(n), why |-> "full"] \in lost
    BY <1>4, <2>1 DEF EofLastSent
  <2>3. \A j \in 1 .. i : j \in DOMAIN received
    BY <1>4, LenProperties DEF TypeOK
  <2>4. QED
    BY <1>1, <1>4, <2>2, <2>3
<1>5. CASE received' = received
  <2>1. stream.state = "closed"
    BY <1>2, <1>3, <1>5
  <2>2. stream'.written = stream.written
    <3>1. CASE LogStill \/ ForwardLog
      BY <3>1 DEF LogStill, ForwardLog
    <3>2. CASE OpenStream
      BY <2>1, <3>2 DEF OpenStream
    <3>3. QED
      BY <2>1, <3>1, <3>2, LogSteps, StreamPushes DEF Streams, Batch
  <2>3. QED
    BY <1>4, <1>5, <2>2
<1>6. ASSUME NEW g \in Generations, Batch(g), received' # received
      PROVE  \/ \E j \in 1 .. i : received'[j] = Line(n)
             \/ [record |-> Line(n), why |-> "full"] \in lost'
  <2> DEFINE r == Len(received)
  <2>1. /\ "logs" \notin exporterShut /\ received' = received \o queue[g] /\ stream' = stream
        /\ r \in Nat /\ i \in Nat /\ DOMAIN received = 1 .. r
    BY <1>6, BatchFrom DEF Batch
  <2>2. \A j \in DOMAIN received : received'[j] = received[j]
    BY <2>1, BatchFrom
  <2>3. CASE i \in DOMAIN received
    BY <1>4, <2>1, <2>2, <2>3
  <2>4. CASE i \notin DOMAIN received
    <3>1. i - r \in DOMAIN queue[g] /\ queue[g][i - r] = Eof
      BY <1>2, <2>1, <2>4, BatchFrom
    <3>2. (\E j \in 1 .. i - r : queue[g][j] = Line(n)) \/ Gone(n)
      BY <1>2, <2>1, <3>1 DEF EofLastInQueue
    <3>3. CASE \E j \in 1 .. i - r : queue[g][j] = Line(n)
      <4>1. PICK j \in 1 .. i - r : queue[g][j] = Line(n)
        BY <3>3
      <4>2. j \in DOMAIN queue[g] /\ j + r \in 1 .. i
        BY <2>1, <3>1, <4>1, LenProperties DEF TypeOK
      <4>3. received'[j + r] = queue[g][j]
        BY <2>1, <4>2, BatchFrom
      <4>4. QED
        BY <4>1, <4>2, <4>3
    <3>4. CASE Has(received, Line(n))
      <4>1. PICK j \in DOMAIN received : received[j] = Line(n)
        BY <3>4 DEF Has
      <4>2. j \in 1 .. i
        BY <2>1, <2>4, <4>1, <3>1, LenProperties DEF TypeOK
      <4>3. QED
        BY <2>2, <4>1, <4>2
    <3>5. QED
      BY <1>1, <3>2, <3>3, <3>4 DEF Gone
  <2>5. QED
    BY <2>3, <2>4
<1>7. CASE LogStill \/ OpenStream \/ ForwardLog
  BY <1>5, <1>7 DEF LogStill, OpenStream, ForwardLog, logVars
<1>8. CASE Write \/ CloseStream
  BY <1>5, <1>8, StreamPushes DEF Streams
<1>9. QED
  BY <1>5, <1>6, <1>7, <1>8, LogSteps

---------------------------------------------------------------------------
(* The record of another process.                                          *)

AtMostOne(s) == \A i, j \in DOMAIN s : s[i] = Other /\ s[j] = Other => i = j

(* The list for forwarding holds an Init once at the most. *)
Listed ==
  LET list == registered["logs"]
  IN /\ \A i \in DOMAIN list : list[i] <= inits
     /\ \A i, j \in DOMAIN list : list[i] = list[j] => i = j

Copied  == {i \in DOMAIN received : received[i] = Other}
Waiting == {g \in Generations : Has(queue[g], Other)}

(* Every copy, received or queued, is of another Init of the list. *)
OneCopy ==
  /\ \A g \in Generations : AtMostOne(queue[g])
  /\ Cardinality(Copied) + Cardinality(Waiting) <= Cardinality(ToSet(registered["logs"]))
  /\ ~ forwarded => Copied = {} /\ Waiting = {}

LEMMA ListGrows ==
  ASSUME TypeOK, [Next]_vars
  PROVE  \/ registered'["logs"] = registered["logs"] /\ inits <= inits'
         \/ registered'["logs"] = Append(registered["logs"], inits + 1) /\ inits' = inits + 1
<1>1. inits \in Nat /\ "logs" \in Held
  BY StateTyped DEF Held
<1>2. CASE \E detect, chain \in BOOLEAN : Initialize(detect, chain)
  BY <1>1, <1>2 DEF Initialize, Registered
<1>3. CASE UNCHANGED initVars
  BY <1>1, <1>3 DEF initVars
<1>4. CASE UNCHANGED vars \/ CallerCancels \/ OpenStream \/ Write \/ CloseStream \/ ForwardLog
           \/ (\E g \in Generations : ExportLogs(g))
           \/ Close \/ CloseSpans \/ CloseLogs \/ CloseMetrics
  BY <1>3, <1>4 DEF vars, CallerCancels, OpenStream, Write, CloseStream, ForwardLog, ExportLogs,
                    Close, CloseSpans, CloseLogs, CloseMetrics
<1>5. QED
  BY <1>2, <1>4 DEF Next

LEMMA ListedStep == ASSUME TypeOK, TypeOK', Listed, [Next]_vars PROVE Listed'
<1> DEFINE list == registered["logs"]
<1>1. list \in Seq(Generations) /\ Len(list) \in Nat /\ DOMAIN list = 1 .. Len(list) /\ inits \in Nat
  BY StateTyped, LenProperties DEF Held
<1>2. \A i \in DOMAIN list : list[i] \in Nat /\ list[i] <= inits
  BY <1>1, ElementOfSeq, ProvidersAssumption DEF Listed, Generations
<1>3. \A i, j \in DOMAIN list : list[i] = list[j] => i = j
  BY DEF Listed
<1> HIDE DEF list
<1>4. CASE list' = list /\ inits <= inits'
  <2>1. inits' \in Nat
    BY ProvidersAssumption DEF TypeOK
  <2>2. \A i \in DOMAIN list : list[i] <= inits'
    BY <1>1, <1>2, <1>4, <2>1
  <2>3. QED
    BY <1>3, <1>4, <2>2 DEF Listed, list
<1>5. CASE list' = Append(list, inits + 1) /\ inits' = inits + 1
  <2> DEFINE n == Len(list)
  <2>1. /\ DOMAIN list' = 1 .. n + 1 /\ list'[n + 1] = inits + 1
        /\ \A i \in 1 .. n : list'[i] = list[i]
    BY <1>1, <1>5
  <2>2. \A i \in DOMAIN list' : list'[i] <= inits'
    BY <1>1, <1>2, <1>5, <2>1
  <2>3. \A i, j \in DOMAIN list' : list'[i] = list'[j] => i = j
    BY <1>1, <1>2, <1>3, <2>1
  <2>4. QED
    BY <2>2, <2>3 DEF Listed, list
<1>6. QED
  BY <1>4, <1>5, ListGrows DEF list

LEMMA CopiesOnce ==
  ASSUME TypeOK, Listed, NEW g \in Generations
  PROVE  Copies(g) <= 1 /\ (Copies(g) # 0 => g \in ToSet(registered["logs"]))
<1> DEFINE list == registered["logs"]
           at   == {i \in DOMAIN list : list[i] = g}
<1>1. \A i, j \in at : i = j
  BY DEF Listed
<1>2. Cardinality(at) \in {0, 1} /\ (Cardinality(at) # 0 => at # {})
  <2> HIDE DEF at
  <2>1. CASE at = {}
    BY <2>1, FS_EmptySet
  <2>2. CASE at # {}
    <3>1. PICK i : at = {i}
      BY <1>1, <2>2
    <3>2. QED
      BY <2>2, <3>1, FS_Singleton
  <2>3. QED
    BY <2>1, <2>2
<1>3. Copies(g) = IF provider["logs"][g] = "open" THEN Cardinality(at) ELSE 0
  BY DEF Copies
<1>4. at # {} => g \in ToSet(list)
  BY DEF ToSet
<1> HIDE DEF at
<1>5. QED
  BY <1>2, <1>3, <1>4

(* The sets that are counted are finite. *)
LEMMA Counted ==
  /\ \A S \in SUBSET Generations : IsFiniteSet(S) /\ Cardinality(S) \in Nat
  /\ \A s \in Seq(Record) : LET at == {i \in DOMAIN s : s[i] = Other}
                           IN IsFiniteSet(at) /\ Cardinality(at) \in Nat
<1>1. IsFiniteSet(Generations)
  BY FS_Interval, ProvidersAssumption DEF Generations
<1>2. ASSUME NEW s \in Seq(Record), NEW at, at = {i \in DOMAIN s : s[i] = Other}
      PROVE  IsFiniteSet(at) /\ Cardinality(at) \in Nat
  <2>1. Len(s) \in Nat /\ DOMAIN s = 1 .. Len(s)
    BY LenProperties
  <2>2. IsFiniteSet(1 .. Len(s)) /\ at \in SUBSET (1 .. Len(s))
    BY <1>2, <2>1, FS_Interval
  <2>3. QED
    BY <2>2, FS_Subset, FS_CardinalityType
<1>3. QED
  BY <1>1, <1>2, FS_Subset, FS_CardinalityType

LEMMA OneCopyStep ==
  ASSUME TypeOK, TypeOK', Listed, OneCopy, [Next]_vars
  PROVE  OneCopy'
<1> DEFINE list == ToSet(registered["logs"])
<1>1. /\ \A g \in Generations : AtMostOne(queue[g])
      /\ Cardinality(Copied) + Cardinality(Waiting) <= Cardinality(list)
      /\ ~ forwarded => Copied = {} /\ Waiting = {}
  BY DEF OneCopy
<1>2. /\ IsFiniteSet(Copied) /\ Cardinality(Copied) \in Nat
      /\ IsFiniteSet(Copied') /\ Cardinality(Copied') \in Nat
      /\ Waiting \in SUBSET Generations /\ IsFiniteSet(Waiting) /\ Cardinality(Waiting) \in Nat
      /\ Waiting' \in SUBSET Generations /\ IsFiniteSet(Waiting') /\ Cardinality(Waiting') \in Nat
  BY Counted DEF TypeOK, Copied, Waiting
<1>3. \A g \in Generations : /\ DOMAIN queue[g] = 1 .. Len(queue[g]) /\ Len(queue[g]) \in Nat
                             /\ DOMAIN queue'[g] = 1 .. Len(queue'[g]) /\ Len(queue'[g]) \in Nat
  BY LenProperties DEF TypeOK
<1>4. /\ list \subseteq list' /\ list' \in SUBSET Generations /\ IsFiniteSet(list')
      /\ Cardinality(list) <= Cardinality(list') /\ Cardinality(list) \in Nat
      /\ Cardinality(list') \in Nat
  <2>1. /\ registered["logs"] \in Seq(Generations) /\ registered'["logs"] \in Seq(Generations)
        /\ Len(registered["logs"]) \in Nat
    BY LenProperties DEF TypeOK, Held
  <2>2. list' = {registered'["logs"][i] : i \in DOMAIN registered'["logs"]}
    BY DEF ToSet
  <2>3. list = {registered["logs"][i] : i \in DOMAIN registered["logs"]}
    BY DEF ToSet
  <2>4. list \subseteq list'
    <3>1. CASE registered'["logs"] = registered["logs"]
      BY <2>2, <2>3, <3>1
    <3>2. CASE registered'["logs"] = Append(registered["logs"], inits + 1)
      BY <2>1, <2>2, <2>3, <3>2
    <3>3. QED
      BY <3>1, <3>2, ListGrows
  <2>5. list' \in SUBSET Generations
    BY <2>1, <2>2, ElementOfSeq, LenProperties
  <2> HIDE DEF list
  <2>6. QED
    BY <2>4, <2>5, Counted, FS_Subset
<1> HIDE DEF list
<1>5. ASSUME \A g \in Generations : AtMostOne(queue'[g]),
             Copied' = Copied, Waiting' \subseteq Waiting, forwarded' = forwarded
      PROVE  OneCopy'
  <2>1. Cardinality(Waiting') <= Cardinality(Waiting)
    BY <1>2, <1>5, FS_Subset
  <2>2. Cardinality(Copied') + Cardinality(Waiting') <= Cardinality(list')
    BY <1>1, <1>2, <1>4, <1>5, <2>1
  <2>3. ~ forwarded' => Copied' = {} /\ Waiting' = {}
    BY <1>1, <1>5
  <2>4. QED
    BY <1>5, <2>2, <2>3 DEF OneCopy, list
<1>6. CASE LogStill \/ OpenStream
  <2>1. UNCHANGED <<queue, forwarded, received>>
    BY <1>6 DEF LogStill, OpenStream, logVars
  <2>2. QED
    BY <1>1, <1>5, <2>1 DEF Copied, Waiting, Has
<1>7. ASSUME NEW r \in Record, r # Other, Streams(r) PROVE OneCopy'
  <2>1. ASSUME NEW g \in Generations, Pushed(g, r)
        PROVE  AtMostOne(queue'[g]) /\ (Has(queue'[g], Other) => Has(queue[g], Other))
    <3>1. PICK k \in {0, 1} :
            /\ Len(queue'[g]) = Len(queue[g]) + 1 - k
            /\ \A i \in 1 .. Len(queue[g]) - k : queue'[g][i] = queue[g][i + k]
            /\ queue'[g][Len(queue'[g])] = r
      BY <2>1 DEF Pushed
    <3>2. \A i \in DOMAIN queue'[g] : queue'[g][i] = Other =>
            i \in 1 .. Len(queue[g]) - k /\ i + k \in DOMAIN queue[g] /\ queue[g][i + k] = Other
      <4>1. SUFFICES ASSUME NEW i \in DOMAIN queue'[g], queue'[g][i] = Other
                     PROVE  /\ i \in 1 .. Len(queue[g]) - k /\ i + k \in DOMAIN queue[g]
                            /\ queue[g][i + k] = Other
        OBVIOUS
      <4>2. i # Len(queue'[g])
        BY <1>7, <3>1, <4>1
      <4>3. i \in 1 .. Len(queue[g]) - k /\ i + k \in DOMAIN queue[g]
        BY <1>3, <3>1, <4>1, <4>2
      <4>4. QED
        BY <3>1, <4>1, <4>3
    <3>3. ASSUME NEW i \in DOMAIN queue'[g], NEW j \in DOMAIN queue'[g],
                 queue'[g][i] = Other, queue'[g][j] = Other
          PROVE  i = j
      <4>1. /\ i + k \in DOMAIN queue[g] /\ queue[g][i + k] = Other
            /\ j + k \in DOMAIN queue[g] /\ queue[g][j + k] = Other
        BY <3>2, <3>3
      <4>2. i + k = j + k
        BY <1>1, <4>1 DEF AtMostOne
      <4>3. QED
        BY <1>3, <4>2
    <3>4. QED
      BY <3>2, <3>3 DEF AtMostOne, Has
  <2>2. \A g \in Generations : AtMostOne(queue'[g]) /\ (Has(queue'[g], Other) => Has(queue[g], Other))
    BY <1>1, <1>7, <2>1 DEF Streams
  <2>3. received' = received /\ forwarded' = forwarded
    BY <1>7 DEF Streams
  <2>4. Copied' = Copied /\ Waiting' \subseteq Waiting
    BY <2>2, <2>3 DEF Copied, Waiting
  <2>5. QED
    BY <1>5, <2>2, <2>3, <2>4
<1>8. CASE Write \/ CloseStream
  BY <1>7, <1>8, StreamPushes, LinesAreRecords
<1>9. CASE ForwardLog
  <2>1. ~ forwarded /\ forwarded' /\ received' = received
    BY <1>9 DEF ForwardLog
  <2>2. Copied' = {} /\ Waiting = {}
    BY <1>1, <2>1 DEF Copied
  <2>3. ASSUME NEW g \in Generations, NEW i \in DOMAIN queue'[g], queue'[g][i] = Other
        PROVE  i \notin DOMAIN queue[g]
    BY <1>9, <2>2, <2>3, ForwardedFrom DEF Waiting, Has
  <2>4. \A g \in Generations : /\ Len(queue'[g]) = Len(queue[g]) + Copies(g)
                               /\ Copies(g) \in Nat /\ Copies(g) <= 1
                               /\ Copies(g) # 0 => g \in list
    BY <1>9, ForwardedFrom, CopiesTyped, CopiesOnce DEF list
  <2>5. ASSUME NEW g \in Generations PROVE AtMostOne(queue'[g])
    <3>1. ASSUME NEW i \in DOMAIN queue'[g], queue'[g][i] = Other PROVE i = Len(queue[g]) + 1
      <4>1. i \notin DOMAIN queue[g]
        BY <2>3, <3>1
      <4>2. QED
        BY <1>3, <2>4, <3>1, <4>1
    <3>2. QED
      BY <3>1 DEF AtMostOne
  <2>6. ASSUME NEW g \in Waiting' PROVE g \in list
    <3>1. g \in Generations /\ \E i \in DOMAIN queue'[g] : queue'[g][i] = Other
      BY DEF Waiting, Has
    <3>2. Copies(g) # 0
      BY <1>3, <2>3, <2>4, <3>1
    <3>3. QED
      BY <2>4, <3>1, <3>2
  <2>7. Waiting' \in SUBSET list'
    BY <1>4, <2>6
  <2>8. Cardinality(Waiting') <= Cardinality(list')
    BY <1>4, <2>7, FS_Subset
  <2>9. Cardinality(Copied') + Cardinality(Waiting') <= Cardinality(list')
    BY <1>2, <1>4, <2>2, <2>8, FS_EmptySet
  <2>10. QED
    BY <2>1, <2>5, <2>9 DEF OneCopy, list
<1>10. ASSUME NEW g \in Generations, Batch(g) PROVE OneCopy'
  <2>1. /\ forwarded' = forwarded /\ queue'[g] = <<>>
        /\ \A h \in Generations \ {g} : queue'[h] = queue[h]
    BY <1>10 DEF Batch
  <2>2. \A h \in Generations :
          AtMostOne(queue'[h]) /\ (Has(queue'[h], Other) => h # g /\ Has(queue[h], Other))
    BY <1>1, <2>1, EmptySeq DEF AtMostOne, Has
  <2>3. Waiting' \subseteq Waiting \ {g}
    BY <2>2 DEF Waiting
  <2>4. CASE received' = received \/ ~ Has(queue[g], Other)
    <3>1. Copied' = Copied
      <4>1. CASE received' = received
        BY <4>1 DEF Copied
      <4>2. CASE received' = received \o queue[g] /\ ~ Has(queue[g], Other)
        BY <4>2, BatchFrom DEF Copied, Has
      <4>3. QED
        BY <1>10, <2>4, <4>1, <4>2 DEF Batch
    <3>2. QED
      BY <1>5, <2>1, <2>2, <2>3, <3>1
  <2>5. CASE received' = received \o queue[g] /\ Has(queue[g], Other)
    <3>1. PICK k \in DOMAIN queue[g] : queue[g][k] = Other
      BY <2>5 DEF Has
    <3> DEFINE new == k + Len(received)
    <3>2. \A j \in DOMAIN queue[g] : queue[g][j] = Other => j = k
      BY <1>1, <3>1 DEF AtMostOne
    <3>3. Copied' = Copied \union {new}
      <4>1. ASSUME NEW i \in Copied' PROVE i \in Copied \union {new}
        <5>1. i \in DOMAIN received' /\ received'[i] = Other
          BY DEF Copied
        <5>2. \/ i \in DOMAIN received /\ received[i] = Other
              \/ i - Len(received) \in DOMAIN queue[g] /\ queue[g][i - Len(received)] = Other
          BY <2>5, <5>1, BatchFrom
        <5>3. i \in Nat /\ Len(received) \in Nat
          BY <2>5, <5>1, BatchFrom
        <5>4. QED
          BY <3>2, <5>2, <5>3 DEF Copied
      <4>2. new \in Copied'
        BY <2>5, <3>1, BatchFrom DEF Copied
      <4>3. Copied \subseteq Copied'
        BY <2>5, BatchFrom DEF Copied
      <4>4. QED
        BY <4>1, <4>2, <4>3
    <3>4. Cardinality(Copied') <= Cardinality(Copied) + 1
      <4> HIDE DEF new
      <4>1. QED
        BY <1>2, <3>3, FS_AddElement
    <3>5. g \in Waiting
      BY <2>5 DEF Waiting
    <3>6. IsFiniteSet(Waiting \ {g}) /\ Cardinality(Waiting \ {g}) = Cardinality(Waiting) - 1
      BY <1>2, <3>5, FS_RemoveElement
    <3>7. Cardinality(Waiting') <= Cardinality(Waiting) - 1
      BY <2>3, <3>6, FS_Subset
    <3>8. Cardinality(Copied') + Cardinality(Waiting') <= Cardinality(list')
      BY <1>1, <1>2, <1>4, <3>4, <3>7
    <3>9. forwarded'
      BY <1>1, <2>1, <3>5
    <3>10. QED
      BY <2>2, <3>8, <3>9 DEF OneCopy, list
  <2>6. QED
    BY <1>10, <2>4, <2>5 DEF Batch
<1>11. QED
  BY <1>6, <1>8, <1>9, <1>10, LogSteps

---------------------------------------------------------------------------
IInv == TypeOK /\ Wired /\ Closing /\ Timely /\ Streamed /\ Kept /\ EofLastInQueue
        /\ EofLastSent /\ Listed /\ OneCopy

LEMMA InitHolds == Init => IInv
<1> SUFFICES ASSUME Init PROVE IInv
  OBVIOUS
<1>1. /\ \A g \in Generations : queue[g] = <<>>
      /\ received = <<>> /\ DOMAIN <<>> = {} /\ Len(<<>>) = 0
      /\ \A s \in Held : closeCtx[s] = 0 /\ registered[s] = <<>>
      /\ \A s \in Signals, g \in Generations : provider[s][g] = "none"
  BY DEF Init, NoProviders
<1>2. Wired
  BY <1>1 DEF Init, Wired, Signals
<1>3. Closing /\ Timely
  BY DEF Init, Closing, Timely
<1>4. Streamed
  BY <1>1, ProvidersAssumption DEF Init, Streamed, Has
<1>5. Kept /\ EofLastInQueue /\ EofLastSent
  BY <1>1 DEF Init, Kept, EofLastInQueue, EofLastSent, Has
<1>6. Listed /\ OneCopy
  <2>1. registered["logs"] = <<>>
    BY <1>1 DEF Held
  <2>2. Copied = {} /\ Waiting = {} /\ ToSet(registered["logs"]) = {}
    BY <1>1, <2>1 DEF Copied, Waiting, Has, ToSet
  <2>3. Cardinality(Copied) + Cardinality(Waiting) <= Cardinality(ToSet(registered["logs"]))
    BY <2>2, FS_EmptySet
  <2>4. QED
    BY <1>1, <2>1, <2>2, <2>3 DEF Listed, OneCopy, AtMostOne
<1>7. QED
  BY <1>2, <1>3, <1>4, <1>5, <1>6, InitTyped DEF IInv

(* What holds at every moment of the process. *)
LEMMA Invariance == Spec => []IInv
<1>1. IInv /\ [Next]_vars => IInv'
  <2>1. SUFFICES ASSUME IInv, [Next]_vars PROVE IInv'
    OBVIOUS
  <2>2. TypeOK' /\ Wired' /\ Closing' /\ Timely'
    BY <2>1, StepTyped, WiredStep, ClosingStep, TimelyStep DEF IInv
  <2>3. Streamed' /\ Kept'
    BY <2>1, <2>2, StreamedStep, KeptStep DEF IInv
  <2>4. EofLastInQueue' /\ EofLastSent'
    BY <2>1, <2>2, EofQueueStep, EofSentStep DEF IInv
  <2>5. Listed' /\ OneCopy'
    BY <2>1, <2>2, ListedStep, OneCopyStep DEF IInv
  <2>6. QED
    BY <2>2, <2>3, <2>4, <2>5 DEF IInv
<1>2. QED
  BY <1>1, InitHolds, PTL DEF Spec

---------------------------------------------------------------------------
(* The variables keep their types: no queue holds more than its size.      *)
THEOREM ProvidersTyped == Spec => []TypeOK
BY Invariance, PTL DEF IInv

(* When Close is through, the last logger and meter provider of Inits that
   passed their contexts on are shut; and a record is lost to the deadline
   only after a shutdown that took all of the time (init.go:481).          *)
THEOREM CloseReaches == Spec => []CloseReachesProviders
<1>1. IInv => CloseReachesProviders
  <2>1. SUFFICES ASSUME IInv PROVE CloseReachesProviders
    OBVIOUS
  <2>2. ASSUME closing = "done", chained, NEW s \in Held, registered[s] # <<>>
        PROVE  provider[s][Last(registered[s])] = "shut"
    <3>1. closeCtx[s] = Last(registered[s])
      BY <2>1, <2>2 DEF IInv, Wired
    <3>2. registered[s] \in Seq(Generations) /\ Len(registered[s]) \in DOMAIN registered[s]
      BY <2>1, <2>2, StateTyped, LenProperties, EmptySeq DEF IInv
    <3>3. Last(registered[s]) \in Generations
      BY <3>2, ElementOfSeq, LenProperties DEF Last
    <3>4. closeCtx[s] # 0
      BY <3>1, <3>3 DEF Generations
    <3>5. QED
      BY <2>1, <2>2, <3>1, <3>4 DEF IInv, Closing, Closed, Held
  <2>3. QED
    BY <2>1, <2>2 DEF IInv, Timely, CloseReachesProviders
<1>2. QED
  BY <1>1, Invariance, PTL

(* The end of a stream is the last of it to arrive: a line that is not before
   it was pushed out of a full queue (logging.go:42).                      *)
THEOREM EofComesLast == Spec => []EofIsLast
<1>1. IInv => EofIsLast
  <2>1. SUFFICES ASSUME IInv, NEW i \in DOMAIN received, received[i] = Eof,
                        NEW n \in 1 .. stream.written,
                        [record |-> Line(n), why |-> "full"] \notin lost
                 PROVE  Line(n) \in ToSet(SubSeq(received, 1, i))
    BY DEF EofIsLast
  <2>2. PICK j \in 1 .. i : received[j] = Line(n)
    BY <2>1 DEF IInv, EofLastSent
  <2>3. received \in Seq(Record) /\ i \in 1 .. Len(received) /\ Len(received) \in Nat
    BY <2>1, LenProperties DEF IInv, TypeOK
  <2>4. /\ DOMAIN SubSeq(received, 1, i) = 1 .. i
        /\ SubSeq(received, 1, i)[j] = received[j]
    BY <2>2, <2>3
  <2>5. QED
    BY <2>2, <2>4 DEF ToSet
<1>2. QED
  BY <1>1, Invariance, PTL

(* The exporter gets no more copies of another process's record than there are
   Inits that registered a processor for it (init.go:446).                  *)
THEOREM CopiesAreOfInits == Spec => []OneCopyPerInit
<1>1. IInv => OneCopyPerInit
  <2>1. SUFFICES ASSUME IInv PROVE Cardinality(Copied) <= Cardinality(ToSet(registered["logs"]))
    BY DEF OneCopyPerInit, Copied
  <2>2. Cardinality(Copied) \in Nat /\ Cardinality(Waiting) \in Nat
    BY <2>1, Counted DEF IInv, TypeOK, Copied, Waiting
  <2>3. Cardinality(ToSet(registered["logs"])) \in Nat
    <3>1. registered["logs"] \in Seq(Generations)
      BY <2>1 DEF IInv, TypeOK, Held
    <3>2. ToSet(registered["logs"]) \in SUBSET Generations
      BY <3>1 DEF ToSet
    <3>3. QED
      BY <3>2, Counted
  <2>4. QED
    BY <2>1, <2>2, <2>3 DEF IInv, OneCopy
<1>2. QED
  BY <1>1, Invariance, PTL
=============================================================================
