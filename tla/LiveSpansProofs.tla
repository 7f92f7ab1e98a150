-------------------------- MODULE LiveSpansProofs --------------------------
(***************************************************************************)
(* LiveSpans for any number of spans, exporters and calls of Init: its      *)
(* types, that batched exporters see finished spans only, what Close loses  *)
(* and the order in which one processor reports a span.                     *)
(***************************************************************************)
EXTENDS LiveSpans, SequenceTheorems, TLAPS

LEMMA QueueTyped ==
  ASSUME TypeOK
  PROVE  /\ queue \in [Generations -> [AnyExporter -> Seq(Entry)]]
         /\ \A g \in Generations, x \in AnyExporter :
              queue[g][x] \in Seq(Entry) /\ Len(queue[g][x]) <= QueueSize
<1>1. queue \in [Generations -> [AnyExporter -> Seq(Entry)]]
  BY DEF TypeOK
<1>2. \A g \in Generations, x \in AnyExporter : Len(queue[g][x]) <= QueueSize
  BY DEF TypeOK
<1>3. QED
  BY <1>1, <1>2

LEMMA SeqElement == ASSUME NEW S, NEW s \in Seq(S), NEW i \in DOMAIN s PROVE s[i] \in S
OBVIOUS

LEMMA StateTyped ==
  ASSUME TypeOK
  PROVE  /\ gen \in Nat /\ gen <= MaxInits /\ call.gen \in Nat /\ call.gen <= MaxInits
         /\ call = [gen |-> call.gen, left |-> call.left]
         /\ call.left \in [AnyExporter -> Seq(Entry)]
         /\ \A s \in Spans : span[s].gen \in Nat /\ span[s].gen <= MaxInits
         /\ \A e \in Sinks : received[e] \in Seq([span : AnySpan, view : View, by : Generations])
<1>1. gen \in Nat /\ gen <= MaxInits
  <2>1. gen \in 0 .. MaxInits
    BY DEF TypeOK
  <2>2. QED
    BY <2>1, LiveSpansAssumption
<1>2. call \in [gen : 0 .. MaxInits, left : [AnyExporter -> Seq(Entry)]]
  BY DEF TypeOK
<1>3. /\ call.gen \in Nat /\ call.gen <= MaxInits /\ call.left \in [AnyExporter -> Seq(Entry)]
      /\ call = [gen |-> call.gen, left |-> call.left]
  <2>1. call.gen \in 0 .. MaxInits /\ call.left \in [AnyExporter -> Seq(Entry)]
    BY <1>2
  <2>2. call = [gen |-> call.gen, left |-> call.left]
    BY <1>2
  <2>3. QED
    BY <2>1, <2>2, LiveSpansAssumption
<1>4. span \in [Spans -> [phase : {"idle", "running", "ended"}, gen : 0 .. MaxInits]]
  BY DEF TypeOK
<1>5. \A s \in Spans : span[s].gen \in Nat /\ span[s].gen <= MaxInits
  BY <1>4, LiveSpansAssumption
<1>6. received \in [Sinks -> Seq([span : AnySpan, view : View, by : Generations])]
  BY DEF TypeOK
<1>7. QED
  BY <1>1, <1>3, <1>5, <1>6

(* An entry that is queued is appended to the queue of an open processor, which
   has room for it; all other queues stay.                                    *)
LEMMA EnqueueAppends ==
  ASSUME TypeOK, NEW g \in Generations, NEW targets, NEW entry \in Entry,
         Enqueue(g, targets, entry)
  PROVE  /\ queue' \in [Generations -> [AnyExporter -> Seq(Entry)]]
         /\ \A h \in Generations, x \in AnyExporter :
              /\ Len(queue'[h][x]) <= QueueSize
              /\ \/ queue'[h][x] = queue[h][x]
                 \/ /\ h = g /\ x \in targets /\ processor[g][x] = "open"
                    /\ queue'[h][x] = Append(queue[h][x], entry)
<1>1. queue' \in [Generations -> [AnyExporter -> Seq(Entry)]]
  <2> DEFINE q == [x \in AnyExporter |-> IF x \in targets /\ Accepts(g, x)
                                          THEN Append(queue[g][x], entry) ELSE queue[g][x]]
  <2>1. queue \in [Generations -> [AnyExporter -> Seq(Entry)]]
    BY DEF TypeOK
  <2>2. ASSUME NEW x \in AnyExporter PROVE q[x] \in Seq(Entry)
    <3>1. queue[g][x] \in Seq(Entry)
      BY <2>1
    <3>2. q[x] \in {Append(queue[g][x], entry), queue[g][x]}
      OBVIOUS
    <3>3. QED
      BY <3>1, <3>2
  <2>3. q \in [AnyExporter -> Seq(Entry)]
    BY <2>2
  <2>4. queue' = [queue EXCEPT ![g] = q]
    BY DEF Enqueue
  <2>5. QED
    BY <2>1, <2>3, <2>4
<1>2. ASSUME NEW h \in Generations, NEW x \in AnyExporter
      PROVE  /\ Len(queue'[h][x]) <= QueueSize
             /\ \/ queue'[h][x] = queue[h][x]
                \/ /\ h = g /\ x \in targets /\ processor[g][x] = "open"
                   /\ queue'[h][x] = Append(queue[h][x], entry)
  <2>1. queue[h][x] \in Seq(Entry) /\ Len(queue[h][x]) <= QueueSize
    BY QueueTyped
  <2>2. queue'[h][x] = IF h = g /\ x \in targets /\ Accepts(g, x)
                       THEN Append(queue[h][x], entry) ELSE queue[h][x]
    BY QueueTyped DEF Enqueue
  <2>3. QED
    BY <2>1, <2>2, LiveSpansAssumption DEF Accepts
<1>3. QED
  BY <1>1, <1>2

LEMMA SeqOfSubset ==
  ASSUME NEW S, NEW T, S \subseteq T, NEW s \in Seq(S) PROVE s \in Seq(T)
OBVIOUS

LEMMA RemoteTyped == Remote \in Seq(Entry)
<1>1. [span : RemoteSpans, view : View] \subseteq Entry
  BY DEF Entry, AnySpan
<1>2. QED
  BY <1>1, SeqOfSubset, LiveSpansAssumption

(* An entry of a queue reads as it was written. *)
LEMMA ShownIsEntry == ASSUME NEW e \in Entry PROVE Shown(e) = e
BY DEF Entry, View, Shown

LEMMA InitType == Init => TypeOK
<1> SUFFICES ASSUME Init PROVE TypeOK
  OBVIOUS
<1> USE LiveSpansAssumption DEF Init
<1>1. pipeline \in [Generations -> [live : SUBSET AnyExporter, batched : SUBSET AnyExporter]]
  OBVIOUS
<1>2. processor \in [Generations -> [AnyExporter -> {"none", "open", "stopped", "shut"}]]
  OBVIOUS
<1>3. queue \in [Generations -> [AnyExporter -> Seq(Entry)]]
  OBVIOUS
<1>4. \A g \in Generations, x \in AnyExporter : Len(queue[g][x]) <= QueueSize
  OBVIOUS
<1>5. call \in [gen : 0 .. MaxInits, left : [AnyExporter -> Seq(Entry)]]
  OBVIOUS
<1>6. received \in [Sinks -> Seq([span : AnySpan, view : View, by : Generations])]
  BY DEF Sinks
<1>7. span \in [Spans -> [phase : {"idle", "running", "ended"}, gen : 0 .. MaxInits]]
  OBVIOUS
<1>8. QED
  BY <1>1, <1>2, <1>3, <1>4, <1>5, <1>6, <1>7, RemoteTyped DEF TypeOK

---------------------------------------------------------------------------
(* What has not been initialised is empty, and everything in flight belongs to
   an Init that was called.                                                 *)
Generated ==
  /\ \A g \in Generations, x \in AnyExporter : g > gen => processor[g][x] = "none"
  /\ \A e \in Sinks : \A i \in DOMAIN received[e] : received[e][i].by <= gen
  /\ call.gen <= gen
  /\ \A x \in AnyExporter : call.left[x] # <<>> => call.gen > 0
  /\ \A s \in Spans : span[s].gen <= gen /\ (span[s].phase # "idle" => span[s].gen > 0)
  /\ closing # "no" => gen > 0

Idle == {"none", "shut"}

(* A processor is shut when its queue is empty, and takes nothing any more. *)
Drained ==
  /\ \A g \in Generations, x \in AnyExporter : processor[g][x] \in Idle => queue[g][x] = <<>>
  /\ closing = "returned" => \A x \in AnyExporter : processor[gen][x] \in Idle

(* The environment's exporter was shut with a processor of it. *)
EnvShutByClose == envShut => \E g \in Generations : processor[g][Env] = "shut"

Lost == \A r \in refused :
  r.to[2] = Env /\ \E g \in Generations \ {r.to[1]} : processor[g][Env] = "shut"

(* What waits for a processor that is not a live one has ended, and so has what
   it has sent.                                                             *)
BatchedQueues ==
  \A g \in Generations, x \in AnyExporter : x \notin pipeline[g].live =>
    \A i \in DOMAIN queue[g][x] : queue[g][x][i].view = "done"

BatchedSent ==
  \A g \in Generations, x \in AnyExporter : x \notin pipeline[g].live =>
    \A i \in DOMAIN received[Sink(g, x)] :
      received[Sink(g, x)][i].by = g => received[Sink(g, x)][i].view = "done"

IInv ==
  TypeOK /\ Generated /\ Drained /\ EnvShutByClose /\ Lost /\ BatchedQueues /\ BatchedSent

(* StartSpan, EndSpan and ForwardSpan all queue one entry. *)
LEMMA EnqueueStep ==
  ASSUME IInv, NEW g \in Generations, NEW targets, NEW entry \in Entry,
         Enqueue(g, targets, entry),
         \A x \in targets : x \notin pipeline[g].live => entry.view = "done",
         UNCHANGED <<gen, pipeline, processor, envShut, closing, received, refused>>
  PROVE  Drained' /\ EnvShutByClose' /\ Lost' /\ BatchedQueues' /\ BatchedSent'
<1>1. TypeOK /\ \A h \in Generations, x \in AnyExporter : queue[h][x] \in Seq(Entry)
  BY QueueTyped DEF IInv
<1>2. \A h \in Generations, x \in AnyExporter :
        \/ queue'[h][x] = queue[h][x]
        \/ /\ h = g /\ x \in targets /\ processor[g][x] = "open"
           /\ queue'[h][x] = Append(queue[h][x], entry)
  BY <1>1, EnqueueAppends
<1>3. Drained'
  <2>1. ASSUME NEW h \in Generations, NEW x \in AnyExporter, processor[h][x] \in Idle
        PROVE  queue'[h][x] = <<>>
    BY <1>2, <2>1 DEF IInv, Drained, Idle
  <2>2. QED
    BY <2>1 DEF IInv, Drained
<1>4. BatchedQueues'
  <2>1. ASSUME NEW h \in Generations, NEW x \in AnyExporter, x \notin pipeline[h].live,
               NEW i \in DOMAIN queue'[h][x]
        PROVE  queue'[h][x][i].view = "done"
    <3>1. CASE queue'[h][x] = queue[h][x]
      BY <2>1, <3>1 DEF IInv, BatchedQueues
    <3>2. CASE h = g /\ x \in targets /\ queue'[h][x] = Append(queue[h][x], entry)
      <4>1. queue'[h][x][i] = entry \/ (i \in DOMAIN queue[h][x] /\ queue'[h][x][i] = queue[h][x][i])
        BY <1>1, <3>2
      <4>2. QED
        BY <2>1, <3>2, <4>1 DEF IInv, BatchedQueues
    <3>3. QED
      BY <1>2, <3>1, <3>2
  <2>2. QED
    BY <2>1 DEF BatchedQueues
<1>5. EnvShutByClose' /\ Lost'
  BY DEF IInv, EnvShutByClose, Lost
<1>6. BatchedSent'
  BY DEF IInv, BatchedSent, Sink
<1>7. QED
  BY <1>3, <1>4, <1>5, <1>6

LEMMA StartSpanStep == ASSUME IInv, NEW s \in Spans, StartSpan(s) PROVE IInv'
<1>1. TypeOK /\ gen \in Generations
  BY StateTyped, LiveSpansAssumption DEF IInv, StartSpan, Generations
<1>2. SnapshotSpan(s) \in Entry
  BY DEF SnapshotSpan, Entry, AnySpan, View
<1>3. span' \in [Spans -> [phase : {"idle", "running", "ended"}, gen : 0 .. MaxInits]]
  BY <1>1 DEF TypeOK, StartSpan
<1>4. TypeOK'
  BY <1>1, <1>2, <1>3, EnqueueAppends DEF TypeOK, StartSpan
<1>5. Drained' /\ EnvShutByClose' /\ Lost' /\ BatchedQueues' /\ BatchedSent'
  BY <1>1, <1>2, EnqueueStep DEF StartSpan
<1>6. Generated'
  <2>1. \A r \in Spans : span'[r].gen <= gen /\ (span'[r].phase # "idle" => span'[r].gen > 0)
    <3>1. span' = [span EXCEPT ![s] = [phase |-> "running", gen |-> gen]] /\ gen > 0
      BY DEF StartSpan
    <3>2. \A r \in Spans : span[r].gen <= gen /\ (span[r].phase # "idle" => span[r].gen > 0)
      BY DEF IInv, Generated
    <3>3. span \in [Spans -> [phase : {"idle", "running", "ended"}, gen : 0 .. MaxInits]]
      BY <1>1 DEF TypeOK
    <3>4. QED
      BY <1>1, <3>1, <3>2, <3>3, StateTyped
  <2>2. QED
    BY <2>1 DEF IInv, Generated, StartSpan
<1>7. QED
  BY <1>4, <1>5, <1>6 DEF IInv

LEMMA EndSpanStep == ASSUME IInv, NEW s \in Spans, EndSpan(s) PROVE IInv'
<1>1. TypeOK /\ span[s].gen \in Generations
  BY StateTyped, LiveSpansAssumption DEF IInv, EndSpan, Generations, Generated
<1>2. Finished(s) \in Entry /\ Finished(s).view = "done"
  BY DEF Finished, Entry, AnySpan, View
<1>3. span' \in [Spans -> [phase : {"idle", "running", "ended"}, gen : 0 .. MaxInits]]
  BY <1>1 DEF TypeOK, EndSpan
<1>4. TypeOK'
  BY <1>1, <1>2, <1>3, EnqueueAppends DEF TypeOK, EndSpan
<1>5. Drained' /\ EnvShutByClose' /\ Lost' /\ BatchedQueues' /\ BatchedSent'
  BY <1>1, <1>2, EnqueueStep DEF EndSpan
<1>6. Generated'
  <2>1. \A r \in Spans : span'[r].gen <= gen /\ (span'[r].phase # "idle" => span'[r].gen > 0)
    BY <1>1, StateTyped DEF IInv, Generated, TypeOK, EndSpan
  <2>2. QED
    BY <2>1 DEF IInv, Generated, EndSpan
<1>7. QED
  BY <1>4, <1>5, <1>6 DEF IInv

LEMMA ForwardSpanStep == ASSUME IInv, NEW x \in AnyExporter, ForwardSpan(x) PROVE IInv'
<1> DEFINE entry == Head(call.left[x])
<1>1. TypeOK /\ call.gen \in Generations /\ call.left[x] \in Seq(Entry) /\ call.left[x] # <<>>
  BY StateTyped, LiveSpansAssumption DEF IInv, ForwardSpan, Generations, Generated
<1>2. entry \in Entry /\ Tail(call.left[x]) \in Seq(Entry)
  BY <1>1
<1>3. Enqueue(call.gen, ForwardTargets(entry, x), entry)
  BY DEF ForwardSpan
<1>4. \A y \in ForwardTargets(entry, x) : y \notin pipeline[call.gen].live => entry.view = "done"
  BY DEF ForwardTargets
<1>5. call' = [gen |-> call.gen, left |-> [call.left EXCEPT ![x] = Tail(call.left[x])]]
  BY <1>1, StateTyped DEF ForwardSpan
<1>6. call' \in [gen : 0 .. MaxInits, left : [AnyExporter -> Seq(Entry)]]
  BY <1>1, <1>2, <1>5, StateTyped, LiveSpansAssumption
<1>7. TypeOK'
  BY <1>1, <1>2, <1>3, <1>6, EnqueueAppends DEF TypeOK, ForwardSpan
<1>8. Drained' /\ EnvShutByClose' /\ Lost' /\ BatchedQueues' /\ BatchedSent'
  BY <1>1, <1>2, <1>3, <1>4, EnqueueStep DEF ForwardSpan
<1>9. Generated'
  <2>1. call'.gen = call.gen /\ call'.gen > 0
    BY <1>1, <1>5 DEF Generations
  <2>2. QED
    BY <2>1 DEF IInv, Generated, ForwardSpan
<1>10. QED
  BY <1>7, <1>8, <1>9 DEF IInv

---------------------------------------------------------------------------
(* The places of the exporters. *)
LEMMA SinkPlace ==
  ASSUME NEW g \in Generations, NEW x \in AnyExporter
  PROVE  /\ Sink(g, x) \in Sinks
         /\ \A y \in AnyExporter : Sink(g, x) = Sink(g, y) => x = y
<1>1. g # 0 /\ Env \notin Exporters /\ (x # Env => x \in Exporters)
  BY LiveSpansAssumption DEF Generations, AnyExporter
<1>2. QED
  BY <1>1 DEF Sink, Sinks

LEMMA InitializeStep == ASSUME IInv, NEW cfg \in Configs, Initialize(cfg) PROVE IInv'
<1> DEFINE p == Detected(cfg)
           n == [x \in AnyExporter |-> IF x \in p.live \union p.batched THEN "open" ELSE "none"]
<1>1. TypeOK /\ gen \in Nat /\ gen' = gen + 1 /\ gen + 1 \in Generations /\ gen' <= MaxInits
  BY StateTyped, LiveSpansAssumption DEF IInv, Initialize, Generations
<1>2. p \in [live : SUBSET AnyExporter, batched : SUBSET AnyExporter]
  BY LiveSpansAssumption DEF Detected, AnyExporter
<1>3. pipeline' = [pipeline EXCEPT ![gen + 1] = p] /\ processor' = [processor EXCEPT ![gen + 1] = n]
  BY DEF Initialize
<1>4. n \in [AnyExporter -> {"none", "open", "stopped", "shut"}]
  OBVIOUS
<1>5. /\ pipeline \in [Generations -> [live : SUBSET AnyExporter, batched : SUBSET AnyExporter]]
      /\ processor \in [Generations -> [AnyExporter -> {"none", "open", "stopped", "shut"}]]
  BY <1>1 DEF TypeOK
<1> HIDE DEF p, n
<1>6. /\ pipeline' \in [Generations -> [live : SUBSET AnyExporter, batched : SUBSET AnyExporter]]
      /\ processor' \in [Generations -> [AnyExporter -> {"none", "open", "stopped", "shut"}]]
  BY <1>1, <1>2, <1>3, <1>4, <1>5
<1>7. \A g \in Generations : g # gen' => pipeline'[g] = pipeline[g] /\ processor'[g] = processor[g]
  BY <1>1, <1>3, <1>5
<1>8. \A x \in AnyExporter : queue[gen'][x] = <<>> /\ processor[gen'][x] = "none"
  BY <1>1 DEF IInv, Generated, Drained, Idle
<1>9. /\ queue' = queue /\ call' = call /\ span' = span /\ received' = received /\ refused' = refused
      /\ closing' = "no" /\ envShut' = envShut
  BY DEF Initialize
<1>10. TypeOK'
  <2>1. gen' \in 0 .. MaxInits
    BY <1>1, LiveSpansAssumption
  <2>2. QED
    BY <1>1, <1>6, <2>1 DEF TypeOK, Initialize
<1>11. Generated'
  <2>1. \A g \in Generations, x \in AnyExporter : g > gen' => processor'[g][x] = "none"
    BY <1>1, <1>7 DEF IInv, Generated, Generations
  <2>2. \A e \in Sinks : \A i \in DOMAIN received[e] : received[e][i].by <= gen + 1
    <3>1. \A e \in Sinks : \A i \in DOMAIN received[e] : received[e][i].by \in Generations
      <4>1. ASSUME NEW e \in Sinks, NEW i \in DOMAIN received[e]
            PROVE  received[e][i] \in [span : AnySpan, view : View, by : Generations]
        <5> DEFINE R == [span : AnySpan, view : View, by : Generations]
        <5>1. received[e] \in Seq(R)
          BY <1>1, StateTyped
        <5> HIDE DEF R
        <5>2. received[e][i] \in R
          BY <5>1, SeqElement
        <5>3. QED
          BY <5>2 DEF R
      <4>2. QED
        BY <4>1
    <3>2. QED
      BY <1>1, <3>1 DEF IInv, Generated, Generations
  <2>3. call.gen <= gen + 1 /\ \A s \in Spans : span[s].gen <= gen + 1
    BY <1>1, StateTyped DEF IInv, Generated
  <2>4. QED
    BY <1>1, <1>9, <2>1, <2>2, <2>3 DEF IInv, Generated
<1>12. Drained'
  BY <1>7, <1>8, <1>9 DEF IInv, Drained
<1>13. EnvShutByClose' /\ Lost'
  <2>1. \A g \in Generations : processor[g][Env] = "shut" => processor'[g][Env] = "shut"
    BY <1>7, <1>8 DEF AnyExporter
  <2>2. QED
    BY <1>9, <2>1 DEF IInv, EnvShutByClose, Lost
<1>14. BatchedQueues'
  BY <1>7, <1>8, <1>9 DEF IInv, BatchedQueues
<1>15. BatchedSent'
  <2>1. ASSUME NEW x \in AnyExporter PROVE \A i \in DOMAIN received[Sink(gen', x)] :
               received[Sink(gen', x)][i].by # gen'
    BY <1>1, SinkPlace DEF IInv, Generated
  <2>2. QED
    BY <1>7, <1>9, <2>1 DEF IInv, BatchedSent, Sink
<1>16. QED
  BY <1>10, <1>11, <1>12, <1>13, <1>14, <1>15 DEF IInv

LEMMA ForwardStep == ASSUME IInv, NEW n \in 1 .. Len(Remote), Forward(n) PROVE IInv'
<1>1. TypeOK /\ gen \in Nat /\ gen > 0 /\ gen <= MaxInits /\ inbox \in Seq(Entry) /\ n \in 1 .. Len(inbox)
  BY StateTyped DEF IInv, TypeOK, Forward
<1>2. SubSeq(inbox, 1, n) \in Seq(Entry) /\ SubSeq(inbox, n + 1, Len(inbox)) \in Seq(Entry)
  BY <1>1
<1>3. call' \in [gen : 0 .. MaxInits, left : [AnyExporter -> Seq(Entry)]] /\ call'.gen = gen
  BY <1>1, <1>2, LiveSpansAssumption DEF Forward
<1>4. TypeOK'
  BY <1>1, <1>2, <1>3 DEF TypeOK, Forward
<1>5. Generated'
  BY <1>1, <1>3 DEF IInv, Generated, Forward
<1>6. Drained' /\ EnvShutByClose' /\ Lost' /\ BatchedQueues' /\ BatchedSent'
  BY DEF IInv, Drained, EnvShutByClose, Lost, BatchedQueues, BatchedSent, Sink, Forward
<1>7. QED
  BY <1>4, <1>5, <1>6 DEF IInv

(* The entry an exporter accepts and the one it is refused are in the queue. *)
LEMMA ExportStep ==
  ASSUME IInv, NEW g \in Generations, NEW x \in AnyExporter, Export(g, x) PROVE IInv'
<1> DEFINE entry == Head(queue[g][x])
           e     == [span |-> entry.span, view |-> entry.view, by |-> g]
           R     == [span : AnySpan, view : View, by : Generations]
<1>1. TypeOK /\ queue[g][x] \in Seq(Entry) /\ queue[g][x] # <<>>
  BY QueueTyped DEF IInv, Export
<1>2. entry \in Entry /\ Tail(queue[g][x]) \in Seq(Entry) /\ Len(Tail(queue[g][x])) <= Len(queue[g][x])
  BY <1>1
<1>3. Shown(entry) = entry
  BY <1>2, ShownIsEntry
<1>4. e \in R
  BY <1>2 DEF Entry
<1>5. queue' = [queue EXCEPT ![g] = [queue[g] EXCEPT ![x] = Tail(queue[g][x])]]
  BY <1>1, QueueTyped DEF Export
<1>6. \/ UNCHANGED <<received, refused>>
      \/ /\ Refuses(g, x) /\ UNCHANGED received
         /\ refused' = refused \union {[to |-> <<g, x>>, entry |-> entry]}
      \/ /\ UNCHANGED refused
         /\ received' = [received EXCEPT ![Sink(g, x)] = Append(received[Sink(g, x)], e)]
  BY <1>3 DEF Export
<1>7. /\ pipeline' = pipeline /\ processor' = processor /\ gen' = gen /\ envShut' = envShut
      /\ closing' = closing /\ call' = call /\ span' = span /\ inbox' = inbox /\ env' = env
  BY DEF Export
<1>8. /\ queue \in [Generations -> [AnyExporter -> Seq(Entry)]]
      /\ \A h \in Generations, y \in AnyExporter : queue[h][y] \in Seq(Entry) /\ Len(queue[h][y]) <= QueueSize
      /\ \A h \in Sinks : received[h] \in Seq(R)
  BY <1>1, QueueTyped, StateTyped
<1>9. received \in [Sinks -> Seq(R)] /\ refused \in SUBSET [to : Place, entry : Entry]
  BY <1>1 DEF TypeOK
<1> HIDE DEF entry, e, R
<1>10. /\ queue' \in [Generations -> [AnyExporter -> Seq(Entry)]]
       /\ \A h \in Generations, y \in AnyExporter :
             \/ queue'[h][y] = queue[h][y]
             \/ queue'[h][y] = Tail(queue[h][y]) /\ queue[h][y] # <<>> /\ h = g /\ y = x
  BY <1>1, <1>2, <1>5, <1>8
<1>11. \A h \in Generations, y \in AnyExporter : Len(queue'[h][y]) <= QueueSize
  <2>1. ASSUME NEW h \in Generations, NEW y \in AnyExporter PROVE Len(queue'[h][y]) <= QueueSize
    <3>1. Len(queue[h][y]) \in Nat /\ Len(Tail(queue[g][x])) \in Nat /\ QueueSize \in Nat
      BY <1>2, <1>8, LiveSpansAssumption
    <3>2. Len(queue[h][y]) <= QueueSize /\ Len(queue[g][x]) <= QueueSize /\ Len(queue[g][x]) \in Nat
      BY <1>8
    <3>3. CASE queue'[h][y] = queue[h][y]
      BY <3>2, <3>3
    <3>4. CASE queue'[h][y] = Tail(queue[h][y]) /\ h = g /\ y = x
      BY <1>2, <3>1, <3>2, <3>4
    <3>5. QED
      BY <1>10, <3>3, <3>4
  <2>2. QED
    BY <2>1
<1>12. /\ received' \in [Sinks -> Seq(R)]
       /\ \A k \in Sinks : \/ received'[k] = received[k]
                           \/ k = Sink(g, x) /\ received'[k] = Append(received[k], e)
  <2>1. CASE received' = received
    BY <1>9, <2>1
  <2>2. CASE received' = [received EXCEPT ![Sink(g, x)] = Append(received[Sink(g, x)], e)]
    <3>1. Sink(g, x) \in Sinks
      BY SinkPlace
    <3>2. Append(received[Sink(g, x)], e) \in Seq(R)
      BY <1>4, <1>8, <3>1
    <3>3. QED
      BY <1>9, <2>2, <3>1, <3>2
  <2>3. QED
    BY <1>6, <2>1, <2>2
<1>13. refused' \in SUBSET [to : Place, entry : Entry]
  BY <1>2, <1>6, <1>9 DEF Place
<1>14. TypeOK'
  BY <1>1, <1>7, <1>10, <1>11, <1>12, <1>13 DEF TypeOK, R
<1>15. Generated'
  <2>1. g <= gen
    BY <1>1, StateTyped DEF IInv, Generated, Drained, Idle, Generations
  <2>2. \A k \in Sinks : \A i \in DOMAIN received'[k] : received'[k][i].by <= gen
    <3>1. ASSUME NEW k \in Sinks, NEW i \in DOMAIN received'[k]
          PROVE  received'[k][i] = e \/ (i \in DOMAIN received[k] /\ received'[k][i] = received[k][i])
      <4>1. received[k] \in Seq(R)
        BY <1>8
      <4>2. CASE received'[k] = received[k]
        BY <4>2
      <4>3. CASE received'[k] = Append(received[k], e)
        BY <4>1, <4>3
      <4>4. QED
        BY <1>12, <4>2, <4>3
    <3>2. e.by = g
      BY DEF e
    <3>3. QED
      BY <2>1, <3>1, <3>2 DEF IInv, Generated
  <2>3. QED
    BY <1>7, <2>2 DEF IInv, Generated
<1>16. Drained'
  BY <1>7, <1>10 DEF IInv, Drained
<1>17. EnvShutByClose'
  BY <1>7 DEF IInv, EnvShutByClose
<1>18. Lost'
  <2>1. ASSUME Refuses(g, x) PROVE x = Env /\ \E h \in Generations \ {g} : processor[h][Env] = "shut"
    <3>1. processor[g][x] # "shut"
      BY <1>1 DEF IInv, Drained, Idle
    <3>2. x = Env /\ envShut
      BY <2>1, <3>1 DEF Refuses
    <3>3. QED
      BY <3>1, <3>2 DEF IInv, EnvShutByClose
  <2>2. QED
    BY <1>6, <1>7, <2>1 DEF IInv, Lost
<1>19. BatchedQueues'
  <2>1. ASSUME NEW h \in Generations, NEW y \in AnyExporter, y \notin pipeline[h].live,
               NEW i \in DOMAIN queue'[h][y]
        PROVE  queue'[h][y][i].view = "done"
    <3>1. CASE queue'[h][y] = queue[h][y]
      BY <2>1, <3>1 DEF IInv, BatchedQueues
    <3>2. CASE queue'[h][y] = Tail(queue[h][y]) /\ queue[h][y] # <<>>
      <4>1. i + 1 \in DOMAIN queue[h][y] /\ queue'[h][y][i] = queue[h][y][i + 1]
        BY <1>8, <3>2
      <4>2. QED
        BY <2>1, <4>1 DEF IInv, BatchedQueues
    <3>3. QED
      BY <1>10, <3>1, <3>2
  <2>2. QED
    BY <1>7, <2>1 DEF BatchedQueues
<1>20. BatchedSent'
  <2>1. ASSUME NEW h \in Generations, NEW y \in AnyExporter, y \notin pipeline[h].live,
               NEW i \in DOMAIN received'[Sink(h, y)], received'[Sink(h, y)][i].by = h
        PROVE  received'[Sink(h, y)][i].view = "done"
    <3>1. Sink(h, y) \in Sinks
      BY SinkPlace
    <3>2. CASE received'[Sink(h, y)] = received[Sink(h, y)]
      BY <2>1, <3>2 DEF IInv, BatchedSent
    <3>3. CASE Sink(h, y) = Sink(g, x) /\ received'[Sink(h, y)] = Append(received[Sink(h, y)], e)
      <4>1. CASE i \in DOMAIN received[Sink(h, y)] /\ received'[Sink(h, y)][i] = received[Sink(h, y)][i]
        BY <2>1, <4>1 DEF IInv, BatchedSent
      <4>2. CASE received'[Sink(h, y)][i] = e
        <5>1. h = g /\ e.view = entry.view
          BY <2>1, <4>2 DEF e
        <5>2. x = y
          BY <3>3, <5>1, SinkPlace
        <5>3. 1 \in DOMAIN queue[g][x] /\ entry = queue[g][x][1]
          BY <1>1 DEF entry
        <5>4. QED
          BY <2>1, <4>2, <5>1, <5>2, <5>3 DEF IInv, BatchedQueues
      <4>3. QED
        BY <1>8, <3>1, <3>3, <4>1, <4>2
    <3>4. QED
      BY <1>12, <3>1, <3>2, <3>3
  <2>2. QED
    BY <1>7, <2>1 DEF BatchedSent, Sink
<1>21. QED
  BY <1>14, <1>15, <1>16, <1>17, <1>18, <1>19, <1>20 DEF IInv

---------------------------------------------------------------------------
LEMMA BatchedStay ==
  ASSUME BatchedQueues, BatchedSent, pipeline' = pipeline, queue' = queue, received' = received
  PROVE  BatchedQueues' /\ BatchedSent'
<1>1. BatchedQueues'
  BY DEF BatchedQueues
<1>2. BatchedSent'
  BY DEF BatchedSent, Sink
<1>3. QED
  BY <1>1, <1>2

(* Close moves processors of the last Init on, and nothing else. *)
LEMMA ProcessorsMove ==
  ASSUME IInv,
         processor' \in [Generations -> [AnyExporter -> {"none", "open", "stopped", "shut"}]],
         envShut' \in BOOLEAN, closing' \in {"no", "waiting", "returned", "timed out"},
         closing' # "no" => gen > 0,
         UNCHANGED <<env, gen, pipeline, queue, span, inbox, call, received, refused>>,
         \A g \in Generations, x \in AnyExporter :
           /\ processor[g][x] \in Idle => processor'[g][x] = processor[g][x]
           /\ processor'[g][x] \in Idle => queue[g][x] = <<>>
           /\ g > gen => processor'[g][x] = processor[g][x],
         closing' = "returned" => \A x \in AnyExporter : processor'[gen][x] \in Idle,
         envShut' => envShut \/ \E g \in Generations : processor'[g][Env] = "shut"
  PROVE  IInv'
<1>1. \A g \in Generations : processor[g][Env] = "shut" => processor'[g][Env] = "shut"
  BY DEF Idle, AnyExporter
<1>2. TypeOK'
  BY DEF IInv, TypeOK
<1>3. Generated'
  BY DEF IInv, Generated
<1>4. Drained'
  BY DEF Drained
<1>5. EnvShutByClose' /\ Lost'
  BY <1>1 DEF IInv, EnvShutByClose, Lost
<1>6. BatchedQueues' /\ BatchedSent'
  <2>1. pipeline' = pipeline /\ queue' = queue /\ received' = received
    OBVIOUS
  <2>2. BatchedQueues /\ BatchedSent
    BY DEF IInv
  <2>3. QED
    BY <2>1, <2>2, BatchedStay
<1>7. QED
  BY <1>2, <1>3, <1>4, <1>5, <1>6 DEF IInv

LEMMA CloseStep ==
  ASSUME IInv, Close \/ CloseReturns \/ CloseTimesOut
                 \/ (\E x \in AnyExporter : StopProcessor(x))
                 \/ (\E g \in Generations, x \in AnyExporter : ShutExporter(g, x))
  PROVE  IInv'
<1>1. /\ processor \in [Generations -> [AnyExporter -> {"none", "open", "stopped", "shut"}]]
      /\ envShut \in BOOLEAN /\ closing \in {"no", "waiting", "returned", "timed out"}
  BY DEF IInv, TypeOK
<1>2. closing # "no" => gen > 0
  BY DEF IInv, Generated
<1>3. gen > 0 => gen \in Generations
  BY StateTyped, LiveSpansAssumption DEF IInv, Generations
<1>4. \A g \in Generations, x \in AnyExporter : processor[g][x] \in Idle => queue[g][x] = <<>>
  BY DEF IInv, Drained
<1>5. CASE Close
  BY <1>1, <1>4, <1>5, ProcessorsMove DEF Close
<1>6. CASE CloseReturns
  BY <1>1, <1>2, <1>4, <1>6, ProcessorsMove DEF CloseReturns, Idle
<1>7. CASE CloseTimesOut
  <2> DEFINE n == [x \in AnyExporter |-> IF processor[gen][x] = "open" THEN "stopped" ELSE processor[gen][x]]
  <2>1. gen \in Generations /\ gen > 0
    BY <1>2, <1>3, <1>7 DEF CloseTimesOut
  <2>2. processor' = [processor EXCEPT ![gen] = n]
    BY <1>7 DEF CloseTimesOut
  <2>3. n \in [AnyExporter -> {"none", "open", "stopped", "shut"}]
    BY <1>1, <2>1
  <2>4. \A x \in AnyExporter : n[x] = processor[gen][x] \/ (processor[gen][x] = "open" /\ n[x] = "stopped")
    OBVIOUS
  <2> HIDE DEF n
  <2>5. processor' \in [Generations -> [AnyExporter -> {"none", "open", "stopped", "shut"}]]
    BY <1>1, <2>2, <2>3
  <2>6. \A g \in Generations, x \in AnyExporter :
           /\ processor[g][x] \in Idle => processor'[g][x] = processor[g][x]
           /\ processor'[g][x] \in Idle => queue[g][x] = <<>>
           /\ g > gen => processor'[g][x] = processor[g][x]
    <3>1. ASSUME NEW g \in Generations, NEW x \in AnyExporter
          PROVE  \/ processor'[g][x] = processor[g][x]
                 \/ g = gen /\ processor[g][x] = "open" /\ processor'[g][x] = "stopped"
      BY <1>1, <2>1, <2>2, <2>4
    <3>2. ~ gen > gen
      BY <2>1 DEF Generations
    <3>3. QED
      BY <1>4, <3>1, <3>2 DEF Idle
  <2>7. QED
    BY <1>1, <1>7, <2>1, <2>5, <2>6, ProcessorsMove DEF CloseTimesOut
<1>8. CASE \E x \in AnyExporter : StopProcessor(x)
  <2>1. PICK x \in AnyExporter : StopProcessor(x)
    BY <1>8
  <2>2. gen \in Generations /\ gen > 0 /\ processor[gen][x] = "open"
    BY <1>2, <1>3, <2>1 DEF StopProcessor
  <2>3. processor' = [processor EXCEPT ![gen] = [processor[gen] EXCEPT ![x] = "stopped"]]
    BY <2>1 DEF StopProcessor
  <2>4. processor' \in [Generations -> [AnyExporter -> {"none", "open", "stopped", "shut"}]]
    BY <1>1, <2>2, <2>3
  <2>5. \A g \in Generations, y \in AnyExporter :
           /\ processor[g][y] \in Idle => processor'[g][y] = processor[g][y]
           /\ processor'[g][y] \in Idle => queue[g][y] = <<>>
           /\ g > gen => processor'[g][y] = processor[g][y]
    <3>1. ASSUME NEW g \in Generations, NEW y \in AnyExporter
          PROVE  \/ processor'[g][y] = processor[g][y]
                 \/ g = gen /\ processor[g][y] = "open" /\ processor'[g][y] = "stopped"
      BY <1>1, <2>2, <2>3
    <3>2. ~ gen > gen
      BY <2>2 DEF Generations
    <3>3. QED
      BY <1>4, <3>1, <3>2 DEF Idle
  <2>6. closing' = "waiting"
    BY <2>1 DEF StopProcessor
  <2>7. QED
    BY <1>1, <2>1, <2>2, <2>4, <2>5, <2>6, ProcessorsMove DEF StopProcessor
<1>9. CASE \E g \in Generations, x \in AnyExporter : ShutExporter(g, x)
  <2>1. PICK g \in Generations, x \in AnyExporter : ShutExporter(g, x)
    BY <1>9
  <2>2. processor[g][x] = "stopped" /\ queue[g][x] = <<>>
    BY <2>1 DEF ShutExporter
  <2>3. processor' = [processor EXCEPT ![g] = [processor[g] EXCEPT ![x] = "shut"]]
    BY <2>1 DEF ShutExporter
  <2>4. processor' \in [Generations -> [AnyExporter -> {"none", "open", "stopped", "shut"}]]
    BY <1>1, <2>3
  <2>5. ASSUME NEW h \in Generations, NEW y \in AnyExporter
        PROVE  \/ processor'[h][y] = processor[h][y]
               \/ h = g /\ y = x /\ processor'[h][y] = "shut"
    BY <1>1, <2>3
  <2>6. g <= gen
    BY <2>2, StateTyped DEF IInv, Generated, Generations
  <2>7. \A h \in Generations, y \in AnyExporter :
           /\ processor[h][y] \in Idle => processor'[h][y] = processor[h][y]
           /\ processor'[h][y] \in Idle => queue[h][y] = <<>>
           /\ h > gen => processor'[h][y] = processor[h][y]
    <3>1. ~ g > gen
      BY <2>6, StateTyped DEF IInv, Generations
    <3>2. QED
      BY <1>4, <2>2, <2>5, <3>1 DEF Idle
  <2>8. closing' = "returned" => \A y \in AnyExporter : processor'[gen][y] \in Idle
    <3>1. closing' = closing
      BY <2>1 DEF ShutExporter
    <3>2. closing # "no" => gen \in Generations
      BY <1>2, <1>3
    <3>3. QED
      BY <2>5, <3>1, <3>2 DEF IInv, Drained, Idle
  <2>9. envShut' \in BOOLEAN /\ (envShut' => envShut \/ \E h \in Generations : processor'[h][Env] = "shut")
    <3>1. envShut' = (envShut \/ x = Env)
      BY <2>1 DEF ShutExporter
    <3>2. processor'[g][x] = "shut"
      BY <1>1, <2>3
    <3>3. QED
      BY <1>1, <3>1, <3>2
  <2>10. QED
    BY <1>1, <1>2, <2>1, <2>4, <2>7, <2>8, <2>9, ProcessorsMove DEF ShutExporter
<1>10. QED
  BY <1>5, <1>6, <1>7, <1>8, <1>9

---------------------------------------------------------------------------
LEMMA InitInvariant == Init => IInv
<1> SUFFICES ASSUME Init PROVE IInv
  OBVIOUS
<1>1. TypeOK
  BY InitType
<1>2. \A e \in Sinks : received[e] = <<>>
  BY DEF Init, Sinks
<1>3. Generated
  BY <1>2 DEF Init, Generated
<1>4. Drained /\ EnvShutByClose /\ Lost
  BY DEF Init, Drained, EnvShutByClose, Lost
<1>5. BatchedQueues
  BY DEF Init, BatchedQueues
<1>6. BatchedSent
  BY <1>2, SinkPlace DEF BatchedSent
<1>7. QED
  BY <1>1, <1>3, <1>4, <1>5, <1>6 DEF IInv

LEMMA NextInvariant == IInv /\ [Next]_vars => IInv'
<1> SUFFICES ASSUME IInv, [Next]_vars PROVE IInv'
  OBVIOUS
<1>1. CASE UNCHANGED vars
  <2>1. TypeOK'
    BY <1>1 DEF vars, IInv, TypeOK
  <2>2. Generated'
    BY <1>1 DEF vars, IInv, Generated
  <2>3. Drained' /\ EnvShutByClose' /\ Lost'
    BY <1>1 DEF vars, IInv, Drained, EnvShutByClose, Lost
  <2>4. BatchedQueues' /\ BatchedSent'
    BY <1>1, BatchedStay DEF vars, IInv
  <2>5. QED
    BY <2>1, <2>2, <2>3, <2>4 DEF IInv
<1>2. CASE \E cfg \in Configs : Initialize(cfg)
  BY <1>2, InitializeStep
<1>3. CASE \E s \in Spans : StartSpan(s) \/ EndSpan(s)
  BY <1>3, StartSpanStep, EndSpanStep
<1>4. CASE \E n \in 1 .. Len(Remote) : Forward(n)
  BY <1>4, ForwardStep
<1>5. CASE \E x \in AnyExporter : ForwardSpan(x)
  BY <1>5, ForwardSpanStep
<1>6. CASE \E g \in Generations, x \in AnyExporter : Export(g, x)
  BY <1>6, ExportStep
<1>7. CASE \/ Close \/ CloseReturns \/ CloseTimesOut
           \/ \E x \in AnyExporter : StopProcessor(x)
           \/ \E g \in Generations, x \in AnyExporter : ShutExporter(g, x)
  BY <1>7, CloseStep
<1>8. QED
  BY <1>1, <1>2, <1>3, <1>4, <1>5, <1>6, <1>7 DEF Next

LEMMA Invariant == Spec => []IInv
BY InitInvariant, NextInvariant, PTL DEF Spec

(* The types of LiveSpans, and the bound of the queues. *)
THEOREM LiveSpansTypes == Spec => []TypeOK
<1>1. IInv => TypeOK
  BY DEF IInv
<1>2. QED
  BY <1>1, Invariant, PTL

(* However many spans run, are forwarded or end after another Init, an exporter
   that takes finished spans is given no other (exporters.go, init.go).     *)
THEOREM BatchedFinished == Spec => []BatchedSeesFinished
<1>1. IInv => BatchedSeesFinished
  <2> SUFFICES ASSUME IInv, NEW g \in Generations, NEW x \in pipeline[g].batched,
                      NEW e \in ToSet(received[Sink(g, x)]), e.by = g, x \notin pipeline[g].live
               PROVE  e.view = "done"
    BY DEF BatchedSeesFinished
  <2>1. x \in AnyExporter
    BY DEF IInv, TypeOK
  <2>2. PICK i \in DOMAIN received[Sink(g, x)] : e = received[Sink(g, x)][i]
    BY DEF ToSet
  <2>3. QED
    BY <2>1, <2>2 DEF IInv, BatchedSent
<1>2. QED
  BY <1>1, Invariant, PTL

(* Close in time empties the queues of the last Init; what is refused is refused
   by the environment's exporter, which another Init's Close shut down.     *)
THEOREM CloseKeeps == Spec => []CloseLosesNothing
<1>1. IInv => CloseLosesNothing
  <2> SUFFICES ASSUME IInv PROVE CloseLosesNothing
    OBVIOUS
  <2>1. closing = "returned" => \A x \in AnyExporter : queue[gen][x] = <<>>
    <3>1. closing = "returned" => gen \in Generations
      BY StateTyped, LiveSpansAssumption DEF IInv, Generated, Generations
    <3>2. QED
      BY <3>1 DEF IInv, Drained
  <2>2. QED
    BY <2>1 DEF IInv, Lost, CloseLosesNothing
<1>2. QED
  BY <1>1, Invariant, PTL

---------------------------------------------------------------------------
(* The order in which an exporter is told of a span.  Of each span what comes
   from one place is a start and then an end; the invariant follows the two
   through the inbox, the forwarder's call, the queue and what was received. *)

(* Of one span, e is its start and f its end. *)
Before(e, f) == e.span = f.span => e.view = "live" /\ f.view = "done"

Ordered(s) == \A i, j \in DOMAIN s : i < j => Before(s[i], s[j])

(* What x was told by the provider of Init g, and what it was or will be. *)
Told(g, x)   == {i \in DOMAIN received[Sink(g, x)] : received[Sink(g, x)][i].by = g}
Plain(r)     == [span |-> r.span, view |-> r.view]
Passed(g, x) == {queue[g][x][i] : i \in DOMAIN queue[g][x]}
                  \union {Plain(received[Sink(g, x)][i]) : i \in Told(g, x)}

QueuesOrdered == \A g \in Generations, x \in AnyExporter : Ordered(queue[g][x])

SentOrdered ==
  \A k \in Sinks : \A i, j \in DOMAIN received[k] :
    i < j /\ received[k][i].by = received[k][j].by => Before(received[k][i], received[k][j])

SentFirst ==
  \A g \in Generations, x \in AnyExporter : \A i \in Told(g, x), j \in DOMAIN queue[g][x] :
    Before(received[Sink(g, x)][i], queue[g][x][j])

RemoteEntry == [span : RemoteSpans, view : View]

Coming ==
  /\ inbox \in Seq(RemoteEntry) /\ Ordered(inbox)
  /\ \A x \in AnyExporter :
       /\ call.left[x] \in Seq(RemoteEntry) /\ Ordered(call.left[x])
       /\ \A i \in DOMAIN call.left[x], j \in DOMAIN inbox : Before(call.left[x][i], inbox[j])

ComesAfter ==
  \A g \in Generations, x \in AnyExporter : \A e \in Passed(g, x) :
    /\ \A j \in DOMAIN call.left[x] : Before(e, call.left[x][j])
    /\ \A j \in DOMAIN inbox : Before(e, inbox[j])

(* A span of this process goes through the provider that started it. *)
OwnSpans ==
  \A g \in Generations, x \in AnyExporter : \A e \in Passed(g, x) : e.span \in Spans =>
    /\ g = span[e.span].gen /\ span[e.span].phase # "idle"
    /\ span[e.span].phase = "running" => e.view = "live"

(* Two Inits do not both tell an exporter of the same start or end. *)
OnePath ==
  \A x \in AnyExporter : \A g, h \in Generations : g # h =>
    \A e \in Passed(g, x), f \in Passed(h, x) : ~ SameView(e, f)

SentBy ==
  \A g \in Generations, x \in Exporters : \A i \in DOMAIN received[<<g, x>>] :
    received[<<g, x>>][i].by = g

OInv ==
  /\ QueuesOrdered /\ SentOrdered /\ SentFirst /\ Coming
  /\ ComesAfter /\ OwnSpans /\ OnePath /\ SentBy

---------------------------------------------------------------------------
(* Sequences. *)
LEMMA AppendElements ==
  ASSUME NEW S, NEW s \in Seq(S), NEW e \in S, NEW i \in DOMAIN Append(s, e)
  PROVE  \/ i \in DOMAIN s /\ Append(s, e)[i] = s[i]
         \/ i = Len(s) + 1 /\ Append(s, e)[i] = e
OBVIOUS

LEMMA AppendOrdered ==
  ASSUME NEW S, NEW s \in Seq(S), NEW e \in S, Ordered(s), \A i \in DOMAIN s : Before(s[i], e)
  PROVE  Ordered(Append(s, e))
<1> SUFFICES ASSUME NEW i \in DOMAIN Append(s, e), NEW j \in DOMAIN Append(s, e), i < j
             PROVE  Before(Append(s, e)[i], Append(s, e)[j])
  BY DEF Ordered
<1>1. i \in DOMAIN s /\ Append(s, e)[i] = s[i] /\ i \in 1 .. Len(s)
  OBVIOUS
<1>2. CASE j \in DOMAIN s /\ Append(s, e)[j] = s[j]
  BY <1>1, <1>2 DEF Ordered
<1>3. CASE Append(s, e)[j] = e
  BY <1>1, <1>3
<1>4. QED
  BY <1>2, <1>3, AppendElements

LEMMA TailElements ==
  ASSUME NEW S, NEW s \in Seq(S), s # <<>>
  PROVE  /\ Head(s) \in S /\ Tail(s) \in Seq(S) /\ 1 \in DOMAIN s /\ Head(s) = s[1]
         /\ \A j \in DOMAIN Tail(s) : j + 1 \in DOMAIN s /\ Tail(s)[j] = s[j + 1] /\ j \in Nat /\ j > 0
OBVIOUS

LEMMA TailOrdered ==
  ASSUME NEW S, NEW s \in Seq(S), s # <<>>, Ordered(s)
  PROVE  Ordered(Tail(s)) /\ \A j \in DOMAIN Tail(s) : Before(Head(s), Tail(s)[j])
<1>1. ASSUME NEW i \in DOMAIN Tail(s), NEW j \in DOMAIN Tail(s), i < j PROVE Before(Tail(s)[i], Tail(s)[j])
  <2>1. i + 1 \in DOMAIN s /\ j + 1 \in DOMAIN s /\ i + 1 < j + 1
    BY <1>1, TailElements
  <2>2. Tail(s)[i] = s[i + 1] /\ Tail(s)[j] = s[j + 1]
    BY TailElements
  <2>3. QED
    BY <2>1, <2>2 DEF Ordered
<1>2. ASSUME NEW j \in DOMAIN Tail(s) PROVE Before(Head(s), Tail(s)[j])
  <2>1. 1 \in DOMAIN s /\ j + 1 \in DOMAIN s /\ 1 < j + 1 /\ Head(s) = s[1] /\ Tail(s)[j] = s[j + 1]
    BY TailElements
  <2>2. QED
    BY <2>1 DEF Ordered
<1>3. QED
  BY <1>1, <1>2 DEF Ordered

---------------------------------------------------------------------------
(* An entry is queued that comes after all that the processor was given. *)
LEMMA EnqueueInOrder ==
  ASSUME TypeOK, QueuesOrdered, SentOrdered, SentFirst, SentBy,
         NEW g \in Generations, NEW targets, NEW entry \in Entry,
         Enqueue(g, targets, entry), received' = received,
         \A x \in targets \intersect AnyExporter : \A e \in Passed(g, x) : Before(e, entry)
  PROVE  /\ QueuesOrdered' /\ SentOrdered' /\ SentFirst' /\ SentBy'
         /\ \A h \in Generations, x \in AnyExporter :
              \A e \in Passed(h, x)' : e \in Passed(h, x) \/ (h = g /\ x \in targets /\ e = entry)
<1>1. \A h \in Generations, x \in AnyExporter :
        /\ queue[h][x] \in Seq(Entry)
        /\ \/ queue'[h][x] = queue[h][x]
           \/ h = g /\ x \in targets /\ queue'[h][x] = Append(queue[h][x], entry)
  BY EnqueueAppends, QueueTyped
<1>2. \A h \in Generations, x \in AnyExporter : \A i \in DOMAIN queue'[h][x] :
        \/ i \in DOMAIN queue[h][x] /\ queue'[h][x][i] = queue[h][x][i]
        \/ h = g /\ x \in targets /\ queue'[h][x][i] = entry
  <2>1. ASSUME NEW h \in Generations, NEW x \in AnyExporter, NEW i \in DOMAIN queue'[h][x],
               h = g, x \in targets, queue'[h][x] = Append(queue[h][x], entry)
        PROVE  (i \in DOMAIN queue[h][x] /\ queue'[h][x][i] = queue[h][x][i]) \/ queue'[h][x][i] = entry
    <3>1. queue[h][x] \in Seq(Entry) /\ i \in DOMAIN Append(queue[h][x], entry)
      BY <1>1, <2>1
    <3>2. QED
      BY <2>1, <3>1, AppendElements
  <2>2. QED
    BY <1>1, <2>1
<1>3. SentOrdered' /\ SentBy'
  BY DEF SentOrdered, SentBy
<1>4. \A h \in Generations, x \in AnyExporter : Told(h, x)' = Told(h, x)
  BY DEF Told, Sink
<1>5. SentFirst'
  <2>1. ASSUME NEW h \in Generations, NEW x \in AnyExporter, NEW i \in Told(h, x), NEW j \in DOMAIN queue'[h][x]
        PROVE  Before(received[Sink(h, x)][i], queue'[h][x][j])
    <3>1. CASE j \in DOMAIN queue[h][x] /\ queue'[h][x][j] = queue[h][x][j]
      BY <3>1 DEF SentFirst
    <3>2. CASE h = g /\ x \in targets /\ queue'[h][x][j] = entry
      <4>1. Plain(received[Sink(h, x)][i]) \in Passed(h, x)
        BY DEF Passed
      <4>2. Before(Plain(received[Sink(h, x)][i]), entry)
        BY <3>2, <4>1
      <4>3. QED
        BY <3>2, <4>2 DEF Before, Plain
    <3>3. QED
      BY <1>2, <3>1, <3>2
  <2>2. QED
    BY <1>4, <2>1 DEF SentFirst, Sink
<1>6. QueuesOrdered'
  <2>1. ASSUME NEW h \in Generations, NEW x \in AnyExporter PROVE Ordered(queue'[h][x])
    <3>1. CASE queue'[h][x] = queue[h][x]
      BY <3>1 DEF QueuesOrdered
    <3>2. CASE h = g /\ x \in targets /\ queue'[h][x] = Append(queue[h][x], entry)
      <4>1. \A i \in DOMAIN queue[h][x] : Before(queue[h][x][i], entry)
        BY <3>2 DEF Passed
      <4>2. QED
        BY <1>1, <3>2, <4>1, AppendOrdered DEF QueuesOrdered
    <3>3. QED
      BY <1>1, <3>1, <3>2
  <2>2. QED
    BY <2>1 DEF QueuesOrdered
<1>7. ASSUME NEW h \in Generations, NEW x \in AnyExporter, NEW e \in Passed(h, x)'
      PROVE  e \in Passed(h, x) \/ (h = g /\ x \in targets /\ e = entry)
  <2>1. CASE \E i \in DOMAIN queue'[h][x] : e = queue'[h][x][i]
    BY <1>2, <2>1 DEF Passed
  <2>2. CASE \E i \in Told(h, x) : e = Plain(received[Sink(h, x)][i])
    BY <2>2 DEF Passed
  <2>3. e \in {queue'[h][x][i] : i \in DOMAIN queue'[h][x]}
               \union {Plain(received[Sink(h, x)][i]) : i \in Told(h, x)}
    BY <1>4 DEF Passed, Plain, Sink
  <2>4. QED
    BY <2>1, <2>2, <2>3
<1>8. QED
  BY <1>3, <1>5, <1>6, <1>7

---------------------------------------------------------------------------
LEMMA ComingIsRemote ==
  ASSUME Coming
  PROVE  /\ \A x \in AnyExporter : \A j \in DOMAIN call.left[x] :
              call.left[x][j] \in Entry /\ call.left[x][j].span \notin Spans
         /\ \A j \in DOMAIN inbox : inbox[j] \in Entry /\ inbox[j].span \notin Spans
<1>1. ASSUME NEW e \in RemoteEntry PROVE e \in Entry /\ e.span \notin Spans
  BY LiveSpansAssumption DEF RemoteEntry, Entry, AnySpan
<1>2. ASSUME NEW x \in AnyExporter, NEW j \in DOMAIN call.left[x] PROVE call.left[x][j] \in RemoteEntry
  BY SeqElement DEF Coming
<1>3. ASSUME NEW j \in DOMAIN inbox PROVE inbox[j] \in RemoteEntry
  BY SeqElement DEF Coming
<1>4. QED
  BY <1>1, <1>2, <1>3

LEMMA StartSpanOrder == ASSUME IInv, OInv, NEW s \in Spans, StartSpan(s) PROVE OInv'
<1> DEFINE entry == SnapshotSpan(s)
<1>1. TypeOK /\ gen \in Generations
  BY StateTyped, LiveSpansAssumption DEF IInv, StartSpan, Generations
<1>2. entry \in Entry /\ entry.span = s /\ entry.view = "live"
  BY DEF SnapshotSpan, Entry, AnySpan, View
<1>3. \A h \in Generations, x \in AnyExporter : \A e \in Passed(h, x) : e.span # s
  BY DEF OInv, OwnSpans, StartSpan
<1>4. /\ Enqueue(gen, pipeline[gen].live, entry) /\ received' = received /\ call' = call /\ inbox' = inbox
      /\ span' = [span EXCEPT ![s] = [phase |-> "running", gen |-> gen]]
  BY DEF StartSpan
<1>5. span \in [Spans -> [phase : {"idle", "running", "ended"}, gen : 0 .. MaxInits]]
  BY <1>1 DEF TypeOK
<1> HIDE DEF entry
<1>6. \A x \in AnyExporter : \A e \in Passed(gen, x) : Before(e, entry)
  BY <1>1, <1>2, <1>3 DEF Before
<1>7. /\ QueuesOrdered' /\ SentOrdered' /\ SentFirst' /\ SentBy'
      /\ \A h \in Generations, x \in AnyExporter :
           \A e \in Passed(h, x)' : e \in Passed(h, x) \/ (h = gen /\ e = entry)
  BY <1>1, <1>2, <1>4, <1>6, EnqueueInOrder DEF OInv
<1>8. Coming'
  BY <1>4 DEF OInv, Coming
<1>9. ComesAfter'
  <2>1. \A x \in AnyExporter : \A j \in DOMAIN call.left[x] : call.left[x][j].span # s
    BY ComingIsRemote DEF OInv
  <2>2. \A j \in DOMAIN inbox : inbox[j].span # s
    BY ComingIsRemote DEF OInv
  <2>3. QED
    BY <1>2, <1>4, <1>7, <2>1, <2>2 DEF OInv, ComesAfter, Before
<1>10. OwnSpans'
  <2>1. ASSUME NEW h \in Generations, NEW x \in AnyExporter, NEW e \in Passed(h, x)', e.span \in Spans
        PROVE  /\ h = span'[e.span].gen /\ span'[e.span].phase # "idle"
               /\ span'[e.span].phase = "running" => e.view = "live"
    <3>1. CASE e \in Passed(h, x)
      <4>1. span'[e.span] = span[e.span]
        BY <1>3, <1>4, <1>5, <2>1, <3>1
      <4>2. QED
        BY <2>1, <3>1, <4>1 DEF OInv, OwnSpans
    <3>2. CASE h = gen /\ e = entry
      BY <1>2, <1>4, <1>5, <3>2
    <3>3. QED
      BY <1>7, <3>1, <3>2
  <2>2. QED
    BY <2>1 DEF OwnSpans
<1>11. OnePath'
  BY <1>2, <1>3, <1>7 DEF OInv, OnePath, SameView
<1>12. QED
  BY <1>7, <1>8, <1>9, <1>10, <1>11 DEF OInv

LEMMA EndSpanOrder == ASSUME IInv, OInv, NEW s \in Spans, EndSpan(s) PROVE OInv'
<1> DEFINE entry == Finished(s)
           g     == span[s].gen
<1>1. TypeOK /\ g \in Generations
  BY StateTyped, LiveSpansAssumption DEF IInv, EndSpan, Generations, Generated
<1>2. entry \in Entry /\ entry.span = s /\ entry.view = "done"
  BY DEF Finished, Entry, AnySpan, View
<1>3. \A h \in Generations, x \in AnyExporter : \A e \in Passed(h, x) :
        e.span = s => h = g /\ e.view = "live"
  BY DEF OInv, OwnSpans, EndSpan
<1>4. /\ Enqueue(g, Processors(g), entry) /\ received' = received /\ call' = call /\ inbox' = inbox
      /\ span' = [span EXCEPT ![s] = [phase |-> "ended", gen |-> g]]
  <2>1. span \in [Spans -> [phase : {"idle", "running", "ended"}, gen : 0 .. MaxInits]]
    BY <1>1 DEF TypeOK
  <2>2. span' = [span EXCEPT ![s] = [span[s] EXCEPT !.phase = "ended"]]
    BY DEF EndSpan
  <2>3. [span[s] EXCEPT !.phase = "ended"] = [phase |-> "ended", gen |-> g]
    BY <2>1
  <2>4. QED
    BY <2>2, <2>3 DEF EndSpan
<1>5. span \in [Spans -> [phase : {"idle", "running", "ended"}, gen : 0 .. MaxInits]]
  BY <1>1 DEF TypeOK
<1> HIDE DEF entry, g
<1>6. \A x \in AnyExporter : \A e \in Passed(g, x) : Before(e, entry)
  BY <1>1, <1>2, <1>3 DEF Before
<1>7. /\ QueuesOrdered' /\ SentOrdered' /\ SentFirst' /\ SentBy'
      /\ \A h \in Generations, x \in AnyExporter :
           \A e \in Passed(h, x)' : e \in Passed(h, x) \/ (h = g /\ e = entry)
  BY <1>1, <1>2, <1>4, <1>6, EnqueueInOrder DEF OInv
<1>8. Coming'
  BY <1>4 DEF OInv, Coming
<1>9. ComesAfter'
  <2>1. \A x \in AnyExporter : \A j \in DOMAIN call.left[x] : call.left[x][j].span # s
    BY ComingIsRemote DEF OInv
  <2>2. \A j \in DOMAIN inbox : inbox[j].span # s
    BY ComingIsRemote DEF OInv
  <2>3. QED
    BY <1>2, <1>4, <1>7, <2>1, <2>2 DEF OInv, ComesAfter, Before
<1>10. OwnSpans'
  <2>1. ASSUME NEW h \in Generations, NEW x \in AnyExporter, NEW e \in Passed(h, x)', e.span \in Spans
        PROVE  /\ h = span'[e.span].gen /\ span'[e.span].phase # "idle"
               /\ span'[e.span].phase = "running" => e.view = "live"
    <3>1. CASE e.span = s
      BY <1>2, <1>3, <1>4, <1>5, <1>7, <3>1
    <3>2. CASE e.span # s
      <4>1. e \in Passed(h, x) /\ span'[e.span] = span[e.span]
        BY <1>2, <1>4, <1>5, <1>7, <2>1, <3>2
      <4>2. QED
        BY <2>1, <4>1 DEF OInv, OwnSpans
    <3>3. QED
      BY <3>1, <3>2
  <2>2. QED
    BY <2>1 DEF OwnSpans
<1>11. OnePath'
  BY <1>2, <1>3, <1>7 DEF OInv, OnePath, SameView
<1>12. QED
  BY <1>7, <1>8, <1>9, <1>10, <1>11 DEF OInv

(* The head of a goroutine's part comes after all its processor was given. *)
LEMMA ForwardSpanOrder == ASSUME IInv, OInv, NEW x \in AnyExporter, ForwardSpan(x) PROVE OInv'
<1> DEFINE entry == Head(call.left[x])
           g     == call.gen
           rest  == Tail(call.left[x])
<1>1. /\ TypeOK /\ g \in Generations /\ call.left[x] # <<>>
      /\ call.left \in [AnyExporter -> Seq(Entry)]
  BY StateTyped, LiveSpansAssumption DEF IInv, ForwardSpan, Generations, Generated
<1>2. /\ Coming /\ ComesAfter /\ OwnSpans /\ OnePath
      /\ call.left[x] \in Seq(RemoteEntry) /\ Ordered(call.left[x])
      /\ \A i \in DOMAIN call.left[x], j \in DOMAIN inbox : Before(call.left[x][i], inbox[j])
  BY DEF OInv, Coming
<1>3. /\ 1 \in DOMAIN call.left[x] /\ entry = call.left[x][1] /\ rest \in Seq(RemoteEntry)
      /\ Ordered(rest) /\ \A j \in DOMAIN rest : Before(entry, rest[j])
      /\ \A j \in DOMAIN rest : j + 1 \in DOMAIN call.left[x] /\ rest[j] = call.left[x][j + 1]
  <2>1. /\ 1 \in DOMAIN call.left[x] /\ entry = call.left[x][1] /\ rest \in Seq(RemoteEntry)
        /\ \A j \in DOMAIN rest : j + 1 \in DOMAIN call.left[x] /\ rest[j] = call.left[x][j + 1]
    BY <1>1, <1>2, TailElements
  <2>2. Ordered(rest) /\ \A j \in DOMAIN rest : Before(entry, rest[j])
    BY <1>1, <1>2, TailOrdered
  <2>3. QED
    BY <2>1, <2>2
<1>4. entry \in Entry /\ entry.span \notin Spans
  BY <1>2, <1>3, ComingIsRemote
<1>5. /\ Enqueue(g, ForwardTargets(entry, x), entry) /\ received' = received /\ inbox' = inbox /\ span' = span
  BY DEF ForwardSpan
<1>6. call'.left = [call.left EXCEPT ![x] = rest]
  BY <1>1, StateTyped DEF ForwardSpan
<1>7. ForwardTargets(entry, x) \subseteq {x}
  BY DEF ForwardTargets
<1> HIDE DEF entry, g, rest
<1>8. \A y \in AnyExporter :
        /\ y # x => call'.left[y] = call.left[y]
        /\ y = x => call'.left[y] = rest
  BY <1>1, <1>6
<1>9. \A h \in Generations : \A e \in Passed(h, x) : Before(e, entry)
  BY <1>2, <1>3 DEF ComesAfter
<1>10. /\ QueuesOrdered' /\ SentOrdered' /\ SentFirst' /\ SentBy'
       /\ \A h \in Generations, y \in AnyExporter :
            \A e \in Passed(h, y)' : e \in Passed(h, y) \/ (h = g /\ y = x /\ e = entry)
  <2>1. \A y \in ForwardTargets(entry, x) \intersect AnyExporter : \A e \in Passed(g, y) : Before(e, entry)
    BY <1>1, <1>7, <1>9
  <2>2. /\ QueuesOrdered' /\ SentOrdered' /\ SentFirst' /\ SentBy'
        /\ \A h \in Generations, y \in AnyExporter :
             \A e \in Passed(h, y)' : e \in Passed(h, y) \/ (h = g /\ y \in ForwardTargets(entry, x) /\ e = entry)
    BY <1>1, <1>4, <1>5, <2>1, EnqueueInOrder DEF OInv
  <2>3. QED
    BY <1>7, <2>2
<1>11. Coming'
  <2>1. \A i \in DOMAIN rest, j \in DOMAIN inbox : Before(rest[i], inbox[j])
    BY <1>2, <1>3
  <2>2. QED
    BY <1>2, <1>3, <1>5, <1>8, <2>1 DEF Coming
<1>12. ComesAfter'
  <2>1. ASSUME NEW h \in Generations, NEW y \in AnyExporter, NEW e \in Passed(h, y)'
        PROVE  /\ \A j \in DOMAIN call'.left[y] : Before(e, call'.left[y][j])
               /\ \A j \in DOMAIN inbox : Before(e, inbox[j])
    <3>1. CASE e \in Passed(h, y)
      <4>1. CASE y = x
        BY <1>2, <1>3, <1>8, <3>1, <4>1 DEF ComesAfter
      <4>2. CASE y # x
        BY <1>2, <1>8, <3>1, <4>2 DEF ComesAfter
      <4>3. QED
        BY <4>1, <4>2
    <3>2. CASE y = x /\ e = entry
      BY <1>2, <1>3, <1>8, <3>2
    <3>3. QED
      BY <1>10, <3>1, <3>2
  <2>2. QED
    BY <1>5, <2>1 DEF ComesAfter
<1>13. OwnSpans'
  BY <1>2, <1>4, <1>5, <1>10 DEF OwnSpans
<1>14. OnePath'
  BY <1>2, <1>9, <1>10 DEF OnePath, SameView, Before
<1>15. QED
  BY <1>10, <1>11, <1>12, <1>13, <1>14 DEF OInv

LEMMA SplitElements ==
  ASSUME NEW S, NEW s \in Seq(S), NEW n \in 1 .. Len(s)
  PROVE  /\ SubSeq(s, 1, n) \in Seq(S) /\ SubSeq(s, n + 1, Len(s)) \in Seq(S)
         /\ \A i \in DOMAIN SubSeq(s, 1, n) :
              i \in DOMAIN s /\ SubSeq(s, 1, n)[i] = s[i] /\ i \in Nat /\ i <= n
         /\ \A j \in DOMAIN SubSeq(s, n + 1, Len(s)) :
              j + n \in DOMAIN s /\ SubSeq(s, n + 1, Len(s))[j] = s[j + n] /\ j \in Nat /\ j > 0
OBVIOUS

(* A forwarded batch splits the inbox in two. *)
LEMMA ForwardOrder == ASSUME IInv, OInv, NEW n \in 1 .. Len(Remote), Forward(n) PROVE OInv'
<1> DEFINE batch == SubSeq(inbox, 1, n)
           rest  == SubSeq(inbox, n + 1, Len(inbox))
<1>1. /\ Coming /\ ComesAfter /\ inbox \in Seq(RemoteEntry) /\ Ordered(inbox) /\ n \in 1 .. Len(inbox)
  BY DEF OInv, Coming, Forward
<1>2. /\ batch \in Seq(RemoteEntry) /\ rest \in Seq(RemoteEntry)
      /\ \A i \in DOMAIN batch : i \in DOMAIN inbox /\ batch[i] = inbox[i] /\ i \in Nat /\ i <= n
      /\ \A j \in DOMAIN rest : j + n \in DOMAIN inbox /\ rest[j] = inbox[j + n] /\ j \in Nat /\ j > 0
  BY <1>1, SplitElements
<1>3. /\ inbox' = rest /\ queue' = queue /\ received' = received /\ span' = span
      /\ \A x \in AnyExporter : call'.left[x] = batch \/ call'.left[x] = <<>>
  BY DEF Forward
<1> HIDE DEF batch, rest
<1>4. Ordered(batch) /\ Ordered(rest) /\ \A i \in DOMAIN batch, j \in DOMAIN rest : Before(batch[i], rest[j])
  <2>1. Ordered(batch)
    BY <1>1, <1>2 DEF Ordered
  <2>2. ASSUME NEW i \in DOMAIN rest, NEW j \in DOMAIN rest, i < j PROVE Before(rest[i], rest[j])
    <3>1. i + n < j + n
      BY <1>1, <1>2, <2>2
    <3>2. QED
      BY <1>1, <1>2, <3>1 DEF Ordered
  <2>3. ASSUME NEW i \in DOMAIN batch, NEW j \in DOMAIN rest PROVE Before(batch[i], rest[j])
    <3>1. i < j + n
      BY <1>1, <1>2
    <3>2. QED
      BY <1>1, <1>2, <3>1 DEF Ordered
  <2>4. QED
    BY <2>1, <2>2, <2>3 DEF Ordered
<1>5. Coming'
  <2>1. ASSUME NEW x \in AnyExporter
        PROVE  /\ call'.left[x] \in Seq(RemoteEntry) /\ Ordered(call'.left[x])
               /\ \A i \in DOMAIN call'.left[x], j \in DOMAIN rest : Before(call'.left[x][i], rest[j])
    <3>1. CASE call'.left[x] = batch
      BY <1>2, <1>4, <3>1
    <3>2. CASE call'.left[x] = <<>>
      BY <3>2 DEF Ordered
    <3>3. QED
      BY <1>3, <3>1, <3>2
  <2>2. QED
    BY <1>2, <1>3, <1>4, <2>1 DEF Coming
<1>6. \A h \in Generations, x \in AnyExporter : Passed(h, x)' = Passed(h, x) /\ Told(h, x)' = Told(h, x)
  BY <1>3 DEF Passed, Told, Plain, Sink
<1>7. ComesAfter'
  <2>1. ASSUME NEW h \in Generations, NEW x \in AnyExporter, NEW e \in Passed(h, x)
        PROVE  /\ \A j \in DOMAIN call'.left[x] : Before(e, call'.left[x][j])
               /\ \A j \in DOMAIN rest : Before(e, rest[j])
    <3>1. \A j \in DOMAIN inbox : Before(e, inbox[j])
      BY <1>1 DEF ComesAfter
    <3>2. \A j \in DOMAIN rest : Before(e, rest[j])
      BY <1>2, <3>1
    <3>3. \A j \in DOMAIN batch : Before(e, batch[j])
      BY <1>2, <3>1
    <3>4. QED
      BY <1>3, <3>2, <3>3
  <2>2. QED
    BY <1>3, <1>6, <2>1 DEF ComesAfter
<1>8. QueuesOrdered' /\ SentOrdered' /\ SentFirst' /\ SentBy'
  BY <1>3, <1>6 DEF OInv, QueuesOrdered, SentOrdered, SentFirst, SentBy, Sink
<1>9. OwnSpans' /\ OnePath'
  BY <1>3, <1>6 DEF OInv, OwnSpans, OnePath
<1>10. QED
  BY <1>5, <1>7, <1>8, <1>9 DEF OInv

(* Initialize and Close move no entry. *)
LEMMA NothingMoves ==
  ASSUME OInv, UNCHANGED <<queue, span, inbox, call, received>>
  PROVE  OInv'
<1>1. \A h \in Generations, x \in AnyExporter : Passed(h, x)' = Passed(h, x) /\ Told(h, x)' = Told(h, x)
  BY DEF Passed, Told, Plain, Sink
<1>2. QueuesOrdered' /\ SentOrdered' /\ SentBy' /\ Coming'
  BY DEF OInv, QueuesOrdered, SentOrdered, SentBy, Coming
<1>3. SentFirst' /\ ComesAfter' /\ OwnSpans' /\ OnePath'
  BY <1>1 DEF OInv, SentFirst, ComesAfter, OwnSpans, OnePath, Sink
<1>4. QED
  BY <1>2, <1>3 DEF OInv

(* What Export does to the queue and to what was received. *)
LEMMA ExportMoves ==
  ASSUME IInv, NEW g \in Generations, NEW x \in AnyExporter, Export(g, x),
         NEW entry, entry = Head(queue[g][x]),
         NEW e, e = [span |-> entry.span, view |-> entry.view, by |-> g]
  PROVE  /\ entry \in Entry /\ queue[g][x] \in Seq(Entry) /\ queue[g][x] # <<>>
         /\ queue'[g][x] = Tail(queue[g][x])
         /\ \A h \in Generations, y \in AnyExporter : h # g \/ y # x => queue'[h][y] = queue[h][y]
         /\ \/ received' = received
            \/ \A k \in Sinks :
                 /\ k # Sink(g, x) => received'[k] = received[k]
                 /\ k = Sink(g, x) => received'[k] = Append(received[k], e)
<1>1. TypeOK /\ queue[g][x] \in Seq(Entry) /\ queue[g][x] # <<>>
  BY QueueTyped DEF IInv, Export
<1>2. entry \in Entry /\ Tail(queue[g][x]) \in Seq(Entry)
  BY <1>1
<1>3. Shown(Head(queue[g][x])) = entry
  BY <1>2, ShownIsEntry
<1>4. queue' = [queue EXCEPT ![g] = [queue[g] EXCEPT ![x] = Tail(queue[g][x])]]
  BY <1>1, QueueTyped DEF Export
<1>5. received' = received \/ received' = [received EXCEPT ![Sink(g, x)] = Append(received[Sink(g, x)], e)]
  BY <1>3 DEF Export
<1>6. received \in [Sinks -> Seq([span : AnySpan, view : View, by : Generations])]
  BY <1>1 DEF TypeOK
<1>7. queue \in [Generations -> [AnyExporter -> Seq(Entry)]]
  BY <1>1, QueueTyped
<1>8. QED
  BY <1>1, <1>2, <1>4, <1>5, <1>6, <1>7, SinkPlace

LEMMA ExportOrder ==
  ASSUME IInv, OInv, NEW g \in Generations, NEW x \in AnyExporter, Export(g, x) PROVE OInv'
<1> DEFINE entry == Head(queue[g][x])
           e     == [span |-> entry.span, view |-> entry.view, by |-> g]
           q     == queue[g][x]
           R     == [span : AnySpan, view : View, by : Generations]
<1>1. /\ entry \in Entry /\ q \in Seq(Entry) /\ q # <<>> /\ queue'[g][x] = Tail(q)
      /\ \A h \in Generations, y \in AnyExporter : h # g \/ y # x => queue'[h][y] = queue[h][y]
      /\ \/ received' = received
         \/ \A k \in Sinks :
              /\ k # Sink(g, x) => received'[k] = received[k]
              /\ k = Sink(g, x) => received'[k] = Append(received[k], e)
  BY ExportMoves
<1>2. /\ span' = span /\ call' = call /\ inbox' = inbox
  BY DEF Export
<1>3. \A k \in Sinks : received[k] \in Seq(R)
  BY StateTyped DEF IInv
<1>4. e \in R /\ e.by = g /\ e.span = entry.span /\ e.view = entry.view /\ Plain(e) = entry
  BY <1>1 DEF Entry, Plain
<1>5. 1 \in DOMAIN q /\ entry = q[1]
  BY <1>1
<1> HIDE DEF entry, e, R, q
<1>6. /\ \A j \in DOMAIN Tail(q) : j + 1 \in DOMAIN q /\ Tail(q)[j] = q[j + 1]
  BY <1>1, TailElements
<1>7. q = queue[g][x] /\ Ordered(q)
  BY DEF q, OInv, QueuesOrdered
<1>8. Ordered(Tail(q)) /\ \A j \in DOMAIN Tail(q) : Before(entry, Tail(q)[j])
  BY <1>1, <1>5, <1>7, TailOrdered
<1>9. \A h \in Generations, y \in AnyExporter : \A j \in DOMAIN queue'[h][y] :
        \E i \in DOMAIN queue[h][y] : queue'[h][y][j] = queue[h][y][i]
  <2>1. ASSUME NEW j \in DOMAIN Tail(q) PROVE \E i \in DOMAIN q : Tail(q)[j] = q[i]
    BY <1>6
  <2>2. ASSUME NEW h \in Generations, NEW y \in AnyExporter, NEW j \in DOMAIN queue'[h][y]
        PROVE  \E i \in DOMAIN queue[h][y] : queue'[h][y][j] = queue[h][y][i]
    <3>1. CASE h = g /\ y = x
      <4>1. queue'[h][y] = Tail(q) /\ queue[h][y] = q /\ j \in DOMAIN Tail(q)
        BY <1>1, <1>7, <3>1
      <4>2. QED
        BY <2>1, <4>1
    <3>2. CASE h # g \/ y # x
      BY <1>1, <2>2, <3>2
    <3>3. QED
      BY <3>1, <3>2
  <2>3. QED
    BY <2>2
<1>10. ASSUME NEW k \in Sinks, NEW i \in DOMAIN received'[k]
       PROVE  \/ i \in DOMAIN received[k] /\ received'[k][i] = received[k][i]
              \/ /\ k = Sink(g, x) /\ received'[k][i] = e /\ queue'[g][x] = Tail(q)
                 /\ i = Len(received[k]) + 1
  <2>1. CASE received'[k] = received[k]
    BY <2>1
  <2>2. CASE k = Sink(g, x) /\ received'[k] = Append(received[k], e)
    BY <1>1, <1>3, <1>4, <2>2, AppendElements
  <2>3. QED
    BY <1>1, <2>1, <2>2
<1>11. \A h \in Generations, y \in AnyExporter : Sink(h, y) \in Sinks /\ (Sink(g, x) = Sink(g, y) => x = y)
  BY SinkPlace
<1>12. ASSUME NEW h \in Generations, NEW y \in AnyExporter, NEW i \in Told(h, y)'
       PROVE  \/ /\ i \in Told(h, y)
                 /\ received'[Sink(h, y)][i] = received[Sink(h, y)][i]
              \/ h = g /\ y = x /\ received'[Sink(h, y)][i] = e
  <2>1. i \in DOMAIN received'[Sink(h, y)] /\ received'[Sink(h, y)][i].by = h
    BY DEF Told, Sink
  <2>2. QED
    BY <1>4, <1>10, <1>11, <2>1 DEF Told
<1>13. QueuesOrdered'
  BY <1>1, <1>8 DEF OInv, QueuesOrdered
<1>14. SentOrdered'
  <2>1. ASSUME NEW k \in Sinks, NEW i \in DOMAIN received'[k], NEW j \in DOMAIN received'[k],
               i < j, received'[k][i].by = received'[k][j].by
        PROVE  Before(received'[k][i], received'[k][j])
    <3>1. CASE j \in DOMAIN received[k] /\ received'[k][j] = received[k][j]
      <4>1. i \in DOMAIN received[k] /\ received'[k][i] = received[k][i]
        <5>1. received[k] \in Seq(R)
          BY <1>3
        <5>2. QED
          BY <1>10, <2>1, <3>1, <5>1
      <4>2. QED
        BY <2>1, <3>1, <4>1 DEF OInv, SentOrdered
    <3>2. CASE k = Sink(g, x) /\ received'[k][j] = e /\ j = Len(received[k]) + 1
      <4>1. i \in DOMAIN received[k] /\ received'[k][i] = received[k][i]
        <5>1. Len(received[k]) \in Nat
          BY <1>3
        <5>2. QED
          BY <1>10, <2>1, <3>2, <5>1
      <4>2. i \in Told(g, x)
        BY <1>4, <2>1, <3>2, <4>1 DEF Told
      <4>3. Before(received[k][i], q[1])
        BY <1>5, <1>7, <3>2, <4>2 DEF OInv, SentFirst
      <4>4. QED
        BY <1>4, <1>5, <3>2, <4>1, <4>3 DEF Before
    <3>3. QED
      BY <1>10, <3>1, <3>2
  <2>2. QED
    BY <2>1 DEF SentOrdered
<1>15. SentFirst'
  <2>1. ASSUME NEW h \in Generations, NEW y \in AnyExporter, NEW i \in Told(h, y)', NEW j \in DOMAIN queue'[h][y]
        PROVE  Before(received'[Sink(h, y)][i], queue'[h][y][j])
    <3>1. CASE i \in Told(h, y) /\ received'[Sink(h, y)][i] = received[Sink(h, y)][i]
      BY <1>9, <3>1 DEF OInv, SentFirst
    <3>2. CASE h = g /\ y = x /\ received'[Sink(h, y)][i] = e
      BY <1>1, <1>4, <1>8, <3>2 DEF Before
    <3>3. QED
      BY <1>12, <3>1, <3>2
  <2>2. QED
    BY <2>1 DEF SentFirst, Sink
<1>16. \A h \in Generations, y \in AnyExporter : Passed(h, y)' \subseteq Passed(h, y)
  <2>1. ASSUME NEW h \in Generations, NEW y \in AnyExporter, NEW f \in Passed(h, y)' PROVE f \in Passed(h, y)
    <3>1. CASE \E j \in DOMAIN queue'[h][y] : f = queue'[h][y][j]
      BY <1>9, <3>1 DEF Passed
    <3>2. CASE \E i \in Told(h, y)' : f = Plain(received'[Sink(h, y)][i])
      <4>1. PICK i \in Told(h, y)' : f = Plain(received'[Sink(h, y)][i])
        BY <3>2
      <4>2. CASE i \in Told(h, y) /\ received'[Sink(h, y)][i] = received[Sink(h, y)][i]
        BY <4>1, <4>2 DEF Passed
      <4>3. CASE h = g /\ y = x /\ received'[Sink(h, y)][i] = e
        BY <1>4, <1>5, <1>7, <4>1, <4>3 DEF Passed
      <4>4. QED
        BY <1>12, <4>2, <4>3
    <3>3. f \in {queue'[h][y][j] : j \in DOMAIN queue'[h][y]}
                 \union {Plain(received'[Sink(h, y)][i]) : i \in Told(h, y)'}
      BY DEF Passed, Plain, Sink
    <3>4. QED
      BY <3>1, <3>2, <3>3
  <2>2. QED
    BY <2>1
<1>17. ComesAfter' /\ OwnSpans' /\ OnePath'
  BY <1>2, <1>16 DEF OInv, ComesAfter, OwnSpans, OnePath
<1>18. Coming'
  BY <1>2 DEF OInv, Coming
<1>19. SentBy'
  <2>1. ASSUME NEW h \in Generations, NEW y \in Exporters, NEW i \in DOMAIN received'[<<h, y>>]
        PROVE  received'[<<h, y>>][i].by = h
    <3>1. <<h, y>> \in Sinks /\ (<<h, y>> = Sink(g, x) => h = g)
      BY LiveSpansAssumption DEF Sinks, Sink, Generations
    <3>2. QED
      BY <1>4, <1>10, <3>1 DEF OInv, SentBy
  <2>2. QED
    BY <2>1 DEF SentBy
<1>20. QED
  BY <1>13, <1>14, <1>15, <1>17, <1>18, <1>19 DEF OInv

---------------------------------------------------------------------------
LEMMA InitOrder == Init => OInv
<1> SUFFICES ASSUME Init PROVE OInv
  OBVIOUS
<1>1. \A h \in Generations, x \in AnyExporter : queue[h][x] = <<>> /\ call.left[x] = <<>>
  BY DEF Init
<1>2. \A k \in Sinks : received[k] = <<>>
  BY DEF Init, Sinks
<1>3. \A h \in Generations, x \in AnyExporter : Told(h, x) = {} /\ Passed(h, x) = {}
  BY <1>1, <1>2, SinkPlace DEF Told, Passed
<1>4. QueuesOrdered /\ SentOrdered /\ SentFirst /\ ComesAfter /\ OwnSpans /\ OnePath
  BY <1>1, <1>2, <1>3 DEF QueuesOrdered, SentOrdered, SentFirst, ComesAfter, OwnSpans, OnePath, Ordered
<1>5. SentBy
  BY <1>2 DEF SentBy, Sinks
<1>6. inbox \in Seq(RemoteEntry) /\ Ordered(inbox)
  <2>1. Remote \in Seq(RemoteEntry)
    BY LiveSpansAssumption DEF RemoteEntry
  <2>2. DOMAIN Remote = 1 .. Len(Remote)
    BY <2>1
  <2>3. Ordered(Remote)
    BY <2>2, LiveSpansAssumption DEF Ordered, Before
  <2>4. QED
    BY <2>1, <2>3 DEF Init
<1>7. Coming
  <2>1. \A x \in AnyExporter : call.left[x] = <<>>
    BY DEF Init
  <2>2. Ordered(<<>>) /\ <<>> \in Seq(RemoteEntry) /\ DOMAIN <<>> = {}
    BY DEF Ordered
  <2>3. QED
    BY <1>6, <2>1, <2>2 DEF Coming
<1>8. QED
  BY <1>4, <1>5, <1>7 DEF OInv

LEMMA NextOrder == IInv /\ OInv /\ [Next]_vars => OInv'
<1> SUFFICES ASSUME IInv, OInv, [Next]_vars PROVE OInv'
  OBVIOUS
<1>1. CASE UNCHANGED vars
  BY <1>1, NothingMoves DEF vars
<1>2. CASE \E cfg \in Configs : Initialize(cfg)
  BY <1>2, NothingMoves DEF Initialize
<1>3. CASE \E s \in Spans : StartSpan(s) \/ EndSpan(s)
  BY <1>3, StartSpanOrder, EndSpanOrder
<1>4. CASE \E n \in 1 .. Len(Remote) : Forward(n)
  BY <1>4, ForwardOrder
<1>5. CASE \E x \in AnyExporter : ForwardSpan(x)
  BY <1>5, ForwardSpanOrder
<1>6. CASE \E g \in Generations, x \in AnyExporter : Export(g, x)
  BY <1>6, ExportOrder
<1>7. CASE \/ Close \/ CloseReturns \/ CloseTimesOut
           \/ \E x \in AnyExporter : StopProcessor(x)
           \/ \E g \in Generations, x \in AnyExporter : ShutExporter(g, x)
  BY <1>7, NothingMoves DEF Close, CloseReturns, CloseTimesOut, StopProcessor, ShutExporter
<1>8. QED
  BY <1>1, <1>2, <1>3, <1>4, <1>5, <1>6, <1>7 DEF Next

LEMMA OrderInvariant == Spec => []OInv
<1>1. Init => OInv
  BY InitOrder
<1>2. IInv /\ OInv /\ [Next]_vars => OInv'
  BY NextOrder
<1>3. QED
  BY <1>1, <1>2, Invariant, PTL DEF Spec

LEMMA Domain == TypeOK => DOMAIN received = Sinks
BY DEF TypeOK

(* What one processor sends of a span is its start, then its end (live.go, and
   the goroutines of SpanForwarder.ExportSpans).                            *)
THEOREM StartsBeforeEnds == Spec => []LiveBeforeDone
<1>1. IInv /\ OInv => LiveBeforeDone
  <2> SUFFICES ASSUME IInv, OInv PROVE LiveBeforeDone
    OBVIOUS
  <2>1. DOMAIN received = Sinks
    BY Domain DEF IInv
  <2>2. QED
    BY <2>1 DEF OInv, SentOrdered, Before, LiveBeforeDone
<1>2. QED
  BY <1>1, Invariant, OrderInvariant, PTL

(* No exporter is told the same of a span twice, not by two Inits either that
   share the exporter of the environment.                                   *)
THEOREM NothingTwice == Spec => []NoEntryTwice
<1>1. IInv /\ OInv => NoEntryTwice
  <2> SUFFICES ASSUME IInv, OInv PROVE NoEntryTwice
    OBVIOUS
  <2> SUFFICES ASSUME NEW k \in Sinks, NEW i \in DOMAIN received[k], NEW j \in DOMAIN received[k],
                      SameView(received[k][i], received[k][j]), i # j
               PROVE  FALSE
    <3>1. DOMAIN received = Sinks
      BY Domain DEF IInv
    <3>2. QED
      BY <3>1 DEF NoEntryTwice
  <2>1. received[k] \in Seq([span : AnySpan, view : View, by : Generations])
    BY StateTyped DEF IInv
  <2>2. CASE received[k][i].by = received[k][j].by
    <3>1. i < j \/ j < i
      BY <2>1
    <3>2. QED
      BY <2>2, <3>1 DEF OInv, SentOrdered, Before, SameView
  <2>3. CASE received[k][i].by # received[k][j].by
    <3>1. \A m \in DOMAIN received[k] : received[k][m].by \in Generations
      <4> DEFINE R == [span : AnySpan, view : View, by : Generations]
      <4>1. \A r \in R : r.by \in Generations
        OBVIOUS
      <4>2. received[k] \in Seq(R)
        BY <2>1
      <4> HIDE DEF R
      <4>3. QED
        BY <4>1, <4>2, SeqElement
    <3>2. k = <<0, Env>>
      BY <2>3 DEF OInv, SentBy, Sinks
    <3>3. Env \in AnyExporter /\ \A g \in Generations : Sink(g, Env) = k
      BY <3>2 DEF AnyExporter, Sink
    <3>4. \A m \in DOMAIN received[k] : Plain(received[k][m]) \in Passed(received[k][m].by, Env)
      BY <3>1, <3>3 DEF Passed, Told
    <3>5. SameView(Plain(received[k][i]), Plain(received[k][j]))
      BY DEF SameView, Plain
    <3>6. QED
      BY <2>3, <3>1, <3>3, <3>4, <3>5 DEF OInv, OnePath
  <2>4. QED
    BY <2>2, <2>3
<1>2. QED
  BY <1>1, Invariant, OrderInvariant, PTL
=============================================================================
