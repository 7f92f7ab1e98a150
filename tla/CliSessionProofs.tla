-------------------------- MODULE CliSessionProofs --------------------------
(***************************************************************************)
(* CliSession for pipes of any capacity, any number of workers and of      *)
(* lines.  The invariant has three parts: the stages of connect() and      *)
(* shutdown() and what they say of the child and of each drain task        *)
(* (Stages), the numbers of the lines in a pipe (Numbered), and the flow   *)
(* of lines from a pipe over a buffer into the logger (Flowing).           *)
(***************************************************************************)
EXTENDS CliSession, SequenceTheorems, TLAPS

(* What connect() and shutdown() know of the child and of the drain tasks
   where they stand.                                                       *)
Stages ==
  /\ sdk = "idle" => proc = "none"
  /\ sdk = "idle" => result = "none"
  /\ sdk \notin {"idle", "ended"} => result = "none"
  /\ sdk \in {"idle", "handshake"} => drain["stdout"] = "none"
  /\ sdk \in {"idle", "handshake", "drain_stdout"} => drain["stderr"] = "none"
  /\ sdk = "drain_stdout" => drain["stdout"] \in {"none", "inline", "done"}
  /\ sdk = "drain_stderr" => drain["stdout"] \in {"running", "done"}
  /\ sdk = "drain_stderr" => drain["stderr"] \in {"none", "inline", "done"}
  /\ sdk = "connected" => drain["stdout"] \in {"running", "done"}
  /\ sdk \in {"connected", "cancel_stdout"} => drain["stderr"] \in {"running", "done"}
  /\ sdk = "cancel_stdout" => drain["stdout"] \in {"cancelled", "done"}
  /\ sdk = "cancel_stderr" => drain["stdout"] = "done" /\ drain["stderr"] \in {"cancelled", "done"}
  /\ sdk = "waiting" => drain["stdout"] = "done" /\ drain["stderr"] = "done"
  /\ sdk = "ended" => \A s \in Side : drain[s] \in {"none", "done"}
  /\ \A s \in Side : drain[s] = "none" => drainBuf[s] = <<>>

(* The lines of a pipe are numbered as they are written. *)
Numbered ==
  /\ \A s \in Side : \A i \in DOMAIN written[s] : written[s][i].no = i
  /\ writing # <<>> => /\ Len(written[writing[1].side]) < MaxLines
                       /\ writing[1].line.no = Len(written[writing[1].side]) + 1

(* The lines of a pipe that were logged, that a reader has, and that nobody
   has read yet.                                                           *)
Held(s) == IF s = "stdout" /\ sdk \in {"idle", "handshake"} THEN hsBuf ELSE drainBuf[s]
Flow(s) == (logged[s] \o Held(s)) \o pipe[s]

Increasing(q) == \A i, j \in DOMAIN q : i < j => q[i].no < q[j].no

(* q has lines of w only, in their order, each once at the most. *)
PartOf(q, w) ==
  /\ Len(q) <= Len(w) /\ Increasing(q)
  /\ \A i \in DOMAIN q : q[i].no \in DOMAIN w /\ w[q[i].no] = q[i]

Flowing ==
  /\ \A s \in Side : PartOf(Flow(s), written[s])
  /\ drain["stderr"] # "done" => Flow("stderr") = written["stderr"]
  /\ \E rest \in Seq(Line) : written["stderr"] = logged["stderr"] \o rest

IInv == TypeOK /\ Stages /\ Numbered /\ Flowing /\ NoOrphan

---------------------------------------------------------------------------
(* Sequences of lines. *)

LEMMA EmptyIsNeutral ==
  ASSUME NEW l \in Seq(Line), NEW p \in Seq(Line)
  PROVE  (l \o p) \o <<>> = (l \o <<>>) \o p
<1>1. l \o <<>> = l /\ l \o p \in Seq(Line)
  BY ConcatEmptySeq, ConcatProperties
<1>2. QED
  BY <1>1, ConcatEmptySeq

LEMMA HeadMoves ==
  ASSUME NEW l \in Seq(Line), NEW b \in Seq(Line), b # <<>>
  PROVE  Append(l, Head(b)) \o Tail(b) = l \o b
<1>1. /\ Head(b) \in Line /\ Tail(b) \in Seq(Line) /\ Len(b) \in Nat \ {0} /\ Head(b) = b[1]
      /\ Len(Tail(b)) = Len(b) - 1 /\ \A i \in 1 .. Len(Tail(b)) : Tail(b)[i] = b[i + 1]
  BY HeadTailProperties, EmptySeq
<1>2. /\ Append(l, Head(b)) \in Seq(Line) /\ Len(Append(l, Head(b))) = Len(l) + 1
      /\ \A i \in 1 .. Len(l) : Append(l, Head(b))[i] = l[i]
      /\ Append(l, Head(b))[Len(l) + 1] = Head(b)
  BY <1>1, AppendProperties
<1> DEFINE x == Append(l, Head(b)) \o Tail(b)
           y == l \o b
<1>3. /\ x \in Seq(Line) /\ Len(x) = Len(l) + 1 + Len(Tail(b))
      /\ \A i \in 1 .. Len(x) :
           x[i] = IF i <= Len(l) + 1 THEN Append(l, Head(b))[i] ELSE Tail(b)[i - (Len(l) + 1)]
  BY <1>1, <1>2, ConcatProperties
<1>4. /\ y \in Seq(Line) /\ Len(y) = Len(l) + Len(b)
      /\ \A i \in 1 .. Len(y) : y[i] = IF i <= Len(l) THEN l[i] ELSE b[i - Len(l)]
  BY ConcatProperties
<1>5. Len(x) = Len(y) /\ Len(l) \in Nat
  BY <1>1, <1>3, <1>4, LenProperties
<1>6. ASSUME NEW i \in 1 .. Len(x) PROVE x[i] = y[i]
  <2>1. CASE i <= Len(l)
    BY <1>2, <1>3, <1>4, <1>5, <2>1
  <2>2. CASE i = Len(l) + 1
    BY <1>1, <1>2, <1>3, <1>4, <1>5, <2>2
  <2>3. CASE i > Len(l) + 1
    <3>1. i - (Len(l) + 1) \in 1 .. Len(Tail(b)) /\ (i - (Len(l) + 1)) + 1 = i - Len(l)
      BY <1>3, <1>5, <2>3
    <3>2. QED
      BY <1>1, <1>3, <1>4, <1>5, <2>3, <3>1
  <2>4. QED
    BY <1>5, <2>1, <2>2, <2>3
<1> HIDE DEF x, y
<1>7. x = y
  BY <1>3, <1>4, <1>5, <1>6, SeqEqual
<1>8. QED
  BY <1>7 DEF x, y

LEMMA AppendMoves ==
  ASSUME NEW q \in Seq(Line), NEW p \in Seq(Line), NEW l \in Line
  PROVE  q \o Append(p, l) = Append(q \o p, l)
<1>1. <<l>> \in Seq(Line) /\ q \o p \in Seq(Line)
  BY ConcatProperties
<1>2. Append(p, l) = p \o <<l>> /\ Append(q \o p, l) = (q \o p) \o <<l>>
  BY <1>1, AppendIsConcat
<1>3. QED
  BY <1>1, <1>2, ConcatAssociative

(* A line that is written extends both what is in the flow and the pipe's
   history; a piece that is dropped leaves the rest in order.              *)
LEMMA PartExtended ==
  ASSUME NEW q \in Seq(Line), NEW w \in Seq(Line), NEW l \in Line,
         \A i \in DOMAIN w : w[i].no = i, l.no = Len(w) + 1, PartOf(q, w)
  PROVE  PartOf(Append(q, l), Append(w, l))
<1>1. /\ DOMAIN q = 1 .. Len(q) /\ DOMAIN w = 1 .. Len(w) /\ Len(q) \in Nat /\ Len(w) \in Nat
  BY LenProperties
<1> DEFINE x == Append(q, l)
           y == Append(w, l)
<1>2. /\ x \in Seq(Line) /\ DOMAIN x = 1 .. Len(q) + 1 /\ Len(x) = Len(q) + 1
      /\ x[Len(q) + 1] = l /\ \A i \in 1 .. Len(q) : x[i] = q[i]
  BY AppendProperties, LenProperties
<1>3. /\ y \in Seq(Line) /\ DOMAIN y = 1 .. Len(w) + 1 /\ Len(y) = Len(w) + 1
      /\ y[Len(w) + 1] = l /\ \A i \in 1 .. Len(w) : y[i] = w[i]
  BY AppendProperties, LenProperties
<1> HIDE DEF x, y
<1>4. \A i \in 1 .. Len(q) : q[i].no \in 1 .. Len(w) /\ w[q[i].no] = q[i]
  BY <1>1 DEF PartOf
<1>5. Len(x) <= Len(y)
  BY <1>1, <1>2, <1>3 DEF PartOf
<1>6. \A i \in DOMAIN x : x[i].no \in DOMAIN y /\ y[x[i].no] = x[i]
  <2>1. ASSUME NEW i \in 1 .. Len(q) PROVE x[i].no \in DOMAIN y /\ y[x[i].no] = x[i]
    BY <1>1, <1>2, <1>3, <1>4
  <2>2. x[Len(q) + 1].no \in DOMAIN y /\ y[x[Len(q) + 1].no] = x[Len(q) + 1]
    BY <1>1, <1>2, <1>3
  <2>3. QED
    BY <1>1, <1>2, <2>1, <2>2
<1>7. Increasing(x)
  <2>1. ASSUME NEW i \in DOMAIN x, NEW j \in DOMAIN x, i < j PROVE x[i].no < x[j].no
    <3>1. i \in 1 .. Len(q)
      BY <1>1, <1>2, <2>1
    <3>2. CASE j = Len(q) + 1
      BY <1>1, <1>2, <1>4, <3>1, <3>2
    <3>3. CASE j \in 1 .. Len(q)
      BY <1>1, <1>2, <2>1, <3>1, <3>3 DEF PartOf, Increasing
    <3>4. QED
      BY <1>1, <1>2, <3>2, <3>3
  <2>2. QED
    BY <2>1 DEF Increasing
<1>8. QED
  BY <1>5, <1>6, <1>7 DEF PartOf, x, y

LEMMA PartDropped ==
  ASSUME NEW l \in Seq(Line), NEW h \in Seq(Line), NEW g \in Seq(Line), NEW p \in Seq(Line),
         NEW w \in Seq(Line), NEW k \in Nat,
         Len(h) = Len(g) + k, \A i \in 1 .. Len(g) : g[i] = h[i + k],
         PartOf((l \o h) \o p, w)
  PROVE  PartOf((l \o g) \o p, w)
<1> DEFINE q == (l \o h) \o p
           r == (l \o g) \o p
<1>1. Len(l) \in Nat /\ Len(h) \in Nat /\ Len(g) \in Nat /\ Len(p) \in Nat /\ Len(w) \in Nat
  BY LenProperties
<1> DEFINE lh == l \o h
           lg == l \o g
<1>2. /\ lh \in Seq(Line) /\ Len(lh) = Len(l) + Len(h)
      /\ \A i \in 1 .. Len(l) + Len(h) : lh[i] = IF i <= Len(l) THEN l[i] ELSE h[i - Len(l)]
  BY ConcatProperties
<1>3. /\ lg \in Seq(Line) /\ Len(lg) = Len(l) + Len(g)
      /\ \A i \in 1 .. Len(l) + Len(g) : lg[i] = IF i <= Len(l) THEN l[i] ELSE g[i - Len(l)]
  BY ConcatProperties
<1>4. /\ q \in Seq(Line) /\ Len(q) = Len(l) + Len(h) + Len(p) /\ DOMAIN q = 1 .. Len(q)
      /\ \A i \in 1 .. Len(q) :
           q[i] = IF i <= Len(l) + Len(h) THEN lh[i] ELSE p[i - (Len(l) + Len(h))]
  <2>1. q = lh \o p
    OBVIOUS
  <2>0. lh \in Seq(Line)
    BY <1>2
  <2> HIDE DEF lh, q
  <2>2. /\ q \in Seq(Line) /\ Len(q) = Len(lh) + Len(p)
        /\ \A i \in 1 .. Len(lh) + Len(p) : q[i] = IF i <= Len(lh) THEN lh[i] ELSE p[i - Len(lh)]
    BY <2>0, <2>1, ConcatProperties
  <2>3. QED
    BY <1>2, <2>2, LenProperties
<1>5. /\ r \in Seq(Line) /\ Len(r) = Len(l) + Len(g) + Len(p) /\ DOMAIN r = 1 .. Len(r)
      /\ \A i \in 1 .. Len(r) :
           r[i] = IF i <= Len(l) + Len(g) THEN lg[i] ELSE p[i - (Len(l) + Len(g))]
  <2>1. r = lg \o p
    OBVIOUS
  <2>0. lg \in Seq(Line)
    BY <1>3
  <2> HIDE DEF lg, r
  <2>2. /\ r \in Seq(Line) /\ Len(r) = Len(lg) + Len(p)
        /\ \A i \in 1 .. Len(lg) + Len(p) : r[i] = IF i <= Len(lg) THEN lg[i] ELSE p[i - Len(lg)]
    BY <2>0, <2>1, ConcatProperties
  <2>3. QED
    BY <1>3, <2>2, LenProperties
<1> DEFINE at(i) == IF i <= Len(l) THEN i ELSE i + k
<1>6. ASSUME NEW i \in 1 .. Len(r) PROVE at(i) \in 1 .. Len(q) /\ r[i] = q[at(i)]
  <2> HIDE DEF q, r, lh, lg
  <2>1. CASE i <= Len(l)
    <3>1. i \in 1 .. Len(l) + Len(g) /\ i \in 1 .. Len(l) + Len(h) /\ i \in 1 .. Len(q)
      BY <1>1, <1>4, <2>1
    <3>2. r[i] = l[i] /\ q[i] = l[i]
      BY <1>2, <1>3, <1>4, <1>5, <2>1, <3>1
    <3>3. QED
      BY <2>1, <3>1, <3>2
  <2>2. CASE i > Len(l) /\ i <= Len(l) + Len(g)
    <3>1. i - Len(l) \in 1 .. Len(g) /\ (i - Len(l)) + k = (i + k) - Len(l)
      BY <1>1, <2>2
    <3>2. r[i] = g[i - Len(l)]
      BY <1>1, <1>3, <1>5, <2>2
    <3>3. i + k \in 1 .. Len(l) + Len(h) /\ q[i + k] = h[(i + k) - Len(l)]
      BY <1>1, <1>2, <1>4, <2>2
    <3>4. g[i - Len(l)] = h[(i - Len(l)) + k]
      BY <3>1
    <3>5. i + k \in 1 .. Len(q)
      BY <1>1, <1>4, <3>3
    <3>6. ~ (i <= Len(l))
      BY <1>1, <2>2
    <3>7. QED
      BY <3>1, <3>2, <3>3, <3>4, <3>5, <3>6
  <2>3. CASE i > Len(l) + Len(g)
    <3>1. (i + k) - (Len(l) + Len(h)) = i - (Len(l) + Len(g)) /\ i + k \in 1 .. Len(q)
      BY <1>1, <1>4, <1>5, <2>3
    <3>2. r[i] = p[i - (Len(l) + Len(g))] /\ q[i + k] = p[(i + k) - (Len(l) + Len(h))]
      BY <1>1, <1>4, <1>5, <2>3, <3>1
    <3>3. ~ (i <= Len(l))
      BY <1>1, <2>3
    <3>4. QED
      BY <3>1, <3>2, <3>3
  <2>4. QED
    BY <1>1, <2>1, <2>2, <2>3
<1>7. \A i, j \in 1 .. Len(r) : i < j => at(i) < at(j)
  BY <1>1, <1>5
<1>8. PartOf(q, w)
  OBVIOUS
<1> HIDE DEF q, r, lh, lg, at
<1>9. PartOf(r, w)
  <2>1. Len(r) <= Len(w)
    BY <1>1, <1>4, <1>5, <1>8 DEF PartOf
  <2>2. \A i \in DOMAIN r : r[i].no \in DOMAIN w /\ w[r[i].no] = r[i]
    BY <1>4, <1>5, <1>6, <1>8 DEF PartOf
  <2>3. ASSUME NEW i \in DOMAIN r, NEW j \in DOMAIN r, i < j PROVE r[i].no < r[j].no
    <3>1. at(i) < at(j) /\ at(i) \in DOMAIN q /\ at(j) \in DOMAIN q
      BY <1>4, <1>5, <1>6, <1>7, <2>3
    <3>2. q[at(i)].no < q[at(j)].no
      BY <1>8, <3>1 DEF PartOf, Increasing
    <3>3. QED
      BY <1>5, <1>6, <3>2
  <2>4. QED
    BY <2>1, <2>2, <2>3 DEF PartOf, Increasing
<1>10. QED
  BY <1>9 DEF r

LEMMA PartOfFront ==
  ASSUME NEW l \in Seq(Line), NEW r \in Seq(Line), NEW w \in Seq(Line), PartOf(l \o r, w)
  PROVE  PartOf(l, w)
<1>1. Len(l) \in Nat /\ Len(r) \in Nat /\ Len(w) \in Nat /\ DOMAIN l = 1 .. Len(l)
  BY LenProperties
<1>2. /\ l \o r \in Seq(Line) /\ Len(l \o r) = Len(l) + Len(r)
      /\ DOMAIN (l \o r) = 1 .. Len(l) + Len(r)
      /\ \A i \in 1 .. Len(l) : (l \o r)[i] = l[i]
  BY <1>1, ConcatProperties, LenProperties
<1> DEFINE q == l \o r
<1>3. PartOf(q, w)
  OBVIOUS
<1> HIDE DEF q
<1>4. Len(q) = Len(l) + Len(r) /\ DOMAIN q = 1 .. Len(l) + Len(r) /\ \A i \in 1 .. Len(l) : q[i] = l[i]
  BY <1>2 DEF q
<1>5. QED
  BY <1>1, <1>3, <1>4 DEF PartOf, Increasing

(* What begins with (p \o q) begins with p. *)
LEMMA FrontOfThree ==
  ASSUME NEW p \in Seq(Line), NEW q \in Seq(Line), NEW r \in Seq(Line)
  PROVE  \E rest \in Seq(Line) : (p \o q) \o r = p \o rest
<1>1. q \o r \in Seq(Line)
  BY ConcatProperties
<1>2. (p \o q) \o r = p \o (q \o r)
  BY ConcatAssociative
<1>3. QED
  BY <1>1, <1>2

(* What starts with l has it as a prefix. *)
LEMMA PrefixOfConcat ==
  ASSUME NEW l \in Seq(Line), NEW r \in Seq(Line)
  PROVE  IsPrefix(l, l \o r)
<1>1. Len(l) \in Nat /\ Len(r) \in Nat /\ Len(l \o r) = Len(l) + Len(r)
  BY LenProperties, ConcatProperties
<1>2. SubSeq(l, 1, Len(l)) = SubSeq(l \o r, 1, Len(l))
  <2>1. CASE Len(l) = 0
    BY <2>1, SubSeqEmpty
  <2>2. CASE Len(l) > 0
    BY <1>1, <2>2, SubSeqOfConcat1
  <2>3. QED
    BY <1>1, <2>1, <2>2
<1>3. QED
  BY <1>1, <1>2 DEF IsPrefix

---------------------------------------------------------------------------
(* Types, and the steps that only concern the process or the stages.       *)

LEMMA SidesTyped ==
  ASSUME TypeOK, NEW s \in Side
  PROVE  /\ written[s] \in Seq(Line) /\ pipe[s] \in Seq(Line) /\ logged[s] \in Seq(Line)
         /\ drainBuf[s] \in Seq(Line) /\ hsBuf \in Seq(Line) /\ Held(s) \in Seq(Line)
BY DEF TypeOK, Held

LEMMA BufferTyped ==
  ASSUME NEW b \in Seq(Line), b # <<>>
  PROVE  Head(b) \in Line /\ Tail(b) \in Seq(Line) /\ Len(Tail(b)) = Len(b) - 1
BY HeadTailProperties

LEMMA NothingBegun == <<>> \in Seq([side : Side, line : Line]) /\ Len(<<>>) <= 1
BY EmptySeq

LEMMA InitTyped == Init => TypeOK
<1>1. SUFFICES ASSUME Init PROVE TypeOK
  OBVIOUS
<1>2. <<>> \in Seq(Line) /\ <<>> \in Seq([side : Side, line : Line]) /\ Len(<<>>) = 0
  BY EmptySeq
<1>3. Empty \in [Side -> Seq(Line)] /\ \A s \in Side : Len(Empty[s]) = 0
  BY <1>2 DEF Empty
<1>4. QED
  BY <1>1, <1>2, <1>3, SessionAssumption DEF Init, TypeOK, SessionAssumption

(* The CLI's write. *)
LEMMA BeginTyped ==
  ASSUME TypeOK, Numbered, NEW s \in Side, NEW k \in {"blank", "progress", "params"}, Begin(s, k)
  PROVE  TypeOK' /\ Numbered'
<1> DEFINE l == [no |-> Len(written[s]) + 1, kind |-> k]
           w == [side |-> s, line |-> l]
<1>1. Len(written[s]) \in Nat /\ l \in Line /\ w \in [side : Side, line : Line]
  BY SidesTyped, LenProperties DEF Line
<1>2. writing' = <<w>> /\ Len(<<w>>) = 1 /\ <<w>>[1] = w /\ <<w>> \in Seq([side : Side, line : Line])
  BY <1>1 DEF Begin
<1>3. TypeOK'
  BY <1>2 DEF Begin, TypeOK, logVars
<1>4. Numbered'
  BY <1>2 DEF Begin, Numbered
<1>5. QED
  BY <1>3, <1>4

LEMMA WritesTyped ==
  ASSUME TypeOK, Numbered, CliWrites
  PROVE  /\ TypeOK' /\ Numbered'
         /\ \E s \in Side, l \in Line :
              /\ l.no = Len(written[s]) + 1
              /\ pipe' = [pipe EXCEPT ![s] = Append(@, l)]
              /\ written' = [written EXCEPT ![s] = Append(@, l)]
<1> DEFINE s == writing[1].side
           l == writing[1].line
<1>1. writing[1] \in [side : Side, line : Line] /\ s \in Side /\ l \in Line
  <2>1. Len(writing) \in Nat \ {0}
    BY EmptySeq DEF TypeOK, CliWrites
  <2>2. writing \in Seq([side : Side, line : Line]) /\ 1 \in 1 .. Len(writing)
    BY <2>1 DEF TypeOK
  <2>3. writing[1] \in [side : Side, line : Line]
    BY <2>2, ElementOfSeq
  <2>4. QED
    BY <2>3
<1>2. /\ pipe' = [pipe EXCEPT ![s] = Append(@, l)]
      /\ written' = [written EXCEPT ![s] = Append(@, l)]
      /\ writing' = <<>> /\ Len(pipe[s]) < PipeCapacity /\ writing # <<>>
  BY DEF CliWrites
<1>3. Len(written[s]) < MaxLines /\ l.no = Len(written[s]) + 1
  BY <1>2 DEF Numbered
<1> HIDE DEF s, l
<1>4. /\ pipe[s] \in Seq(Line) /\ written[s] \in Seq(Line)
      /\ Len(pipe[s]) \in Nat /\ Len(written[s]) \in Nat
  BY <1>1, SidesTyped, LenProperties
<1>5. /\ Append(pipe[s], l) \in Seq(Line) /\ Len(Append(pipe[s], l)) = Len(pipe[s]) + 1
      /\ Append(written[s], l) \in Seq(Line) /\ Len(Append(written[s], l)) = Len(written[s]) + 1
      /\ DOMAIN Append(written[s], l) = 1 .. Len(written[s]) + 1
      /\ \A i \in 1 .. Len(written[s]) : Append(written[s], l)[i] = written[s][i]
      /\ Append(written[s], l)[Len(written[s]) + 1] = l
  BY <1>1, <1>4, AppendProperties, LenProperties
<1>6. /\ pipe' \in [Side -> Seq(Line)] /\ written' \in [Side -> Seq(Line)]
      /\ pipe'[s] = Append(pipe[s], l) /\ written'[s] = Append(written[s], l)
      /\ \A u \in Side \ {s} : pipe'[u] = pipe[u] /\ written'[u] = written[u]
  BY <1>1, <1>2, <1>5 DEF TypeOK
<1>7. \A u \in Side : Len(written'[u]) <= MaxLines /\ Len(pipe'[u]) <= PipeCapacity
  BY <1>2, <1>3, <1>4, <1>5, <1>6, SessionAssumption DEF TypeOK, SessionAssumption
<1>8. TypeOK'
  BY <1>2, <1>6, <1>7, NothingBegun DEF CliWrites, TypeOK, logVars
<1>9. Numbered'
  <2>1. \A i \in DOMAIN written'[s] : written'[s][i].no = i
    <3>1. DOMAIN written[s] = 1 .. Len(written[s])
      BY <1>4, LenProperties
    <3>2. \A i \in 1 .. Len(written[s]) : written'[s][i].no = i
      BY <1>1, <1>5, <1>6, <3>1 DEF Numbered
    <3>3. written'[s][Len(written[s]) + 1].no = Len(written[s]) + 1
      BY <1>3, <1>5, <1>6
    <3>4. QED
      BY <1>4, <1>5, <1>6, <3>2, <3>3
  <2>2. QED
    BY <1>2, <1>6, <2>1 DEF Numbered
<1>10. QED
  BY <1>1, <1>2, <1>3, <1>8, <1>9

LEMMA StepTyped ==
  ASSUME TypeOK, Numbered, Next
  PROVE  TypeOK' /\ Numbered'
<1> USE DEF TypeOK, cliVars, logVars
<1>1. ASSUME writing' \in {writing, <<>>}, written' = written PROVE Numbered'
  BY <1>1 DEF Numbered
<1>2. ASSUME NEW s \in Side, NEW k \in {"blank", "progress"}, CliPrints(s, k) PROVE TypeOK' /\ Numbered'
  BY <1>2, BeginTyped DEF CliPrints
<1>3. ASSUME CliAnnounces PROVE TypeOK' /\ Numbered'
  BY <1>3, BeginTyped DEF CliAnnounces, Side
<1>4. ASSUME CliWrites PROVE TypeOK' /\ Numbered'
  BY <1>4, WritesTyped
<1>5. ASSUME CliSeesEOF \/ CliDies PROVE TypeOK' /\ Numbered'
  BY <1>5, <1>1, NothingBegun DEF CliSeesEOF, CliDies
<1>6. ASSUME Spawn \/ Wait \/ WaitFails \/ CloseStdin PROVE TypeOK' /\ Numbered'
  BY <1>6, <1>1 DEF Spawn, Wait, WaitFails, CloseStdin, Connecting, Stopping
<1>7. ASSUME NEW err \in {"CliExited", "HandshakeFailed", "OutOfMemory"}, ConnectFails(err) PROVE TypeOK' /\ Numbered'
  BY <1>7, <1>1, NothingBegun DEF ConnectFails
<1>8. ASSUME FillHandshake PROVE TypeOK' /\ Numbered'
  <2>1. pipe' \in [Side -> Seq(Line)] /\ pipe'["stderr"] = pipe["stderr"] /\ Len(pipe'["stdout"]) = 0
    BY <1>8, EmptySeq DEF FillHandshake, Side
  <2>2. QED
    BY <1>8, <1>1, <2>1, SessionAssumption DEF FillHandshake, Side, SessionAssumption
<1>9. ASSUME ReadLine PROVE TypeOK' /\ Numbered'
  <2>1. hsBuf' \in Seq(Line)
    BY <1>9, BufferTyped DEF ReadLine
  <2>2. logged' \in [Side -> Seq(Line)]
    <3>1. logged["stdout"] \in Seq(Line) /\ Head(hsBuf) \in Line
      BY <1>9, BufferTyped DEF ReadLine, Side
    <3>2. Append(logged["stdout"], Head(hsBuf)) \in Seq(Line)
      BY <3>1, AppendProperties
    <3>3. QED
      BY <1>9, <3>2 DEF ReadLine
  <2>3. QED
    BY <1>9, <1>1, <2>1, <2>2 DEF ReadLine, Connecting
<1>10. ASSUME NEW s \in Side, StartDrain(s) \/ StartDrainInline(s) \/ InlineDrainOver(s) PROVE TypeOK' /\ Numbered'
  <2>1. sdk' \in {sdk, "drain_stderr", "connected"}
    BY <1>10 DEF StartDrain, StartDrainInline, InlineDrainOver, Starting, After, Side
  <2>2. drain' \in [Side -> {"none", "running", "inline", "cancelled", "done"}]
    BY <1>10 DEF StartDrain, StartDrainInline, InlineDrainOver
  <2>3. QED
    BY <1>10, <1>1, <2>1, <2>2 DEF StartDrain, StartDrainInline, InlineDrainOver, Connecting
<1>11. ASSUME Shutdown \/ CancelStderr PROVE TypeOK' /\ Numbered'
  <2>1. drain' \in [Side -> {"none", "running", "inline", "cancelled", "done"}]
    BY <1>11 DEF Shutdown, CancelStderr, Cancelled
  <2>2. QED
    BY <1>11, <1>1, <2>1 DEF Shutdown, CancelStderr, Stopping
<1>12. ASSUME NEW s \in Side, DrainFill(s) PROVE TypeOK' /\ Numbered'
  <2>1. /\ pipe' \in [Side -> Seq(Line)] /\ drainBuf' \in [Side -> Seq(Line)]
        /\ \A u \in Side : pipe'[u] = <<>> \/ pipe'[u] = pipe[u]
    BY <1>12, EmptySeq DEF DrainFill
  <2>2. QED
    BY <1>12, <1>1, <2>1, EmptySeq, SessionAssumption DEF DrainFill, SessionAssumption
<1>13. ASSUME NEW s \in Side, DrainLine(s) PROVE TypeOK' /\ Numbered'
  <2>1. logged' \in [Side -> Seq(Line)] /\ drainBuf' \in [Side -> Seq(Line)]
    BY <1>13, BufferTyped, AppendProperties DEF DrainLine
  <2>2. QED
    BY <1>13, <1>1, <2>1 DEF DrainLine
<1>14. ASSUME NEW s \in Side, DrainEnds(s) \/ DrainGivesUp(s) PROVE TypeOK' /\ Numbered'
  <2>1. drain' \in [Side -> {"none", "running", "inline", "cancelled", "done"}]
    BY <1>14 DEF DrainEnds, DrainGivesUp
  <2>2. QED
    BY <1>14, <1>1, <2>1 DEF DrainEnds, DrainGivesUp
<1>15. QED
  BY <1>2, <1>3, <1>4, <1>5, <1>6, <1>7, <1>8, <1>9, <1>10, <1>11, <1>12, <1>13, <1>14 DEF Next, CliStep, SdkStep, DrainStep, HandshakeEOF, HandshakeBreaks

---------------------------------------------------------------------------
(* The stages of connect() and shutdown(): where the drain tasks stand and
   whether a child may be left.                                            *)
LEMMA StagesStep ==
  ASSUME TypeOK, Stages, NoOrphan, Next
  PROVE  Stages' /\ NoOrphan'
<1> USE DEF Stages, NoOrphan, TypeOK, cliVars, logVars
<1>1. ASSUME UNCHANGED <<sdk, result, drain, drainBuf>>, proc' \in {proc, "exited", "failed"}, proc' # proc => proc = "running"
      PROVE  Stages' /\ NoOrphan'
  BY <1>1
<1>2. ASSUME NEW s \in Side, NEW k \in {"blank", "progress", "params"}, Begin(s, k) PROVE Stages' /\ NoOrphan'
  BY <1>1, <1>2 DEF Begin
<1>3. ASSUME CliWrites \/ CliSeesEOF \/ CliDies \/ FillHandshake PROVE Stages' /\ NoOrphan'
  BY <1>1, <1>3 DEF CliWrites, CliSeesEOF, CliDies, FillHandshake
<1>4. ASSUME Spawn PROVE Stages' /\ NoOrphan'
  BY <1>4 DEF Spawn, Side
<1>5. ASSUME ReadLine PROVE Stages' /\ NoOrphan'
  BY <1>5 DEF ReadLine, Side
<1>6. ASSUME NEW err \in {"CliExited", "HandshakeFailed", "OutOfMemory"}, ConnectFails(err)
      PROVE  Stages' /\ NoOrphan'
  BY <1>6 DEF ConnectFails, Side
<1>7. ASSUME NEW s \in Side, StartDrain(s) \/ StartDrainInline(s) \/ InlineDrainOver(s)
      PROVE  Stages' /\ NoOrphan'
  <2>1. CASE s = "stdout"
    BY <1>7, <2>1 DEF StartDrain, StartDrainInline, InlineDrainOver, Starting, After, Side
  <2>2. CASE s = "stderr"
    BY <1>7, <2>2 DEF StartDrain, StartDrainInline, InlineDrainOver, Starting, After, Side
  <2>3. QED
    BY <2>1, <2>2 DEF Side
<1>8. ASSUME CancelStderr \/ CloseStdin \/ Shutdown PROVE Stages' /\ NoOrphan'
  BY <1>8 DEF CancelStderr, CloseStdin, Shutdown, Cancelled, Side
<1>9. ASSUME Wait \/ WaitFails PROVE Stages' /\ NoOrphan'
  BY <1>9 DEF Wait, WaitFails, Side
<1>10. ASSUME NEW s \in Side, DrainFill(s) \/ DrainLine(s) PROVE Stages' /\ NoOrphan'
  BY <1>10 DEF DrainFill, DrainLine, Draining, Side
<1>11. ASSUME NEW s \in Side, DrainEnds(s) \/ DrainGivesUp(s) PROVE Stages' /\ NoOrphan'
  <2>1. CASE s = "stdout"
    BY <1>11, <2>1 DEF DrainEnds, DrainGivesUp, Draining, Side
  <2>2. CASE s = "stderr"
    BY <1>11, <2>2 DEF DrainEnds, DrainGivesUp, Draining, Side
  <2>3. QED
    BY <2>1, <2>2 DEF Side
<1>12. QED
  BY <1>2, <1>3, <1>4, <1>5, <1>6, <1>7, <1>8, <1>9, <1>10, <1>11
  DEF Next, CliStep, SdkStep, DrainStep, HandshakeEOF, HandshakeBreaks, CliPrints, CliAnnounces, Side

---------------------------------------------------------------------------
(* The flow of lines: what a step does to one of the two pipes. *)

Stays(s)   == Flow(s)' = Flow(s) /\ written'[s] = written[s]
Grows(s)   == \E l \in Line : /\ l.no = Len(written[s]) + 1
                             /\ Flow(s)' = Append(Flow(s), l)
                             /\ written'[s] = Append(written[s], l)
Drops(s)   == /\ s = "stdout" /\ written'[s] = written[s]
              /\ logged'[s] = logged[s] /\ pipe'[s] = pipe[s]
              /\ \E k \in Nat : /\ Len(Held(s)) = Len(Held(s)') + k
                               /\ \A i \in 1 .. Len(Held(s)') : Held(s)'[i] = Held(s)[i + k]

(* The drain task of s is not begun again, and logs nothing after its end. *)
Ends(s) == drain[s] = "done" => drain'[s] = "done" /\ (s = "stderr" => logged'[s] = logged[s])

Flows(s) == (Stays(s) \/ Grows(s) \/ Drops(s)) /\ Ends(s)

LEMMA FlowsOn ==
  ASSUME TypeOK, Stages, Numbered, Next, NEW s \in Side
  PROVE  Flows(s)
<1> USE DEF cliVars, logVars
<1>1. /\ logged[s] \in Seq(Line) /\ pipe[s] \in Seq(Line) /\ Held(s) \in Seq(Line)
      /\ drainBuf[s] \in Seq(Line) /\ hsBuf \in Seq(Line) /\ logged[s] \o Held(s) \in Seq(Line)
  BY SidesTyped, ConcatProperties
<1>2. ASSUME UNCHANGED <<logged, pipe, written>>, Held(s)' = Held(s) PROVE Stays(s)
  BY <1>2 DEF Stays, Flow
<1>3. ASSUME UNCHANGED <<sdk, hsBuf, drainBuf>> PROVE Held(s)' = Held(s)
  BY <1>3 DEF Held
<1>4. ASSUME UNCHANGED <<logged, drain>> PROVE Ends(s)
  BY <1>4 DEF Ends
<1>5. ASSUME UNCHANGED <<logged, pipe, written, sdk, hsBuf, drainBuf, drain>> PROVE Flows(s)
  BY <1>2, <1>3, <1>4, <1>5 DEF Flows
<1>6. ASSUME NEW u \in Side, NEW k \in {"blank", "progress", "params"}, Begin(u, k) PROVE Flows(s)
  BY <1>5, <1>6 DEF Begin
<1>7. ASSUME CliSeesEOF \/ CliDies PROVE Flows(s)
  BY <1>5, <1>7 DEF CliSeesEOF, CliDies
<1>8. ASSUME CliWrites PROVE Flows(s)
  <2>1. PICK u \in Side, l \in Line :
          /\ l.no = Len(written[u]) + 1
          /\ pipe' = [pipe EXCEPT ![u] = Append(@, l)]
          /\ written' = [written EXCEPT ![u] = Append(@, l)]
    BY <1>8, WritesTyped
  <2>2. UNCHANGED <<logged, drain>> /\ Held(s)' = Held(s)
    BY <1>3, <1>8 DEF CliWrites
  <2>3. CASE u # s
    <3>1. pipe'[s] = pipe[s] /\ written'[s] = written[s]
      BY <2>1, <2>3
    <3>2. QED
      BY <1>4, <2>2, <3>1 DEF Flows, Stays, Flow
  <2>4. CASE u = s
    <3>1. pipe'[s] = Append(pipe[s], l) /\ written'[s] = Append(written[s], l)
      BY <2>1, <2>4 DEF TypeOK
    <3>2. Flow(s)' = (logged[s] \o Held(s)) \o Append(pipe[s], l)
      BY <2>2, <3>1 DEF Flow
    <3>3. Flow(s)' = Append(Flow(s), l)
      BY <1>1, <3>2, AppendMoves DEF Flow
    <3>4. QED
      BY <1>4, <2>1, <2>2, <2>4, <3>1, <3>3 DEF Flows, Grows
  <2>5. QED
    BY <2>3, <2>4
<1>9. ASSUME FillHandshake PROVE Flows(s)
  <2>1. CASE s = "stderr"
    <3>1. pipe'[s] = pipe[s] /\ Held(s)' = Held(s)
      BY <1>9, <2>1 DEF FillHandshake, Held
    <3>2. QED
      BY <1>4, <1>9, <3>1 DEF FillHandshake, Flows, Stays, Flow
  <2>2. CASE s = "stdout"
    <3>1. /\ Held(s) = <<>> /\ Held(s)' = pipe[s] /\ pipe'[s] = <<>>
          /\ UNCHANGED <<logged, written, drain>>
      BY <1>9, <2>2 DEF FillHandshake, Held, TypeOK
    <3>2. Flow(s)' = (logged[s] \o pipe[s]) \o <<>>
      BY <3>1 DEF Flow
    <3>3. Flow(s)' = Flow(s)
      BY <1>1, <3>1, <3>2, EmptyIsNeutral DEF Flow
    <3>4. QED
      BY <1>4, <3>1, <3>3 DEF Flows, Stays
  <2>3. QED
    BY <2>1, <2>2 DEF Side
<1>10. ASSUME s = "stderr", ReadLine \/ Spawn \/ CloseStdin \/ Wait \/ WaitFails PROVE Flows(s)
  <2>1. UNCHANGED <<pipe, written, drain, drainBuf>> /\ logged'[s] = logged[s]
    BY <1>10 DEF ReadLine, Spawn, CloseStdin, Wait, WaitFails, TypeOK
  <2>2. Held(s)' = Held(s)
    BY <1>10, <2>1 DEF Held
  <2>3. QED
    BY <2>1, <2>2 DEF Flows, Stays, Flow, Ends
<1>11. ASSUME s = "stdout", ReadLine PROVE Flows(s)
  <2>1. /\ hsBuf # <<>> /\ hsBuf' = Tail(hsBuf) /\ sdk = "handshake" /\ Held(s) = hsBuf
        /\ UNCHANGED <<pipe, written, drain, drainBuf>>
    BY <1>11 DEF ReadLine, Held
  <2>2. Ends(s)
    BY <1>11, <2>1 DEF Ends
  <2>3. CASE sdk' = sdk /\ logged' = [logged EXCEPT !["stdout"] = Append(@, Head(hsBuf))]
    <3>1. Held(s)' = Tail(hsBuf) /\ logged'[s] = Append(logged[s], Head(hsBuf))
      BY <1>11, <2>1, <2>3 DEF Held, TypeOK
    <3>2. logged'[s] \o Held(s)' = logged[s] \o Held(s)
      BY <1>1, <2>1, <3>1, HeadMoves
    <3>3. QED
      BY <2>1, <2>2, <3>2 DEF Flows, Stays, Flow
  <2>4. CASE sdk' = sdk /\ logged' = logged
    <3>1. Held(s)' = Tail(hsBuf)
      BY <1>11, <2>1, <2>4 DEF Held
    <3>2. /\ Len(Held(s)) = Len(Held(s)') + 1
          /\ \A i \in 1 .. Len(Held(s)') : Held(s)'[i] = Held(s)[i + 1]
      BY <1>1, <2>1, <3>1, HeadTailProperties, LenProperties
    <3>3. QED
      BY <1>11, <2>1, <2>2, <2>4, <3>2 DEF Flows, Drops
  <2>5. CASE sdk' = "drain_stdout" /\ logged' = logged
    <3>1. Held(s)' = <<>>
      BY <1>11, <2>1, <2>5 DEF Held, Stages, Side
    <3>2. Len(Held(s)) \in Nat /\ Len(Held(s)') = 0
      BY <1>1, <3>1, LenProperties, EmptySeq
    <3>3. QED
      BY <1>11, <2>1, <2>2, <2>5, <3>2 DEF Flows, Drops
  <2>6. QED
    BY <1>11, <2>3, <2>4, <2>5 DEF ReadLine
<1>12. ASSUME NEW err \in {"CliExited", "HandshakeFailed", "OutOfMemory"}, ConnectFails(err) PROVE Flows(s)
  <2>1. UNCHANGED <<pipe, written, drain, drainBuf, logged>> /\ sdk = "handshake" /\ sdk' = "ended"
    BY <1>12 DEF ConnectFails
  <2>2. CASE s = "stderr"
    BY <1>2, <1>4, <2>1, <2>2 DEF Held, Flows
  <2>3. CASE s = "stdout"
    <3>1. Held(s)' = <<>>
      BY <2>1, <2>3 DEF Held, Stages, Side
    <3>2. Len(Held(s)) \in Nat /\ Len(Held(s)') = 0
      BY <1>1, <3>1, LenProperties, EmptySeq
    <3>3. QED
      BY <1>4, <2>1, <2>3, <3>2 DEF Flows, Drops
  <2>4. QED
    BY <2>2, <2>3 DEF Side
<1>13. ASSUME Spawn PROVE Flows(s)
  <2>1. CASE s = "stdout" /\ sdk' = "handshake"
    BY <1>2, <1>4, <1>13, <2>1 DEF Spawn, Held, Flows
  <2>2. CASE s = "stdout" /\ sdk' = "ended"
    <3>1. Held(s)' = <<>> /\ Held(s) = hsBuf
      BY <1>13, <2>2 DEF Spawn, Held, Stages, Side
    <3>2. Len(Held(s)) \in Nat /\ Len(Held(s)') = 0
      BY <1>1, <3>1, LenProperties, EmptySeq
    <3>3. QED
      BY <1>4, <1>13, <2>2, <3>2 DEF Spawn, Flows, Drops
  <2>3. QED
    BY <1>10, <1>13, <2>1, <2>2 DEF Spawn, Side
<1>14. ASSUME s = "stdout", CloseStdin \/ Wait \/ WaitFails PROVE Flows(s)
  BY <1>2, <1>4, <1>14 DEF CloseStdin, Wait, WaitFails, Held, Flows
<1>15. ASSUME NEW u \in Side, StartDrain(u) \/ StartDrainInline(u) \/ InlineDrainOver(u) PROVE Flows(s)
  <2>1. Held(s)' = Held(s) /\ UNCHANGED <<logged, pipe, written>>
    BY <1>15 DEF StartDrain, StartDrainInline, InlineDrainOver, Starting, After, Held
  <2>2. Ends(s)
    BY <1>15 DEF StartDrain, StartDrainInline, InlineDrainOver, Ends, TypeOK
  <2>3. QED
    BY <1>2, <2>1, <2>2 DEF Flows
<1>16. ASSUME CancelStderr \/ Shutdown PROVE Flows(s)
  <2>1. Held(s)' = Held(s) /\ UNCHANGED <<logged, pipe, written>>
    BY <1>16 DEF CancelStderr, Shutdown, Held
  <2>2. Ends(s)
    BY <1>16 DEF CancelStderr, Shutdown, Cancelled, Ends, TypeOK
  <2>3. QED
    BY <1>2, <2>1, <2>2 DEF Flows
<1>17. ASSUME NEW u \in Side, DrainFill(u) \/ DrainLine(u), u # s PROVE Flows(s)
  <2>1. /\ logged'[s] = logged[s] /\ pipe'[s] = pipe[s] /\ drainBuf'[s] = drainBuf[s]
        /\ UNCHANGED <<written, drain, sdk, hsBuf>>
    BY <1>17 DEF DrainFill, DrainLine, TypeOK
  <2>2. QED
    BY <2>1 DEF Flows, Stays, Flow, Held, Ends
<1>18. ASSUME Draining(s) PROVE Held(s) = drainBuf[s] /\ drain[s] # "done" /\ ~ (s = "stdout" /\ sdk \in {"idle", "handshake"})
  BY <1>18 DEF Draining, Held, Stages
<1>19. ASSUME DrainFill(s) PROVE Flows(s)
  <2>1. /\ Held(s) = <<>> /\ Held(s)' = pipe[s] /\ pipe'[s] = <<>>
        /\ UNCHANGED <<logged, written, drain>> /\ drain[s] # "done"
    BY <1>18, <1>19 DEF DrainFill, Held, TypeOK
  <2>2. Flow(s)' = (logged[s] \o pipe[s]) \o <<>>
    BY <2>1 DEF Flow
  <2>3. Flow(s)' = Flow(s)
    BY <1>1, <2>1, <2>2, EmptyIsNeutral DEF Flow
  <2>4. QED
    BY <1>4, <2>1, <2>3 DEF Flows, Stays
<1>20. ASSUME DrainLine(s) PROVE Flows(s)
  <2>1. /\ Held(s) = drainBuf[s] /\ Held(s)' = Tail(drainBuf[s]) /\ drainBuf[s] # <<>>
        /\ logged'[s] = Append(logged[s], Head(drainBuf[s]))
        /\ UNCHANGED <<pipe, written, drain>> /\ drain[s] # "done"
    BY <1>18, <1>20 DEF DrainLine, Held, TypeOK
  <2>2. logged'[s] \o Held(s)' = logged[s] \o Held(s)
    BY <1>1, <2>1, HeadMoves
  <2>3. QED
    BY <2>1, <2>2 DEF Flows, Stays, Flow, Ends
<1>21. ASSUME NEW u \in Side, DrainEnds(u) \/ DrainGivesUp(u) PROVE Flows(s)
  <2>1. Held(s)' = Held(s) /\ UNCHANGED <<logged, pipe, written>>
    BY <1>3, <1>21 DEF DrainEnds, DrainGivesUp
  <2>2. Ends(s)
    BY <1>21 DEF DrainEnds, DrainGivesUp, Ends, TypeOK
  <2>3. QED
    BY <1>2, <2>1, <2>2 DEF Flows
<1>22. QED
  BY <1>6, <1>7, <1>8, <1>9, <1>10, <1>11, <1>12, <1>13, <1>14, <1>15, <1>16, <1>17, <1>19, <1>20, <1>21
  DEF Next, CliStep, SdkStep, DrainStep, HandshakeEOF, HandshakeBreaks, CliPrints, CliAnnounces, Side

LEMMA FlowingStep ==
  ASSUME TypeOK, TypeOK', Numbered, Flowing, \A s \in Side : Flows(s)
  PROVE  Flowing'
<1>1. ASSUME NEW s \in Side PROVE PartOf(Flow(s), written[s])'
  <2>1. /\ logged[s] \in Seq(Line) /\ pipe[s] \in Seq(Line) /\ Held(s) \in Seq(Line)
        /\ written[s] \in Seq(Line) /\ Held(s)' \in Seq(Line) /\ Flow(s) \in Seq(Line)
        /\ \A i \in DOMAIN written[s] : written[s][i].no = i
    <3>1. Held(s)' \in Seq(Line)
      BY DEF TypeOK, Held
    <3>2. QED
      BY <3>1, SidesTyped, ConcatProperties DEF Flow, Numbered
  <2>2. PartOf(Flow(s), written[s])
    BY DEF Flowing
  <2>3. CASE Stays(s)
    BY <2>2, <2>3 DEF Stays, PartOf, Increasing
  <2>4. CASE Grows(s)
    <3>1. PICK l \in Line : /\ l.no = Len(written[s]) + 1
                            /\ Flow(s)' = Append(Flow(s), l)
                            /\ written'[s] = Append(written[s], l)
      BY <2>4 DEF Grows
    <3>2. PartOf(Append(Flow(s), l), Append(written[s], l))
      BY <2>1, <2>2, <3>1, PartExtended
    <3>3. QED
      BY <3>1, <3>2 DEF PartOf, Increasing
  <2>5. CASE Drops(s)
    <3>1. PICK k \in Nat : /\ Len(Held(s)) = Len(Held(s)') + k
                           /\ \A i \in 1 .. Len(Held(s)') : Held(s)'[i] = Held(s)[i + k]
      BY <2>5 DEF Drops
    <3>2. PartOf((logged[s] \o Held(s)) \o pipe[s], written[s])
      BY <2>2 DEF Flow
    <3>3. PartOf((logged[s] \o Held(s)') \o pipe[s], written[s])
      BY <2>1, <3>1, <3>2, PartDropped
    <3>4. Flow(s)' = (logged[s] \o Held(s)') \o pipe[s] /\ written'[s] = written[s]
      BY <2>5 DEF Drops, Flow
    <3>5. QED
      BY <3>3, <3>4 DEF PartOf, Increasing
  <2>6. QED
    BY <2>3, <2>4, <2>5 DEF Flows
<1>2. "stderr" \in Side /\ Flows("stderr") /\ ~ Drops("stderr")
  BY DEF Side, Drops
<1>3. ASSUME drain["stderr"] # "done" PROVE Flow("stderr")' = written'["stderr"]
  <2>1. Flow("stderr") = written["stderr"]
    BY <1>3 DEF Flowing
  <2>2. QED
    BY <1>2, <2>1 DEF Flows, Stays, Grows
<1>4. \E rest \in Seq(Line) : written'["stderr"] = logged'["stderr"] \o rest
  <2>1. CASE drain["stderr"] # "done"
    <3>1. /\ logged'["stderr"] \in Seq(Line) /\ pipe'["stderr"] \in Seq(Line)
          /\ drainBuf'["stderr"] \in Seq(Line)
      BY <1>2 DEF TypeOK
    <3>2. written'["stderr"] = (logged'["stderr"] \o drainBuf'["stderr"]) \o pipe'["stderr"]
      BY <1>3, <2>1 DEF Flow, Held
    <3>3. PICK l \in Seq(Line), h \in Seq(Line), p \in Seq(Line) :
            /\ l = logged'["stderr"] /\ h = drainBuf'["stderr"] /\ p = pipe'["stderr"]
      BY <3>1
    <3>4. written'["stderr"] = (l \o h) \o p
      BY <3>2, <3>3
    <3>5. PICK rest \in Seq(Line) : (l \o h) \o p = l \o rest
      BY FrontOfThree
    <3>6. QED
      BY <3>3, <3>4, <3>5
  <2>2. CASE drain["stderr"] = "done"
    <3>1. logged'["stderr"] = logged["stderr"] /\ logged["stderr"] \in Seq(Line)
      BY <1>2, <2>2, SidesTyped DEF Flows, Ends
    <3>2. PICK rest \in Seq(Line) : written["stderr"] = logged["stderr"] \o rest
      BY DEF Flowing
    <3>3. CASE Stays("stderr")
      BY <3>1, <3>2, <3>3 DEF Stays
    <3>4. CASE Grows("stderr")
      <4>1. PICK l \in Line : written'["stderr"] = Append(written["stderr"], l)
        BY <3>4 DEF Grows
      <4>2. Append(rest, l) \in Seq(Line)
        BY AppendProperties
      <4>3. written'["stderr"] = logged["stderr"] \o Append(rest, l)
        BY <3>1, <3>2, <4>1, AppendMoves
      <4>4. QED
        BY <3>1, <4>2, <4>3
    <3>5. QED
      BY <1>2, <3>3, <3>4 DEF Flows
  <2>3. QED
    BY <2>1, <2>2
<1>5. drain'["stderr"] # "done" => Flow("stderr")' = written'["stderr"]
  BY <1>2, <1>3 DEF Flows, Ends
<1>6. QED
  BY <1>1, <1>4, <1>5 DEF Flowing

LEMMA InitHolds == Init => IInv
<1>1. SUFFICES ASSUME Init PROVE IInv
  OBVIOUS
<1>2. \A s \in Side : Empty[s] = <<>>
  BY DEF Empty
<1>3. <<>> \in Seq(Line) /\ Len(<<>>) = 0 /\ DOMAIN <<>> = {} /\ <<>> \o <<>> = <<>>
  BY EmptySeq, ConcatEmptySeq
<1>4. Stages /\ NoOrphan
  BY <1>1, <1>2 DEF Init, Stages, NoOrphan, Connecting, Stopping, Side
<1>5. Numbered
  BY <1>1, <1>2, <1>3 DEF Init, Numbered
<1>6. ASSUME NEW s \in Side PROVE Flow(s) = <<>> /\ written[s] = <<>> /\ logged[s] = <<>>
  BY <1>1, <1>2, <1>3 DEF Init, Flow, Held
<1>7. PartOf(<<>>, <<>>)
  BY <1>3 DEF PartOf, Increasing
<1>8. Flowing
  BY <1>3, <1>6, <1>7 DEF Flowing, Side
<1>9. QED
  BY <1>1, <1>4, <1>5, <1>8, InitTyped DEF IInv

(* What holds at every moment of a session. *)
LEMMA Invariance == Spec => []IInv
<1>1. IInv /\ [Next]_vars => IInv'
  <2>1. ASSUME IInv, UNCHANGED vars PROVE IInv'
    <3>1. TypeOK' /\ Stages' /\ Numbered' /\ NoOrphan'
      BY <2>1 DEF vars, cliVars, logVars, IInv, TypeOK, Stages, Numbered, NoOrphan
    <3>2. \A s \in Side : Flow(s)' = Flow(s)
      BY <2>1 DEF vars, cliVars, logVars, Flow, Held
    <3>3. UNCHANGED <<written, logged, drain>>
      BY <2>1 DEF vars, cliVars, logVars
    <3>4. "stderr" \in Side
      BY DEF Side
    <3>5. Flowing'
      BY <2>1, <3>2, <3>3, <3>4 DEF IInv, Flowing, PartOf, Increasing
    <3>6. QED
      BY <3>1, <3>5 DEF IInv
  <2>2. ASSUME IInv, Next PROVE IInv'
    <3>1. TypeOK' /\ Numbered'
      BY <2>2, StepTyped DEF IInv
    <3>2. Stages' /\ NoOrphan'
      BY <2>2, StagesStep DEF IInv
    <3>3. Flowing'
      BY <2>2, <3>1, FlowsOn, FlowingStep DEF IInv
    <3>4. QED
      BY <3>1, <3>2, <3>3 DEF IInv
  <2>3. QED
    BY <2>1, <2>2
<1>2. QED
  BY <1>1, InitHolds, PTL DEF Spec

---------------------------------------------------------------------------
(* The variables keep their types, and neither pipe ever holds more than
   fits.                                                                   *)
THEOREM SessionTypes == Spec => []TypeOK
BY Invariance, PTL DEF IInv

(* Every way out of connect() and shutdown() but a failed wait leaves no
   child (cli_session.zig:110).                                            *)
THEOREM NoChildLeft == Spec => []NoOrphan
BY Invariance, PTL DEF IInv

(* The logger has the lines of stderr from the first on, without a gap, and
   while the drain task runs none is anywhere but in its reader and the
   pipe.                                                                   *)
THEOREM StderrIsLogged == Spec => []StderrLoggedInOrder
<1>1. IInv => StderrLoggedInOrder
  <2>1. SUFFICES ASSUME IInv PROVE StderrLoggedInOrder
    OBVIOUS
  <2>2. PICK rest \in Seq(Line) : written["stderr"] = logged["stderr"] \o rest
    BY <2>1 DEF IInv, Flowing
  <2>3. IsPrefix(logged["stderr"], written["stderr"])
    BY <2>1, <2>2, PrefixOfConcat DEF IInv, TypeOK, Side
  <2>4. QED
    BY <2>1, <2>3 DEF IInv, Flowing, StderrLoggedInOrder, Flow, Held
<1>2. QED
  BY <1>1, Invariance, PTL

(* What the logger has of either pipe was written to it, once at the most and
   in that order, though two readers take turns on stdout.                 *)
THEOREM LoggedOnceInOrder == Spec => [](\A s \in Side : PartOf(logged[s], written[s]))
<1>1. IInv => \A s \in Side : PartOf(logged[s], written[s])
  <2>1. SUFFICES ASSUME IInv, NEW s \in Side PROVE PartOf(logged[s], written[s])
    OBVIOUS
  <2>2. /\ logged[s] \in Seq(Line) /\ Held(s) \in Seq(Line) /\ pipe[s] \in Seq(Line)
        /\ written[s] \in Seq(Line) /\ logged[s] \o Held(s) \in Seq(Line)
    BY <2>1, SidesTyped, ConcatProperties DEF IInv
  <2>3. PartOf((logged[s] \o Held(s)) \o pipe[s], written[s])
    BY <2>1 DEF IInv, Flowing, Flow
  <2>4. QED
    BY <2>2, <2>3, PartOfFront
<1>2. QED
  BY <1>1, Invariance, PTL

(* After connect() failed or shutdown() returned nothing calls the logger:
   every drain task is over, or was never begun.                           *)
THEOREM LoggerStaysQuiet == Spec => LoggerQuietAfterEnd
<1>1. IInv /\ [Next]_vars => [sdk = "ended" => UNCHANGED logged]_vars
  <2>1. SUFFICES ASSUME IInv, Next, sdk = "ended" PROVE UNCHANGED logged
    OBVIOUS
  <2>2. \A s \in Side : ~ Draining(s)
    BY <2>1 DEF IInv, Stages, Draining
  <2>3. ~ ReadLine /\ \A s \in Side : ~ DrainLine(s)
    BY <2>1, <2>2 DEF ReadLine, DrainLine
  <2>4. QED
    BY <2>1, <2>3 DEF Next, CliStep, SdkStep, DrainStep, CliPrints, CliAnnounces, Begin, CliWrites,
      CliSeesEOF, CliDies, Spawn, FillHandshake, HandshakeEOF, HandshakeBreaks, ConnectFails, StartDrain,
      StartDrainInline, InlineDrainOver, CancelStderr, CloseStdin, Wait, WaitFails, Shutdown,
      DrainFill, DrainEnds, DrainGivesUp, cliVars, logVars
<1>2. QED
  BY <1>1, Invariance, PTL DEF Spec, LoggerQuietAfterEnd
=============================================================================
