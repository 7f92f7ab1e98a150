------------------------- MODULE SequenceInduction ------------------------
(***************************************************************************)
(* Facts about numbers and sequences that the proofs share: induction over *)
(* the natural numbers, what FlattenSeq joins and where each element of a  *)
(* part lands, and how arrangements of parts combine.                      *)
(*                                                                         *)
(* Induction is stated for sets of numbers, not for operators: a set of    *)
(* numbers that is not empty has a least member.                           *)
(***************************************************************************)
EXTENDS Integers, Sequences, SequencesExt, WellFoundedInduction, TLAPS

(* A set of numbers that has a member has a least one. *)
LEMMA LeastNumber ==
  ASSUME NEW T \in SUBSET Nat, T # {}
  PROVE  \E m \in T : \A n \in T : m <= n
<1> DEFINE R == {p \in Nat \X Nat : p[1] < p[2]}
<1>1. IsWellFoundedOn(R, Nat)
  BY NatLessThanWellFounded DEF OpToRel
<1>2. \E m \in T : \A n \in T : <<n, m>> \notin R
  <2> HIDE DEF R
  <2>1. QED
    BY <1>1, WFMin
<1>3. PICK m \in T : \A n \in T : <<n, m>> \notin R
  BY <1>2
<1>4. \A n \in T : ~(n < m)
  BY <1>3
<1>5. QED
  BY <1>4

(* A set that has 0 and the successor of each member has every number. *)
LEMMA Induction ==
  ASSUME NEW T \in SUBSET Nat, 0 \in T, \A n \in T : n + 1 \in T
  PROVE  T = Nat
<1> SUFFICES ASSUME Nat \ T # {} PROVE FALSE
  OBVIOUS
<1>1. PICK m \in Nat \ T : \A n \in Nat \ T : m <= n
  BY LeastNumber
<1>2. m - 1 \in Nat /\ m - 1 \notin Nat \ T
  BY <1>1
<1>3. QED
  BY <1>1, <1>2

(* The same up to a bound. *)
LEMMA BoundedInduction ==
  ASSUME NEW N \in Nat, NEW T, 0 \in T, \A n \in 0 .. N - 1 : n \in T => n + 1 \in T
  PROVE  0 .. N \subseteq T
<1> DEFINE U == {n \in Nat : n <= N => n \in T}
<1>1. U = Nat
  <2>1. 0 \in U /\ U \in SUBSET Nat
    OBVIOUS
  <2>2. \A n \in U : n + 1 \in U
    OBVIOUS
  <2> HIDE DEF U
  <2>3. QED
    BY <2>1, <2>2, Induction
<1>2. QED
  BY <1>1

---------------------------------------------------------------------------
(* FlattenSeq is defined by a recursive function, and there is one. *)
LEMMA FlattenDefined ==
  ASSUME NEW S, NEW ss \in Seq(Seq(S)), Len(ss) # 0
  PROVE  \E f : /\ f = [i \in 1 .. Len(ss) |-> IF i = 1 THEN ss[i] ELSE f[i-1] \o ss[i]]
                /\ FlattenSeq(ss) = f[Len(ss)]
<1> DEFINE D(n, f) == [i \in 1 .. n |-> IF i = 1 THEN ss[i] ELSE f[i-1] \o ss[i]]
           T == {n \in Nat : \E f : f = D(n, f)}
<1>1. Len(ss) \in Nat
  OBVIOUS
<1>2. 0 \in T
  <2>1. [i \in 1 .. 0 |-> 0] = D(0, [i \in 1 .. 0 |-> 0])
    OBVIOUS
  <2>2. QED
    BY <2>1
<1>3. ASSUME NEW n \in 0 .. Len(ss) - 1, n \in T PROVE n + 1 \in T
  <2>1. PICK f : f = D(n, f)
    BY <1>3
  <2> DEFINE g == [i \in 1 .. n + 1 |-> IF i = n + 1 THEN (IF i = 1 THEN ss[i] ELSE f[n] \o ss[i]) ELSE f[i]]
  <2>2. \A i \in 1 .. n : g[i] = f[i] /\ f[i] = IF i = 1 THEN ss[i] ELSE f[i-1] \o ss[i]
    <3>1. TAKE i \in 1 .. n
    <3>2. g[i] = f[i]
      OBVIOUS
    <3>3. f[i] = D(n, f)[i]
      BY <2>1
    <3>4. QED
      BY <3>2, <3>3
  <2>3. g[n + 1] = IF n + 1 = 1 THEN ss[n + 1] ELSE f[n] \o ss[n + 1]
    OBVIOUS
  <2>4. DOMAIN g = 1 .. n + 1 /\ g = [i \in 1 .. n + 1 |-> g[i]]
    OBVIOUS
  <2> HIDE DEF g
  <2>5. ASSUME NEW i \in 1 .. n + 1 PROVE g[i] = IF i = 1 THEN ss[i] ELSE g[i-1] \o ss[i]
    <3>1. CASE i = n + 1
      <4>1. n # 0 => g[n] = f[n]
        BY <2>2
      <4>2. QED
        BY <3>1, <2>3, <4>1
    <3>2. CASE i # n + 1
      <4>1. i \in 1 .. n /\ (i # 1 => i - 1 \in 1 .. n)
        BY <3>2
      <4>2. QED
        BY <2>2, <4>1
    <3>3. QED
      BY <3>1, <3>2
  <2>6. g = D(n + 1, g)
    BY <2>4, <2>5
  <2>7. n + 1 \in Nat
    OBVIOUS
  <2>8. QED
    BY <2>6, <2>7
<1>4. Len(ss) \in T
  <2> HIDE DEF T
  <2>1. 0 .. Len(ss) \subseteq T
    BY <1>1, <1>2, <1>3, BoundedInduction
  <2>2. QED
    BY <1>1, <2>1
<1>5. \E f : f = D(Len(ss), f)
  BY <1>4
<1>6. FlattenSeq(ss) = (CHOOSE f : f = D(Len(ss), f))[Len(ss)]
  BY DEF FlattenSeq
<1> DEFINE h == CHOOSE f : f = D(Len(ss), f)
<1>7. h = D(Len(ss), h)
  <2> HIDE DEF D
  <2>1. QED
    BY <1>5
<1>8. QED
  BY <1>6, <1>7

(* at[k] elements of FlattenSeq(ss) come from the first k sequences. *)
Offsets(at, ss) ==
  /\ at \in [0 .. Len(ss) -> Nat] /\ at[0] = 0
  /\ \A k \in 1 .. Len(ss) : at[k] = at[k - 1] + Len(ss[k])

(* A sequence of sequences, part by part. *)
LEMMA Nested ==
  ASSUME NEW S, NEW ss \in Seq(Seq(S))
  PROVE  /\ Len(ss) \in Nat
         /\ \A k \in 1 .. Len(ss) : ss[k] \in Seq(S) /\ Len(ss[k]) \in Nat
OBVIOUS

(* Offsets are numbers, each the one before it and the length of a part. *)
LEMMA OffsetsFacts ==
  ASSUME NEW S, NEW ss \in Seq(Seq(S)), NEW at, Offsets(at, ss)
  PROVE  /\ Len(ss) \in Nat
         /\ \A k \in 0 .. Len(ss) : k \in Nat /\ at[k] \in Nat
         /\ \A k \in 1 .. Len(ss) : /\ k - 1 \in 0 .. Len(ss) /\ Len(ss[k]) \in Nat
                                    /\ at[k] = at[k - 1] + Len(ss[k])
         /\ at[0] = 0 /\ at[Len(ss)] \in Nat
<1>1. Len(ss) \in Nat
  BY Nested
<1>2. \A k \in 0 .. Len(ss) : k \in Nat /\ at[k] \in Nat
  BY <1>1 DEF Offsets
<1>3. \A k \in 1 .. Len(ss) : k - 1 \in 0 .. Len(ss) /\ at[k] = at[k - 1] + Len(ss[k])
  BY <1>1 DEF Offsets
<1>4. \A k \in 1 .. Len(ss) : Len(ss[k]) \in Nat
  BY Nested
<1>5. QED
  BY <1>1, <1>2, <1>3, <1>4 DEF Offsets

(* What is left of a sequence without its first k elements. *)
LEMMA Suffix ==
  ASSUME NEW S, NEW s \in Seq(S), NEW k \in 0 .. Len(s), NEW rest, rest = SubSeq(s, k + 1, Len(s))
  PROVE  /\ rest \in Seq(S) /\ Len(rest) = Len(s) - k
         /\ \A j \in 1 .. Len(rest) : rest[j] = s[k + j]
OBVIOUS

(* Two sequences in one. *)
LEMMA Joined ==
  ASSUME NEW S, NEW a \in Seq(S), NEW b \in Seq(S), NEW c, c = a \o b
  PROVE  /\ c \in Seq(S) /\ Len(c) = Len(a) + Len(b)
         /\ Len(a) \in Nat /\ Len(b) \in Nat /\ Len(c) \in Nat
         /\ \A i \in 1 .. Len(a) : c[i] = a[i]
         /\ \A i \in 1 .. Len(b) : c[Len(a) + i] = b[i]
OBVIOUS

(* f[i] joins the first i of the n sequences of ss, at[i] long. *)
Joins(f, at, ss, n, S) ==
  /\ \A k \in 1 .. n : ss[k] \in Seq(S)
  /\ f[1] = ss[1] /\ \A i \in 2 .. n : f[i] = f[i-1] \o ss[i]
  /\ at[0] = 0 /\ \A k \in 1 .. n : at[k] = Len(f[k])

(* By induction over the parts: each lies behind those before it. *)
LEMMA PrefixBlocks ==
  ASSUME NEW S, NEW n \in Nat \ {0}, NEW ss, NEW f, NEW at, Joins(f, at, ss, n, S)
  PROVE  /\ f[n] \in Seq(S)
         /\ \A k \in 1 .. n : at[k] = at[k - 1] + Len(ss[k]) /\ at[k] \in Nat
         /\ \A k \in 1 .. n : \A i \in 1 .. Len(ss[k]) :
              at[k - 1] + i \in 1 .. at[n] /\ f[n][at[k - 1] + i] = ss[k][i]
<1> USE DEF Joins
<1> DEFINE Holds(m) == /\ f[m] \in Seq(S)
                       /\ \A k \in 1 .. m : /\ at[k] = at[k - 1] + Len(ss[k])
                                            /\ at[k] \in Nat /\ at[k - 1] \in Nat
                       /\ \A k \in 1 .. m : \A i \in 1 .. Len(ss[k]) :
                            at[k - 1] + i \in 1 .. at[m] /\ f[m][at[k - 1] + i] = ss[k][i]
           T == {m \in Nat : m + 1 <= n => Holds(m + 1)}
<1>1. 0 \in T /\ T \in SUBSET Nat
  <2>1. ss[1] \in Seq(S) /\ Len(ss[1]) \in Nat /\ at[1] = Len(ss[1])
    OBVIOUS
  <2>2. Holds(1)
    BY <2>1
  <2>3. QED
    BY <2>2
<1>2. ASSUME NEW m \in T PROVE m + 1 \in T
  <2> HIDE DEF Holds
  <2> SUFFICES ASSUME (m + 1) + 1 <= n PROVE Holds((m + 1) + 1)
    OBVIOUS
  <2> USE DEF Holds
  <2> DEFINE p == m + 1
  <2>1. p \in 1 .. n /\ p + 1 \in 2 .. n /\ (p + 1) - 1 = p /\ p + 1 \in 1 .. n
    OBVIOUS
  <2>2. Holds(p)
    BY <1>2
  <2> HIDE DEF p
  <2>3. f[p + 1] = f[p] \o ss[p + 1]
    BY <2>1
  <2>3a. PICK a, b, c : a = f[p] /\ b = ss[p + 1] /\ c = f[p + 1]
    OBVIOUS
  <2>4. /\ c \in Seq(S) /\ Len(c) = Len(a) + Len(b)
        /\ Len(a) \in Nat /\ Len(b) \in Nat /\ Len(c) \in Nat
        /\ \A i \in 1 .. Len(a) : c[i] = a[i]
        /\ \A i \in 1 .. Len(b) : c[Len(a) + i] = b[i]
    <3>1. a \in Seq(S) /\ b \in Seq(S) /\ c = a \o b
      BY <2>1, <2>2, <2>3, <2>3a
    <3>2. QED
      BY <3>1, Joined
  <2>5. /\ at[p] = Len(a) /\ at[p + 1] = Len(c)
    BY <2>1, <2>3a
  <2>5a. at[p + 1] = at[p] + Len(ss[p + 1])
    BY <2>3a, <2>4, <2>5
  <2>6. \A k \in 1 .. p + 1 : at[k] = at[k - 1] + Len(ss[k]) /\ at[k] \in Nat /\ at[k - 1] \in Nat
    <3>1. TAKE k \in 1 .. p + 1
    <3>2. CASE k = p + 1
      BY <2>1, <2>4, <2>5, <2>5a, <3>2
    <3>3. CASE k # p + 1
      <4>1. k \in 1 .. p
        BY <2>1, <3>3
      <4>2. QED
        BY <2>2, <4>1
    <3>4. QED
      BY <3>2, <3>3
  <2>7. ASSUME NEW k \in 1 .. p + 1, NEW i \in 1 .. Len(ss[k])
        PROVE  at[k - 1] + i \in 1 .. at[p + 1] /\ f[p + 1][at[k - 1] + i] = ss[k][i]
    <3>1. CASE k = p + 1
      <4>1. at[k - 1] = at[p] /\ ss[k] = b /\ i \in 1 .. Len(b)
        BY <2>1, <2>3a, <3>1
      <4>2. at[k - 1] + i \in 1 .. at[p + 1] /\ c[at[k - 1] + i] = ss[k][i]
        BY <2>4, <2>5, <4>1
      <4>3. QED
        BY <2>3a, <4>2
    <3>2. CASE k # p + 1
      <4>1. k \in 1 .. p
        BY <2>1, <3>2
      <4>2. at[k - 1] + i \in 1 .. at[p] /\ a[at[k - 1] + i] = ss[k][i]
        BY <2>2, <2>3a, <4>1
      <4>3. at[k - 1] + i \in 1 .. at[p + 1] /\ c[at[k - 1] + i] = ss[k][i]
        BY <2>4, <2>5, <4>2
      <4>4. QED
        BY <2>3a, <4>3
    <3>3. QED
      BY <3>1, <3>2
  <2>8. Holds(p + 1)
    BY <2>3a, <2>4, <2>6, <2>7
  <2>9. QED
    BY <2>8 DEF p
<1>3. T = Nat
  <2> HIDE DEF T
  <2>1. QED
    BY <1>1, <1>2, Induction
<1>4. Holds(n)
  <2>1. n - 1 \in T
    <3>1. n - 1 \in Nat
      OBVIOUS
    <3> HIDE DEF T
    <3>2. QED
      BY <1>3, <3>1
  <2>2. QED
    BY <2>1
<1>5. QED
  BY <1>4

(* Where FlattenSeq puts each element of each part. *)
LEMMA FlattenBlocks ==
  ASSUME NEW S, NEW ss \in Seq(Seq(S))
  PROVE  /\ FlattenSeq(ss) \in Seq(S)
         /\ \E at : /\ Offsets(at, ss) /\ Len(FlattenSeq(ss)) = at[Len(ss)]
                    /\ \A k \in 1 .. Len(ss) : \A i \in 1 .. Len(ss[k]) :
                         at[k - 1] + i \in 1 .. at[Len(ss)] /\ FlattenSeq(ss)[at[k - 1] + i] = ss[k][i]
<1> DEFINE n == Len(ss)
<1>1. CASE n = 0
  <2>1. FlattenSeq(ss) = <<>> /\ ss = <<>>
    BY <1>1 DEF FlattenSeq
  <2> DEFINE at == [k \in 0 .. 0 |-> 0]
  <2>2. Offsets(at, ss) /\ at[Len(ss)] = 0
    BY <1>1 DEF Offsets
  <2> HIDE DEF at
  <2>3. QED
    BY <1>1, <2>1, <2>2
<1>2. CASE n # 0
  <2>1. PICK f : /\ f = [i \in 1 .. n |-> IF i = 1 THEN ss[i] ELSE f[i-1] \o ss[i]]
                 /\ FlattenSeq(ss) = f[n]
    BY <1>2, FlattenDefined
  <2>2. n \in Nat /\ n > 0 /\ \A i \in 1 .. n : ss[i] \in Seq(S) /\ Len(ss[i]) \in Nat
    BY <1>2, Nested
  <2> HIDE DEF n
  <2>3. \A i \in 1 .. n : f[i] = IF i = 1 THEN ss[i] ELSE f[i-1] \o ss[i]
    BY <2>1
  <2>4. f[1] = ss[1] /\ \A i \in 2 .. n : f[i] = f[i-1] \o ss[i]
    <3>1. 1 \in 1 .. n /\ \A i \in 2 .. n : i \in 1 .. n /\ i # 1
      BY <2>2
    <3>2. QED
      BY <2>3, <3>1
  <2> DEFINE at == [k \in 0 .. n |-> IF k = 0 THEN 0 ELSE Len(f[k])]
  <2>5. at[0] = 0 /\ \A k \in 1 .. n : at[k] = Len(f[k])
    BY <2>2
  <2>6. DOMAIN at = 0 .. n /\ at = [k \in 0 .. n |-> at[k]]
    OBVIOUS
  <2> HIDE DEF at
  <2>7. /\ f[n] \in Seq(S)
        /\ \A k \in 1 .. n : at[k] = at[k - 1] + Len(ss[k]) /\ at[k] \in Nat
        /\ \A k \in 1 .. n : \A i \in 1 .. Len(ss[k]) :
             at[k - 1] + i \in 1 .. at[n] /\ f[n][at[k - 1] + i] = ss[k][i]
    <3>0. n \in Nat \ {0} /\ \A k \in 1 .. n : ss[k] \in Seq(S)
      BY <2>2
    <3>1. Joins(f, at, ss, n, S)
      BY <2>4, <2>5, <3>0 DEF Joins
    <3>2. QED
      BY <3>0, <3>1, PrefixBlocks
  <2>8. \A k \in 0 .. n : at[k] \in Nat
    BY <2>2, <2>5, <2>7
  <2>9. at \in [0 .. n -> Nat]
    BY <2>6, <2>8
  <2>10. Offsets(at, ss)
    BY <2>5, <2>7, <2>9 DEF Offsets, n
  <2>11. Len(FlattenSeq(ss)) = at[n]
    <3>1. n \in 1 .. n
      BY <2>2
    <3>2. QED
      BY <2>1, <2>5, <3>1
  <2>12. FlattenSeq(ss) = f[n]
    BY <2>1
  <2>13. QED
    BY <2>7, <2>10, <2>11, <2>12 DEF n
<1>3. QED
  BY <1>1, <1>2

(* Every element of FlattenSeq(ss) lies in one of the sequences. *)
LEMMA BlockOf ==
  ASSUME NEW S, NEW ss \in Seq(Seq(S)), NEW at, Offsets(at, ss), NEW i \in 1 .. at[Len(ss)]
  PROVE  \E k \in 1 .. Len(ss) : i - at[k - 1] \in 1 .. Len(ss[k])
<1> DEFINE n == Len(ss)
           K == {k \in 0 .. n : i <= at[k]}
<1>1. /\ n \in Nat /\ \A k \in 0 .. n : k \in Nat /\ at[k] \in Nat
      /\ \A k \in 1 .. n : k - 1 \in 0 .. n /\ Len(ss[k]) \in Nat /\ at[k] = at[k - 1] + Len(ss[k])
      /\ at[0] = 0 /\ at[n] \in Nat /\ i \in 1 .. at[n]
  BY OffsetsFacts
<1> HIDE DEF n
<1>2. K \in SUBSET Nat /\ n \in K
  BY <1>1
<1>3. PICK k \in K : \A j \in K : k <= j
  <2> HIDE DEF K
  <2>1. QED
    BY <1>2, LeastNumber
<1>4. k \in 1 .. n /\ k - 1 \notin K
  BY <1>1, <1>3
<1>5. at[k - 1] < i /\ i <= at[k] /\ at[k] = at[k - 1] + Len(ss[k]) /\ at[k - 1] \in Nat /\ Len(ss[k]) \in Nat
  BY <1>1, <1>3, <1>4
<1>6. i - at[k - 1] \in 1 .. Len(ss[k])
  BY <1>1, <1>5
<1>7. QED
  BY <1>4, <1>6 DEF n

(* Offsets grow. *)
LEMMA OffsetsMonotone ==
  ASSUME NEW S, NEW ss \in Seq(Seq(S)), NEW at, Offsets(at, ss),
         NEW k \in 0 .. Len(ss), NEW l \in 0 .. Len(ss), k <= l
  PROVE  at[k] \in Nat /\ at[l] \in Nat /\ at[k] <= at[l]
<1> DEFINE n == Len(ss)
           T == {d \in Nat : k + d <= n => at[k] <= at[k + d]}
<1>1. /\ n \in Nat /\ k \in Nat /\ l \in Nat /\ l <= n /\ k <= l /\ \A j \in 0 .. n : at[j] \in Nat
      /\ \A j \in 1 .. n : Len(ss[j]) \in Nat /\ at[j] = at[j - 1] + Len(ss[j])
  BY OffsetsFacts
<1> HIDE DEF n
<1>2. 0 \in T /\ T \in SUBSET Nat
  BY <1>1
<1>3. ASSUME NEW d \in T PROVE d + 1 \in T
  <2> SUFFICES ASSUME k + d + 1 <= n PROVE at[k] <= at[k + d + 1]
    BY <1>1
  <2>1. k + d + 1 \in 1 .. n /\ k + d \in 0 .. n /\ k + d + 1 - 1 = k + d
    BY <1>1
  <2>2. at[k + d + 1] = at[k + d] + Len(ss[k + d + 1]) /\ Len(ss[k + d + 1]) \in Nat
    BY <1>1, <2>1
  <2>3. QED
    BY <1>1, <1>3, <2>1, <2>2
<1>4. T = Nat
  <2> HIDE DEF T
  <2>1. QED
    BY <1>2, <1>3, Induction
<1>5. l - k \in T /\ k + (l - k) = l
  <2>1. l - k \in Nat
    BY <1>1
  <2> HIDE DEF T
  <2>2. QED
    BY <1>4, <1>1, <2>1
<1>6. QED
  BY <1>1, <1>5

(* None is beyond the last. *)
LEMMA OffsetsGrow ==
  ASSUME NEW S, NEW ss \in Seq(Seq(S)), NEW at, Offsets(at, ss), NEW k \in 0 .. Len(ss)
  PROVE  at[k] \in Nat /\ at[Len(ss)] \in Nat /\ at[k] <= at[Len(ss)]
<1>1. Len(ss) \in Nat /\ Len(ss) \in 0 .. Len(ss) /\ k <= Len(ss)
  BY Nested
<1>2. PICK n : n = Len(ss)
  OBVIOUS
<1>3. at[k] \in Nat /\ at[n] \in Nat /\ at[k] <= at[n]
  BY <1>1, <1>2, OffsetsMonotone
<1>4. QED
  BY <1>2, <1>3

(* The parts behind the first k take what those leave. *)
LEMMA SuffixLength ==
  ASSUME NEW S, NEW ss \in Seq(Seq(S)), NEW at, Offsets(at, ss), NEW k \in 0 .. Len(ss)
  PROVE  Len(FlattenSeq(SubSeq(ss, k + 1, Len(ss)))) = at[Len(ss)] - at[k]
<1> DEFINE n    == Len(ss)
           rest == SubSeq(ss, k + 1, Len(ss))
           m    == Len(rest)
<1>1. /\ n \in Nat /\ k \in Nat /\ k <= n /\ \A j \in 0 .. n : at[j] \in Nat
      /\ \A j \in 1 .. n : Len(ss[j]) \in Nat /\ at[j] = at[j - 1] + Len(ss[j])
  BY OffsetsFacts
<1>2. /\ rest \in Seq(Seq(S)) /\ m = n - k
      /\ \A j \in 1 .. m : rest[j] = ss[k + j]
  <2>1. rest = SubSeq(ss, k + 1, Len(ss))
    OBVIOUS
  <2> HIDE DEF rest
  <2> DEFINE X == Seq(S)
  <2>2. ss \in Seq(X)
    OBVIOUS
  <2> HIDE DEF X
  <2>3. rest \in Seq(X) /\ Len(rest) = Len(ss) - k /\ \A j \in 1 .. Len(rest) : rest[j] = ss[k + j]
    BY <2>1, <2>2, Suffix
  <2>4. QED
    BY <2>3 DEF X
<1> HIDE DEF rest
<1>3. PICK on : Offsets(on, rest) /\ Len(FlattenSeq(rest)) = on[m]
  BY <1>2, FlattenBlocks
<1>4. on[0] = 0 /\ \A j \in 1 .. m : on[j] = on[j - 1] + Len(rest[j])
  BY <1>3 DEF Offsets
<1>5. \A j \in 1 .. m : on[j] = on[j - 1] + Len(ss[k + j])
  BY <1>2, <1>4
<1> HIDE DEF n, m
<1> DEFINE T == {j \in Nat : j <= m => on[j] = at[k + j] - at[k]}
<1>6. 0 \in T /\ T \in SUBSET Nat
  BY <1>1, <1>4
<1>7. ASSUME NEW j \in T PROVE j + 1 \in T
  <2> SUFFICES ASSUME j + 1 <= m PROVE on[j + 1] = at[k + (j + 1)] - at[k]
    BY <1>1
  <2>1. /\ j + 1 \in 1 .. m /\ (j + 1) - 1 = j
        /\ k + (j + 1) \in 1 .. n /\ (k + (j + 1)) - 1 = k + j /\ k + j \in 0 .. n
    BY <1>1, <1>2
  <2>2. on[j + 1] = on[j] + Len(ss[k + (j + 1)])
    BY <1>5, <2>1
  <2>3. at[k + (j + 1)] = at[k + j] + Len(ss[k + (j + 1)]) /\ Len(ss[k + (j + 1)]) \in Nat
    BY <1>1, <2>1
  <2>4. at[k + j] \in Nat /\ at[k] \in Nat
    BY <1>1, <2>1
  <2>5. j <= m /\ on[j] = at[k + j] - at[k]
    BY <1>7, <2>1, <1>1, <1>2
  <2>6. QED
    BY <2>2, <2>3, <2>4, <2>5
<1>8. T = Nat
  <2> HIDE DEF T
  <2>1. QED
    BY <1>6, <1>7, Induction
<1>9. m \in T /\ k + m = n
  <2> HIDE DEF T
  <2>1. QED
    BY <1>1, <1>2, <1>8
<1>10. on[m] = at[n] - at[k]
  BY <1>1, <1>9
<1>11. QED
  BY <1>3, <1>10 DEF rest, n

(* A place in block k lies before every place in a later block. *)
LEMMA BlocksInOrder ==
  ASSUME NEW S, NEW ss \in Seq(Seq(S)), NEW at, Offsets(at, ss),
         NEW k \in 1 .. Len(ss), NEW l \in 1 .. Len(ss), k < l,
         NEW i \in 1 .. Len(ss[k]), NEW j \in 1 .. Len(ss[l])
  PROVE  at[k - 1] + i < at[l - 1] + j
<1>1. k \in 0 .. Len(ss) /\ l - 1 \in 0 .. Len(ss) /\ k <= l - 1
  BY Nested
<1>2. PICK a, b, c : a = at[k - 1] /\ b = at[k] /\ c = at[l - 1]
  OBVIOUS
<1>3. b \in Nat /\ c \in Nat /\ b <= c
  <2>1. PICK m : m = l - 1
    OBVIOUS
  <2>2. at[k] \in Nat /\ at[m] \in Nat /\ at[k] <= at[m]
    BY <1>1, <2>1, OffsetsMonotone
  <2>3. QED
    BY <1>2, <2>1, <2>2
<1>4. a \in Nat /\ Len(ss[k]) \in Nat /\ b = a + Len(ss[k]) /\ Len(ss[l]) \in Nat
  BY <1>2, OffsetsFacts
<1>5. PICK x, y : x = Len(ss[k]) /\ y = Len(ss[l])
  OBVIOUS
<1>6. x \in Nat /\ y \in Nat /\ b = a + x /\ i \in 1 .. x /\ j \in 1 .. y
  BY <1>4, <1>5
<1>7. a + i < c + j
  BY <1>3, <1>4, <1>6
<1>8. QED
  BY <1>2, <1>7

---------------------------------------------------------------------------
(* F[p] names what is at place p of n: each member of C once, those that
   Below relates in their order.                                            *)
Arranges(F, n, C, Below) ==
  /\ F \in [1 .. n -> C]
  /\ \A c \in C : \E p \in 1 .. n : F[p] = c
  /\ \A p, q \in 1 .. n : F[p] = F[q] => p = q
  /\ \A p, q \in 1 .. n : <<F[p], F[q]>> \in Below => p < q

(* Part k of ss arranges C[k] by f[k]; together they have D, each member once,
   and what is Below is not in a later part.                                *)
BlocksArranged(f, ss, C, D, Below) ==
  /\ \A k \in 1 .. Len(ss) : Arranges(f[k], Len(ss[k]), C[k], Below) /\ C[k] \subseteq D
  /\ \A d \in D : \E k \in 1 .. Len(ss) : d \in C[k]
  /\ \A k, l \in 1 .. Len(ss) : \A c \in C[k] : c \in C[l] => k = l
  /\ \A k, l \in 1 .. Len(ss) : \A c \in C[k], d \in C[l] : <<c, d>> \in Below => k <= l

(* t is those blocks in a row, and F says what is where. *)
JoinsBlocks(F, t, f, ss, D, Below) ==
  /\ Arranges(F, Len(t), D, Below)
  /\ \A p \in 1 .. Len(t) :
       \E k \in 1 .. Len(ss) : \E r \in 1 .. Len(ss[k]) : t[p] = ss[k][r] /\ F[p] = f[k][r]

(* FlattenSeq arranges what its parts arrange. *)
LEMMA FlattenArranged ==
  ASSUME NEW S, NEW ss \in Seq(Seq(S)), NEW f, NEW C, NEW D, NEW Below,
         BlocksArranged(f, ss, C, D, Below)
  PROVE  /\ FlattenSeq(ss) \in Seq(S)
         /\ \E F : JoinsBlocks(F, FlattenSeq(ss), f, ss, D, Below)
<1> DEFINE n == Len(ss)
<1>1. PICK at : /\ Offsets(at, ss) /\ Len(FlattenSeq(ss)) = at[n]
                /\ \A k \in 1 .. n : \A i \in 1 .. Len(ss[k]) :
                     at[k - 1] + i \in 1 .. at[n] /\ FlattenSeq(ss)[at[k - 1] + i] = ss[k][i]
  BY FlattenBlocks
<1>2. /\ n \in Nat /\ \A k \in 1 .. n : at[k - 1] \in Nat /\ Len(ss[k]) \in Nat
      /\ at[n] \in Nat
  BY <1>1, OffsetsFacts
<1>3. \A p \in 1 .. at[n] : \E k \in 1 .. n : p - at[k - 1] \in 1 .. Len(ss[k])
  BY <1>1, BlockOf
<1>4. \A k, l \in 1 .. n : \A i \in 1 .. Len(ss[k]), j \in 1 .. Len(ss[l]) :
        k < l => at[k - 1] + i < at[l - 1] + j
  <2>1. TAKE k, l \in 1 .. n
  <2>2. TAKE i \in 1 .. Len(ss[k]), j \in 1 .. Len(ss[l])
  <2>3. HAVE k < l
  <2>4. QED
    BY <1>1, <2>3, BlocksInOrder
<1> HIDE DEF n
<1> DEFINE L == at[n]
           B(p) == CHOOSE k \in 1 .. n : p - at[k - 1] \in 1 .. Len(ss[k])
           R(p) == p - at[B(p) - 1]
           F == [p \in 1 .. L |-> f[B(p)][R(p)]]
<1>5. ASSUME NEW p \in 1 .. L
      PROVE  B(p) \in 1 .. n /\ R(p) \in 1 .. Len(ss[B(p)]) /\ p = at[B(p) - 1] + R(p)
  <2>1. B(p) \in 1 .. n /\ p - at[B(p) - 1] \in 1 .. Len(ss[B(p)])
    BY <1>3, <1>5
  <2>2. at[B(p) - 1] \in Nat
    BY <1>2, <2>1
  <2>3. QED
    BY <2>1, <2>2
<1>6. ASSUME NEW p \in 1 .. L, NEW k \in 1 .. n, NEW r \in 1 .. Len(ss[k]), p = at[k - 1] + r
      PROVE  B(p) = k /\ R(p) = r
  <2>1. B(p) \in 1 .. n /\ R(p) \in 1 .. Len(ss[B(p)]) /\ p = at[B(p) - 1] + R(p)
    BY <1>5
  <2>2. PICK l, j : l = B(p) /\ j = R(p)
    OBVIOUS
  <2> HIDE DEF B, R
  <2>3. l \in 1 .. n /\ j \in 1 .. Len(ss[l]) /\ p = at[l - 1] + j
    BY <2>1, <2>2
  <2>4. ~(l < k) /\ ~(k < l)
    <3>1. l < k => p < p
      BY <1>4, <1>6, <2>3
    <3>2. k < l => p < p
      BY <1>4, <1>6, <2>3
    <3>3. p \in Nat
      BY <1>2
    <3>4. QED
      BY <3>1, <3>2, <3>3
  <2>5. l = k
    BY <1>2, <2>3, <2>4
  <2>6. j = r
    BY <1>2, <1>6, <2>3, <2>5
  <2>7. QED
    BY <2>2, <2>5, <2>6
<1>7. \A p \in 1 .. L : F[p] = f[B(p)][R(p)]
  OBVIOUS
<1>8. F = [p \in 1 .. L |-> F[p]]
  OBVIOUS
<1> HIDE DEF B, R, F
<1>9. ASSUME NEW k \in 1 .. n
      PROVE  /\ f[k] \in [1 .. Len(ss[k]) -> C[k]] /\ C[k] \subseteq D
             /\ \A c \in C[k] : \E p \in 1 .. Len(ss[k]) : f[k][p] = c
             /\ \A p, q \in 1 .. Len(ss[k]) : f[k][p] = f[k][q] => p = q
             /\ \A p, q \in 1 .. Len(ss[k]) : <<f[k][p], f[k][q]>> \in Below => p < q
  BY <1>9 DEF BlocksArranged, Arranges, n
<1>10. ASSUME NEW p \in 1 .. L PROVE F[p] \in C[B(p)] /\ F[p] \in D
  BY <1>5, <1>7, <1>9, <1>10
<1>11. F \in [1 .. L -> D]
  BY <1>8, <1>10
<1>12. ASSUME NEW d \in D PROVE \E p \in 1 .. L : F[p] = d
  <2>1. PICK k \in 1 .. n : d \in C[k]
    BY DEF BlocksArranged, n
  <2>2. PICK r \in 1 .. Len(ss[k]) : f[k][r] = d
    BY <1>9, <2>1
  <2>3. PICK p : p = at[k - 1] + r
    OBVIOUS
  <2>4. p \in 1 .. L
    BY <1>1, <2>3
  <2>5. B(p) = k /\ R(p) = r
    BY <1>6, <2>3, <2>4
  <2>6. QED
    BY <1>7, <2>2, <2>4, <2>5
<1>13. ASSUME NEW p \in 1 .. L, NEW q \in 1 .. L, F[p] = F[q] PROVE p = q
  <2>1. B(p) = B(q)
    <3>1. F[p] \in C[B(p)] /\ F[p] \in C[B(q)]
      BY <1>10, <1>13
    <3>2. QED
      BY <1>5, <3>1 DEF BlocksArranged, n
  <2>2. f[B(p)][R(p)] = f[B(p)][R(q)]
    BY <1>7, <1>13, <2>1
  <2>3. R(p) = R(q)
    BY <1>5, <1>9, <2>1, <2>2
  <2>4. QED
    BY <1>5, <2>1, <2>3
<1>14. ASSUME NEW p \in 1 .. L, NEW q \in 1 .. L, <<F[p], F[q]>> \in Below PROVE p < q
  <2>1. B(p) <= B(q)
    BY <1>5, <1>10, <1>14 DEF BlocksArranged, n
  <2>2. PICK k, l, i, j : k = B(p) /\ l = B(q) /\ i = R(p) /\ j = R(q)
    OBVIOUS
  <2>3. /\ k \in 1 .. n /\ l \in 1 .. n /\ i \in 1 .. Len(ss[k]) /\ j \in 1 .. Len(ss[l])
        /\ p = at[k - 1] + i /\ q = at[l - 1] + j
    BY <1>5, <2>2
  <2>4. CASE k < l
    BY <1>4, <2>3, <2>4
  <2>5. CASE k = l
    <3>1. <<f[k][i], f[k][j]>> \in Below
      BY <1>7, <1>14, <2>2, <2>5
    <3>2. i < j
      BY <1>9, <2>3, <2>5, <3>1
    <3>3. at[k - 1] \in Nat /\ i \in Nat /\ j \in Nat
      BY <1>2, <2>3
    <3>4. QED
      BY <2>3, <2>5, <3>2, <3>3
  <2>6. QED
    BY <1>2, <2>1, <2>2, <2>3, <2>4, <2>5
<1>15. Arranges(F, L, D, Below)
  BY <1>11, <1>12, <1>13, <1>14 DEF Arranges
<1>16. ASSUME NEW p \in 1 .. L
       PROVE  \E k \in 1 .. n : \E r \in 1 .. Len(ss[k]) : FlattenSeq(ss)[p] = ss[k][r] /\ F[p] = f[k][r]
  <2>1. PICK k, i : k = B(p) /\ i = R(p)
    OBVIOUS
  <2>2. k \in 1 .. n /\ i \in 1 .. Len(ss[k]) /\ p = at[k - 1] + i /\ F[p] = f[k][i]
    BY <1>5, <1>7, <2>1
  <2>3. FlattenSeq(ss)[p] = ss[k][i]
    BY <1>1, <2>2
  <2>4. QED
    BY <2>2, <2>3
<1>17. FlattenSeq(ss) \in Seq(S)
  BY FlattenBlocks
<1>18. Len(FlattenSeq(ss)) = L
  BY <1>1
<1> HIDE DEF L
<1>19. /\ Arranges(F, Len(FlattenSeq(ss)), D, Below)
       /\ \A p \in 1 .. Len(FlattenSeq(ss)) :
            \E k \in 1 .. n : \E r \in 1 .. Len(ss[k]) : FlattenSeq(ss)[p] = ss[k][r] /\ F[p] = f[k][r]
  BY <1>15, <1>16, <1>18
<1>20. JoinsBlocks(F, FlattenSeq(ss), f, ss, D, Below)
  BY <1>19 DEF JoinsBlocks, n
<1>21. QED
  BY <1>17, <1>20

(* Functions on 1 .. n are sequences, and so are sequences of them. *)
LEMMA NestedIn ==
  ASSUME NEW m \in Nat, NEW ss, ss = [k \in 1 .. m |-> ss[k]],
         \A k \in 1 .. m : \E n \in Nat : ss[k] = [i \in 1 .. n |-> ss[k][i]]
  PROVE  /\ \E X : ss \in Seq(Seq(X))
         /\ Len(ss) = m
<1> DEFINE Y(k) == {ss[k][i] : i \in DOMAIN ss[k]}
           Ys   == {Y(k) : k \in 1 .. m}
           X    == UNION Ys
           Z    == Seq(X)
<1>1. ASSUME NEW k \in 1 .. m PROVE ss[k] \in Z
  <2>1. PICK n \in Nat : ss[k] = [i \in 1 .. n |-> ss[k][i]]
    OBVIOUS
  <2>2. DOMAIN ss[k] = 1 .. n
    BY <2>1
  <2>3. Y(k) \in Ys
    OBVIOUS
  <2>4. \A i \in 1 .. n : ss[k][i] \in Y(k)
    BY <2>2
  <2> HIDE DEF Y, Ys
  <2>5. \A i \in 1 .. n : ss[k][i] \in X
    BY <2>3, <2>4
  <2> HIDE DEF X
  <2>6. QED
    BY <2>1, <2>5
<1> HIDE DEF Z
<1>2. ss \in Seq(Z) /\ Len(ss) = m
  BY <1>1
<1>3. QED
  BY <1>2 DEF Z

(* G names each member of C once; places that Inner does not relate it gives
   to members that Below does not relate.                                   *)
Renames(G, m, C, Below, Inner) ==
  /\ G \in [1 .. m -> C]
  /\ \A c \in C : \E p \in 1 .. m : G[p] = c
  /\ \A p, q \in 1 .. m : G[p] = G[q] => p = q
  /\ \A p, q \in 1 .. m : <<G[p], G[q]>> \in Below => <<p, q>> \in Inner

(* An arrangement of an arrangement. *)
LEMMA Rearranged ==
  ASSUME NEW n \in Nat, NEW m \in Nat, NEW F, NEW G, NEW C, NEW Inner, NEW Below,
         Arranges(F, n, 1 .. m, Inner), Renames(G, m, C, Below, Inner)
  PROVE  Arranges([p \in 1 .. n |-> G[F[p]]], n, C, Below)
<1> DEFINE H == [p \in 1 .. n |-> G[F[p]]]
<1>1. /\ F \in [1 .. n -> 1 .. m]
      /\ \A c \in 1 .. m : \E p \in 1 .. n : F[p] = c
      /\ \A p, q \in 1 .. n : F[p] = F[q] => p = q
      /\ \A p, q \in 1 .. n : <<F[p], F[q]>> \in Inner => p < q
  BY DEF Arranges
<1>0. /\ G \in [1 .. m -> C]
      /\ \A c \in C : \E p \in 1 .. m : G[p] = c
      /\ \A p, q \in 1 .. m : G[p] = G[q] => p = q
      /\ \A p, q \in 1 .. m : <<G[p], G[q]>> \in Below => <<p, q>> \in Inner
  BY DEF Renames
<1>2. \A p \in 1 .. n : F[p] \in 1 .. m /\ H[p] = G[F[p]]
  BY <1>1
<1>3. H \in [1 .. n -> C]
  BY <1>2, <1>0
<1> HIDE DEF H
<1>4. ASSUME NEW c \in C PROVE \E p \in 1 .. n : H[p] = c
  <2>1. PICK q \in 1 .. m : G[q] = c
    BY <1>0
  <2>2. PICK p \in 1 .. n : F[p] = q
    BY <1>1
  <2>3. QED
    BY <1>2, <2>1, <2>2
<1>5. \A p, q \in 1 .. n : H[p] = H[q] => p = q
  BY <1>1, <1>2, <1>0
<1>6. \A p, q \in 1 .. n : <<H[p], H[q]>> \in Below => p < q
  BY <1>1, <1>2, <1>0
<1>7. Arranges(H, n, C, Below)
  BY <1>3, <1>4, <1>5, <1>6 DEF Arranges
<1>8. QED
  BY <1>7 DEF H
===========================================================================
