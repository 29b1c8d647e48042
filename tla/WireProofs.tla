----------------------------- MODULE WireProofs -----------------------------
(***************************************************************************)
(* Proofs about Wire, through WireCalls: each function of the wire format  *)
(* does what its callers count on for every argument, not only for the     *)
(* short ones.                                                             *)
(*                                                                         *)
(* The loops of hsed_json_escape and capture_writev are functions of the   *)
(* number of rounds: they are shown to have a value after every round, and *)
(* what holds after every round is shown by induction.  base64 has no      *)
(* loop; its groups are taken apart and put together by arithmetic, and a  *)
(* pad stands for bits that are zero in any case.                          *)
(***************************************************************************)
EXTENDS WireCalls, DataLemmas, SequenceTheorems

----------------------------------------------------------------------------
(* hsed_json_escape *)

\* A character; how far the loop has come and what it has kept.
Char == {"plain", "special", "control"}
Acc == [o : Nat, kept : Seq(Char)]

\* One turn of the loop: it stays inside dst, and keeps a character that is no control
\* character when there is room for two.
LEMMA EscapeStepIs ==
  ASSUME NEW n \in Nat \ {0}, NEW acc \in Acc, NEW c \in Char
  PROVE  /\ EscapeStep(n, acc, c) \in Acc
         /\ acc.o < n => EscapeStep(n, acc, c).o < n
         /\ c # "control" /\ acc.o + 2 < n =>
              /\ EscapeStep(n, acc, c).o <= acc.o + 2
              /\ EscapeStep(n, acc, c).kept = Append(acc.kept, c)
<1>1. acc.o \in Nat /\ acc.kept \in Seq(Char) /\ Append(acc.kept, c) \in Seq(Char)
  BY DEF Acc
<1>2. /\ EscapeLen(c) \in Nat /\ EscapeLen(c) <= 6 /\ (c # "control" => EscapeLen(c) <= 2)
  BY DEF Char, EscapeLen
<1>3. PICK o, l, k : o = acc.o /\ l = EscapeLen(c) /\ k = Append(acc.kept, c)
  OBVIOUS
<1>4. o + l \in Nat /\ [o |-> o + l, kept |-> k] \in Acc
  BY <1>1, <1>2, <1>3 DEF Acc
<1>5. EscapeStep(n, acc, c) = IF o + 2 < n /\ (c = "control" => o + 6 < n)
                              THEN [o |-> o + l, kept |-> k] ELSE acc
  BY <1>3 DEF EscapeStep
<1> QED BY <1>1, <1>2, <1>3, <1>4, <1>5

\* The loop of hsed_json_escape.
Escapes(f, src, n) ==
  /\ f[0] = [o |-> 0, kept |-> << >>]
  /\ \A p \in 1 .. Len(src) : f[p] = EscapeStep(n, f[p - 1], src[p])

\* The loop has a value after every character, and the last is the result.
LEMMA EscapeLoop ==
  ASSUME NEW src \in Seq(Char), NEW n \in Nat \ {0}
  PROVE  \E f : Escapes(f, src, n) /\ hsed_json_escape(src, n) = f[Len(src)]
<1> DEFINE L == Len(src)
           Eq(f) == f = [p \in 0 .. L |-> IF p = 0 THEN [o |-> 0, kept |-> << >>]
                                           ELSE EscapeStep(n, f[p - 1], src[p])]
           step == [p \in 1 .. L |-> [acc \in Acc |-> EscapeStep(n, acc, src[p])]]
<1>1. L \in Nat /\ \A p \in 1 .. L : src[p] \in Char
  OBVIOUS
<1>2. step \in [1 .. L -> [Acc -> Acc]]
  BY <1>1, EscapeStepIs
<1>3. [o |-> 0, kept |-> << >>] \in Acc
  BY DEF Acc
<1>4. PICK f \in [0 .. L -> Acc] : /\ f[0] = [o |-> 0, kept |-> << >>]
                                   /\ \A p \in 1 .. L : f[p] = step[p][f[p - 1]]
  <2>1. PICK x, st, m : x = [o |-> 0, kept |-> << >>] /\ st = step /\ m = L
    OBVIOUS
  <2>2. IsLoop(st, Acc, m) /\ x \in Acc /\ m \in Nat
    BY <1>1, <1>2, <1>3, <2>1 DEF IsLoop
  <2>3. PICK f : Iterated(f, st, Acc, m, x)
    BY <2>2, Iterates
  <2> QED BY <2>1, <2>3 DEF Iterated
<1>5. ASSUME NEW p \in 0 .. L, p # 0 PROVE f[p] = EscapeStep(n, f[p - 1], src[p])
  <2>1. p \in 1 .. L /\ p - 1 \in 0 .. L
    BY <1>1, <1>5
  <2>2. f[p - 1] \in Acc
    BY <2>1
  <2> QED BY <1>4, <2>1, <2>2
<1>6. Eq(f)
  BY <1>4, <1>5
<1>7. \E g : Eq(g)
  BY <1>6
<1>8. PICK g : Eq(g) /\ hsed_json_escape(src, n) = g[L]
  BY <1>7 DEF hsed_json_escape
<1>9. Escapes(g, src, n)
  <2>1. 0 \in 0 .. L /\ \A p \in 1 .. L : p \in 0 .. L /\ p # 0
    BY <1>1
  <2> QED BY <1>8, <2>1 DEF Escapes
<1> QED BY <1>8, <1>9

\* Nothing is written past the end, and a text without control characters is kept.
LEMMA EscapeFits ==
  ASSUME NEW src \in Seq(Char), NEW n \in Nat \ {0}
  PROVE  /\ hsed_json_escape(src, n).o < n
         /\ (\A i \in DOMAIN src : src[i] # "control") /\ n >= 2 * (Len(src) + 1)
              => hsed_json_escape(src, n).kept = src
<1>1. PICK f : Escapes(f, src, n) /\ hsed_json_escape(src, n) = f[Len(src)]
  BY EscapeLoop
<1>2. PICK L \in Nat : L = Len(src)
  OBVIOUS
<1>3. ASSUME NEW p \in 1 .. L PROVE src[p] \in Char /\ f[p] = EscapeStep(n, f[p - 1], src[p])
  BY <1>1, <1>2 DEF Escapes
<1>4. f[0] \in Acc /\ f[0].o = 0 /\ f[0].kept = << >>
  BY <1>1 DEF Escapes, Acc
<1>5. f[L] \in Acc /\ f[L].o < n
  <2> DEFINE G == {p \in Nat : p <= L => f[p] \in Acc /\ f[p].o < n}
  <2>1. 0 \in G
    BY <1>4
  <2>2. ASSUME NEW p \in Nat, p \in G PROVE p + 1 \in G
    <3> SUFFICES ASSUME p + 1 <= L PROVE f[p + 1] \in Acc /\ f[p + 1].o < n
      OBVIOUS
    <3>1. p + 1 \in 1 .. L /\ (p + 1) - 1 = p
      OBVIOUS
    <3>2. f[p] \in Acc /\ f[p].o < n
      BY <2>2
    <3>3. src[p + 1] \in Char /\ f[p + 1] = EscapeStep(n, f[p], src[p + 1])
      BY <1>3, <3>1
    <3> QED BY <3>2, <3>3, EscapeStepIs
  <2> HIDE DEF G
  <2>3. L \in G
    BY <2>1, <2>2, Induct
  <2> QED BY <2>3 DEF G
<1>6. ASSUME \A i \in DOMAIN src : src[i] # "control", n >= 2 * (L + 1)
      PROVE  f[L].kept = src
  <2> DEFINE Kept(p) == /\ f[p] \in Acc /\ f[p].o <= 2 * p /\ Len(f[p].kept) = p
                        /\ \A i \in 1 .. p : f[p].kept[i] = src[i]
             G == {p \in Nat : p <= L => Kept(p)}
  <2>1. 0 \in G
    BY <1>4
  <2>2. ASSUME NEW p \in Nat, p \in G PROVE p + 1 \in G
    <3> SUFFICES ASSUME p + 1 <= L PROVE Kept(p + 1)
      OBVIOUS
    <3>1. p + 1 \in 1 .. L /\ (p + 1) - 1 = p /\ p + 1 \in DOMAIN src
      BY <1>2
    <3>2. Kept(p)
      BY <2>2
    <3>3. PICK k \in Seq(Char), o \in Nat : k = f[p].kept /\ o = f[p].o
      BY <3>2 DEF Acc
    <3>4. /\ src[p + 1] \in Char /\ f[p + 1] = EscapeStep(n, f[p], src[p + 1])
          /\ src[p + 1] # "control"
      BY <1>3, <1>6, <3>1
    <3>5. o <= 2 * p /\ o + 2 < n
      <4>1. p + 1 <= L /\ n >= 2 * (L + 1) /\ o <= 2 * p
        BY <3>2, <3>3, <1>6
      <4> QED BY <4>1
    <3>6. PICK q : q = f[p + 1]
      OBVIOUS
    <3>7. q \in Acc /\ q.o <= o + 2 /\ q.kept = Append(k, src[p + 1])
      <4>1. PICK acc \in Acc, c \in Char : acc = f[p] /\ c = src[p + 1]
        BY <3>2, <3>4
      <4>2. c # "control" /\ acc.o + 2 < n /\ q = EscapeStep(n, acc, c)
        BY <3>3, <3>4, <3>5, <3>6, <4>1
      <4>3. q \in Acc /\ q.o <= acc.o + 2 /\ q.kept = Append(acc.kept, c)
        BY <4>2, EscapeStepIs
      <4> QED BY <3>3, <4>1, <4>3
    <3>8. q.o <= 2 * (p + 1)
      BY <3>5, <3>7 DEF Acc
    <3>9. /\ Len(q.kept) = p + 1 /\ q.kept[p + 1] = src[p + 1]
          /\ \A i \in 1 .. p : q.kept[i] = k[i]
      <4>1. Len(k) = p
        BY <3>2, <3>3
      <4> QED BY <4>1, <3>4, <3>7, AppendProperties
    <3>10. ASSUME NEW i \in 1 .. p + 1 PROVE q.kept[i] = src[i]
      <4>1. i = p + 1 \/ i \in 1 .. p
        OBVIOUS
      <4> QED BY <4>1, <3>2, <3>3, <3>9
    <3> QED BY <3>6, <3>7, <3>8, <3>9, <3>10
  <2> HIDE DEF G
  <2>3. L \in G
    BY <2>1, <2>2, Induct
  <2>4. Kept(L)
    BY <2>3 DEF G
  <2>5. f[L].kept \in Seq(Char)
    BY <2>4 DEF Acc
  <2> QED BY <1>2, <2>4, <2>5, SeqEqual
<1> QED BY <1>1, <1>2, <1>5, <1>6

----------------------------------------------------------------------------
(* capture_writev *)

\* The smaller of two numbers.
LEMMA MinOf ==
  ASSUME NEW a \in Int, NEW b \in Int
  PROVE  Min({a, b}) = IF a <= b THEN a ELSE b
BY DEF Min

\* An iovec, what it points to and how much of that can be read.
Segment(B) == [data : Seq(B), mapped : Nat]

\* The first k bytes of d are added, as many as there are, can be read and have room.
Takes(max, acc, seg, k) ==
  /\ CaptureStep(max, acc, seg) = acc \o SubSeq(seg.data, 1, k)
  /\ k <= Len(seg.data) /\ Len(acc) + k <= max
  /\ seg.mapped = Len(seg.data) => k = Len(seg.data) \/ Len(acc) + k = max

LEMMA CaptureStepIs ==
  ASSUME NEW B, NEW max \in Nat, NEW acc \in Seq(B), Len(acc) <= max, NEW seg \in Segment(B),
         seg.mapped <= Len(seg.data)
  PROVE  \E k \in Nat : Takes(max, acc, seg, k)
<1>1. PICK d, m, l, n : d = seg.data /\ m = seg.mapped /\ l = Len(seg.data) /\ n = Len(acc)
  OBVIOUS
<1>2. d \in Seq(B) /\ m \in Nat /\ l \in Nat /\ n \in Nat /\ m <= l /\ n <= max
  BY <1>1 DEF Segment
<1>3. PICK want : want = Min({l, max - n})
  OBVIOUS
<1>4. want \in Nat /\ want <= l /\ n + want <= max /\ (want = l \/ n + want = max)
  BY <1>2, <1>3, MinOf
<1>5. PICK k : k = Min({want, m})
  OBVIOUS
<1>6. k \in Nat /\ k <= want /\ k <= m /\ (k = want \/ k = m)
  BY <1>2, <1>4, <1>5, MinOf
<1>7. CaptureStep(max, acc, seg) = acc \o SubSeq(d, 1, k)
  BY <1>1, <1>3, <1>5 DEF CaptureStep
<1>8. k <= l /\ n + k <= max /\ (m = l => k = l \/ n + k = max)
  BY <1>2, <1>4, <1>6
<1>9. Takes(max, acc, seg, k)
  BY <1>1, <1>7, <1>8 DEF Takes
<1> QED BY <1>6, <1>9

\* The beginning of a sequence.
LEMMA PrefixIs ==
  ASSUME NEW B, NEW d \in Seq(B), NEW k \in Nat, k <= Len(d)
  PROVE  /\ SubSeq(d, 1, k) \in Seq(B) /\ Len(SubSeq(d, 1, k)) = k
         /\ \A i \in 1 .. k : SubSeq(d, 1, k)[i] = d[i]
<1>1. \A i \in 1 .. k : d[i] \in B
  <2>1. \A i \in 1 .. k : i \in 1 .. Len(d)
    OBVIOUS
  <2> QED BY <2>1
<1>2. PICK one \in Int, e \in Int : one = 1 /\ e = k
  OBVIOUS
<1>3. \A i \in one .. e : d[i] \in B
  BY <1>1, <1>2
<1>4. /\ SubSeq(d, one, e) \in Seq(B)
      /\ Len(SubSeq(d, one, e)) = IF one <= e THEN e - one + 1 ELSE 0
      /\ \A i \in 1 .. e - one + 1 : SubSeq(d, one, e)[i] = d[one + i - 1]
  BY <1>3, SubSeqProperties
<1>5. PICK u : u = SubSeq(d, 1, k)
  OBVIOUS
<1>6. u \in Seq(B) /\ Len(u) = k /\ \A i \in 1 .. k - 1 + 1 : u[i] = d[1 + i - 1]
  BY <1>2, <1>4, <1>5
<1>7. k - 1 + 1 = k /\ \A i \in 1 .. k : 1 + i - 1 = i
  OBVIOUS
<1> QED BY <1>5, <1>6, <1>7

\* To one sequence the beginning of another is added.
LEMMA JoinPrefix ==
  ASSUME NEW B, NEW s \in Seq(B), NEW d \in Seq(B), NEW k \in Nat, k <= Len(d)
  PROVE  LET t == s \o SubSeq(d, 1, k)
         IN  /\ t \in Seq(B) /\ Len(t) = Len(s) + k
             /\ \A i \in 1 .. Len(s) : t[i] = s[i]
             /\ \A i \in 1 .. k : t[Len(s) + i] = d[i]
<1>1. PICK u : u = SubSeq(d, 1, k)
  OBVIOUS
<1>2. u \in Seq(B) /\ Len(u) = k /\ \A i \in 1 .. k : u[i] = d[i]
  BY <1>1, PrefixIs
<1>3. PICK t : t = s \o u
  OBVIOUS
<1>4. t \in Seq(B) /\ Len(t) = Len(s) + k
  BY <1>2, <1>3, ConcatProperties
<1>5. ASSUME NEW i \in 1 .. Len(s) PROVE t[i] = s[i]
  BY <1>2, <1>3, ConcatProperties
<1>6. ASSUME NEW i \in 1 .. k PROVE t[Len(s) + i] = d[i]
  <2>1. Len(s) + i \in 1 .. Len(s) + Len(u) /\ ~(Len(s) + i <= Len(s)) /\ Len(s) + i - Len(s) = i
    BY <1>2
  <2>2. t[Len(s) + i] = u[i]
    BY <1>2, <1>3, <2>1, ConcatProperties
  <2> QED BY <1>2, <2>2
<1> QED BY <1>1, <1>3, <1>4, <1>5, <1>6

\* The loop of capture_writev over its segments.
Captures(f, iovs, max) ==
  /\ f[0] = << >>
  /\ \A i \in 1 .. Len(iovs) : f[i] = CaptureStep(max, f[i - 1], iovs[i])

\* No more of a segment can be read than there is.
Readable(iovs) == \A i \in 1 .. Len(iovs) : iovs[i].mapped <= Len(iovs[i].data)

\* The loop has a value after every iovec, and the last is the result.
LEMMA CaptureLoop ==
  ASSUME NEW B, NEW v, NEW max \in Nat, NEW iovs \in Seq(Segment(B)), iovs = FirstIovecs(v),
         Readable(iovs)
  PROVE  \E f : Captures(f, iovs, max) /\ capture_writev(v, max) = f[Len(iovs)]
<1> DEFINE L == Len(iovs)
           X == {s \in Seq(B) : Len(s) <= max}
           Eq(f) == f = [i \in 0 .. L |-> IF i = 0 THEN << >>
                                           ELSE CaptureStep(max, f[i - 1], iovs[i])]
           step == [i \in 1 .. L |-> [acc \in X |-> CaptureStep(max, acc, iovs[i])]]
<1>1. L \in Nat /\ \A i \in 1 .. L : iovs[i] \in Segment(B)
  OBVIOUS
<1>2. ASSUME NEW i \in 1 .. L, NEW acc \in X PROVE CaptureStep(max, acc, iovs[i]) \in X
  <2>1. PICK seg \in Segment(B) : seg = iovs[i] /\ seg.mapped <= Len(seg.data)
    BY <1>1 DEF Readable
  <2>2. PICK k \in Nat : /\ CaptureStep(max, acc, seg) = acc \o SubSeq(seg.data, 1, k)
                         /\ k <= Len(seg.data) /\ Len(acc) + k <= max
    <3>1. PICK k \in Nat : Takes(max, acc, seg, k)
      BY <2>1, CaptureStepIs
    <3> QED BY <3>1 DEF Takes
  <2>3. seg.data \in Seq(B)
    BY DEF Segment
  <2>4. PICK d \in Seq(B) : d = seg.data
    BY <2>3
  <2>5. acc \o SubSeq(d, 1, k) \in Seq(B) /\ Len(acc \o SubSeq(d, 1, k)) = Len(acc) + k
    BY <2>2, <2>4, JoinPrefix
  <2> QED BY <2>1, <2>2, <2>4, <2>5
<1>3. step \in [1 .. L -> [X -> X]]
  <2> HIDE DEF X
  <2> QED BY <1>2
<1>4. << >> \in X
  OBVIOUS
<1>5. PICK f \in [0 .. L -> X] : f[0] = << >> /\ \A i \in 1 .. L : f[i] = step[i][f[i - 1]]
  <2> HIDE DEF X
  <2>1. PICK x, st, m : x = << >> /\ st = step /\ m = L
    OBVIOUS
  <2>2. IsLoop(st, X, m) /\ x \in X /\ m \in Nat
    BY <1>1, <1>3, <1>4, <2>1 DEF IsLoop
  <2>3. PICK f : Iterated(f, st, X, m, x)
    BY <2>2, Iterates
  <2> QED BY <2>1, <2>3 DEF Iterated
<1> HIDE DEF X
<1>6. ASSUME NEW i \in 0 .. L, i # 0 PROVE f[i] = CaptureStep(max, f[i - 1], iovs[i])
  <2>1. i \in 1 .. L /\ i - 1 \in 0 .. L
    BY <1>1, <1>6
  <2>2. f[i - 1] \in X
    BY <2>1
  <2> QED BY <1>5, <2>1, <2>2
<1>7. Eq(f)
  BY <1>5, <1>6
<1>8. \E g : Eq(g)
  BY <1>7
<1>9. PICK g : Eq(g) /\ capture_writev(v, max) = g[L]
  BY <1>8 DEF capture_writev
<1>10. Captures(g, iovs, max)
  <2>1. 0 \in 0 .. L /\ \A i \in 1 .. L : i \in 0 .. L /\ i # 0
    BY <1>1
  <2> QED BY <1>9, <2>1 DEF Captures
<1> QED BY <1>9, <1>10

\* FlattenSeq is a loop that adds one sequence after the other.
Flattens(g, seqs) == g[0] = << >> /\ \A i \in 1 .. Len(seqs) : g[i] = g[i - 1] \o seqs[i]

\* It has a value after every sequence, and the last is the result.
LEMMA FlattenLoop ==
  ASSUME NEW B, NEW seqs \in Seq(Seq(B))
  PROVE  \E g : Flattens(g, seqs) /\ FlattenSeq(seqs) = g[Len(seqs)]
<1> DEFINE L == Len(seqs)
           step == [i \in 1 .. L |-> [acc \in Seq(B) |-> acc \o seqs[i]]]
           Eq(f) == f = [i \in 1 .. L |-> IF i = 1 THEN seqs[i] ELSE f[i - 1] \o seqs[i]]
<1>1. L \in Nat /\ \A i \in 1 .. L : seqs[i] \in Seq(B)
  OBVIOUS
<1>2. CASE L = 0
  <2> DEFINE g == [i \in {0} |-> << >>]
  <2>1. Flattens(g, seqs)
    BY <1>2 DEF Flattens
  <2>2. FlattenSeq(seqs) = << >> /\ g[L] = << >>
    BY <1>2 DEF FlattenSeq
  <2> QED BY <2>1, <2>2
<1>3. CASE L # 0
  <2>1. \A i \in 1 .. L : \A acc \in Seq(B) : acc \o seqs[i] \in Seq(B)
    BY <1>1, ConcatProperties
  <2>2. PICK f \in [0 .. L -> Seq(B)] :
          f[0] = << >> /\ \A i \in 1 .. L : f[i] = step[i][f[i - 1]]
    <3>1. PICK x, st, m, X : x = << >> /\ st = step /\ m = L /\ X = Seq(B)
      OBVIOUS
    <3>2. IsLoop(st, X, m) /\ x \in X /\ m \in Nat
      BY <1>1, <2>1, <3>1 DEF IsLoop
    <3>3. PICK f : Iterated(f, st, X, m, x)
      BY <3>2, Iterates
    <3> QED BY <3>1, <3>3 DEF Iterated
  <2>3. ASSUME NEW i \in 1 .. L PROVE i - 1 \in 0 .. L /\ f[i] = f[i - 1] \o seqs[i]
    <3>1. i - 1 \in 0 .. L
      BY <1>1
    <3>2. f[i - 1] \in Seq(B) /\ f[i] = step[i][f[i - 1]]
      BY <2>2, <3>1
    <3>3. step[i] = [acc \in Seq(B) |-> acc \o seqs[i]]
      OBVIOUS
    <3> HIDE DEF step
    <3> QED BY <3>1, <3>2, <3>3
  <2>4. f[1] = seqs[1]
    <3>1. 1 \in 1 .. L /\ 1 - 1 = 0
      BY <1>1, <1>3
    <3>2. f[1] = << >> \o seqs[1]
      BY <2>2, <2>3, <3>1
    <3> QED BY <1>1, <3>1, <3>2, ConcatEmptySeq
  <2> DEFINE h == [i \in 1 .. L |-> f[i]]
  <2>5. Eq(h)
    <3>1. ASSUME NEW i \in 1 .. L PROVE h[i] = IF i = 1 THEN seqs[i] ELSE h[i - 1] \o seqs[i]
      <4>1. CASE i = 1
        BY <2>4, <4>1
      <4>2. CASE i # 1
        <5>1. i - 1 \in 1 .. L
          BY <1>1, <4>2
        <5> QED BY <2>3, <4>2, <5>1
      <4> QED BY <4>1, <4>2
    <3> QED BY <3>1
  <2>6. \E e : Eq(e)
    <3> HIDE DEF h
    <3> QED BY <2>5
  <2>7. PICK e : Eq(e) /\ FlattenSeq(seqs) = e[L]
    BY <1>3, <2>6 DEF FlattenSeq
  <2> DEFINE g == [i \in 0 .. L |-> IF i = 0 THEN << >> ELSE e[i]]
  <2>8. ASSUME NEW i \in 1 .. L PROVE g[i] = g[i - 1] \o seqs[i]
    <3>1. i \in 0 .. L /\ i - 1 \in 0 .. L /\ i # 0
      BY <1>1
    <3>2. CASE i = 1
      <4>1. g[i] = seqs[1] /\ g[i - 1] = << >> /\ << >> \o seqs[1] = seqs[1]
        BY <1>1, <2>7, <3>1, <3>2, ConcatEmptySeq
      <4> QED BY <3>2, <4>1
    <3>3. CASE i # 1
      <4>1. i - 1 # 0
        BY <3>1, <3>3
      <4> QED BY <2>7, <3>1, <3>3, <4>1
    <3> QED BY <3>2, <3>3
  <2>9. g[0] = << >> /\ g[L] = e[L]
    BY <1>1, <1>3
  <2> HIDE DEF g
  <2> QED BY <2>7, <2>8, <2>9 DEF Flattens
<1> QED BY <1>2, <1>3

\* A capture is never longer than its buffer; of segments that can be read it is the beginning
\* of all of them, one after the other.
Begins(t, all, max) ==
  /\ Len(t) = IF max <= Len(all) THEN max ELSE Len(all)
  /\ \A i \in 1 .. Len(t) : t[i] = all[i]

\* A segment more: either it is captured whole, or the buffer is full.
LEMMA BeginsNext ==
  ASSUME NEW B, NEW max \in Nat, NEW s \in Seq(B), NEW all \in Seq(B), Begins(s, all, max),
         NEW d \in Seq(B), NEW k \in Nat, k <= Len(d), Len(s) + k <= max,
         k = Len(d) \/ Len(s) + k = max
  PROVE  Begins(s \o SubSeq(d, 1, k), all \o d, max)
<1>1. PICK t, u : t = s \o SubSeq(d, 1, k) /\ u = all \o d
  OBVIOUS
<1>2. /\ t \in Seq(B) /\ Len(t) = Len(s) + k
      /\ \A i \in 1 .. Len(s) : t[i] = s[i]
      /\ \A i \in 1 .. k : t[Len(s) + i] = d[i]
  BY <1>1, JoinPrefix
<1>3. /\ u \in Seq(B) /\ Len(u) = Len(all) + Len(d)
      /\ \A i \in 1 .. Len(all) + Len(d) : u[i] = IF i <= Len(all) THEN all[i]
                                                  ELSE d[i - Len(all)]
  BY <1>1, ConcatProperties
<1>4. PICK n, a, l : n = Len(s) /\ a = Len(all) /\ l = Len(d)
  OBVIOUS
<1>5. /\ n \in Nat /\ a \in Nat /\ l \in Nat /\ n = (IF max <= a THEN max ELSE a)
      /\ k <= l /\ n + k <= max /\ (k = l \/ n + k = max)
  BY <1>4 DEF Begins
<1>6. Len(t) = IF max <= Len(u) THEN max ELSE Len(u)
  <2>1. n + k = IF max <= a + l THEN max ELSE a + l
    BY <1>5
  <2> QED BY <1>2, <1>3, <1>4, <2>1
<1>7. ASSUME NEW i \in 1 .. Len(t) PROVE t[i] = u[i]
  <2>1. i \in 1 .. n + k
    BY <1>2, <1>4
  <2>2. CASE i <= n
    <3>1. i \in 1 .. n /\ i <= a /\ i \in 1 .. a + l
      BY <1>5, <2>1, <2>2
    <3>2. t[i] = s[i] /\ s[i] = all[i]
      BY <1>2, <1>4, <3>1 DEF Begins
    <3>3. u[i] = all[i]
      BY <1>3, <1>4, <3>1
    <3> QED BY <3>2, <3>3
  <2>3. CASE ~(i <= n)
    <3>1. i - n \in 1 .. k /\ n + (i - n) = i /\ n = a /\ ~(i <= a) /\ i \in 1 .. a + l
      BY <1>5, <2>1, <2>3
    <3>2. t[i] = d[i - n]
      BY <1>2, <1>4, <3>1
    <3>3. u[i] = d[i - a]
      BY <1>3, <1>4, <3>1
    <3> QED BY <3>1, <3>2, <3>3
  <2> QED BY <2>2, <2>3
<1> QED BY <1>1, <1>6, <1>7 DEF Begins

\* The loop of capture_writev beside that of FlattenSeq.
LEMMA CaptureFits ==
  ASSUME NEW B, NEW v, NEW max \in Nat, NEW iovs \in Seq(Segment(B)), iovs = FirstIovecs(v),
         Readable(iovs), NEW seqs \in Seq(Seq(B)), Len(seqs) = Len(iovs),
         \A i \in 1 .. Len(iovs) : seqs[i] = iovs[i].data
  PROVE  /\ capture_writev(v, max) \in Seq(B) /\ Len(capture_writev(v, max)) <= max
         /\ FlattenSeq(seqs) \in Seq(B)
         /\ (\A i \in 1 .. Len(iovs) : iovs[i].mapped = Len(iovs[i].data))
              => Begins(capture_writev(v, max), FlattenSeq(seqs), max)
<1>1. PICK f : Captures(f, iovs, max) /\ capture_writev(v, max) = f[Len(iovs)]
  BY CaptureLoop
<1>2. PICK g : Flattens(g, seqs) /\ FlattenSeq(seqs) = g[Len(seqs)]
  BY FlattenLoop
<1>3. PICK L \in Nat : L = Len(iovs)
  OBVIOUS
<1> DEFINE All == \A i \in 1 .. Len(iovs) : iovs[i].mapped = Len(iovs[i].data)
           OK(i) == /\ f[i] \in Seq(B) /\ Len(f[i]) <= max /\ g[i] \in Seq(B)
                    /\ All => Begins(f[i], g[i], max)
           G == {i \in Nat : i <= L => OK(i)}
<1>4. 0 \in G
  <2>1. f[0] = << >> /\ g[0] = << >>
    BY <1>1, <1>2 DEF Captures, Flattens
  <2>2. << >> \in Seq(B) /\ Len(<< >>) = 0
    OBVIOUS
  <2>3. Begins(<< >>, << >>, max)
    BY <2>2 DEF Begins
  <2>4. OK(0)
    BY <2>1, <2>2, <2>3
  <2> QED BY <2>4
<1>5. ASSUME NEW i \in Nat, i \in G PROVE i + 1 \in G
  <2> SUFFICES ASSUME i + 1 <= L PROVE OK(i + 1)
    OBVIOUS
  <2>1. i + 1 \in 1 .. L /\ (i + 1) - 1 = i
    OBVIOUS
  <2>2. PICK s \in Seq(B), all \in Seq(B) : s = f[i] /\ all = g[i] /\ Len(s) <= max
                                            /\ (All => Begins(s, all, max))
    <3>1. i <= L
      OBVIOUS
    <3>2. OK(i)
      BY <1>5, <3>1
    <3> HIDE DEF All
    <3> QED BY <3>2
  <2>3. PICK seg \in Segment(B) : seg = iovs[i + 1] /\ seg.mapped <= Len(seg.data)
    <3>1. iovs[i + 1] \in Segment(B)
      BY <1>3, <2>1
    <3>2. iovs[i + 1].mapped <= Len(iovs[i + 1].data)
      BY <1>3, <2>1 DEF Readable
    <3> QED BY <3>1, <3>2
  <2>4. PICK d \in Seq(B) : d = seg.data
    BY DEF Segment
  <2>5. f[i + 1] = CaptureStep(max, s, seg) /\ g[i + 1] = all \o d
    <3>1. f[i + 1] = CaptureStep(max, f[i], iovs[i + 1])
      BY <1>1, <1>3, <2>1 DEF Captures
    <3>2. g[i + 1] = g[i] \o seqs[i + 1] /\ seqs[i + 1] = d
      BY <1>2, <1>3, <2>1, <2>3, <2>4 DEF Flattens
    <3> QED BY <2>2, <2>3, <3>1, <3>2
  <2>6. PICK k \in Nat : /\ CaptureStep(max, s, seg) = s \o SubSeq(d, 1, k)
                         /\ k <= Len(d) /\ Len(s) + k <= max
                         /\ seg.mapped = Len(d) => k = Len(d) \/ Len(s) + k = max
    <3>1. Len(s) <= max /\ seg.mapped <= Len(seg.data)
      BY <2>2, <2>3
    <3>2. PICK k \in Nat : Takes(max, s, seg, k)
      BY <3>1, CaptureStepIs
    <3> QED BY <2>4, <3>2 DEF Takes
  <2>7. PICK t, u : t = s \o SubSeq(d, 1, k) /\ u = all \o d
    OBVIOUS
  <2>8. t \in Seq(B) /\ Len(t) = Len(s) + k
    BY <2>6, <2>7, JoinPrefix
  <2>9. u \in Seq(B)
    BY <2>7, ConcatProperties
  <2>10. ASSUME All PROVE Begins(t, u, max)
    <3>1. seg.mapped = Len(d)
      BY <1>3, <2>1, <2>3, <2>4, <2>10
    <3>2. Begins(s, all, max)
      BY <2>2, <2>10
    <3> QED BY <2>6, <2>7, <3>1, <3>2, BeginsNext
  <2>11. f[i + 1] = t /\ g[i + 1] = u /\ Len(t) <= max
    BY <2>5, <2>6, <2>7, <2>8
  <2> HIDE DEF All
  <2> QED BY <2>8, <2>9, <2>10, <2>11
<1> HIDE DEF G
<1>6. L \in G
  BY <1>4, <1>5, Induct
<1>7. OK(L)
  BY <1>6 DEF G
<1> QED BY <1>1, <1>2, <1>3, <1>7

----------------------------------------------------------------------------
(* Groups and symbols *)

\* A captured byte.
Byte == 0 .. 255

\* The lowest six bits, and the rest.
LEMMA SixBits ==
  ASSUME NEW v \in Nat
  PROVE  /\ v % 64 \in Nat /\ v % 64 < 64 /\ v \div 64 \in Nat
         /\ v = 64 * (v \div 64) + (v % 64)
BY SMT

\* Four symbols are a group of three bytes.
OfSymbols(v) ==
  v = ((v \div 262144) % 64) * 262144 + ((v \div 4096) % 64) * 4096
        + ((v \div 64) % 64) * 64 + (v % 64)

LEMMA FourSymbols ==
  ASSUME NEW v \in Nat, v < 16777216
  PROVE  OfSymbols(v)
<1>1. PICK d, p : p = v \div 64 /\ d = v % 64
  OBVIOUS
<1>2. PICK c, q : q = p \div 64 /\ c = p % 64
  OBVIOUS
<1>3. PICK b, a : a = q \div 64 /\ b = q % 64
  OBVIOUS
<1>4. p \in Nat /\ d \in Nat /\ d < 64 /\ v = 64 * p + d
  BY <1>1, SixBits, SMT
<1>5. q \in Nat /\ c \in Nat /\ c < 64 /\ p = 64 * q + c
  BY <1>2, <1>4, SixBits, SMT
<1>6. a \in Nat /\ b \in Nat /\ b < 64 /\ q = 64 * a + b
  BY <1>3, <1>5, SixBits, SMT
<1>7. a < 64
  BY <1>4, <1>5, <1>6, SMT
<1>8. v \div 4096 = q
  BY <1>4, <1>5, SMT
<1>9. v \div 262144 = a
  BY <1>4, <1>5, <1>6, SMT
<1>10. a % 64 = a
  BY <1>6, <1>7, SMT
<1> QED BY <1>1, <1>2, <1>3, <1>4, <1>5, <1>6, <1>8, <1>9, <1>10, SMT
   DEF OfSymbols

\* The bytes of a group, and the symbols that have no bits of its first byte, or of its
\* first two.
OfBytes(v, a, b, c) ==
  /\ v \in Nat /\ v < 16777216
  /\ (v \div 65536) % 256 = a /\ (v \div 256) % 256 = b /\ v % 256 = c
  /\ b = 0 /\ c = 0 => (v \div 64) % 64 = 0
  /\ c = 0 => v % 64 = 0

LEMMA ThreeBytes ==
  ASSUME NEW a \in Nat, NEW b \in Nat, NEW c \in Nat, a < 256, b < 256, c < 256,
         NEW v, v = a * 65536 + b * 256 + c
  PROVE  OfBytes(v, a, b, c)
<1>1. v \in Nat /\ v < 16777216
  BY SMT
<1>2. v \div 65536 = a /\ v \div 256 = a * 256 + b /\ v % 256 = c
  BY SMT
<1>3. a % 256 = a /\ (a * 256 + b) % 256 = b
  BY SMT
<1>4. ASSUME b = 0, c = 0 PROVE (v \div 64) % 64 = 0
  <2>1. v \div 64 = a * 1024
    BY <1>4, SMT
  <2>2. (a * 1024) % 64 = 0
    BY SMT
  <2> QED BY <2>1, <2>2, SMT
<1>5. ASSUME c = 0 PROVE v % 64 = 0
  BY <1>5, SMT
<1> QED BY <1>1, <1>2, <1>3, <1>4, <1>5, SMT DEF OfBytes

\* A byte, and the zero behind the last one.
LEMMA ByteIs == ASSUME NEW x \in Byte PROVE x \in Nat /\ x < 256
BY SMT DEF Byte

LEMMA ByteAtIs ==
  ASSUME NEW data \in Seq(Byte), NEW i \in Nat \ {0}
  PROVE  ByteAt(data, i) \in Nat /\ ByteAt(data, i) < 256
<1>1. CASE i <= Len(data)
  <2>1. i \in 1 .. Len(data)
    BY <1>1
  <2>2. data[i] \in Byte
    BY <2>1
  <2>3. data[i] \in Nat /\ data[i] < 256
    BY <2>2, ByteIs
  <2> QED BY <1>1, <2>3, SMT DEF ByteAt
<1>2. CASE ~(i <= Len(data))
  BY <1>2, SMT DEF ByteAt
<1> QED BY <1>1, <1>2

----------------------------------------------------------------------------
\* The groups that n bytes make.
Groups(n) == (n + 2) \div 3

\* They have room for the bytes and at most two to spare.
LEMMA GroupsIs ==
  ASSUME NEW n \in Nat
  PROVE  Groups(n) \in Nat /\ 3 * Groups(n) >= n /\ 3 * Groups(n) <= n + 2
BY SMT DEF Groups

\* Where a symbol is.
LEMMA Place ==
  ASSUME NEW g \in Nat, NEW k \in Nat, k < 4
  PROVE  (4 * g + k + 1 - 1) \div 4 = g /\ (4 * g + k + 1 - 1) % 4 = k
BY SMT

\* Symbol k of group g, and whether it is a pad.
LEMMA SymbolIs ==
  ASSUME NEW data \in Seq(Byte), NEW g \in Nat, g < Groups(Len(data)), NEW k \in Nat, k < 4
  PROVE  /\ 4 * g + k + 1 \in DOMAIN hsed_base64_encode(data)
         /\ hsed_base64_encode(data)[4 * g + k + 1] =
              IF k > Len(data) - 3 * g THEN Pad ELSE (Group(data, g) \div Shift[k + 1]) % 64
<1>1. PICK G \in Nat : G = Groups(Len(data)) /\ Groups(Len(data)) = (Len(data) + 2) \div 3
  BY GroupsIs DEF Groups
<1>2. PICK o : o = 4 * g + k + 1
  OBVIOUS
<1>3. o \in 1 .. 4 * G /\ (o - 1) \div 4 = g /\ (o - 1) % 4 = k
  BY <1>1, <1>2, Place
<1>4. DOMAIN hsed_base64_encode(data) = 1 .. 4 * G
  BY <1>1 DEF hsed_base64_encode
<1>5. hsed_base64_encode(data)[o] =
        IF (o - 1) % 4 > Len(data) - 3 * ((o - 1) \div 4) THEN Pad
        ELSE (Group(data, (o - 1) \div 4) \div Shift[((o - 1) % 4) + 1]) % 64
  BY <1>1, <1>3 DEF hsed_base64_encode
<1> QED BY <1>2, <1>3, <1>4, <1>5

----------------------------------------------------------------------------
(* What is read back of a group *)

\* The symbols and the groups as Decoded reads them.
SymbolOf(enc, i) == IF enc[i] = Pad THEN 0 ELSE enc[i]
BitsOf(enc, g) ==
  SymbolOf(enc, 4 * g + 1) * 262144 + SymbolOf(enc, 4 * g + 2) * 4096
    + SymbolOf(enc, 4 * g + 3) * 64 + SymbolOf(enc, 4 * g + 4)

\* Decoded in those terms.
LEMMA DecodedIs ==
  ASSUME NEW enc
  PROVE  Decoded(enc) =
           [i \in 1 .. 3 * (Len(enc) \div 4) - Cardinality({o \in DOMAIN enc : enc[o] = Pad}) |->
              (BitsOf(enc, (i - 1) \div 3) \div <<65536, 256, 1>>[1 + ((i - 1) % 3)]) % 256]
BY SMT DEF Decoded, BitsOf, SymbolOf

\* A group has its three bytes; those behind the last byte leave symbols of zero.
LEMMA GroupIs ==
  ASSUME NEW data \in Seq(Byte), NEW g \in Nat
  PROVE  /\ Group(data, g) \in Nat /\ Group(data, g) < 16777216
         /\ (Group(data, g) \div 65536) % 256 = ByteAt(data, 3 * g + 1)
         /\ (Group(data, g) \div 256) % 256 = ByteAt(data, 3 * g + 2)
         /\ Group(data, g) % 256 = ByteAt(data, 3 * g + 3)
         /\ Len(data) <= 3 * g + 1 => (Group(data, g) \div 64) % 64 = 0
         /\ Len(data) <= 3 * g + 2 => Group(data, g) % 64 = 0
<1>1. PICK a, b, c : a = ByteAt(data, 3 * g + 1) /\ b = ByteAt(data, 3 * g + 2)
                     /\ c = ByteAt(data, 3 * g + 3)
  OBVIOUS
<1>2. a \in Nat /\ b \in Nat /\ c \in Nat /\ a < 256 /\ b < 256 /\ c < 256
  <2>1. 3 * g + 1 \in Nat \ {0} /\ 3 * g + 2 \in Nat \ {0} /\ 3 * g + 3 \in Nat \ {0}
    OBVIOUS
  <2> QED BY <1>1, <2>1, ByteAtIs, SMT
<1>3. PICK v : v = Group(data, g)
  OBVIOUS
<1>4. v = a * 65536 + b * 256 + c
  BY <1>1, <1>3, SMT DEF Group
<1>5. PICK n \in Nat : n = Len(data)
  OBVIOUS
<1>6. (n <= 3 * g + 1 => b = 0 /\ c = 0) /\ (n <= 3 * g + 2 => c = 0)
  BY <1>1, <1>5 DEF ByteAt
<1>7. OfBytes(v, a, b, c)
  BY <1>2, <1>4, ThreeBytes, SMT
<1> QED BY <1>1, <1>3, <1>5, <1>6, <1>7, SMT DEF OfBytes

\* Its type alone.
LEMMA GroupType == ASSUME NEW data \in Seq(Byte), NEW g \in Nat PROVE Group(data, g) \in Nat
<1>1. 3 * g + 1 \in Nat \ {0} /\ 3 * g + 2 \in Nat \ {0} /\ 3 * g + 3 \in Nat \ {0}
  OBVIOUS
<1>2. /\ ByteAt(data, 3 * g + 1) \in Nat /\ ByteAt(data, 3 * g + 2) \in Nat
      /\ ByteAt(data, 3 * g + 3) \in Nat
  BY <1>1, ByteAtIs, SMT
<1> QED BY <1>2, SMT DEF Group

\* A symbol of data is no pad.
LEMMA SymbolLess ==
  ASSUME NEW v \in Nat, NEW k \in Nat, k < 4
  PROVE  /\ (v \div Shift[k + 1]) % 64 \in Nat /\ (v \div Shift[k + 1]) % 64 < 64
         /\ (v \div Shift[k + 1]) % 64 # Pad
<1>1. PICK s : s = Shift[k + 1]
  OBVIOUS
<1>2. s \in Nat /\ s > 0
  <2>1. k = 0 \/ k = 1 \/ k = 2 \/ k = 3
    OBVIOUS
  <2> QED BY <1>1, <2>1, SMT DEF Shift
<1>3. v \div s \in Nat
  BY <1>2
<1>4. (v \div s) % 64 \in Nat /\ (v \div s) % 64 < 64
  BY <1>3, SixBits
<1> QED BY <1>1, <1>4, SMT DEF Pad

\* A pad stands for bits that are zero.
HasSymbol(enc, v, g, k) == SymbolOf(enc, 4 * g + k + 1) = (v \div Shift[k + 1]) % 64

LEMMA SymbolOfIs ==
  ASSUME NEW data \in Seq(Byte), NEW g \in Nat, g < Groups(Len(data)), NEW k \in Nat, k < 4
  PROVE  HasSymbol(hsed_base64_encode(data), Group(data, g), g, k)
<1> USE DEF HasSymbol
<1>1. PICK v \in Nat : v = Group(data, g)
  BY GroupType
<1>2. PICK x : x = (v \div Shift[k + 1]) % 64
  OBVIOUS
<1>3. x \in Nat /\ x < 64 /\ x # Pad
  BY <1>2, SymbolLess, SMT
<1>4. PICK n \in Nat : n = Len(data)
  OBVIOUS
<1>5. PICK y : y = hsed_base64_encode(data)[4 * g + k + 1]
  OBVIOUS
<1>6. y = IF k > n - 3 * g THEN Pad ELSE x
  BY <1>1, <1>2, <1>4, <1>5, SymbolIs, SMT
<1>7. CASE ~(k > n - 3 * g)
  BY <1>1, <1>2, <1>3, <1>5, <1>6, <1>7, SMT DEF SymbolOf
<1>8. CASE k > n - 3 * g
  <2>1. 3 * g + 1 <= n
    <3>1. PICK G : G = Groups(n)
      OBVIOUS
    <3>2. G \in Nat /\ 3 * G <= n + 2 /\ g < G
      BY <1>4, <3>1, GroupsIs
    <3> QED BY <3>2
  <2>2. (k = 3 /\ n <= 3 * g + 2) \/ (k = 2 /\ n <= 3 * g + 1)
    BY <1>8, <2>1
  <2>3. x = 0
    <3>1. CASE k = 3 /\ n <= 3 * g + 2
      <4>1. Shift[k + 1] = 1
        BY <3>1, SMT DEF Shift
      <4>2. v % 64 = 0
        BY <1>1, <1>4, <3>1, GroupIs, SMT
      <4>3. v \div 1 = v
        BY SMT
      <4> QED BY <1>2, <4>1, <4>2, <4>3, SMT
    <3>2. CASE k = 2 /\ n <= 3 * g + 1
      <4>1. Shift[k + 1] = 64
        BY <3>2, SMT DEF Shift
      <4>2. (v \div 64) % 64 = 0
        BY <1>1, <1>4, <3>2, GroupIs, SMT
      <4> QED BY <1>2, <4>1, <4>2, SMT
    <3> QED BY <2>2, <3>1, <3>2
  <2>4. y = Pad
    BY <1>6, <1>8
  <2> QED BY <1>1, <1>2, <1>5, <2>3, <2>4, SMT DEF SymbolOf
<1> QED BY <1>7, <1>8

\* So the bits of a group are read back, pads or not.
LEMMA BitsOfIs ==
  ASSUME NEW data \in Seq(Byte), NEW g \in Nat, g < Groups(Len(data))
  PROVE  BitsOf(hsed_base64_encode(data), g) = Group(data, g)
<1>1. PICK e, v : e = hsed_base64_encode(data) /\ v = Group(data, g)
  OBVIOUS
<1>2. v \in Nat /\ v < 16777216
  BY <1>1, GroupIs, SMT
<1>3. SymbolOf(e, 4 * g + 1) = (v \div 262144) % 64
  <2>1. HasSymbol(e, v, g, 0)
    BY <1>1, SymbolOfIs, SMT
  <2>2. Shift[0 + 1] = 262144 /\ 4 * g + 0 + 1 = 4 * g + 1
    BY SMT DEF Shift
  <2> QED BY <2>1, <2>2, SMT DEF HasSymbol
<1>4. SymbolOf(e, 4 * g + 2) = (v \div 4096) % 64
  <2>1. HasSymbol(e, v, g, 1)
    BY <1>1, SymbolOfIs, SMT
  <2>2. Shift[1 + 1] = 4096 /\ 4 * g + 1 + 1 = 4 * g + 2
    BY SMT DEF Shift
  <2> QED BY <2>1, <2>2, SMT DEF HasSymbol
<1>5. SymbolOf(e, 4 * g + 3) = (v \div 64) % 64
  <2>1. HasSymbol(e, v, g, 2)
    BY <1>1, SymbolOfIs, SMT
  <2>2. Shift[2 + 1] = 64 /\ 4 * g + 2 + 1 = 4 * g + 3
    BY SMT DEF Shift
  <2> QED BY <2>1, <2>2, SMT DEF HasSymbol
<1>6. SymbolOf(e, 4 * g + 4) = v % 64
  <2>1. HasSymbol(e, v, g, 3)
    BY <1>1, SymbolOfIs, SMT
  <2>2. Shift[3 + 1] = 1 /\ 4 * g + 3 + 1 = 4 * g + 4 /\ v \div 1 = v
    BY <1>2, SMT DEF Shift
  <2> QED BY <2>1, <2>2, SMT DEF HasSymbol
<1>7. BitsOf(e, g) = ((v \div 262144) % 64) * 262144 + ((v \div 4096) % 64) * 4096
                       + ((v \div 64) % 64) * 64 + (v % 64)
  BY <1>3, <1>4, <1>5, <1>6, SMT DEF BitsOf
<1>8. OfSymbols(v)
  BY <1>2, FourSymbols, SMT
<1> QED BY <1>1, <1>7, <1>8, SMT DEF OfSymbols

----------------------------------------------------------------------------
(* Decoding what was encoded *)

\* The pads are what is missing of the last group.
LEMMA PadPlaces ==
  ASSUME NEW data \in Seq(Byte), NEW n \in Nat, n = Len(data), NEW G, G = Groups(n),
         NEW o \in 1 .. 4 * G
  PROVE  hsed_base64_encode(data)[o] = Pad <=> o > n + G
<1>1. G \in Nat /\ 3 * G >= n /\ 3 * G <= n + 2
  BY GroupsIs
<1>2. PICK g, k : g = (o - 1) \div 4 /\ k = (o - 1) % 4
  OBVIOUS
<1>3. g \in Nat /\ k \in Nat /\ k < 4 /\ o = 4 * g + k + 1 /\ g < G
  BY <1>1, <1>2, SMT
<1>4. PICK x, y : x = (Group(data, g) \div Shift[k + 1]) % 64 /\ y = hsed_base64_encode(data)[o]
  OBVIOUS
<1>5. y = IF k > n - 3 * g THEN Pad ELSE x
  BY <1>3, <1>4, SymbolIs, SMT
<1>6. x # Pad
  <2>1. PICK v \in Nat : v = Group(data, g)
    BY <1>3, GroupType
  <2> QED BY <1>3, <1>4, <2>1, SymbolLess, SMT
<1>7. k > n - 3 * g <=> o > n + G
  BY <1>1, <1>3, SMT
<1> QED BY <1>4, <1>5, <1>6, <1>7

\* How many pads there are.
Pads(enc) == Cardinality({o \in DOMAIN enc : enc[o] = Pad})

\* There are as many as the last group lacks bytes.
LEMMA PadCount ==
  ASSUME NEW data \in Seq(Byte)
  PROVE  /\ Len(hsed_base64_encode(data)) = 4 * Groups(Len(data))
         /\ Pads(hsed_base64_encode(data)) = 3 * Groups(Len(data)) - Len(data)
<1>1. PICK n, G, e : /\ n = Len(data) /\ n \in Nat /\ G = Groups(n)
                     /\ e = hsed_base64_encode(data)
  OBVIOUS
<1>2. n \in Nat /\ G \in Nat /\ 3 * G >= n
  BY <1>1, GroupsIs
<1>3. DOMAIN e = 1 .. 4 * G /\ Len(e) = 4 * G
  BY <1>1, <1>2 DEF hsed_base64_encode, Groups
<1>4. {o \in DOMAIN e : e[o] = Pad} = n + G + 1 .. 4 * G
  <2>1. ASSUME NEW o \in 1 .. 4 * G PROVE e[o] = Pad <=> o > n + G
    BY <1>1, PadPlaces
  <2>2. \A o \in n + G + 1 .. 4 * G : o \in 1 .. 4 * G /\ o > n + G
    BY <1>2
  <2>3. \A o \in 1 .. 4 * G : o > n + G => o \in n + G + 1 .. 4 * G
    BY <1>2
  <2> HIDE DEF Pad
  <2> QED BY <1>3, <2>1, <2>2, <2>3, Zenon
<1>5. Cardinality(n + G + 1 .. 4 * G) = 3 * G - n
  <2>1. PICK a \in Int, b \in Int : a = n + G + 1 /\ b = 4 * G
    BY <1>2
  <2>2. Cardinality(a .. b) = IF a > b THEN 0 ELSE b - a + 1
    BY FS_Interval
  <2> QED BY <1>2, <2>1, <2>2
<1> QED BY <1>1, <1>3, <1>4, <1>5 DEF Pads

\* What Decoded makes of one place.
LEMMA DecodedByte ==
  ASSUME NEW data \in Seq(Byte), NEW i \in 1 .. Len(data)
  PROVE  (BitsOf(hsed_base64_encode(data), (i - 1) \div 3)
            \div <<65536, 256, 1>>[1 + ((i - 1) % 3)]) % 256 = data[i]
<1>1. PICK n, G : n = Len(data) /\ n \in Nat /\ G = Groups(n)
  OBVIOUS
<1>2. PICK g, k : g = (i - 1) \div 3 /\ k = (i - 1) % 3
  OBVIOUS
<1>3. /\ g \in Nat /\ k \in Nat /\ k < 3 /\ i = 3 * g + k + 1
  BY <1>1, <1>2, SMT
<1>4. g < G
  <2>1. G \in Nat /\ 3 * G >= n
    BY <1>1, GroupsIs
  <2> QED BY <1>1, <1>3, <2>1, SMT
<1>5. PICK v : v = Group(data, g)
  OBVIOUS
<1>6. BitsOf(hsed_base64_encode(data), g) = v
  BY <1>1, <1>3, <1>4, <1>5, BitsOfIs, SMT
<1>7. /\ v \in Nat /\ (v \div 65536) % 256 = ByteAt(data, 3 * g + 1)
      /\ (v \div 256) % 256 = ByteAt(data, 3 * g + 2) /\ v % 256 = ByteAt(data, 3 * g + 3)
  BY <1>3, <1>5, GroupIs, SMT
<1>8. ByteAt(data, i) = data[i]
  BY DEF ByteAt
<1>9. (v \div <<65536, 256, 1>>[1 + k]) % 256 = ByteAt(data, i)
  <2>0. PICK s : s = <<65536, 256, 1>>[1 + k]
    OBVIOUS
  <2>1. CASE k = 0
    <3>1. s = 65536 /\ i = 3 * g + 1
      BY <1>3, <2>0, <2>1, SMT
    <3> QED BY <1>7, <2>0, <3>1, SMT
  <2>2. CASE k = 1
    <3>1. s = 256 /\ i = 3 * g + 2
      BY <1>3, <2>0, <2>2, SMT
    <3> QED BY <1>7, <2>0, <3>1, SMT
  <2>3. CASE k = 2
    <3>1. s = 1 /\ i = 3 * g + 3
      BY <1>3, <2>0, <2>3, SMT
    <3>2. v \div 1 = v
      BY <1>7, SMT
    <3>3. (v \div s) % 256 = ByteAt(data, i)
      BY <1>7, <3>1, <3>2, SMT
    <3> QED BY <2>0, <3>3
  <2> QED BY <1>3, <2>1, <2>2, <2>3, SMT
<1> QED BY <1>2, <1>6, <1>8, <1>9, SMT

\* StdEncoding.DecodeString is the inverse of hsed_base64_encode.
LEMMA DecodeEncode ==
  ASSUME NEW data \in Seq(Byte)
  PROVE  /\ Decoded(hsed_base64_encode(data)) = data
         /\ Len(hsed_base64_encode(data)) + 1 = hsed_base64_encoded_len(Len(data))
<1>1. PICK n, G, e : /\ n = Len(data) /\ n \in Nat /\ G = Groups(n)
                     /\ e = hsed_base64_encode(data)
  OBVIOUS
<1>2. n \in Nat /\ G \in Nat /\ Len(e) = 4 * G
      /\ Pads(e) = 3 * G - n
  BY <1>1, PadCount, GroupsIs, SMT
<1>3. PICK pads : pads = Pads(e)
  OBVIOUS
<1>4. 3 * (Len(e) \div 4) - pads = n
  <2>1. (4 * G) \div 4 = G
    BY <1>2, SMT
  <2> QED BY <1>2, <1>3, <2>1, SMT
<1> DEFINE B(i) == (BitsOf(e, (i - 1) \div 3) \div <<65536, 256, 1>>[1 + ((i - 1) % 3)]) % 256
<1>5. Decoded(e) = [i \in 1 .. 3 * (Len(e) \div 4) - pads |-> B(i)]
  BY <1>3, DecodedIs, SMT DEF Pads
<1>6. ASSUME NEW i \in 1 .. n PROVE B(i) = data[i]
  BY <1>1, DecodedByte, SMT
<1> HIDE DEF B
<1>7. Decoded(e) = [i \in 1 .. n |-> B(i)]
  BY <1>4, <1>5
<1>8. Decoded(e) = [i \in 1 .. n |-> data[i]]
  BY <1>6, <1>7
<1>9. data = [i \in 1 .. n |-> data[i]]
  BY <1>1
<1>10. Len(e) + 1 = hsed_base64_encoded_len(n)
  <2>1. hsed_base64_encoded_len(n) = G * 4 + 1
    BY <1>1, SMT DEF hsed_base64_encoded_len, Groups
  <2> QED BY <1>2, <2>1, SMT
<1> QED BY <1>1, <1>8, <1>9, <1>10

----------------------------------------------------------------------------
(* The calls *)

\* What the assumptions say of the arguments.
LEMMA Arguments ==
  /\ \A s \in Texts : s \in Seq(Char)
  /\ \A n \in Buffers : n \in Nat \ {0}
  /\ \A d \in Bytes : d \in Seq(Byte)
  /\ \A v \in Iovecs : /\ v \in Seq(Segment(Byte))
                       /\ \A i \in DOMAIN v : v[i].mapped <= Len(v[i].data)
<1>1. \A s \in Texts : s \in Seq(Char)
  BY WireAssumption DEF Char
<1>2. \A n \in Buffers : n \in Nat \ {0}
  BY WireAssumption
<1>3. \A d \in Bytes : d \in Seq(Byte)
  BY WireAssumption DEF Byte
<1>4. \A v \in Iovecs : /\ v \in Seq(Segment(Byte))
                         /\ \A i \in DOMAIN v : v[i].mapped <= Len(v[i].data)
  BY WireAssumption DEF Segment, Byte
<1> QED BY <1>1, <1>2, <1>3, <1>4

\* The iovecs that are looked at.
LEMMA FirstIovecsIs ==
  ASSUME NEW B, NEW v \in Seq(Segment(B))
  PROVE  /\ FirstIovecs(v) \in Seq(Segment(B)) /\ Len(FirstIovecs(v)) <= Len(v)
         /\ \A i \in 1 .. Len(FirstIovecs(v)) : FirstIovecs(v)[i] = v[i]
<1>1. PICK k : k = Min({Len(v), MAX_WRITEV_IOVECS})
  OBVIOUS
<1>2. Len(v) \in Nat /\ MAX_WRITEV_IOVECS \in Nat
  BY DEF MAX_WRITEV_IOVECS
<1>3. k \in Nat /\ k <= Len(v)
  BY <1>1, <1>2, MinOf
<1>4. FirstIovecs(v) = SubSeq(v, 1, k)
  BY <1>1 DEF FirstIovecs
<1>5. PICK X : X = Segment(B)
  OBVIOUS
<1>6. /\ SubSeq(v, 1, k) \in Seq(X) /\ Len(SubSeq(v, 1, k)) = k
      /\ \A i \in 1 .. k : SubSeq(v, 1, k)[i] = v[i]
  BY <1>3, <1>5, PrefixIs
<1> QED BY <1>3, <1>4, <1>5, <1>6

\* capture_writev on any iovecs.
LEMMA CaptureIs ==
  ASSUME NEW B, NEW v \in Seq(Segment(B)), NEW max \in Nat,
         \A i \in DOMAIN v : v[i].mapped <= Len(v[i].data)
  PROVE  LET all == FlattenSeq([i \in DOMAIN FirstIovecs(v) |-> v[i].data])
         IN  /\ Len(capture_writev(v, max)) <= max
             /\ (\A i \in DOMAIN v : v[i].mapped = Len(v[i].data))
                  => capture_writev(v, max) = SubSeq(all, 1, Min({max, Len(all)}))
<1>1. PICK iovs : iovs = FirstIovecs(v)
  OBVIOUS
<1>2. iovs \in Seq(Segment(B)) /\ Len(iovs) <= Len(v) /\ \A i \in 1 .. Len(iovs) : iovs[i] = v[i]
  BY <1>1, FirstIovecsIs
<1>3. PICK seqs : seqs = [i \in DOMAIN iovs |-> v[i].data]
  OBVIOUS
<1>4. Len(iovs) \in Nat /\ DOMAIN iovs = 1 .. Len(iovs) /\ DOMAIN v = 1 .. Len(v)
      /\ \A i \in 1 .. Len(iovs) : i \in DOMAIN v
  BY <1>2
<1>5. \A i \in 1 .. Len(iovs) : iovs[i].data \in Seq(B)
  <2>1. \A i \in 1 .. Len(iovs) : iovs[i] \in Segment(B)
    BY <1>2
  <2> QED BY <2>1 DEF Segment
<1>6. /\ seqs \in Seq(Seq(B)) /\ Len(seqs) = Len(iovs)
      /\ \A i \in 1 .. Len(iovs) : seqs[i] = iovs[i].data
  <2>1. \A i \in 1 .. Len(iovs) : seqs[i] = iovs[i].data
    BY <1>2, <1>3, <1>4
  <2>2. seqs \in [1 .. Len(iovs) -> Seq(B)]
    BY <1>2, <1>3, <1>4, <1>5
  <2> QED BY <1>4, <2>1, <2>2
<1>7. Readable(iovs)
  BY <1>2, <1>4 DEF Readable
<1>8. PICK t, all : t = capture_writev(v, max) /\ all = FlattenSeq(seqs)
  OBVIOUS
<1>9. /\ t \in Seq(B) /\ Len(t) <= max /\ all \in Seq(B)
      /\ (\A i \in 1 .. Len(iovs) : iovs[i].mapped = Len(iovs[i].data)) => Begins(t, all, max)
  BY <1>1, <1>2, <1>6, <1>7, <1>8, CaptureFits
<1>10. ASSUME \A i \in DOMAIN v : v[i].mapped = Len(v[i].data)
       PROVE  t = SubSeq(all, 1, Min({max, Len(all)}))
  <2>1. Begins(t, all, max)
    BY <1>2, <1>4, <1>9, <1>10
  <2>2. PICK k : k = Min({max, Len(all)})
    OBVIOUS
  <2>3. Len(all) \in Nat
    BY <1>9
  <2>4. k \in Nat /\ k <= Len(all) /\ Len(t) = k
    BY <2>1, <2>2, <2>3, MinOf DEF Begins
  <2>5. PICK u : u = SubSeq(all, 1, k)
    OBVIOUS
  <2>6. u \in Seq(B) /\ Len(u) = k /\ \A i \in 1 .. k : u[i] = all[i]
    BY <1>9, <2>4, <2>5, PrefixIs
  <2>7. \A i \in 1 .. Len(t) : t[i] = u[i]
    BY <2>1, <2>4, <2>6 DEF Begins
  <2>8. t = u
    BY <1>9, <2>4, <2>6, <2>7, SeqEqual
  <2> QED BY <2>2, <2>5, <2>8
<1> QED BY <1>1, <1>3, <1>8, <1>9, <1>10

\* An entry with texts of any length that their buffers allow.
LEMMA EntryFits ==
  ASSUME NEW user \in Nat, NEW comm \in Nat, NEW cmdline \in Nat, NEW path \in Nat,
         user <= FieldMax(HSED_NAME_MAX), comm <= 15 * 6,
         cmdline <= FieldMax(HSED_CMDLINE_MAX), path <= FieldMax(HSED_PATH_MAX)
  PROVE  hsed_format_entry(user, comm, cmdline, path) < EntryBuf
BY SMT DEF FieldMax, HSED_NAME_MAX, HSED_CMDLINE_MAX, HSED_PATH_MAX, hsed_format_entry, EntryBuf

----------------------------------------------------------------------------
\* hsed_json_escape never writes past dst, whatever the text and the size of dst, and keeps
\* a text without control characters whole in a buffer twice as long as its field.
THEOREM EscapeIsExact == Spec => []EscapeExact
<1>1. Init => EscapeExact
  BY DEF Init, Idle, EscapeExact
<1>2. EscapeExact /\ [Next]_call => EscapeExact'
  <2> SUFFICES ASSUME EscapeExact, [Next]_call PROVE EscapeExact'
    OBVIOUS
  <2>1. CASE Escape
    <3>1. PICK s \in Texts, n \in Buffers :
            call' = [fn |-> "escape", src |-> s, n |-> n, res |-> hsed_json_escape(s, n)]
      BY <2>1 DEF Escape
    <3>2. PICK r : r = hsed_json_escape(s, n)
      OBVIOUS
    <3>3. /\ r.o < n
          /\ (\A i \in DOMAIN s : s[i] # "control") /\ n >= 2 * (Len(s) + 1) => r.kept = s
      BY <3>2, Arguments, EscapeFits
    <3>4. call'.src = s /\ call'.n = n /\ call'.res = r
      BY <3>1, <3>2
    <3> QED BY <3>3, <3>4 DEF EscapeExact
  <2>2. CASE FormatEntry \/ CaptureWritev \/ Encode
    <3>1. call'.fn # "escape"
      BY <2>2 DEF FormatEntry, CaptureWritev, Encode
    <3> QED BY <3>1 DEF EscapeExact
  <2>3. CASE UNCHANGED call
    BY <2>3 DEF EscapeExact
  <2> QED BY <2>1, <2>2, <2>3 DEF Next
<1> QED BY <1>1, <1>2, PTL DEF Spec

\* An entry line always fits into linebuf, for texts of any length their buffers allow.
THEOREM EntryIsWhole == Spec => []EntryWhole
<1>1. Init => EntryWhole
  BY DEF Init, Idle, EntryWhole
<1>2. EntryWhole /\ [Next]_call => EntryWhole'
  <2> SUFFICES ASSUME EntryWhole, [Next]_call PROVE EntryWhole'
    OBVIOUS
  <2>1. CASE FormatEntry
    <3>1. PICK user, comm, cmdline, path \in Lengths :
            /\ user <= FieldMax(HSED_NAME_MAX) /\ comm <= 15 * 6
            /\ cmdline <= FieldMax(HSED_CMDLINE_MAX) /\ path <= FieldMax(HSED_PATH_MAX)
            /\ call' = [fn |-> "entry", res |-> hsed_format_entry(user, comm, cmdline, path)]
      BY <2>1 DEF FormatEntry
    <3>2. user \in Nat /\ comm \in Nat /\ cmdline \in Nat /\ path \in Nat
      BY WireAssumption
    <3>3. hsed_format_entry(user, comm, cmdline, path) < EntryBuf
      BY <3>1, <3>2, EntryFits
    <3> QED BY <3>1, <3>3 DEF EntryWhole
  <2>2. CASE Escape \/ CaptureWritev \/ Encode
    <3>1. call'.fn # "entry"
      BY <2>2 DEF Escape, CaptureWritev, Encode
    <3> QED BY <3>1 DEF EntryWhole
  <2>3. CASE UNCHANGED call
    BY <2>3 DEF EntryWhole
  <2> QED BY <2>1, <2>2, <2>3 DEF Next
<1> QED BY <1>1, <1>2, PTL DEF Spec

\* The client decodes exactly the bytes that were captured, for data of any length, and the
\* buffer that hsed_base64_encoded_len asks for is exactly filled.
THEOREM Base64RoundTrips == Spec => []Base64RoundTrip
<1>1. Init => Base64RoundTrip
  BY DEF Init, Idle, Base64RoundTrip
<1>2. Base64RoundTrip /\ [Next]_call => Base64RoundTrip'
  <2> SUFFICES ASSUME Base64RoundTrip, [Next]_call PROVE Base64RoundTrip'
    OBVIOUS
  <2>1. CASE Encode
    <3>1. PICK d \in Bytes : call' = [fn |-> "encode", data |-> d, res |-> hsed_base64_encode(d),
                                      size |-> hsed_base64_encoded_len(Len(d))]
      BY <2>1 DEF Encode
    <3>2. PICK e, n : e = hsed_base64_encode(d) /\ n = hsed_base64_encoded_len(Len(d))
      OBVIOUS
    <3>3. Decoded(e) = d /\ Len(e) + 1 = n
      BY <3>2, Arguments, DecodeEncode
    <3>4. call'.data = d /\ call'.res = e /\ call'.size = n
      BY <3>1, <3>2
    <3> QED BY <3>3, <3>4 DEF Base64RoundTrip
  <2>2. CASE Escape \/ FormatEntry \/ CaptureWritev
    <3>1. call'.fn # "encode"
      BY <2>2 DEF Escape, FormatEntry, CaptureWritev
    <3> QED BY <3>1 DEF Base64RoundTrip
  <2>3. CASE UNCHANGED call
    BY <2>3 DEF Base64RoundTrip
  <2> QED BY <2>1, <2>2, <2>3 DEF Next
<1> QED BY <1>1, <1>2, PTL DEF Spec

\* capture_writev never writes past its buffer, however many segments it is given, however
\* long they are and whatever of them can be read; when all of it can, the capture is the
\* beginning of what the first sixteen segments hold.
THEOREM CaptureIsExact == Spec => []CaptureExact
<1>1. Init => CaptureExact
  BY DEF Init, Idle, CaptureExact
<1>2. CaptureExact /\ [Next]_call => CaptureExact'
  <2> SUFFICES ASSUME CaptureExact, [Next]_call PROVE CaptureExact'
    OBVIOUS
  <2>1. CASE CaptureWritev
    <3>1. PICK v \in Iovecs, max \in Buffers : \E ret \in 0 .. Len(Payload(v)) :
            call' = [fn |-> "capture", iov |-> v, max |-> max, ret |-> ret,
                     res |-> IF ret > 0 THEN capture_writev(v, max) ELSE << >>]
      BY <2>1 DEF CaptureWritev
    <3>2. PICK t, all : /\ t = capture_writev(v, max)
                        /\ all = FlattenSeq([i \in DOMAIN FirstIovecs(v) |-> v[i].data])
      OBVIOUS
    <3>5. v \in Seq(Segment(Byte)) /\ max \in Nat
      BY Arguments
    <3>6. all = Payload(FirstIovecs(v))
      <4>1. \A i \in DOMAIN FirstIovecs(v) : FirstIovecs(v)[i] = v[i]
        BY <3>5, FirstIovecsIs
      <4>2. [i \in DOMAIN FirstIovecs(v) |-> v[i].data]
              = [i \in DOMAIN FirstIovecs(v) |-> FirstIovecs(v)[i].data]
        BY <4>1, Zenon
      <4> QED BY <3>2, <4>2 DEF Payload
    <3>3. /\ Len(t) <= max
          /\ (\A i \in DOMAIN v : v[i].mapped = Len(v[i].data))
               => t = SubSeq(all, 1, Min({max, Len(all)}))
      <4>1. v \in Seq(Segment(Byte)) /\ max \in Nat
            /\ \A i \in DOMAIN v : v[i].mapped <= Len(v[i].data)
        BY Arguments
      <4> QED BY <3>2, <4>1, CaptureIs
    <3>4. call'.iov = v /\ call'.max = max /\ (call'.ret > 0 => call'.res = t)
          /\ (call'.res = t \/ call'.res = << >>)
      BY <3>1, <3>2
    <3>7. Len(call'.res) <= max
      <4>1. CASE call'.res = t
        BY <3>3, <4>1
      <4>2. CASE call'.res = << >>
        BY <3>5, <4>2
      <4> QED BY <3>4, <4>1, <4>2
    <3> QED BY <3>3, <3>4, <3>6, <3>7 DEF CaptureExact
  <2>2. CASE Escape \/ FormatEntry \/ Encode
    <3>1. call'.fn # "capture"
      BY <2>2 DEF Escape, FormatEntry, Encode
    <3> QED BY <3>1 DEF CaptureExact
  <2>3. CASE UNCHANGED call
    BY <2>3 DEF CaptureExact
  <2> QED BY <2>1, <2>2, <2>3 DEF Next
<1> QED BY <1>1, <1>2, PTL DEF Spec
=============================================================================
