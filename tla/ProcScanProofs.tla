--------------------------- MODULE ProcScanProofs ---------------------------
(***************************************************************************)
(* Proofs about ProcScan: the types, and that a scan that succeeds has     *)
(* found what it should, once, however its work was cut and its threads    *)
(* ran.                                                                    *)
(*                                                                         *)
(* The argument follows the entries.  Between the processes' entries and   *)
(* the result a worker holds a list or sums, the calling thread what it    *)
(* has merged: each Held of the processes behind it, which says that there *)
(* is a set of entries, all of those that must be seen and none but those  *)
(* that may be, that is there exactly once.  scan_one_pid extends such a   *)
(* set by one process, a round of the merge by one slice, and both need    *)
(* that what is added shares no process with what is there: the slices     *)
(* follow each other in a list of processes without repetition, and        *)
(* together they are the list.  Sums over sets of entries are added up by  *)
(* induction on their cardinality.                                         *)
(***************************************************************************)
EXTENDS ProcScan, DataLemmas, FunctionTheorems, SequenceTheorems

----------------------------------------------------------------------------
(* Total *)

\* An entry, for what Total needs of it.
Sized == [pid : Nat, fd : Nat, size : Nat]
AnyOf(s) == CHOOSE e \in s : TRUE

\* The recursive function behind Total, and that function cut off at sets of n.
IsSum(g, es) ==
  g = [s \in SUBSET es |-> IF s = {} THEN 0 ELSE AnyOf(s).size + g[s \ {AnyOf(s)}]]

\* AnyOf is well defined.
LEMMA AnyIn == ASSUME NEW s, s # {} PROVE AnyOf(s) \in s
BY DEF AnyOf

SumUpTo(g, es, n) ==
  /\ g \in [{s \in SUBSET es : Cardinality(s) <= n} -> Nat]
  /\ \A s \in SUBSET es : Cardinality(s) <= n =>
       g[s] = IF s = {} THEN 0 ELSE AnyOf(s).size + g[s \ {AnyOf(s)}]

\* The function defined for sets of n elements is also defined for n + 1.
LEMMA SumGrows ==
  ASSUME NEW es, es \subseteq Sized, IsFiniteSet(es), NEW n \in Nat, NEW g, SumUpTo(g, es, n)
  PROVE  \E h : SumUpTo(h, es, n + 1)
<1> DEFINE D == {s \in SUBSET es : Cardinality(s) <= n + 1}
           h == [s \in D |-> IF s = {} THEN 0 ELSE AnyOf(s).size + g[s \ {AnyOf(s)}]]
<1>1. ASSUME NEW s \in D, s # {}
      PROVE  /\ Cardinality(s \ {AnyOf(s)}) <= n /\ s \ {AnyOf(s)} \in SUBSET es
             /\ AnyOf(s).size \in Nat
  <2>1. AnyOf(s) \in s /\ s \subseteq es
    BY <1>1, AnyIn
  <2>2. IsFiniteSet(s) /\ Cardinality(s) \in Nat
    BY FS_Subset, FS_CardinalityType, <2>1
  <2>3. Cardinality(s \ {AnyOf(s)}) = Cardinality(s) - 1
    BY <2>1, <2>2, FS_RemoveElement
  <2>4. AnyOf(s).size \in Nat
    BY <2>1 DEF Sized
  <2> QED BY <2>1, <2>2, <2>3, <2>4
<1>2. ASSUME NEW s \in D, s # {} PROVE g[s \ {AnyOf(s)}] \in Nat
  BY <1>1, <1>2 DEF SumUpTo
<1>3. ASSUME NEW s \in D PROVE (IF s = {} THEN 0 ELSE AnyOf(s).size + g[s \ {AnyOf(s)}]) \in Nat
  <2>1. CASE s = {} BY <2>1
  <2>2. CASE s # {}
    <3>1. AnyOf(s).size \in Nat /\ g[s \ {AnyOf(s)}] \in Nat
      BY <1>1, <1>2, <2>2
    <3> QED BY <3>1, <2>2
  <2> QED BY <2>1, <2>2
<1>4. h \in [D -> Nat]
  BY <1>3
<1>5. ASSUME NEW s \in D, Cardinality(s) <= n PROVE h[s] = g[s]
  BY <1>5 DEF SumUpTo
<1>6. ASSUME NEW s \in D
      PROVE  h[s] = IF s = {} THEN 0 ELSE AnyOf(s).size + h[s \ {AnyOf(s)}]
  <2>1. CASE s = {} BY <2>1
  <2>2. CASE s # {}
    <3>1. Cardinality(s \ {AnyOf(s)}) <= n /\ s \ {AnyOf(s)} \in SUBSET es
      BY <1>1, <2>2
    <3>2. Cardinality(s \ {AnyOf(s)}) \in Nat
      BY <3>1, FS_Subset, FS_CardinalityType
    <3>3. s \ {AnyOf(s)} \in D
      BY <3>1, <3>2
    <3>4. h[s \ {AnyOf(s)}] = g[s \ {AnyOf(s)}]
      BY <3>1, <3>3, <1>5
    <3>5. h[s] = AnyOf(s).size + g[s \ {AnyOf(s)}]
      BY <2>2
    <3> QED BY <3>4, <3>5, <2>2
  <2> QED BY <2>1, <2>2
<1> HIDE DEF h
<1>7. SumUpTo(h, es, n + 1)
  BY <1>4, <1>6 DEF SumUpTo
<1> QED BY <1>7

\* So there is one: a finite set has a sum.
LEMMA SumExists ==
  ASSUME NEW es, es \subseteq Sized, IsFiniteSet(es)
  PROVE  \E g \in [SUBSET es -> Nat] : IsSum(g, es)
<1> DEFINE G == {n \in Nat : \E g : SumUpTo(g, es, n)}
<1>1. 0 \in G
  <2> DEFINE D == {s \in SUBSET es : Cardinality(s) <= 0}
             g == [s \in D |-> 0]
  <2>1. ASSUME NEW s \in D PROVE s = {}
    <3>1. IsFiniteSet(s) /\ Cardinality(s) \in Nat
      BY FS_Subset, FS_CardinalityType
    <3> QED BY <3>1, FS_EmptySet
  <2>2. SumUpTo(g, es, 0)
    BY <2>1 DEF SumUpTo
  <2> QED BY <2>2
<1>2. ASSUME NEW n \in Nat, n \in G PROVE n + 1 \in G
  BY <1>2, SumGrows
<1> HIDE DEF G
<1>3. Cardinality(es) \in G
  BY <1>1, <1>2, Induct, FS_CardinalityType
<1>4. PICK g : SumUpTo(g, es, Cardinality(es))
  BY <1>3 DEF G
<1>5. {s \in SUBSET es : Cardinality(s) <= Cardinality(es)} = SUBSET es
  BY FS_Subset
<1>6. g \in [SUBSET es -> Nat]
  BY <1>4, <1>5 DEF SumUpTo
<1>7. \A s \in SUBSET es : g[s] = IF s = {} THEN 0 ELSE AnyOf(s).size + g[s \ {AnyOf(s)}]
  BY <1>4, <1>5 DEF SumUpTo
<1>8. IsSum(g, es)
  BY <1>6, <1>7 DEF IsSum
<1> QED BY <1>6, <1>8

\* A set of n + 1 elements without one of them.
LEMMA OneLess ==
  ASSUME NEW t, IsFiniteSet(t), NEW n \in Nat, Cardinality(t) = n + 1, NEW x \in t
  PROVE  Cardinality(t \ {x}) = n
<1>1. Cardinality(t \ {x}) = Cardinality(t) - 1
  BY FS_RemoveElement
<1> QED BY <1>1

\* The sum of a set does not depend on the larger set it is taken in.
LEMMA SumUnique ==
  ASSUME NEW A, NEW B, NEW g, NEW h, IsSum(g, A), IsSum(h, B),
         NEW s, s \subseteq A, s \subseteq B, IsFiniteSet(s)
  PROVE  g[s] = h[s]
<1> DEFINE G == {n \in Nat : \A t \in SUBSET s : Cardinality(t) = n => g[t] = h[t]}
<1>1. ASSUME NEW t \in SUBSET s
      PROVE  /\ g[t] = IF t = {} THEN 0 ELSE AnyOf(t).size + g[t \ {AnyOf(t)}]
             /\ h[t] = IF t = {} THEN 0 ELSE AnyOf(t).size + h[t \ {AnyOf(t)}]
  <2>1. t \in SUBSET A /\ t \in SUBSET B
    OBVIOUS
  <2> QED BY <2>1 DEF IsSum
<1>2. 0 \in G
  <2>1. ASSUME NEW t \in SUBSET s, Cardinality(t) = 0 PROVE g[t] = h[t]
    <3>1. t = {}
      BY <2>1, FS_EmptySet, FS_Subset
    <3> QED BY <3>1, <1>1
  <2> QED BY <2>1
<1>3. ASSUME NEW n \in Nat, n \in G PROVE n + 1 \in G
  <2>1. ASSUME NEW t \in SUBSET s, Cardinality(t) = n + 1 PROVE g[t] = h[t]
    <3>1. t # {}
      BY <2>1, FS_EmptySet
    <3>2. AnyOf(t) \in t
      BY <3>1, AnyIn
    <3>3. IsFiniteSet(t)
      BY FS_Subset
    <3>4. Cardinality(t \ {AnyOf(t)}) = n
      BY <3>2, <3>3, <2>1, OneLess
    <3>5. g[t \ {AnyOf(t)}] = h[t \ {AnyOf(t)}]
      BY <3>4, <1>3
    <3> QED BY <3>1, <3>5, <1>1
  <2> QED BY <2>1
<1> HIDE DEF G
<1>4. Cardinality(s) \in G
  BY <1>2, <1>3, Induct, FS_CardinalityType
<1> QED BY <1>4 DEF G

\* Total is that function.
LEMMA TotalIsSum ==
  ASSUME NEW es, es \subseteq Sized, IsFiniteSet(es)
  PROVE  \E g : IsSum(g, es) /\ Total(es) = g[es]
<1>1. \E g : g = [s \in SUBSET es |-> IF s = {} THEN 0 ELSE AnyOf(s).size + g[s \ {AnyOf(s)}]]
  <2>1. PICK g \in [SUBSET es -> Nat] : IsSum(g, es)
    BY SumExists
  <2> QED BY <2>1 DEF IsSum
<1>2. PICK g : Total(es) = g[es]
        /\ g = [s \in SUBSET es |-> IF s = {} THEN 0 ELSE AnyOf(s).size + g[s \ {AnyOf(s)}]]
  BY <1>1 DEF Total, AnyOf
<1> QED BY <1>2 DEF IsSum

\* What Total does with an empty set, and with its arbitrary element.
LEMMA TotalStep ==
  ASSUME NEW es, es \subseteq Sized, IsFiniteSet(es)
  PROVE  /\ Total(es) \in Nat
         /\ Total(es) = IF es = {} THEN 0 ELSE AnyOf(es).size + Total(es \ {AnyOf(es)})
<1>1. PICK g : IsSum(g, es) /\ Total(es) = g[es]
  BY TotalIsSum
<1>2. PICK k \in [SUBSET es -> Nat] : IsSum(k, es)
  BY SumExists
<1>3. g[es] = k[es]
  BY <1>1, <1>2, SumUnique
<1>4. g[es] = IF es = {} THEN 0 ELSE AnyOf(es).size + g[es \ {AnyOf(es)}]
  BY <1>1 DEF IsSum
<1>5. g[es \ {AnyOf(es)}] = Total(es \ {AnyOf(es)})
  <2> DEFINE t == es \ {AnyOf(es)}
  <2>1. IsFiniteSet(t) /\ t \subseteq es
    BY FS_Subset
  <2>2. PICK h : IsSum(h, t) /\ Total(t) = h[t]
    BY <2>1, TotalIsSum
  <2> QED BY <2>1, <2>2, <1>1, SumUnique
<1> QED BY <1>1, <1>2, <1>3, <1>4, <1>5

\* Total counts every element once, whichever is taken first.
LEMMA TotalRemove ==
  ASSUME NEW es, es \subseteq Sized, IsFiniteSet(es), NEW e \in es
  PROVE  Total(es) = e.size + Total(es \ {e})
<1> DEFINE G == {n \in Nat : \A t \in SUBSET es : Cardinality(t) = n =>
                               \A x \in t : Total(t) = x.size + Total(t \ {x})}
<1>1. 0 \in G
  <2>1. ASSUME NEW t \in SUBSET es, Cardinality(t) = 0 PROVE t = {}
    BY <2>1, FS_EmptySet, FS_Subset
  <2> QED BY <2>1
<1>2. ASSUME NEW n \in Nat, n \in G PROVE n + 1 \in G
  <2>1. ASSUME NEW t \in SUBSET es, Cardinality(t) = n + 1, NEW x \in t
        PROVE  Total(t) = x.size + Total(t \ {x})
    <3>1. PICK c \in t : Total(t) = c.size + Total(t \ {c})
      <4>1. IsFiniteSet(t) /\ t \subseteq Sized
        BY FS_Subset
      <4>2. Total(t) = AnyOf(t).size + Total(t \ {AnyOf(t)})
        BY <4>1, TotalStep
      <4>3. AnyOf(t) \in t
        BY AnyIn
      <4> QED BY <4>2, <4>3
    <3>2. CASE c = x
      BY <3>1, <3>2
    <3>3. CASE c # x
      <4> DEFINE r == (t \ {x}) \ {c}
      <4>1. Cardinality(t \ {c}) = n /\ Cardinality(t \ {x}) = n
        BY <2>1, OneLess, FS_Subset
      <4>2. Total(t \ {c}) = x.size + Total((t \ {c}) \ {x})
        BY <4>1, <1>2, <3>3
      <4>3. Total(t \ {x}) = c.size + Total((t \ {x}) \ {c})
        BY <4>1, <1>2, <3>3
      <4>4. (t \ {c}) \ {x} = r
        OBVIOUS
      <4>5. Total(r) \in Nat
        BY TotalStep, FS_Subset
      <4>6. x.size \in Nat /\ c.size \in Nat
        BY DEF Sized
      <4> HIDE DEF r
      <4>7. Total(t \ {c}) = x.size + Total(r) /\ Total(t \ {x}) = c.size + Total(r)
        BY <4>2, <4>3, <4>4 DEF r
      <4> QED BY <4>5, <4>6, <4>7, <3>1
    <3> QED BY <3>2, <3>3
  <2> QED BY <2>1
<1> HIDE DEF G
<1>3. Cardinality(es) \in G
  BY <1>1, <1>2, Induct, FS_CardinalityType
<1> QED BY <1>3 DEF G

\* The sum over two sets without a common element.
LEMMA TotalUnion ==
  ASSUME NEW A, NEW B, A \subseteq Sized, B \subseteq Sized, IsFiniteSet(A), IsFiniteSet(B),
         A \cap B = {}
  PROVE  Total(A \cup B) = Total(A) + Total(B)
<1> DEFINE G == {n \in Nat : \A t \in SUBSET B : Cardinality(t) = n =>
                               Total(A \cup t) = Total(A) + Total(t)}
<1>1. 0 \in G
  <2>1. ASSUME NEW t \in SUBSET B, Cardinality(t) = 0
        PROVE  Total(A \cup t) = Total(A) + Total(t)
    <3>1. t = {}
      BY <2>1, FS_EmptySet, FS_Subset
    <3>2. Total({}) = 0 /\ A \cup {} = A /\ Total(A) \in Nat
      BY TotalStep, FS_EmptySet
    <3> QED BY <3>1, <3>2
  <2> QED BY <2>1
<1>2. ASSUME NEW n \in Nat, n \in G PROVE n + 1 \in G
  <2>1. ASSUME NEW t \in SUBSET B, Cardinality(t) = n + 1
        PROVE  Total(A \cup t) = Total(A) + Total(t)
    <3>1. PICK e \in t : TRUE
      BY <2>1, FS_EmptySet
    <3>2. IsFiniteSet(t) /\ t \subseteq Sized
      BY FS_Subset
    <3>3. IsFiniteSet(A \cup t) /\ A \cup t \subseteq Sized
      BY <3>2, FS_Union
    <3>4. Total(A \cup t) = e.size + Total((A \cup t) \ {e})
      BY <3>3, TotalRemove
    <3>5. (A \cup t) \ {e} = A \cup (t \ {e})
      OBVIOUS
    <3>6. Cardinality(t \ {e}) = n
      BY <3>2, <2>1, OneLess
    <3>7. Total(A \cup (t \ {e})) = Total(A) + Total(t \ {e})
      BY <3>6, <1>2
    <3>8. Total(t) = e.size + Total(t \ {e})
      BY <3>2, TotalRemove
    <3>9. e.size \in Nat
      BY DEF Sized
    <3>10. Total(A) \in Nat /\ Total(t \ {e}) \in Nat
      BY <3>2, TotalStep, FS_RemoveElement
    <3> QED BY <3>4, <3>5, <3>7, <3>8, <3>9, <3>10
  <2> QED BY <2>1
<1> HIDE DEF G
<1>3. Cardinality(B) \in G
  BY <1>1, <1>2, Induct, FS_CardinalityType
<1> QED BY <1>3 DEF G

\* A larger set has no smaller sum.
LEMMA TotalMonotone ==
  ASSUME NEW A, NEW B, A \subseteq B, B \subseteq Sized, IsFiniteSet(B)
  PROVE  Total(A) \in Nat /\ Total(B) \in Nat /\ Total(A) <= Total(B)
<1>1. IsFiniteSet(A) /\ IsFiniteSet(B \ A)
  BY FS_Subset
<1>2. Total(A) \in Nat /\ Total(B) \in Nat /\ Total(B \ A) \in Nat
  BY <1>1, TotalStep
<1>3. Total(A \cup (B \ A)) = Total(A) + Total(B \ A)
  BY <1>1, TotalUnion
<1>4. A \cup (B \ A) = B
  OBVIOUS
<1> QED BY <1>2, <1>3, <1>4
----------------------------------------------------------------------------
(* The slices *)

\* Where slice i starts, in closed form.
Start(i, n, npids) ==
  i * (npids \div n) + (IF i < npids % n THEN i ELSE npids % n)

LEMMA StartIs ==
  ASSUME NEW n \in Nat \ {0}, NEW npids \in Nat
  PROVE  /\ \A i \in Nat : Start(i, n, npids) \in Nat /\ Chunk(i, n, npids) \in Nat
         /\ Start(0, n, npids) = 0
         /\ \A i \in Nat : Start(i + 1, n, npids) = Start(i, n, npids) + Chunk(i, n, npids)
         /\ Start(n, n, npids) = npids
<1>1. PICK q, r : q = npids \div n /\ r = npids % n
  OBVIOUS
<1>2. q \in Nat /\ r \in Nat /\ r < n /\ npids = n * q + r
  BY <1>1
<1>3. ASSUME NEW i \in Nat PROVE i * q \in Nat /\ (i + 1) * q = i * q + q
  BY <1>2
<1>4. ASSUME NEW i \in Nat
      PROVE  /\ Start(i, n, npids) = i * q + (IF i < r THEN i ELSE r)
             /\ Chunk(i, n, npids) = q + (IF i < r THEN 1 ELSE 0)
  BY <1>1 DEF Start, Chunk
<1>5. ASSUME NEW i \in Nat
      PROVE  /\ Start(i, n, npids) \in Nat /\ Chunk(i, n, npids) \in Nat
             /\ Start(i + 1, n, npids) = Start(i, n, npids) + Chunk(i, n, npids)
  <2>1. PICK a : a = i * q
    OBVIOUS
  <2>2. a \in Nat /\ (i + 1) * q = a + q
    BY <1>3, <2>1
  <2>3. Start(i, n, npids) = a + (IF i < r THEN i ELSE r)
        /\ Chunk(i, n, npids) = q + (IF i < r THEN 1 ELSE 0)
        /\ Start(i + 1, n, npids) = a + q + (IF i + 1 < r THEN i + 1 ELSE r)
    BY <1>4, <2>1, <2>2
  <2> QED BY <2>2, <2>3, <1>2
<1>6. Start(0, n, npids) = 0
  <2>1. 0 * q = 0
    BY <1>2
  <2> QED BY <1>4, <1>2, <2>1
<1>7. Start(n, n, npids) = npids
  <2>1. Start(n, n, npids) = n * q + r
    <3>1. ~(n < r)
      BY <1>2
    <3>2. Start(n, n, npids) = n * q + (IF n < r THEN n ELSE r)
      BY <1>4
    <3> QED BY <3>1, <3>2
  <2> QED BY <2>1, <1>2
<1> QED BY <1>5, <1>6, <1>7

\* The loop's offsets are those.
LEMMA OffsetIs ==
  ASSUME NEW n \in Nat \ {0}, NEW npids \in Nat, NEW i \in 0 .. n - 1
  PROVE  Offset(n, npids)[i] = Start(i, n, npids)
<1> DEFINE f == [j \in 0 .. n - 1 |-> Start(j, n, npids)]
           Loop(g) == g = [j \in 0 .. n - 1 |->
                             IF j = 0 THEN 0 ELSE g[j - 1] + Chunk(j - 1, n, npids)]
<1>1. Loop(f)
  <2>1. ASSUME NEW j \in 0 .. n - 1
        PROVE  Start(j, n, npids) = IF j = 0 THEN 0 ELSE f[j - 1] + Chunk(j - 1, n, npids)
    <3>1. CASE j = 0
      BY <3>1, StartIs
    <3>2. CASE j # 0
      <4>1. j - 1 \in Nat /\ j - 1 \in 0 .. n - 1 /\ (j - 1) + 1 = j
        BY <3>2
      <4>2. Start(j, n, npids) = Start(j - 1, n, npids) + Chunk(j - 1, n, npids)
        BY <4>1, StartIs
      <4> QED BY <4>1, <4>2, <3>2
    <3> QED BY <3>1, <3>2
  <2> QED BY <2>1
<1>2. PICK off : Offset(n, npids) = off /\ Loop(off)
  <2> HIDE DEF f
  <2>1. \E g : Loop(g)
    BY <1>1
  <2> QED BY <2>1 DEF Offset
<1> DEFINE G == {k \in Nat : k < n => off[k] = Start(k, n, npids)}
<1>3. 0 \in G
  BY <1>2, StartIs
<1>4. ASSUME NEW k \in Nat, k \in G PROVE k + 1 \in G
  <2>1. ASSUME k + 1 < n PROVE off[k + 1] = Start(k + 1, n, npids)
    <3>1. off[k + 1] = off[k] + Chunk(k, n, npids)
      <4>1. k + 1 \in 0 .. n - 1 /\ k + 1 # 0 /\ (k + 1) - 1 = k
        BY <2>1
      <4> QED BY <4>1, <1>2
    <3>2. off[k] = Start(k, n, npids)
      BY <1>4, <2>1
    <3> QED BY <3>1, <3>2, StartIs
  <2> QED BY <2>1
<1> HIDE DEF G
<1>5. i \in G
  BY <1>3, <1>4, Induct
<1> QED BY <1>5, <1>2 DEF G

LEMMA StartMonotone ==
  ASSUME NEW n \in Nat \ {0}, NEW npids \in Nat, NEW i \in Nat, NEW j \in Nat, i <= j
  PROVE  Start(i, n, npids) <= Start(j, n, npids)
<1> DEFINE G == {d \in Nat : Start(i, n, npids) <= Start(i + d, n, npids)}
<1>0. Start(i, n, npids) \in Nat
  BY StartIs
<1>1. 0 \in G
  BY <1>0
<1>2. ASSUME NEW d \in Nat, d \in G PROVE d + 1 \in G
  <2>1. Start((i + d) + 1, n, npids) = Start(i + d, n, npids) + Chunk(i + d, n, npids)
        /\ Start(i + d, n, npids) \in Nat /\ Chunk(i + d, n, npids) \in Nat
    BY StartIs
  <2>2. (i + d) + 1 = i + (d + 1)
    OBVIOUS
  <2> QED BY <2>1, <2>2, <1>0, <1>2
<1> HIDE DEF G
<1>3. j - i \in G
  BY <1>1, <1>2, Induct
<1>4. i + (j - i) = j
  OBVIOUS
<1> QED BY <1>3, <1>4 DEF G

\* The slices do not overlap and stay within the list,
LEMMA SlicesApart ==
  ASSUME NEW n \in Nat \ {0}, NEW npids \in Nat, NEW i \in Nat, NEW j \in Nat, i < j, j <= n
  PROVE  Start(i, n, npids) + Chunk(i, n, npids) <= Start(j, n, npids)
         /\ Start(j, n, npids) <= npids
<1>1. Start(i + 1, n, npids) = Start(i, n, npids) + Chunk(i, n, npids)
  BY StartIs
<1>2. Start(i + 1, n, npids) <= Start(j, n, npids)
  BY StartMonotone
<1>3. Start(j, n, npids) <= Start(n, n, npids)
  BY StartMonotone
<1> QED BY <1>1, <1>2, <1>3, StartIs

\* and every place of the list is in one of them.
LEMMA SlicesCover ==
  ASSUME NEW n \in Nat \ {0}, NEW npids \in Nat, NEW k \in 1 .. npids
  PROVE  \E i \in 0 .. n - 1 : /\ Start(i, n, npids) < k
                               /\ k <= Start(i, n, npids) + Chunk(i, n, npids)
<1> DEFINE T == {i \in Nat : k <= Start(i + 1, n, npids)}
<1>1. n - 1 \in T
  BY StartIs
<1>2. PICK i \in T : \A j \in T : i <= j
  BY <1>1, Least
<1>3. i \in 0 .. n - 1
  BY <1>1, <1>2
<1>4. k <= Start(i, n, npids) + Chunk(i, n, npids)
  BY <1>2, StartIs
<1>5. Start(i, n, npids) < k
  <2>1. CASE i = 0
    BY <2>1, StartIs
  <2>2. CASE i # 0
    <3>1. i - 1 \in Nat /\ i - 1 \notin T /\ (i - 1) + 1 = i
      BY <1>2, <2>2
    <3>2. Start(i, n, npids) \in Nat
      BY StartIs
    <3> QED BY <3>1, <3>2
  <2> QED BY <2>1, <2>2
<1> QED BY <1>3, <1>4, <1>5

LEMMA ThreadCount ==
  ASSUME NEW req \in Nat, NEW npids \in Nat, Cpus \in Int, MaxThreads \in Nat \ {0}
  PROVE  /\ pick_thread_count(req, npids) \in Nat \ {0}
         /\ npids # 0 => pick_thread_count(req, npids) <= npids
         /\ npids = 0 => pick_thread_count(req, npids) = 1
<1>1. ASSUME NEW a \in Int, NEW b \in Int
      PROVE  /\ Max({a, b}) \in {a, b} /\ Max({a, b}) >= a /\ Max({a, b}) >= b
             /\ Min({a, b}) \in {a, b} /\ Min({a, b}) <= a /\ Min({a, b}) <= b
  <2>1. \E x \in {a, b} : \A y \in {a, b} : x >= y
    BY <1>1
  <2>2. \E x \in {a, b} : \A y \in {a, b} : x <= y
    BY <1>1
  <2>3. Max({a, b}) \in {a, b} /\ \A y \in {a, b} : Max({a, b}) >= y
    BY <2>1, Zenon DEF Max
  <2>4. Min({a, b}) \in {a, b} /\ \A y \in {a, b} : Min({a, b}) <= y
    BY <2>2, Zenon DEF Min
  <2> QED BY <2>3, <2>4
<1>2. Min({Max({Cpus, 1}), MaxThreads}) \in Nat \ {0}
  <2>1. Max({Cpus, 1}) \in Nat \ {0}
    BY <1>1
  <2>2. PICK c \in Nat \ {0} : c = Max({Cpus, 1})
    BY <2>1
  <2>3. Min({c, MaxThreads}) \in {c, MaxThreads}
    BY <1>1
  <2> QED BY <2>2, <2>3
<1>3. PICK m : m = IF req > 0 THEN req ELSE Min({Max({Cpus, 1}), MaxThreads})
  OBVIOUS
<1>4. m \in Nat \ {0}
  BY <1>2, <1>3
<1>5. pick_thread_count(req, npids) = IF npids = 0 THEN 1 ELSE Min({m, npids})
  BY <1>3 DEF pick_thread_count
<1>6. Min({m, npids}) \in {m, npids} /\ Min({m, npids}) <= npids
  BY <1>1, <1>4
<1> QED BY <1>4, <1>5, <1>6
----------------------------------------------------------------------------
(* What a list or a sum holds *)

\* The arguments of hsed_scan and hsed_scan_stats; what hsed_stats_t holds.
Args == [min : MinSizes, uid : UidFilters, only : Procs \cup {0}, stats : BOOLEAN,
         threads : Requests]
Sums == [count : Nat, total : Nat]

\* The entries a scan with the arguments a has to find in the processes ps.
KeptBy(a, p) ==
  IF a.uid # UidAny /\ Owner[p] # a.uid THEN {}
  ELSE {f \in Files[p] : f.deleted /\ ~f.virtual /\ f.size >= a.min}
Wanted(a, ps) == UNION {Told(p, KeptBy(a, p)) : p \in ps}

\* A list has every entry of E once, or the sums are those of E.
Gathered(stats, E, list, sums) ==
  IF stats THEN sums = [count |-> Cardinality(E), total |-> Total(E)]
  ELSE IsInjective(list) /\ ToSet(list) = E

\* What was gathered of ps: an entry that was not passed over for certain, one of ms
\* perhaps.
Held(a, ms, ps, list, sums) ==
  \E E \in SUBSET Wanted(a, ps) :
    Wanted(a, ps) \ ms \subseteq E /\ Gathered(a.stats, E, list, sums)

----------------------------------------------------------------------------
\* readdir gives every entry once, in some order.
LEMMA Enumerates ==
  ASSUME NEW S, IsFiniteSet(S)
  PROVE  /\ SetToSeq(S) \in Seq(S) /\ Len(SetToSeq(S)) = Cardinality(S)
         /\ IsInjective(SetToSeq(S)) /\ ToSet(SetToSeq(S)) = S
<1> DEFINE q == SetToSeq(S)
<1>1. Cardinality(S) \in Nat /\ ExistsBijection(1 .. Cardinality(S), S)
  BY FS_CardinalityType
<1>2. q \in [1 .. Cardinality(S) -> S] /\ IsInjective(q)
  <2>1. \E f \in [1 .. Cardinality(S) -> S] : IsInjective(f)
    BY <1>1 DEF ExistsBijection, Bijection, Injection
  <2> QED BY <2>1 DEF SetToSeq
<1> HIDE DEF q
<1>3. q \in Injection(1 .. Cardinality(S), S)
  BY <1>2 DEF Injection
<1>4. Cardinality(1 .. Cardinality(S)) = Cardinality(S)
  BY <1>1, FS_Interval
<1>5. q \in Surjection(1 .. Cardinality(S), S)
  BY <1>3, <1>4, FS_Injection
<1>6. ToSet(q) = S
  BY <1>2, <1>5 DEF Surjection, ToSet
<1>7. q \in Seq(S) /\ Len(q) = Cardinality(S)
  BY <1>1, <1>2
<1> QED BY <1>2, <1>6, <1>7 DEF q

\* A list put behind another with which it has nothing in common.
LEMMA ConcatApart ==
  ASSUME NEW X, NEW s \in Seq(X), NEW t \in Seq(X), IsInjective(s), IsInjective(t),
         ToSet(s) \cap ToSet(t) = {}
  PROVE  IsInjective(s \o t) /\ ToSet(s \o t) = ToSet(s) \cup ToSet(t)
<1> DEFINE u == s \o t
<1>1. /\ u \in Seq(X) /\ Len(u) = Len(s) + Len(t)
      /\ \A i \in 1 .. Len(u) : u[i] = IF i <= Len(s) THEN s[i] ELSE t[i - Len(s)]
  BY ConcatProperties
<1>2. Len(s) \in Nat /\ Len(t) \in Nat /\ DOMAIN s = 1 .. Len(s) /\ DOMAIN t = 1 .. Len(t)
      /\ DOMAIN u = 1 .. Len(s) + Len(t)
  BY <1>1
<1> HIDE DEF u
<1>3. ASSUME NEW i \in DOMAIN u
      PROVE  \/ i \in DOMAIN s /\ u[i] = s[i]
             \/ i - Len(s) \in DOMAIN t /\ u[i] = t[i - Len(s)] /\ i > Len(s)
  BY <1>1, <1>2
<1>4. ASSUME NEW i \in DOMAIN s PROVE i \in DOMAIN u /\ u[i] = s[i]
  BY <1>1, <1>2
<1>5. ASSUME NEW i \in DOMAIN t PROVE i + Len(s) \in DOMAIN u /\ u[i + Len(s)] = t[i]
  BY <1>1, <1>2
<1>6. IsInjective(u)
  <2> SUFFICES ASSUME NEW i \in DOMAIN u, NEW j \in DOMAIN u, u[i] = u[j] PROVE i = j
    BY DEF IsInjective
  <2>1. \A x \in DOMAIN s, y \in DOMAIN t : s[x] # t[y]
    BY DEF ToSet
  <2>2. CASE i \in DOMAIN s /\ u[i] = s[i] /\ j \in DOMAIN s /\ u[j] = s[j]
    BY <2>2 DEF IsInjective
  <2>3. CASE /\ i - Len(s) \in DOMAIN t /\ u[i] = t[i - Len(s)]
             /\ j - Len(s) \in DOMAIN t /\ u[j] = t[j - Len(s)]
    <3>1. i - Len(s) = j - Len(s)
      BY <2>3 DEF IsInjective
    <3> QED BY <3>1, <1>2
  <2> QED BY <1>3, <2>1, <2>2, <2>3
<1>7. ToSet(u) \subseteq ToSet(s) \cup ToSet(t)
  BY <1>3 DEF ToSet
<1>8. ToSet(s) \subseteq ToSet(u)
  BY <1>4 DEF ToSet
<1>9. ToSet(t) \subseteq ToSet(u)
  BY <1>5 DEF ToSet
<1> QED BY <1>6, <1>7, <1>8, <1>9 DEF u

\* qsort neither loses nor repeats an entry.
LEMMA QsortIs ==
  ASSUME NEW X, NEW s \in Seq(X), NEW t \in Qsort(s)
  PROVE  /\ t \in Seq(X) /\ DOMAIN t = DOMAIN s /\ ToSet(t) = ToSet(s)
         /\ IsInjective(s) => IsInjective(t)
         /\ \A i, j \in DOMAIN t : i < j => cmp_by_size_desc(t[i], t[j])
<1>1. PICK q \in Bijection(DOMAIN s, DOMAIN s) : t = [i \in DOMAIN s |-> s[q[i]]]
  BY DEF Qsort
<1>2. Len(s) \in Nat /\ DOMAIN s = 1 .. Len(s)
  OBVIOUS
<1>3. /\ q \in [DOMAIN s -> DOMAIN s] /\ \A w \in DOMAIN s : \E v \in DOMAIN s : q[v] = w
      /\ \A i, j \in DOMAIN s : q[i] = q[j] => i = j
  BY <1>1 DEF Bijection, Injection, Surjection, IsInjective
<1>4. \A i \in DOMAIN s : s[q[i]] \in X
  BY <1>2, <1>3
<1>5. t \in Seq(X) /\ DOMAIN t = DOMAIN s
  BY <1>1, <1>2, <1>4
<1>6. ToSet(t) = ToSet(s)
  BY <1>1, <1>3 DEF ToSet
<1>7. ASSUME IsInjective(s) PROVE IsInjective(t)
  <2>5. \A i, j \in DOMAIN s : s[i] = s[j] => i = j
    BY <1>7 DEF IsInjective
  <2>6. ASSUME NEW i \in DOMAIN s, NEW j \in DOMAIN s, s[q[i]] = s[q[j]] PROVE i = j
    BY <2>5, <2>6, <1>3
  <2> QED BY <2>6, <1>1 DEF IsInjective
<1>8. \A i, j \in DOMAIN s : i < j => cmp_by_size_desc(t[i], t[j])
  BY DEF Qsort
<1> QED BY <1>5, <1>6, <1>7, <1>8

----------------------------------------------------------------------------
\* The entries of one process are as many as its files, and bear its pid.
LEMMA ToldIs ==
  ASSUME NEW a \in Args, NEW p \in Procs, NEW fs, fs \subseteq KeptBy(a, p)
  PROVE  /\ IsFiniteSet(fs) /\ Told(p, fs) \subseteq Entry /\ IsFiniteSet(Told(p, fs))
         /\ Cardinality(Told(p, fs)) = Cardinality(fs)
         /\ \A e \in Told(p, fs) : e.pid = p
         /\ Told(p, fs) \subseteq Told(p, KeptBy(a, p))
<1>1. KeptBy(a, p) \subseteq Files[p] /\ \A f \in KeptBy(a, p) : f.deleted /\ ~f.virtual
  BY DEF KeptBy
<1>2. fs \subseteq File /\ IsFiniteSet(fs)
  BY <1>1, ScanAssumption, FS_Subset
<1> DEFINE g == [f \in fs |-> [pid |-> p, fd |-> f.fd, size |-> f.size]]
<1>3. g \in Surjection(fs, Told(p, fs))
  BY DEF Surjection, Told
<1>4. ASSUME NEW f \in fs, NEW h \in fs, f.fd = h.fd, f.size = h.size PROVE f = h
  <2>1. f \in File /\ h \in File /\ f.deleted /\ h.deleted /\ ~f.virtual /\ ~h.virtual
    BY <1>1, <1>2
  <2>2. f.deleted = h.deleted /\ f.virtual = h.virtual
    BY <2>1 DEF File
  <2> QED BY <2>1, <2>2, <1>4 DEF File
<1>5. g \in Injection(fs, Told(p, fs))
  <2>1. g \in [fs -> Told(p, fs)]
    BY DEF Told
  <2>2. ASSUME NEW f \in fs, NEW h \in fs, g[f] = g[h] PROVE f = h
    <3>1. f.fd = h.fd /\ f.size = h.size
      BY <2>2
    <3> QED BY <3>1, <1>4
  <2> QED BY <2>1, <2>2 DEF Injection, IsInjective
<1>6. IsFiniteSet(Told(p, fs)) /\ Cardinality(Told(p, fs)) = Cardinality(fs)
  BY <1>2, <1>3, <1>5, FS_Surjection
<1>7. Told(p, fs) \subseteq Entry
  BY <1>2 DEF Told, Entry, File
<1> QED BY <1>2, <1>6, <1>7 DEF Told

\* The entries to be found are finitely many, and bear the pids of ps.
LEMMA WantedIs ==
  ASSUME NEW a \in Args, NEW ps, ps \subseteq Procs
  PROVE  /\ Wanted(a, ps) \subseteq Entry /\ Wanted(a, ps) \subseteq Sized
         /\ IsFiniteSet(Wanted(a, ps)) /\ \A e \in Wanted(a, ps) : e.pid \in ps
<1> DEFINE T == {Told(p, KeptBy(a, p)) : p \in ps}
           g == [p \in ps |-> Told(p, KeptBy(a, p))]
<1>1. IsFiniteSet(T)
  <2>1. g \in Surjection(ps, T)
    BY DEF Surjection
  <2>2. IsFiniteSet(ps)
    BY ScanAssumption, FS_Subset
  <2> QED BY <2>1, <2>2, FS_Surjection
<1>2. ASSUME NEW p \in ps
      PROVE  /\ IsFiniteSet(Told(p, KeptBy(a, p))) /\ Told(p, KeptBy(a, p)) \subseteq Entry
             /\ \A e \in Told(p, KeptBy(a, p)) : e.pid = p
  BY ToldIs
<1>3. IsFiniteSet(UNION T)
  BY <1>1, <1>2, FS_UNION
<1>4. Wanted(a, ps) \subseteq Entry /\ \A e \in Wanted(a, ps) : e.pid \in ps
  BY <1>2 DEF Wanted
<1>5. Entry \subseteq Sized
  BY ScanAssumption DEF Entry, Sized
<1> QED BY <1>3, <1>4, <1>5 DEF Wanted

\* The entries of two sets of processes, of a smaller set, of sets that share none.
LEMMA WantedUnion ==
  ASSUME NEW a, NEW ps, NEW qs
  PROVE  Wanted(a, ps \cup qs) = Wanted(a, ps) \cup Wanted(a, qs)
BY DEF Wanted

LEMMA WantedMonotone ==
  ASSUME NEW a, NEW ps, NEW qs, ps \subseteq qs
  PROVE  Wanted(a, ps) \subseteq Wanted(a, qs)
BY DEF Wanted

LEMMA WantedApart ==
  ASSUME NEW a \in Args, NEW ps, NEW qs, ps \subseteq Procs, qs \subseteq Procs, ps \cap qs = {}
  PROVE  Wanted(a, ps) \cap Wanted(a, qs) = {}
BY WantedIs

----------------------------------------------------------------------------
\* Before the first process nothing is held.
LEMMA HeldNothing ==
  ASSUME NEW a \in Args, NEW ms
  PROVE  Held(a, ms, {}, << >>, Nothing)
<1>1. Wanted(a, {}) = {}
  BY DEF Wanted
<1>2. Total({}) = 0 /\ Cardinality({}) = 0
  BY TotalStep, FS_EmptySet
<1>3. IsInjective(<< >>) /\ ToSet(<< >>) = {}
  BY DEF IsInjective, ToSet
<1>4. Gathered(a.stats, {}, << >>, Nothing)
  BY <1>2, <1>3 DEF Gathered, Nothing
<1> QED BY <1>1, <1>4 DEF Held

\* The more is passed over, the less must be held.
LEMMA HeldFewer ==
  ASSUME NEW a, NEW ms, NEW ns, ms \subseteq ns, NEW ps, NEW list, NEW sums,
         Held(a, ms, ps, list, sums)
  PROVE  Held(a, ns, ps, list, sums)
BY DEF Held

\* What two workers hold, put together.
LEMMA HeldBoth ==
  ASSUME NEW a \in Args, NEW ms, NEW ps, NEW qs, ps \subseteq Procs, qs \subseteq Procs,
         ps \cap qs = {},
         NEW l \in Seq(Entry), NEW m \in Seq(Entry), NEW s \in Sums, NEW t \in Sums,
         Held(a, ms, ps, l, s), Held(a, ms, qs, m, t)
  PROVE  Held(a, ms, ps \cup qs, IF a.stats THEN l ELSE l \o m,
              IF ~a.stats THEN s ELSE [count |-> s.count + t.count, total |-> s.total + t.total])
<1>1. PICK E \in SUBSET Wanted(a, ps) :
        Wanted(a, ps) \ ms \subseteq E /\ Gathered(a.stats, E, l, s)
  BY DEF Held
<1>2. PICK F \in SUBSET Wanted(a, qs) :
        Wanted(a, qs) \ ms \subseteq F /\ Gathered(a.stats, F, m, t)
  BY DEF Held
<1>3. E \cap F = {}
  BY WantedApart
<1>4. /\ IsFiniteSet(E) /\ IsFiniteSet(F) /\ E \subseteq Sized /\ F \subseteq Sized
  BY WantedIs, FS_Subset
<1>5. E \cup F \in SUBSET Wanted(a, ps \cup qs)
  BY WantedUnion
<1>6. Wanted(a, ps \cup qs) \ ms \subseteq E \cup F
  BY <1>1, <1>2, WantedUnion
<1>7. Gathered(a.stats, E \cup F, IF a.stats THEN l ELSE l \o m,
        IF ~a.stats THEN s ELSE [count |-> s.count + t.count, total |-> s.total + t.total])
  <2>1. CASE a.stats
    <3>1. s = [count |-> Cardinality(E), total |-> Total(E)]
          /\ t = [count |-> Cardinality(F), total |-> Total(F)]
      BY <1>1, <1>2, <2>1 DEF Gathered
    <3>2. Total(E \cup F) = Total(E) + Total(F)
      BY <1>3, <1>4, TotalUnion
    <3>3. Cardinality(E \cup F) = Cardinality(E) + Cardinality(F)
      <4>1. Cardinality(E \cup F) = Cardinality(E) + Cardinality(F) - Cardinality({})
        BY <1>3, <1>4, FS_Union
      <4>2. Cardinality(E) \in Nat /\ Cardinality(F) \in Nat /\ Cardinality({}) = 0
        BY <1>4, FS_CardinalityType, FS_EmptySet
      <4> QED BY <4>1, <4>2
    <3> QED BY <3>1, <3>2, <3>3, <2>1 DEF Gathered
  <2>2. CASE ~a.stats
    <3>1. IsInjective(l) /\ ToSet(l) = E /\ IsInjective(m) /\ ToSet(m) = F
      BY <1>1, <1>2, <2>2 DEF Gathered
    <3>2. IsInjective(l \o m) /\ ToSet(l \o m) = E \cup F
      BY <3>1, <1>3, ConcatApart
    <3> QED BY <3>2, <2>2 DEF Gathered
  <2> QED BY <2>1, <2>2
<1> QED BY <1>5, <1>6, <1>7 DEF Held

\* Sorting keeps what is held.
LEMMA HeldSorted ==
  ASSUME NEW a, NEW ms, NEW ps, NEW l \in Seq(Entry), NEW s, Held(a, ms, ps, l, s),
         NEW m \in Qsort(l)
  PROVE  Held(a, ms, ps, m, s)
<1>1. ToSet(m) = ToSet(l) /\ (IsInjective(l) => IsInjective(m))
  BY QsortIs
<1> QED BY <1>1 DEF Held, Gathered

\* A process of which the files fs were seen and the others passed over.
LEMMA HeldOne ==
  ASSUME NEW a \in Args, NEW ms, NEW p \in Procs, NEW fs, fs \subseteq KeptBy(a, p),
         Told(p, KeptBy(a, p) \ fs) \subseteq ms
  PROVE  /\ Held(a, ms, {p}, Entries(p, fs),
                 [count |-> Cardinality(fs), total |-> Total(Told(p, fs))])
         /\ Entries(p, fs) \in Seq(Entry)
         /\ [count |-> Cardinality(fs), total |-> Total(Told(p, fs))] \in Sums
<1> DEFINE E == Told(p, fs)
<1>1. Wanted(a, {p}) = Told(p, KeptBy(a, p)) /\ Wanted(a, {}) = {}
  BY DEF Wanted
<1>2. E \subseteq Wanted(a, {p}) /\ IsFiniteSet(E) /\ E \subseteq Entry /\ IsFiniteSet(fs)
      /\ Cardinality(E) = Cardinality(fs) /\ E \subseteq Sized
  BY <1>1, ToldIs, WantedIs
<1>3. Wanted(a, {p}) \ ms \subseteq E
  BY <1>1 DEF Told
<1>4. Entries(p, fs) \in Seq(E) /\ IsInjective(Entries(p, fs)) /\ ToSet(Entries(p, fs)) = E
  BY <1>2, Enumerates DEF Entries
<1>5. Entries(p, fs) \in Seq(Entry)
  BY <1>2, <1>4
<1>6. Cardinality(fs) \in Nat /\ Total(E) \in Nat
  BY <1>2, FS_CardinalityType, TotalStep
<1>7. Gathered(a.stats, E, Entries(p, fs), [count |-> Cardinality(fs), total |-> Total(E)])
  BY <1>2, <1>4 DEF Gathered
<1>8. Held(a, ms, {p}, Entries(p, fs), [count |-> Cardinality(fs), total |-> Total(E)])
  BY <1>2, <1>3, <1>7 DEF Held
<1> QED BY <1>5, <1>6, <1>8 DEF Sums
----------------------------------------------------------------------------
(* The invariant *)

\* The processes a worker is through with.
Scanned(pids, w) == {pids[w.first + k] : k \in 1 .. w.next}

\* A worker stays in its slice, ends early only when it failed, and holds what it scanned.
WorkerOK(a, ms, pids, w) ==
  /\ w.next <= w.count
  /\ w.st = "done" => w.failed \/ w.next = w.count
  /\ Held(a, ms, Scanned(pids, w), w.list, w.stats)

\* The number of threads; where the calling thread is while there are workers.
Threads(a, pids) == pick_thread_count(a.threads, Len(pids))
Ran == {"spawn", "inline", "own", "join", "merge"}

\* The types, and those of the workers.
MainType == [pc : {"call", "split", "spawn", "inline", "own", "join", "merge", "done"},
             i : WorkerIds, spawned : SUBSET WorkerIds, pids : Seq(Procs),
             out : Seq(Entry), sums : Sums, rc : {"none", "ok", "error"}]

Typed(m, wk) ==
  /\ m \in MainType
  /\ \A i \in DOMAIN wk : i \in WorkerIds /\ i < Slots(m.pids) /\ wk[i] \in Worker

\* How the arguments and the calling thread fit together.
Shape(a, m, wk) ==
  /\ a \in Args /\ (a.stats => a.only = 0)
  /\ IsInjective(m.pids) /\ Len(m.pids) <= Cardinality(Procs)
  /\ m.pc \notin Ran \cup {"done"} => DOMAIN wk = {}
  /\ m.pc \in Ran => DOMAIN wk = 0 .. Threads(a, m.pids) - 1
  /\ m.pc \notin {"call", "done"} => a.only = 0
  /\ m.pc \notin {"merge", "done"} => m.out = << >> /\ m.sums = Nothing
  /\ m.pc # "done" => m.rc = "none"
  /\ m.spawned \subseteq DOMAIN wk

\* Every worker has its slice.
Cut(ms, a, m, wk) ==
  m.pc \in Ran => \A i \in DOMAIN wk :
    /\ wk[i].first = Start(i, Threads(a, m.pids), Len(m.pids))
    /\ wk[i].count = Chunk(i, Threads(a, m.pids), Len(m.pids))
    /\ WorkerOK(a, ms, m.pids, wk[i])

\* A worker runs in a thread of its own that will be joined, or is through.
Accounted(m, wk, j) == j \in m.spawned \/ wk[j].st = "done"

\* The calling thread has started, run or waited for every worker it is past.
Started(a, m, wk) ==
  /\ m.pc \in {"spawn", "inline"} => m.i >= 1 /\ \A j \in 1 .. m.i - 1 : Accounted(m, wk, j)
  /\ m.pc = "spawn" => m.i <= Threads(a, m.pids)
  /\ m.pc = "inline" => m.i < Threads(a, m.pids)
  /\ m.pc \in {"own", "join"} => \A j \in 1 .. Threads(a, m.pids) - 1 : Accounted(m, wk, j)
  /\ m.pc = "join" => wk[0].st = "done"
  /\ m.pc \in {"merge", "done"} => \A j \in DOMAIN wk : wk[j].st = "done"
  /\ m.pc = "merge" => m.i <= Threads(a, m.pids)

\* What the workers merged so far have scanned.
Before(m, wk) == UNION {Scanned(m.pids, wk[j]) : j \in 0 .. m.i - 1}
NoneFailed(wk) == \A i \in DOMAIN wk : ~wk[i].failed

\* Unless a worker failed, what is merged is what those workers scanned.
Merging(ms, a, m, wk) ==
  m.pc = "merge" /\ NoneFailed(wk) => Held(a, ms, Before(m, wk), m.out, m.sums)

\* The largest first.
Descends(list) == \A i, j \in DOMAIN list : i < j => list[i].size >= list[j].size

\* What the caller gets.
Finished(ms, a, m, wk) ==
  m.pc = "done" =>
    /\ \A i \in DOMAIN wk : wk[i].list = << >>
    /\ m.rc = "ok" =>
         /\ Held(a, ms, IF a.only # 0 THEN {a.only} ELSE ToSet(m.pids), m.out, m.sums)
         /\ Descends(m.out) /\ NoneFailed(wk)
    /\ m.rc # "ok" /\ a.only = 0 => m.rc = "error" /\ m.out = << >>

Good(ms, a, m, wk) ==
  /\ Typed(m, wk) /\ Shape(a, m, wk) /\ Cut(ms, a, m, wk) /\ Started(a, m, wk)
  /\ Merging(ms, a, m, wk) /\ Finished(ms, a, m, wk)

\* The inductive invariant.
IInv == alive \subseteq Procs /\ missed \subseteq Entry /\ Good(missed, arg, main, work)

----------------------------------------------------------------------------
\* How many threads there are.
LEMMA ThreadsIs ==
  ASSUME NEW a \in Args, NEW pids \in Seq(Procs), Len(pids) <= Cardinality(Procs)
  PROVE  /\ Threads(a, pids) \in Nat \ {0} /\ Threads(a, pids) \in WorkerIds
         /\ 0 .. Threads(a, pids) - 1 \subseteq WorkerIds /\ 0 \in WorkerIds
         /\ 1 \in WorkerIds /\ WorkerIds \subseteq Nat
         /\ \A i \in 0 .. Threads(a, pids) - 1 : i < Slots(pids)
<1>1. Cardinality(Procs) \in Nat \ {0}
  BY ScanAssumption, FS_CardinalityType, FS_EmptySet
<1>2. Len(pids) \in Nat /\ a.threads \in Nat /\ Cpus \in Int /\ MaxThreads \in Nat \ {0}
  <2>1. a.threads \in Requests
    BY DEF Args
  <2>2. Requests \subseteq Nat /\ Cpus \in Int /\ MaxThreads \in Nat \ {0}
    BY ScanAssumption
  <2>3. Len(pids) \in Nat
    OBVIOUS
  <2>4. a.threads \in Nat
    BY <2>1, <2>2
  <2> QED BY <2>2, <2>3, <2>4
<1>3. PICK n : n = Threads(a, pids)
  OBVIOUS
<1>4. n \in Nat \ {0} /\ n <= Cardinality(Procs) /\ n <= Slots(pids)
  <2>1. PICK k : k = Len(pids)
    OBVIOUS
  <2>2. n = pick_thread_count(a.threads, k) /\ k \in Nat /\ k <= Cardinality(Procs)
    BY <1>2, <1>3, <2>1 DEF Threads
  <2>3. n \in Nat \ {0} /\ (k # 0 => n <= k) /\ (k = 0 => n = 1)
    BY <1>2, <2>2, ThreadCount
  <2>4. Slots(pids) = IF k = 0 THEN 1 ELSE k
    BY <2>1, EmptySeq DEF Slots
  <2> QED BY <1>1, <2>2, <2>3, <2>4
<1>5. Slots(pids) \in Nat
  BY <1>2 DEF Slots
<1> QED BY <1>1, <1>3, <1>4, <1>5 DEF WorkerIds

\* The places of a slice are places of the list.
LEMMA SliceWithin ==
  ASSUME NEW n \in Nat \ {0}, NEW npids \in Nat, NEW i \in 0 .. n - 1
  PROVE  /\ Start(i, n, npids) \in Nat /\ Chunk(i, n, npids) \in Nat
         /\ Start(i, n, npids) + Chunk(i, n, npids) <= npids
<1>1. i \in Nat /\ i < n
  OBVIOUS
<1>2. Start(i, n, npids) \in Nat /\ Chunk(i, n, npids) \in Nat
  BY <1>1, StartIs
<1>3. Start(i, n, npids) + Chunk(i, n, npids) <= Start(n, n, npids)
      /\ Start(n, n, npids) <= npids
  BY <1>1, SlicesApart
<1>4. Start(n, n, npids) = npids
  BY StartIs
<1> QED BY <1>2, <1>3, <1>4

\* Two places, one in each of two slices that follow each other.
LEMMA Between ==
  ASSUME NEW f \in Nat, NEW c \in Nat, NEW x \in Nat, x <= c,
         NEW g \in Nat, NEW d \in Nat, NEW y \in Nat, y <= d, f + c <= g,
         NEW n \in Nat, g + d <= n, NEW k \in 1 .. x, NEW l \in 1 .. y
  PROVE  f + k \in 1 .. n /\ g + l \in 1 .. n /\ f + k < g + l
OBVIOUS

\* Two slices share no process.
LEMMA ScannedApart ==
  ASSUME NEW pids \in Seq(Procs), IsInjective(pids), NEW v \in Worker, NEW w \in Worker,
         v.next <= v.count, w.next <= w.count,
         v.first + v.count <= w.first, w.first + w.count <= Len(pids)
  PROVE  Scanned(pids, v) \cap Scanned(pids, w) = {}
<1>1. v.first \in Nat /\ v.count \in Nat /\ v.next \in Nat
      /\ w.first \in Nat /\ w.count \in Nat /\ w.next \in Nat /\ Len(pids) \in Nat
      /\ DOMAIN pids = 1 .. Len(pids)
  BY DEF Worker
<1> SUFFICES ASSUME NEW x \in Scanned(pids, v), x \in Scanned(pids, w)
             PROVE  FALSE
  OBVIOUS
<1>3. PICK k \in 1 .. v.next : x = pids[v.first + k]
  BY DEF Scanned
<1>4. PICK l \in 1 .. w.next : x = pids[w.first + l]
  BY DEF Scanned
<1>2. PICK x1, x2, n : x1 = v.first + k /\ x2 = w.first + l /\ n = Len(pids)
  OBVIOUS
<1>5. x1 \in 1 .. n /\ x2 \in 1 .. n /\ x1 < x2
  <2>1. PICK f \in Nat, c \in Nat, x0 \in Nat, g \in Nat, d \in Nat, y \in Nat :
          /\ f = v.first /\ c = v.count /\ x0 = v.next
          /\ g = w.first /\ d = w.count /\ y = w.next
    BY <1>1
  <2>2. x0 <= c /\ y <= d /\ f + c <= g /\ n \in Nat /\ g + d <= n
        /\ k \in 1 .. x0 /\ l \in 1 .. y
    BY <1>1, <1>2, <2>1
  <2>3. f + k \in 1 .. n /\ g + l \in 1 .. n /\ f + k < g + l
    BY <2>2, Between
  <2> QED BY <1>2, <2>1, <2>3
<1>6. pids[x1] = pids[x2] /\ x1 \in DOMAIN pids /\ x2 \in DOMAIN pids
  BY <1>1, <1>2, <1>3, <1>4, <1>5
<1>7. x1 = x2
  BY <1>6, Zenon DEF IsInjective
<1> QED BY <1>5, <1>7

\* A slice has only processes of the list.
LEMMA ScannedType ==
  ASSUME NEW pids \in Seq(Procs), NEW w \in Worker, w.next <= w.count,
         w.first + w.count <= Len(pids)
  PROVE  Scanned(pids, w) \subseteq Procs
<1>1. w.first \in Nat /\ w.count \in Nat /\ w.next \in Nat /\ Len(pids) \in Nat
  BY DEF Worker
<1>2. ASSUME NEW k \in 1 .. w.next PROVE w.first + k \in 1 .. Len(pids)
  BY <1>1
<1> QED BY <1>2 DEF Scanned

\* The next process of a slice.
LEMMA ScannedNext ==
  ASSUME NEW pids \in Seq(Procs), IsInjective(pids), NEW v \in Worker, NEW w \in Worker,
         v.next < v.count, v.first + v.count <= Len(pids),
         w.first = v.first, w.count = v.count, w.next = v.next + 1
  PROVE  LET p == pids[v.first + v.next + 1]
         IN  /\ p \in Procs /\ p \notin Scanned(pids, v)
             /\ Scanned(pids, w) = Scanned(pids, v) \cup {p}
<1>1. v.first \in Nat /\ v.count \in Nat /\ v.next \in Nat /\ Len(pids) \in Nat
      /\ DOMAIN pids = 1 .. Len(pids)
  BY DEF Worker
<1> DEFINE p == pids[v.first + v.next + 1]
<1>2. v.first + v.next + 1 \in 1 .. Len(pids)
  BY <1>1
<1>3. p \in Procs
  BY <1>2
<1>4. ASSUME NEW k \in 1 .. v.next PROVE pids[v.first + k] # p
  <2>1. v.first + k \in 1 .. Len(pids) /\ v.first + k # v.first + v.next + 1
    BY <1>1
  <2> QED BY <1>1, <1>2, <2>1 DEF IsInjective
<1>5. Scanned(pids, w) = {pids[v.first + k] : k \in 1 .. v.next + 1}
  BY DEF Scanned
<1>6. 1 .. v.next + 1 = (1 .. v.next) \cup {v.next + 1}
      /\ v.first + (v.next + 1) = v.first + v.next + 1
  BY <1>1
<1>7. Scanned(pids, w) = Scanned(pids, v) \cup {p}
  BY <1>5, <1>6 DEF Scanned
<1> QED BY <1>3, <1>4, <1>7 DEF Scanned

\* A worker that has seen the files fs of p.
AfterScan(a, v, p, fs) ==
  [v EXCEPT !.next  = v.next + 1,
            !.list  = IF a.stats THEN v.list ELSE v.list \o Entries(p, fs),
            !.stats = IF ~a.stats THEN v.stats
                      ELSE [count |-> v.stats.count + Cardinality(fs),
                            total |-> v.stats.total + Total(Told(p, fs))]]

\* scan_one_pid on the next process.
CanScan(a, ms, ns, pids, v, p, fs) ==
  /\ a \in Args /\ ms \subseteq ns /\ pids \in Seq(Procs) /\ IsInjective(pids)
  /\ v \in Worker /\ v.st = "run" /\ v.next < v.count /\ v.first + v.count <= Len(pids)
  /\ WorkerOK(a, ms, pids, v)
  /\ p = pids[v.first + v.next + 1]
  /\ fs \subseteq KeptBy(a, p) /\ Told(p, KeptBy(a, p) \ fs) \subseteq ns

\* A worker that scans a process still holds what it scanned.
LEMMA ScanNext ==
  ASSUME NEW a, NEW ms, NEW ns, NEW pids, NEW v, NEW p, NEW fs,
         CanScan(a, ms, ns, pids, v, p, fs)
  PROVE  /\ AfterScan(a, v, p, fs) \in Worker
         /\ WorkerOK(a, ns, pids, AfterScan(a, v, p, fs))
<1> USE DEF CanScan
<1> DEFINE w == AfterScan(a, v, p, fs)
<1>1. /\ v.first \in Nat /\ v.count \in Nat /\ v.next \in Nat /\ v.failed \in BOOLEAN
      /\ v.list \in Seq(Entry) /\ v.stats \in Sums
  BY DEF Worker, Sums
<1>2. p \in Procs
  <2>1. v.first + v.next + 1 \in 1 .. Len(pids)
    BY <1>1
  <2> QED BY <2>1
<1>3. PICK l, s : /\ l = Entries(p, fs)
                  /\ s = [count |-> Cardinality(fs), total |-> Total(Told(p, fs))]
  OBVIOUS
<1>4. Held(a, ns, {p}, l, s) /\ l \in Seq(Entry) /\ s \in Sums
  BY <1>2, <1>3, HeldOne
<1>5. w = [v EXCEPT
             !.next  = v.next + 1,
             !.list  = IF a.stats THEN v.list ELSE v.list \o l,
             !.stats = IF ~a.stats THEN v.stats
                       ELSE [count |-> v.stats.count + s.count,
                             total |-> v.stats.total + s.total]]
  BY <1>3 DEF AfterScan
<1> DEFINE ls == IF a.stats THEN v.list ELSE v.list \o l
           ss == IF ~a.stats THEN v.stats
                 ELSE [count |-> v.stats.count + s.count, total |-> v.stats.total + s.total]
<1>6. ls \in Seq(Entry)
  BY <1>1, <1>4
<1>7. ss \in Sums
  <2>1. PICK t : t = v.stats
    OBVIOUS
  <2>2. t \in Sums
    BY <1>1, <2>1
  <2>3. [count |-> t.count + s.count, total |-> t.total + s.total] \in Sums
    BY <1>4, <2>2 DEF Sums
  <2> QED BY <2>1, <2>2, <2>3
<1>8. v.next + 1 \in Nat
  BY <1>1
<1> HIDE DEF ls, ss, w
<1>9. w = [v EXCEPT !.next = v.next + 1, !.list = ls, !.stats = ss]
  BY <1>5 DEF ls, ss
<1>10. w \in Worker /\ w.first = v.first /\ w.count = v.count /\ w.next = v.next + 1
       /\ w.list = ls /\ w.stats = ss /\ w.st = "run"
  BY <1>6, <1>7, <1>8, <1>9 DEF Worker, Sums
<1>11. /\ p \notin Scanned(pids, v) /\ Scanned(pids, w) = Scanned(pids, v) \cup {p}
       /\ Scanned(pids, v) \subseteq Procs
  <2>1. v.next <= v.count
    BY <1>1
  <2>2. Scanned(pids, v) \subseteq Procs
    BY <2>1, ScannedType
  <2>3. w \in Worker /\ w.first = v.first /\ w.count = v.count /\ w.next = v.next + 1
    BY <1>10
  <2> HIDE DEF ls, ss
  <2>4. /\ p \notin Scanned(pids, v)
        /\ Scanned(pids, w) = Scanned(pids, v) \cup {p}
    BY <2>3, ScannedNext
  <2> QED BY <2>2, <2>4
<1>12. Held(a, ns, Scanned(pids, v), v.list, v.stats)
  BY HeldFewer DEF WorkerOK
<1>13. Held(a, ns, Scanned(pids, v) \cup {p}, ls, ss)
  <2>1. Scanned(pids, v) \cap {p} = {} /\ {p} \subseteq Procs
    BY <1>2, <1>11
  <2>2. PICK ps, qs : ps = Scanned(pids, v) /\ qs = {p}
    OBVIOUS
  <2>3. Held(a, ns, ps, v.list, v.stats) /\ Held(a, ns, qs, l, s) /\ ps \cap qs = {}
        /\ ps \subseteq Procs /\ qs \subseteq Procs
    BY <1>4, <1>11, <1>12, <2>1, <2>2
  <2>4. PICK vl \in Seq(Entry), vs \in Sums : vl = v.list /\ vs = v.stats
    BY <1>1
  <2>5. Held(a, ns, ps \cup qs, IF a.stats THEN vl ELSE vl \o l,
             IF ~a.stats THEN vs
             ELSE [count |-> vs.count + s.count, total |-> vs.total + s.total])
    BY <1>4, <2>3, <2>4, HeldBoth
  <2> QED BY <2>2, <2>4, <2>5 DEF ls, ss
<1>14. w.next <= w.count
  BY <1>1, <1>10
<1> QED BY <1>10, <1>11, <1>13, <1>14 DEF WorkerOK, w

\* What others pass over changes nothing for a worker.
LEMMA WorkerOKFewer ==
  ASSUME NEW a, NEW ms, NEW ns, ms \subseteq ns, NEW pids, NEW w, WorkerOK(a, ms, pids, w)
  PROVE  WorkerOK(a, ns, pids, w)
BY HeldFewer DEF WorkerOK

\* Only the status of a worker changes, or that it failed.
LEMMA WorkerOKSame ==
  ASSUME NEW a, NEW ms, NEW pids, NEW v \in Worker, NEW w \in Worker, WorkerOK(a, ms, pids, v),
         w.first = v.first, w.count = v.count, w.next = v.next, w.list = v.list,
         w.stats = v.stats, w.st = "done" => w.failed \/ w.next = w.count
  PROVE  WorkerOK(a, ms, pids, w)
<1>1. Scanned(pids, w) = Scanned(pids, v)
  BY DEF Scanned
<1> QED BY <1>1 DEF WorkerOK
----------------------------------------------------------------------------
(* A worker takes a step *)

\* A list does not depend on the sums.
LEMMA HeldList ==
  ASSUME NEW a, ~a.stats, NEW ms, NEW ps, NEW l, NEW s, NEW t, Held(a, ms, ps, l, s)
  PROVE  Held(a, ms, ps, l, t)
BY DEF Held, Gathered

\* What scan_one_pid sees of a process, and what it passes over.
LEMMA SeenIs ==
  ASSUME missed \subseteq Entry, arg \in Args, NEW p \in Procs, NEW seen \in Seen(p),
         PassOver(p, seen)
  PROVE  /\ seen \subseteq KeptBy(arg, p) /\ missed \subseteq missed' /\ missed' \subseteq Entry
         /\ Told(p, KeptBy(arg, p) \ seen) \subseteq missed'
<1>1. Kept(p) = KeptBy(arg, p)
  BY DEF Kept, KeptBy
<1>2. seen \subseteq KeptBy(arg, p)
  BY <1>1 DEF Seen
<1>3. PICK fs : fs = KeptBy(arg, p) \ seen
  OBVIOUS
<1>4. missed' = missed \cup Told(p, fs)
  BY <1>1, <1>3 DEF PassOver
<1>5. Told(p, fs) \subseteq Entry
  BY <1>3, ToldIs
<1> QED BY <1>2, <1>3, <1>4, <1>5

\* What holds of a worker from the split to the merge.
LEMMA InRan ==
  ASSUME NEW ms, NEW a, NEW m, NEW wk, Good(ms, a, m, wk), m.pc \in Ran
  PROVE  /\ Threads(a, m.pids) \in Nat \ {0} /\ DOMAIN wk = 0 .. Threads(a, m.pids) - 1
         /\ \A i \in DOMAIN wk :
              /\ wk[i] \in Worker /\ WorkerOK(a, ms, m.pids, wk[i])
              /\ wk[i].first = Start(i, Threads(a, m.pids), Len(m.pids))
              /\ wk[i].count = Chunk(i, Threads(a, m.pids), Len(m.pids))
              /\ wk[i].first + wk[i].count <= Len(m.pids)
<1>1. a \in Args /\ m.pids \in Seq(Procs) /\ Len(m.pids) <= Cardinality(Procs)
  BY DEF Good, Typed, Shape, MainType
<1>2. PICK n \in Nat \ {0} : n = Threads(a, m.pids)
  BY <1>1, ThreadsIs
<1>3. DOMAIN wk = 0 .. n - 1
  BY <1>2 DEF Good, Shape
<1>4. ASSUME NEW i \in DOMAIN wk
      PROVE  /\ wk[i] \in Worker /\ WorkerOK(a, ms, m.pids, wk[i])
             /\ wk[i].first = Start(i, n, Len(m.pids))
             /\ wk[i].count = Chunk(i, n, Len(m.pids))
  BY <1>2 DEF Good, Typed, Cut
<1>5. ASSUME NEW i \in DOMAIN wk PROVE wk[i].first + wk[i].count <= Len(m.pids)
  <2>1. PICK k \in Nat : k = Len(m.pids)
    BY <1>1
  <2>2. Start(i, n, k) + Chunk(i, n, k) <= k
    BY <1>3, SliceWithin
  <2> QED BY <2>1, <2>2, <1>4
<1> QED BY <1>2, <1>3, <1>4, <1>5

\* A worker runs only while there are workers.
LEMMA RunsInRan ==
  ASSUME NEW ms, NEW a, NEW m, NEW wk, Good(ms, a, m, wk), NEW i \in DOMAIN wk,
         wk[i].st # "done"
  PROVE  m.pc \in Ran \ {"merge"}
<1>1. m.pc \in {"call", "split"} \cup Ran \cup {"done"}
  BY DEF Good, Typed, MainType, Ran
<1>2. m.pc \notin {"call", "split"}
  BY DEF Good, Shape, Ran
<1>3. m.pc \notin {"merge", "done"}
  BY DEF Good, Started
<1> QED BY <1>1, <1>2, <1>3 DEF Ran

\* A worker that runs takes a step.
LEMMA WorkerMoves ==
  ASSUME NEW ms, NEW a, NEW m, NEW wk, Good(ms, a, m, wk), NEW ns, ms \subseteq ns,
         NEW i \in DOMAIN wk, wk[i].st = "run",
         NEW w \in Worker, w.first = wk[i].first, w.count = wk[i].count,
         WorkerOK(a, ns, m.pids, w),
         NEW xk, DOMAIN xk = DOMAIN wk, xk[i] = w,
         \A j \in DOMAIN wk : j # i => xk[j] = wk[j]
  PROVE  Good(ns, a, m, xk)
<1>1. m.pc \in Ran /\ m.pc # "merge" /\ m.pc # "done"
  BY RunsInRan DEF Ran
<1>2. Typed(m, xk)
  BY DEF Good, Typed
<1>3. Shape(a, m, xk)
  BY DEF Good, Shape
<1>4. Cut(ns, a, m, xk)
  <2>1. ASSUME NEW j \in DOMAIN wk
        PROVE  /\ xk[j].first = wk[j].first /\ xk[j].count = wk[j].count
               /\ WorkerOK(a, ns, m.pids, xk[j])
    <3>1. CASE j = i
      BY <3>1
    <3>2. CASE j # i
      <4>1. WorkerOK(a, ms, m.pids, wk[j])
        BY <1>1, InRan
      <4> QED BY <3>2, <4>1, WorkerOKFewer
    <3> QED BY <3>1, <3>2
  <2> QED BY <1>1, <2>1 DEF Good, Cut
<1>5. Started(a, m, xk)
  <2>1. ASSUME NEW j \in DOMAIN wk, Accounted(m, wk, j) PROVE Accounted(m, xk, j)
    BY <2>1 DEF Accounted
  <2>2. Threads(a, m.pids) \in Nat /\ DOMAIN wk = 0 .. Threads(a, m.pids) - 1
    BY <1>1, InRan
  <2>3. m.pc \in {"spawn", "inline"} =>
           m.i >= 1 /\ \A j \in 1 .. m.i - 1 : Accounted(m, xk, j)
    <3> SUFFICES ASSUME m.pc \in {"spawn", "inline"}, NEW j \in 1 .. m.i - 1
                 PROVE  Accounted(m, xk, j)
      BY DEF Good, Started
    <3>1. m.i <= Threads(a, m.pids) /\ m.i \in Nat
      <4>1. m.i \in WorkerIds /\ WorkerIds \subseteq Nat
        BY ThreadsIs DEF Good, Typed, Shape, MainType
      <4>2. \/ m.pc = "spawn" /\ m.i <= Threads(a, m.pids)
            \/ m.pc = "inline" /\ m.i < Threads(a, m.pids)
        BY DEF Good, Started
      <4>3. PICK k \in Nat, n \in Nat : k = m.i /\ n = Threads(a, m.pids)
        BY <4>1, <2>2
      <4>4. k <= n
        BY <4>2, <4>3
      <4> QED BY <4>3, <4>4
    <3>2. j \in DOMAIN wk
      BY <2>2, <3>1
    <3> QED BY <2>1, <3>2 DEF Good, Started
  <2>4. m.pc \in {"own", "join"} =>
          \A j \in 1 .. Threads(a, m.pids) - 1 : Accounted(m, xk, j)
    <3> SUFFICES ASSUME m.pc \in {"own", "join"}, NEW j \in 1 .. Threads(a, m.pids) - 1
                 PROVE  Accounted(m, xk, j)
      OBVIOUS
    <3>1. j \in DOMAIN wk
      BY <2>2
    <3> QED BY <2>1, <3>1 DEF Good, Started
  <2>5. m.pc = "join" => xk[0].st = "done"
    <3>1. m.pc = "join" => wk[0].st = "done"
      BY DEF Good, Started
    <3>2. 0 \in DOMAIN wk
      BY <2>2, <1>1, InRan
    <3> QED BY <3>1, <3>2
  <2>6. /\ m.pc = "spawn" => m.i <= Threads(a, m.pids)
        /\ m.pc = "inline" => m.i < Threads(a, m.pids)
    BY DEF Good, Started
  <2> QED BY <1>1, <2>3, <2>4, <2>5, <2>6 DEF Started
<1>6. Merging(ns, a, m, xk) /\ Finished(ns, a, m, xk)
  BY <1>1 DEF Merging, Finished
<1> QED BY <1>2, <1>3, <1>4, <1>5, <1>6 DEF Good

\* The slice of a worker and what scan_one_pid is called with.
LEMMA SliceAt ==
  ASSUME NEW pids \in Seq(Procs), NEW f \in Nat, NEW c \in Nat, NEW k \in Nat, k < c,
         f + c <= Len(pids)
  PROVE  SubSeq(pids, f + 1, f + c)[k + 1] = pids[f + k + 1]
<1>1. \A j \in 1 .. c : SubSeq(pids, f + 1, f + c)[j] = pids[f + j]
  <2>1. \A j \in f + 1 .. f + c : pids[j] \in Procs
    BY LenProperties
  <2>2. \A j \in 1 .. (f + c) - (f + 1) + 1 :
          SubSeq(pids, f + 1, f + c)[j] = pids[(f + 1) + j - 1]
    BY <2>1, SubSeqProperties
  <2>3. (f + c) - (f + 1) + 1 = c /\ \A j \in 1 .. c : (f + 1) + j - 1 = f + j
    OBVIOUS
  <2> QED BY <2>2, <2>3
<1>2. k + 1 \in 1 .. c
  OBVIOUS
<1>3. SubSeq(pids, f + 1, f + c)[k + 1] = pids[f + (k + 1)]
  BY <1>1, <1>2
<1>4. f + (k + 1) = f + k + 1
  OBVIOUS
<1> QED BY <1>3, <1>4

\* WorkerScan.
LEMMA ScanKeeps ==
  ASSUME IInv, NEW i \in DOMAIN work, WorkerScan(i)
  PROVE  IInv'
<1> DEFINE v == work[i]
           p == Slice(i)[v.next + 1]
<1>1. PICK seen \in Seen(p) :
        /\ PassOver(p, seen)
        /\ work' = [work EXCEPT
                ![i].next  = @ + 1,
                ![i].list  = IF arg.stats THEN @ ELSE @ \o Entries(p, seen),
                ![i].stats = IF ~arg.stats THEN @
                             ELSE [count |-> @.count + Cardinality(seen),
                                   total |-> @.total + Total(Told(p, seen))]]
  BY DEF WorkerScan
<1>2. v.st = "run" /\ v.next < v.count /\ UNCHANGED <<alive, arg, main>>
  BY DEF WorkerScan, Running
<1>3. main.pc \in Ran
  BY <1>2, RunsInRan DEF IInv
<1>4. v \in Worker /\ WorkerOK(arg, missed, main.pids, v) /\ v.first + v.count <= Len(main.pids)
  BY <1>3, InRan DEF IInv
<1>5. arg \in Args /\ main.pids \in Seq(Procs) /\ IsInjective(main.pids)
  BY DEF IInv, Good, Typed, Shape, MainType
<1>6. p = main.pids[v.first + v.next + 1]
  <2>1. v.first \in Nat /\ v.count \in Nat /\ v.next \in Nat
    BY <1>4 DEF Worker
  <2> QED BY <1>2, <1>4, <1>5, <2>1, SliceAt DEF Slice
<1>7. /\ seen \subseteq KeptBy(arg, p) /\ missed \subseteq missed' /\ missed' \subseteq Entry
      /\ Told(p, KeptBy(arg, p) \ seen) \subseteq missed'
  <2>1. p \in Procs
    <3>1. v.first \in Nat /\ v.count \in Nat /\ v.next \in Nat
      BY <1>4 DEF Worker
    <3>2. v.first + v.next + 1 \in 1 .. Len(main.pids)
      BY <1>2, <1>4, <1>5, <3>1
    <3> QED BY <1>5, <1>6, <3>2
  <2> HIDE DEF p
  <2> QED BY <1>1, <1>5, <2>1, SeenIs DEF IInv
<1> DEFINE w == AfterScan(arg, v, p, seen)
<1>8. DOMAIN work' = DOMAIN work /\ work'[i] = w
      /\ \A j \in DOMAIN work : j # i => work'[j] = work[j]
  BY <1>1 DEF AfterScan
<1>9. w.first = v.first /\ w.count = v.count
  BY <1>4 DEF Worker, AfterScan
<1>10. w \in Worker /\ WorkerOK(arg, missed', main.pids, w)
  <2>1. CanScan(arg, missed, missed', main.pids, v, p, seen)
    BY <1>2, <1>4, <1>5, <1>6, <1>7 DEF CanScan
  <2> HIDE DEF v, p
  <2> QED BY <2>1, ScanNext
<1> HIDE DEF w, p
<1>11. Good(missed', arg, main, work')
  BY <1>2, <1>7, <1>8, <1>9, <1>10, WorkerMoves DEF IInv
<1> QED BY <1>2, <1>7, <1>11 DEF IInv
----------------------------------------------------------------------------
(* Workers end, processes exit, the scan begins *)

\* A worker whose loop is over.
Ends(i, fl, wk, xk) ==
  /\ wk[i].st = "run" /\ fl \in BOOLEAN /\ (fl \/ wk[i].next = wk[i].count)
  /\ DOMAIN xk = DOMAIN wk /\ xk[i] = [wk[i] EXCEPT !.failed = fl, !.st = "done"]
  /\ \A j \in DOMAIN wk : j # i => xk[j] = wk[j]

LEMMA EndKeeps ==
  ASSUME NEW ms, NEW a, NEW m, NEW wk, Good(ms, a, m, wk), NEW i \in DOMAIN wk,
         NEW fl, NEW xk, Ends(i, fl, wk, xk)
  PROVE  Good(ms, a, m, xk)
<1> USE DEF Ends
<1> DEFINE v == wk[i]
           w == [v EXCEPT !.failed = fl, !.st = "done"]
<1>1. m.pc \in Ran
  BY RunsInRan
<1>2. v \in Worker /\ WorkerOK(a, ms, m.pids, v)
  BY <1>1, InRan
<1>3. /\ w \in Worker /\ w.first = v.first /\ w.count = v.count /\ w.next = v.next
      /\ w.list = v.list /\ w.stats = v.stats /\ w.failed = fl
  BY <1>2 DEF Worker
<1>4. xk[i] = w /\ (fl \/ v.next = v.count)
  OBVIOUS
<1> HIDE DEF w
<1>5. WorkerOK(a, ms, m.pids, w)
  BY <1>2, <1>3, <1>4, WorkerOKSame
<1> QED BY <1>3, <1>4, <1>5, WorkerMoves

\* WorkerFail.
LEMMA WorkerFailKeeps ==
  ASSUME IInv, NEW i \in DOMAIN work, WorkerFail(i)
  PROVE  IInv'
<1>1. work[i].st = "run" /\ UNCHANGED <<alive, missed, arg, main>>
  BY DEF WorkerFail, Running
<1>2. work' = [work EXCEPT ![i].failed = TRUE, ![i].st = "done"]
  BY DEF WorkerFail
<1>3. PICK fl \in BOOLEAN : fl = TRUE
  OBVIOUS
<1>4. DOMAIN work' = DOMAIN work /\ work'[i] = [work[i] EXCEPT !.failed = fl, !.st = "done"]
      /\ \A j \in DOMAIN work : j # i => work'[j] = work[j]
  BY <1>2, <1>3
<1>5. Ends(i, fl, work, work')
  BY <1>1, <1>3, <1>4 DEF Ends
<1>6. Good(missed, arg, main, work')
  BY <1>5, EndKeeps DEF IInv
<1> QED BY <1>1, <1>6 DEF IInv

\* WorkerDone.
LEMMA WorkerDoneKeeps ==
  ASSUME IInv, NEW i \in DOMAIN work, WorkerDone(i)
  PROVE  IInv'
<1>1. work[i].st = "run" /\ work[i].next = work[i].count /\ UNCHANGED <<alive, missed, arg, main>>
      /\ work' = [work EXCEPT ![i].st = "done"]
  BY DEF WorkerDone, Running
<1>2. work[i] \in Worker
  BY DEF IInv, Good, Typed
<1>3. PICK fl \in BOOLEAN : fl = work[i].failed
  BY <1>2 DEF Worker
<1>4. [work[i] EXCEPT !.st = "done"] = [work[i] EXCEPT !.failed = fl, !.st = "done"]
  BY <1>2, <1>3 DEF Worker
<1>5. DOMAIN work' = DOMAIN work /\ work'[i] = [work[i] EXCEPT !.failed = fl, !.st = "done"]
      /\ \A j \in DOMAIN work : j # i => work'[j] = work[j]
  BY <1>1, <1>4
<1>6. Ends(i, fl, work, work')
  <2>1. work[i].st = "run" /\ work[i].next = work[i].count
    BY <1>1
  <2> QED BY <1>3, <1>5, <2>1 DEF Ends
<1>7. Good(missed, arg, main, work')
  BY <1>6, EndKeeps DEF IInv
<1> QED BY <1>1, <1>7 DEF IInv

\* Exit.
LEMMA ExitKeeps ==
  ASSUME IInv, NEW p, Exit(p)
  PROVE  IInv'
<1>1. alive' \subseteq alive /\ UNCHANGED <<missed, arg, main, work>>
  BY DEF Exit
<1> QED BY <1>1 DEF IInv

----------------------------------------------------------------------------
\* Init.
LEMMA InitGood == Init => IInv
<1> SUFFICES ASSUME Init PROVE IInv
  OBVIOUS
<1>1. main.pc = "call" /\ main.i = 0 /\ main.spawned = {} /\ main.pids = << >> /\ main.out = << >>
      /\ main.sums = Nothing /\ main.rc = "none" /\ DOMAIN work = {}
  BY DEF Init
<1>2. arg \in Args /\ (arg.stats => arg.only = 0) /\ alive \subseteq Procs /\ missed \subseteq Entry
  BY DEF Init, Args
<1>3. Cardinality(Procs) \in Nat
  BY ScanAssumption, FS_CardinalityType
<1>4. << >> \in Seq(Procs) /\ Len(<< >>) = 0 /\ IsInjective(<< >>) /\ << >> \in Seq(Entry)
  BY DEF IsInjective
<1>5. 0 \in WorkerIds
  BY <1>3 DEF WorkerIds
<1>6. Nothing \in Sums
  BY DEF Nothing, Sums
<1>7. main \in MainType
  BY <1>4, <1>5, <1>6 DEF Init, MainType
<1>8. Typed(main, work)
  BY <1>1, <1>2, <1>7 DEF Typed
<1>9. Shape(arg, main, work)
  BY <1>1, <1>2, <1>3, <1>4 DEF Shape, Ran
<1>10. Cut(missed, arg, main, work) /\ Started(arg, main, work)
       /\ Merging(missed, arg, main, work) /\ Finished(missed, arg, main, work)
  BY <1>1 DEF Cut, Started, Merging, Finished, Ran
<1> QED BY <1>2, <1>8, <1>9, <1>10 DEF IInv, Good

\* The scan ends with an error before there are workers, or with one process.
LEMMA ReturnEarly ==
  ASSUME NEW ms, NEW a, NEW m, NEW wk, Good(ms, a, m, wk), m.pc \in {"call", "split"},
         NEW ns, ms \subseteq ns, NEW out \in Seq(Entry), NEW rc \in {"ok", "error"},
         rc = "error" /\ a.only = 0 => out = << >>,
         rc = "ok" => /\ a.only # 0 /\ Held(a, ns, {a.only}, out, m.sums)
                      /\ Descends(out)
  PROVE  Good(ns, a, Return([m EXCEPT !.out = out], rc), wk)
<1> DEFINE n == Return([m EXCEPT !.out = out], rc)
<1>1. m \in MainType /\ DOMAIN wk = {}
  BY DEF Good, Typed, Shape, Ran
<1>2. /\ n \in MainType /\ n.pc = "done" /\ n.rc = rc /\ n.out = out /\ n.sums = m.sums
      /\ n.pids = m.pids /\ n.spawned = m.spawned /\ n.i = m.i
  BY <1>1 DEF MainType, Return
<1> HIDE DEF n
<1>3. Typed(n, wk)
  BY <1>1, <1>2 DEF Good, Typed
<1>4. Shape(a, n, wk)
  BY <1>2 DEF Good, Shape, Ran
<1>5. Cut(ns, a, n, wk) /\ Started(a, n, wk) /\ Merging(ns, a, n, wk)
  BY <1>1, <1>2 DEF Cut, Started, Merging, Ran
<1>6. Finished(ns, a, n, wk)
  BY <1>1, <1>2 DEF Finished, NoneFailed
<1> QED BY <1>3, <1>4, <1>5, <1>6 DEF Good, n

\* ScanOnly.
LEMMA ScanOnlyKeeps ==
  ASSUME IInv, ScanOnly
  PROVE  IInv'
<1>1. PICK p : p = arg.only
  OBVIOUS
<1>2. p \in Procs /\ p # 0 /\ main.pc = "call" /\ UNCHANGED <<alive, arg, work>>
  BY <1>1, ScanAssumption DEF ScanOnly, At
<1>3. arg \in Args /\ ~arg.stats /\ arg.only # 0
  BY <1>1, <1>2 DEF IInv, Good, Shape
<1>4. PICK seen \in Seen(p) :
        /\ PassOver(p, seen)
        /\ \/ \E sorted \in Qsort(Entries(p, seen)) :
                main' = Return([main EXCEPT !.out = sorted], "ok")
           \/ \E fs \in (SUBSET seen) \ {seen} :
                main' = Return([main EXCEPT !.out = Entries(p, fs)], "error")
  BY <1>1 DEF ScanOnly
<1>5. /\ seen \subseteq KeptBy(arg, p) /\ missed \subseteq missed' /\ missed' \subseteq Entry
      /\ Told(p, KeptBy(arg, p) \ seen) \subseteq missed'
  BY <1>2, <1>3, <1>4, SeenIs DEF IInv
<1>6. ASSUME NEW sorted \in Qsort(Entries(p, seen)),
             main' = Return([main EXCEPT !.out = sorted], "ok")
      PROVE  IInv'
  <2>1. PICK l, s : l = Entries(p, seen)
          /\ s = [count |-> Cardinality(seen), total |-> Total(Told(p, seen))]
    OBVIOUS
  <2>2. Held(arg, missed', {p}, l, s) /\ l \in Seq(Entry)
    BY <1>2, <1>3, <1>5, <2>1, HeldOne
  <2>3. sorted \in Qsort(l)
    BY <2>1
  <2>4. Held(arg, missed', {p}, sorted, s)
    BY <2>2, <2>3, HeldSorted
  <2>5. Held(arg, missed', {p}, sorted, main.sums)
    BY <1>3, <2>4, HeldList
  <2>6. sorted \in Seq(Entry) /\ Descends(sorted)
    BY <2>2, <2>3, QsortIs DEF Descends, cmp_by_size_desc
  <2>7. Good(missed', arg, Return([main EXCEPT !.out = sorted], "ok"), work)
    BY <1>1, <1>2, <1>3, <1>5, <2>5, <2>6, ReturnEarly DEF IInv
  <2> QED BY <1>2, <1>5, <1>6, <2>7 DEF IInv
<1>7. ASSUME NEW fs \in SUBSET seen,
             main' = Return([main EXCEPT !.out = Entries(p, fs)], "error")
      PROVE  IInv'
  <2>1. Told(p, fs) \subseteq Entry /\ IsFiniteSet(Told(p, fs))
    BY <1>2, <1>3, <1>5, ToldIs
  <2>2. Entries(p, fs) \in Seq(Told(p, fs))
    BY <2>1, Enumerates DEF Entries
  <2>3. PICK out \in Seq(Entry) : out = Entries(p, fs)
    BY <2>1, <2>2
  <2>4. Good(missed', arg, Return([main EXCEPT !.out = out], "error"), work)
    BY <1>2, <1>3, <1>5, ReturnEarly DEF IInv
  <2> QED BY <1>2, <1>5, <1>7, <2>3, <2>4 DEF IInv
<1> QED BY <1>4, <1>6, <1>7

\* Gather.
LEMMA GatherKeeps ==
  ASSUME IInv, Gather
  PROVE  IInv'
<1>1. main.pc = "call" /\ arg.only = 0 /\ UNCHANGED <<alive, missed, arg, work>>
  BY DEF Gather, At
<1>2. main \in MainType /\ DOMAIN work = {} /\ alive \subseteq Procs
      /\ main.out = << >> /\ main.rc = "none" /\ main.sums = Nothing
  BY <1>1 DEF IInv, Good, Typed, Shape, Ran
<1>3. CASE main' = [main EXCEPT !.pc = "split", !.pids = SetToSeq(alive)]
  <2>1. IsFiniteSet(alive) /\ Cardinality(alive) <= Cardinality(Procs)
    BY <1>2, ScanAssumption, FS_Subset
  <2>2. PICK pids : pids = SetToSeq(alive)
    OBVIOUS
  <2>3. pids \in Seq(alive) /\ Len(pids) = Cardinality(alive) /\ IsInjective(pids)
    BY <2>1, <2>2, Enumerates
  <2>4. pids \in Seq(Procs) /\ Len(pids) <= Cardinality(Procs)
    BY <1>2, <2>1, <2>3
  <2> DEFINE n == [main EXCEPT !.pc = "split", !.pids = pids]
  <2>5. /\ n \in MainType /\ n.pc = "split" /\ n.rc = "none" /\ n.out = << >>
        /\ n.sums = Nothing /\ n.pids = pids /\ n.spawned = main.spawned
    BY <1>2, <2>4 DEF MainType
  <2>6. main' = n
    BY <1>3, <2>2
  <2> HIDE DEF n
  <2>7. Typed(n, work)
    BY <1>2, <2>5 DEF Typed
  <2>8. Shape(arg, n, work)
    BY <1>1, <1>2, <2>3, <2>4, <2>5 DEF IInv, Good, Shape, Ran
  <2>9. Cut(missed, arg, n, work) /\ Started(arg, n, work) /\ Merging(missed, arg, n, work)
        /\ Finished(missed, arg, n, work)
    BY <2>5 DEF Cut, Started, Merging, Finished, Ran
  <2>10. Good(missed, arg, n, work)
    BY <2>7, <2>8, <2>9 DEF Good
  <2> QED BY <1>1, <2>6, <2>10 DEF IInv
<1>4. CASE main' = Return(main, "error")
  <2>1. main = [main EXCEPT !.out = << >>]
    BY <1>2 DEF MainType
  <2>2. << >> \in Seq(Entry)
    OBVIOUS
  <2>3. Good(missed, arg, Return([main EXCEPT !.out = << >>], "error"), work)
    BY <1>1, <2>2, ReturnEarly DEF IInv
  <2> QED BY <1>1, <1>4, <2>1, <2>3 DEF IInv
<1> QED BY <1>3, <1>4 DEF Gather
----------------------------------------------------------------------------
(* The work is split, the threads are started *)

\* The workers as the split leaves them.
SplitWork(n, npids) ==
  [i \in 0 .. n - 1 |->
     [first |-> Offset(n, npids)[i], count |-> Chunk(i, n, npids), next |-> 0, st |-> "idle",
      failed |-> FALSE, list |-> << >>, stats |-> Nothing]]

\* The slices are those the invariant asks for, and nothing is held yet.
LEMMA SplitGood ==
  ASSUME NEW ms, NEW a, NEW m, NEW wk, Good(ms, a, m, wk), m.pc = "split",
         NEW n, n = [m EXCEPT !.pc = "spawn", !.i = 1]
  PROVE  Good(ms, a, n, SplitWork(Threads(a, m.pids), Len(m.pids)))
<1>1. /\ a \in Args /\ m \in MainType /\ Len(m.pids) <= Cardinality(Procs)
      /\ DOMAIN wk = {} /\ m.spawned \subseteq DOMAIN wk /\ m.out = << >> /\ m.sums = Nothing
      /\ m.rc = "none" /\ IsInjective(m.pids) /\ a.only = 0
  BY DEF Good, Typed, Shape, Ran
<1>2. m.pids \in Seq(Procs)
  BY <1>1 DEF MainType
<1>3. PICK t \in Nat \ {0}, k \in Nat : t = Threads(a, m.pids) /\ k = Len(m.pids)
  BY <1>1, <1>2, ThreadsIs
<1>4. 0 .. t - 1 \subseteq WorkerIds /\ 1 \in WorkerIds /\ \A i \in 0 .. t - 1 : i < Slots(m.pids)
  BY <1>1, <1>2, <1>3, ThreadsIs
<1>5. /\ n \in MainType /\ n.pc = "spawn" /\ n.i = 1 /\ n.pids = m.pids /\ n.out = << >>
      /\ n.sums = Nothing /\ n.rc = "none" /\ n.spawned = {}
  BY <1>1, <1>4 DEF MainType
<1> DEFINE xk == SplitWork(t, k)
<1>6. DOMAIN xk = 0 .. t - 1
  BY DEF SplitWork
<1>7. ASSUME NEW i \in 0 .. t - 1
      PROVE  /\ xk[i] \in Worker /\ xk[i].first = Start(i, t, k) /\ xk[i].count = Chunk(i, t, k)
             /\ WorkerOK(a, ms, m.pids, xk[i])
  <2>1. Start(i, t, k) \in Nat /\ Chunk(i, t, k) \in Nat
    BY SliceWithin
  <2>2. Offset(t, k)[i] = Start(i, t, k)
    BY OffsetIs
  <2> DEFINE w == [first |-> Start(i, t, k), count |-> Chunk(i, t, k), next |-> 0, st |-> "idle",
                   failed |-> FALSE, list |-> << >>, stats |-> Nothing]
  <2>3. xk[i] = w
    BY <2>2 DEF SplitWork
  <2>4. << >> \in Seq(Entry) /\ Nothing \in Sums
    BY DEF Nothing, Sums
  <2>5. w \in Worker
    BY <2>1, <2>4 DEF Worker, Sums
  <2>6. Scanned(m.pids, w) = {}
    <3>1. 1 .. 0 = {}
      OBVIOUS
    <3> QED BY <3>1 DEF Scanned
  <2>7. Held(a, ms, {}, << >>, Nothing)
    BY <1>1, HeldNothing
  <2>8. WorkerOK(a, ms, m.pids, w)
    <3>1. w.next = 0 /\ w.count = Chunk(i, t, k) /\ w.st = "idle" /\ w.list = << >>
          /\ w.stats = Nothing
      OBVIOUS
    <3> HIDE DEF w
    <3>2. w.next <= w.count
      BY <2>1, <3>1
    <3> QED BY <2>6, <2>7, <3>1, <3>2 DEF WorkerOK
  <2> HIDE DEF xk
  <2> QED BY <2>3, <2>5, <2>8
<1> HIDE DEF xk
<1>8. Typed(n, xk)
  BY <1>1, <1>4, <1>5, <1>6, <1>7 DEF Typed
<1>9. Shape(a, n, xk)
  BY <1>1, <1>3, <1>5, <1>6 DEF Shape, Ran
<1>10. Cut(ms, a, n, xk)
  BY <1>3, <1>5, <1>6, <1>7 DEF Cut
<1>11. Started(a, n, xk)
  <2>1. \A j \in 1 .. n.i - 1 : FALSE
    BY <1>5
  <2>2. n.i <= Threads(a, n.pids)
    BY <1>3, <1>5
  <2> QED BY <1>5, <2>1, <2>2 DEF Started
<1>12. Merging(ms, a, n, xk) /\ Finished(ms, a, n, xk)
  BY <1>5 DEF Merging, Finished
<1>13. Good(ms, a, n, xk)
  BY <1>8, <1>9, <1>10, <1>11, <1>12 DEF Good
<1> QED BY <1>3, <1>13 DEF xk

\* Split.
LEMMA SplitKeeps ==
  ASSUME IInv, Split
  PROVE  IInv'
<1>1. main.pc = "split" /\ UNCHANGED <<alive, missed, arg>>
  BY DEF Split, At
<1>2. CASE /\ work' = SplitWork(Threads(arg, main.pids), Len(main.pids))
           /\ main' = [main EXCEPT !.pc = "spawn", !.i = 1]
  <2>1. Good(missed, arg, main', work')
    BY <1>1, <1>2, SplitGood DEF IInv
  <2> QED BY <1>1, <2>1 DEF IInv
<1>3. CASE UNCHANGED work /\ main' = Return(main, "error")
  <2>1. main = [main EXCEPT !.out = << >>]
    BY <1>1 DEF IInv, Good, Typed, Shape, MainType, Ran
  <2>2. << >> \in Seq(Entry)
    OBVIOUS
  <2>3. Good(missed, arg, Return([main EXCEPT !.out = << >>], "error"), work)
    BY <1>1, <2>2, ReturnEarly DEF IInv
  <2> QED BY <1>1, <1>3, <2>1, <2>3 DEF IInv
<1> QED BY <1>2, <1>3 DEF Split, SplitWork, Threads

\* The calling thread goes on; a worker may be set running.
LEMMA MainMoves ==
  ASSUME NEW ms, NEW a, NEW m, NEW wk, Good(ms, a, m, wk), m.pc \in Ran, m.pc # "merge",
         NEW n \in MainType, n.pc \in Ran, n.pc = "merge" => n.i = 0, n.pids = m.pids,
         n.out = m.out, n.sums = m.sums, n.rc = m.rc, n.spawned \subseteq DOMAIN wk,
         NEW xk, DOMAIN xk = DOMAIN wk,
         \A j \in DOMAIN wk : xk[j] = wk[j] \/ xk[j] = [wk[j] EXCEPT !.st = "run"],
         Started(a, n, xk)
  PROVE  Good(ms, a, n, xk)
<1>1. ASSUME NEW j \in DOMAIN wk
      PROVE  /\ xk[j] \in Worker /\ xk[j].first = wk[j].first /\ xk[j].count = wk[j].count
             /\ WorkerOK(a, ms, m.pids, xk[j])
  <2>1. wk[j] \in Worker /\ WorkerOK(a, ms, m.pids, wk[j])
    BY InRan
  <2>2. CASE xk[j] = wk[j]
    BY <2>1, <2>2
  <2>3. CASE xk[j] = [wk[j] EXCEPT !.st = "run"]
    <3> DEFINE w == [wk[j] EXCEPT !.st = "run"]
    <3>1. /\ w \in Worker /\ w.st = "run" /\ w.first = wk[j].first /\ w.count = wk[j].count
          /\ w.next = wk[j].next /\ w.list = wk[j].list /\ w.stats = wk[j].stats
      BY <2>1 DEF Worker
    <3> HIDE DEF w
    <3>2. WorkerOK(a, ms, m.pids, w)
      BY <2>1, <3>1, WorkerOKSame
    <3>3. xk[j] = w
      BY <2>3 DEF w
    <3> QED BY <3>1, <3>2, <3>3
  <2> QED BY <2>2, <2>3
<1>2. Typed(n, xk)
  BY <1>1 DEF Good, Typed
<1>3. Shape(a, n, xk)
  <2>1. n.pc \notin {"call", "split", "done"}
    BY DEF Ran
  <2>2. m.out = << >> /\ m.sums = Nothing /\ m.rc = "none"
    BY DEF Good, Shape, Ran
  <2> QED BY <2>1, <2>2 DEF Good, Shape, Ran
<1>4. Cut(ms, a, n, xk)
  BY <1>1 DEF Good, Cut
<1>5. Merging(ms, a, n, xk)
  <2> SUFFICES ASSUME n.pc = "merge" PROVE Held(a, ms, Before(n, xk), n.out, n.sums)
    BY DEF Merging
  <2>1. 0 .. n.i - 1 = {}
    OBVIOUS
  <2>2. Before(n, xk) = {}
    BY <2>1 DEF Before
  <2>3. n.out = << >> /\ n.sums = Nothing /\ a \in Args
    BY DEF Good, Shape, Ran
  <2> QED BY <2>2, <2>3, HeldNothing
<1>6. Finished(ms, a, n, xk)
  BY DEF Finished, Ran
<1> QED BY <1>2, <1>3, <1>4, <1>5, <1>6 DEF Good

\* What the calling thread knows while it starts threads and waits for them.
LEMMA MainAt ==
  ASSUME NEW ms, NEW a, NEW m, NEW wk, Good(ms, a, m, wk), m.pc \in Ran
  PROVE  /\ m \in MainType /\ m.i \in Nat /\ m.spawned \subseteq DOMAIN wk
         /\ Threads(a, m.pids) \in Nat \ {0} /\ Threads(a, m.pids) \in WorkerIds
         /\ DOMAIN wk = 0 .. Threads(a, m.pids) - 1
         /\ DOMAIN wk \subseteq WorkerIds /\ WorkerIds \subseteq Nat
         /\ \A k \in Nat : k <= Threads(a, m.pids) => k \in WorkerIds
<1>1. m \in MainType /\ a \in Args /\ Len(m.pids) <= Cardinality(Procs) /\ m.i \in WorkerIds
      /\ m.spawned \subseteq DOMAIN wk /\ m.pids \in Seq(Procs)
  BY DEF Good, Typed, Shape, MainType
<1>2. PICK t : t = Threads(a, m.pids)
  OBVIOUS
<1>3. /\ t \in Nat \ {0} /\ t \in WorkerIds /\ 0 .. t - 1 \subseteq WorkerIds
      /\ WorkerIds \subseteq Nat
  BY <1>1, <1>2, ThreadsIs
<1>4. DOMAIN wk = 0 .. t - 1
  BY <1>2 DEF Good, Shape
<1>5. \A k \in Nat : k <= t => k \in WorkerIds
  BY <1>3
<1> QED BY <1>1, <1>2, <1>3, <1>4, <1>5

\* Spawn.
LEMMA SpawnKeeps ==
  ASSUME IInv, Spawn
  PROVE  IInv'
<1>1. main.pc = "spawn" /\ main.i \in DOMAIN work /\ UNCHANGED <<alive, missed, arg>>
      /\ work' = [work EXCEPT ![main.i].st = "run"]
  BY DEF Spawn, At
<1>2. main.pc \in Ran
  BY <1>1 DEF Ran
<1>3. PICK t, i : t = Threads(arg, main.pids) /\ i = main.i
  OBVIOUS
<1>4. /\ main \in MainType /\ i \in Nat /\ main.spawned \subseteq DOMAIN work
      /\ t \in Nat \ {0} /\ DOMAIN work = 0 .. t - 1 /\ DOMAIN work \subseteq WorkerIds
      /\ \A k \in Nat : k <= t => k \in WorkerIds
  BY <1>2, <1>3, MainAt DEF IInv
<1>5. i < t /\ i + 1 \in WorkerIds /\ i >= 1
  <2>1. i >= 1
    BY <1>1, <1>3 DEF IInv, Good, Started
  <2>2. i < t
    BY <1>1, <1>3, <1>4
  <2> QED BY <1>4, <2>1, <2>2
<1>6. /\ DOMAIN work' = DOMAIN work
      /\ \A j \in DOMAIN work : work'[j] = work[j] \/ work'[j] = [work[j] EXCEPT !.st = "run"]
      /\ \A j \in DOMAIN work : j # i => work'[j] = work[j]
  BY <1>1, <1>3
<1>7. \A j \in 1 .. i - 1 : Accounted(main, work, j)
  BY <1>1, <1>3 DEF IInv, Good, Started
<1>8. ASSUME NEW n \in MainType, n.spawned = main.spawned \/ n.spawned = main.spawned \cup {i},
             NEW j \in 1 .. i - 1
      PROVE  Accounted(n, work', j)
  <2>1. j \in DOMAIN work /\ j # i
    BY <1>4, <1>5
  <2> QED BY <1>6, <1>7, <1>8, <2>1 DEF Accounted
<1>9. CASE main' = [main EXCEPT !.i = @ + 1, !.spawned = @ \cup {main.i}]
  <2> DEFINE n == [main EXCEPT !.i = i + 1, !.spawned = main.spawned \cup {i}]
  <2>1. i \in DOMAIN work /\ i \in WorkerIds
    BY <1>1, <1>3, <1>4
  <2>2. /\ n \in MainType /\ n.pc = "spawn" /\ n.i = i + 1 /\ n.pids = main.pids
        /\ n.out = main.out /\ n.sums = main.sums /\ n.rc = main.rc
        /\ n.spawned = main.spawned \cup {i}
    BY <1>1, <1>4, <1>5, <2>1 DEF MainType
  <2>3. main' = n
    BY <1>3, <1>9
  <2> HIDE DEF n
  <2>4. Started(arg, n, work')
    <3>1. ASSUME NEW j \in 1 .. n.i - 1 PROVE Accounted(n, work', j)
      <4>1. CASE j = i
        BY <4>1, <2>2 DEF Accounted
      <4>2. CASE j # i
        <5>1. j \in 1 .. i - 1
          BY <4>2, <2>2, <1>4
        <5> QED BY <5>1, <2>2, <1>8
      <4> QED BY <4>1, <4>2
    <3>2. n.i >= 1 /\ n.i <= Threads(arg, n.pids)
      BY <1>3, <1>4, <1>5, <2>2
    <3> QED BY <3>1, <3>2, <2>2 DEF Started
  <2>5. n.spawned \subseteq DOMAIN work
    BY <1>4, <2>1, <2>2
  <2>6. Good(missed, arg, n, work')
    BY <1>1, <1>2, <1>6, <2>2, <2>4, <2>5, MainMoves DEF IInv
  <2> QED BY <1>1, <2>3, <2>6 DEF IInv
<1>10. CASE main' = [main EXCEPT !.pc = "inline"]
  <2> DEFINE n == [main EXCEPT !.pc = "inline"]
  <2>2. /\ n \in MainType /\ n.pc = "inline" /\ n.i = i /\ n.pids = main.pids
        /\ n.out = main.out /\ n.sums = main.sums /\ n.rc = main.rc
        /\ n.spawned = main.spawned
    BY <1>1, <1>3, <1>4 DEF MainType
  <2>3. main' = n
    BY <1>10
  <2> HIDE DEF n
  <2>4. Started(arg, n, work')
    <3>1. ASSUME NEW j \in 1 .. n.i - 1 PROVE Accounted(n, work', j)
      BY <2>2, <1>8
    <3>2. n.i >= 1 /\ n.i < Threads(arg, n.pids)
      BY <1>3, <1>4, <1>5, <2>2
    <3> QED BY <3>1, <3>2, <2>2 DEF Started
  <2>5. n.spawned \subseteq DOMAIN work /\ n.pc \in Ran
    BY <1>4, <2>2 DEF Ran
  <2>6. Good(missed, arg, n, work')
    BY <1>1, <1>2, <1>6, <2>2, <2>4, <2>5, MainMoves DEF IInv
  <2> QED BY <1>1, <2>3, <2>6 DEF IInv
<1> QED BY <1>9, <1>10 DEF Spawn
----------------------------------------------------------------------------
(* The threads are joined *)

\* InlineDone.
LEMMA InlineDoneKeeps ==
  ASSUME IInv, InlineDone
  PROVE  IInv'
<1>1. main.pc = "inline" /\ work[main.i].st = "done" /\ UNCHANGED <<alive, missed, arg, work>>
      /\ main' = [main EXCEPT !.pc = "spawn", !.i = main.i + 1]
  BY DEF InlineDone, At
<1>2. main.pc \in Ran
  BY <1>1 DEF Ran
<1>3. PICK t, i : t = Threads(arg, main.pids) /\ i = main.i
  OBVIOUS
<1>4. /\ main \in MainType /\ i \in Nat /\ main.spawned \subseteq DOMAIN work
      /\ t \in Nat \ {0} /\ \A k \in Nat : k <= t => k \in WorkerIds
  BY <1>2, <1>3, MainAt DEF IInv
<1>5. i < t /\ \A j \in 1 .. i - 1 : Accounted(main, work, j)
  BY <1>1, <1>3 DEF IInv, Good, Started
<1>6. i + 1 \in WorkerIds /\ i + 1 <= t
  BY <1>4, <1>5
<1> DEFINE n == [main EXCEPT !.pc = "spawn", !.i = i + 1]
<1>7. /\ n \in MainType /\ n.pc = "spawn" /\ n.i = i + 1 /\ n.pids = main.pids
      /\ n.out = main.out /\ n.sums = main.sums /\ n.rc = main.rc /\ n.spawned = main.spawned
  BY <1>4, <1>6 DEF MainType
<1>8. main' = n
  BY <1>1, <1>3
<1> HIDE DEF n
<1>9. Started(arg, n, work)
  <2>1. ASSUME NEW j \in 1 .. n.i - 1 PROVE Accounted(n, work, j)
    <3>1. CASE j = i
      BY <3>1, <1>1, <1>3 DEF Accounted
    <3>2. CASE j # i
      <4>1. j \in 1 .. i - 1
        BY <3>2, <1>4, <1>7
      <4> QED BY <4>1, <1>5, <1>7 DEF Accounted
    <3> QED BY <3>1, <3>2
  <2>2. n.i >= 1 /\ n.i <= Threads(arg, n.pids)
    BY <1>3, <1>4, <1>6, <1>7
  <2> QED BY <2>1, <2>2, <1>7 DEF Started
<1>10. n.pc \in Ran /\ n.spawned \subseteq DOMAIN work
  BY <1>4, <1>7 DEF Ran
<1>11. Good(missed, arg, n, work)
  BY <1>1, <1>2, <1>7, <1>9, <1>10, MainMoves DEF IInv
<1> QED BY <1>1, <1>8, <1>11 DEF IInv

\* Own.
LEMMA OwnKeeps ==
  ASSUME IInv, Own
  PROVE  IInv'
<1>1. main.pc = "spawn" /\ main.i \notin DOMAIN work /\ UNCHANGED <<alive, missed, arg>>
      /\ work' = [work EXCEPT ![0].st = "run"] /\ main' = [main EXCEPT !.pc = "own"]
  BY DEF Own, At
<1>2. main.pc \in Ran
  BY <1>1 DEF Ran
<1>3. PICK t, i : t = Threads(arg, main.pids) /\ i = main.i
  OBVIOUS
<1>4. /\ main \in MainType /\ i \in Nat /\ main.spawned \subseteq DOMAIN work
      /\ t \in Nat \ {0} /\ DOMAIN work = 0 .. t - 1
  BY <1>2, <1>3, MainAt DEF IInv
<1>5. i >= t /\ \A j \in 1 .. i - 1 : Accounted(main, work, j)
  <2>1. ~(i \in 0 .. t - 1)
    BY <1>1, <1>3, <1>4
  <2>2. i >= t
    BY <1>4, <2>1
  <2> QED BY <1>1, <1>3, <2>2 DEF IInv, Good, Started
<1> DEFINE n == [main EXCEPT !.pc = "own"]
<1>6. /\ n \in MainType /\ n.pc = "own" /\ n.pids = main.pids
      /\ n.out = main.out /\ n.sums = main.sums /\ n.rc = main.rc /\ n.spawned = main.spawned
  BY <1>4 DEF MainType
<1>7. main' = n
  BY <1>1
<1> HIDE DEF n
<1>8. /\ DOMAIN work' = DOMAIN work
      /\ \A j \in DOMAIN work : work'[j] = work[j] \/ work'[j] = [work[j] EXCEPT !.st = "run"]
      /\ \A j \in DOMAIN work : j # 0 => work'[j] = work[j]
  BY <1>1
<1>9. Started(arg, n, work')
  <2>1. ASSUME NEW j \in 1 .. t - 1 PROVE Accounted(n, work', j)
    <3>1. j \in 1 .. i - 1 /\ j \in DOMAIN work /\ j # 0
      BY <1>4, <1>5
    <3> QED BY <3>1, <1>5, <1>6, <1>8 DEF Accounted
  <2> QED BY <2>1, <1>3, <1>6 DEF Started
<1>10. n.pc \in Ran /\ n.spawned \subseteq DOMAIN work
  BY <1>4, <1>6 DEF Ran
<1>11. Good(missed, arg, n, work')
  BY <1>1, <1>2, <1>6, <1>8, <1>9, <1>10, MainMoves DEF IInv
<1> QED BY <1>1, <1>7, <1>11 DEF IInv

\* OwnDone.
LEMMA OwnDoneKeeps ==
  ASSUME IInv, OwnDone
  PROVE  IInv'
<1>1. main.pc = "own" /\ work[0].st = "done" /\ UNCHANGED <<alive, missed, arg, work>>
      /\ main' = [main EXCEPT !.pc = "join"]
  BY DEF OwnDone, At
<1>2. main.pc \in Ran /\ main.pc # "merge"
  BY <1>1 DEF Ran
<1>3. main \in MainType /\ main.spawned \subseteq DOMAIN work
  BY <1>2, MainAt DEF IInv
<1> DEFINE n == [main EXCEPT !.pc = "join"]
<1>4. /\ n \in MainType /\ n.pc = "join" /\ n.pids = main.pids
      /\ n.out = main.out /\ n.sums = main.sums /\ n.rc = main.rc /\ n.spawned = main.spawned
  BY <1>3 DEF MainType
<1>5. main' = n
  BY <1>1
<1> HIDE DEF n
<1>6. Started(arg, n, work)
  BY <1>1, <1>4 DEF IInv, Good, Started, Accounted
<1>7. n.pc \in Ran /\ n.spawned \subseteq DOMAIN work
  BY <1>3, <1>4 DEF Ran
<1>8. Good(missed, arg, n, work)
  BY <1>2, <1>4, <1>6, <1>7, MainMoves DEF IInv
<1> QED BY <1>1, <1>5, <1>8 DEF IInv

\* Join.
LEMMA JoinKeeps ==
  ASSUME IInv, Join
  PROVE  IInv'
<1>1. main.pc = "join" /\ UNCHANGED <<alive, missed, arg, work>>
      /\ \A i \in main.spawned : work[i].st = "done"
  BY DEF Join, At
<1>2. main.pc \in Ran /\ main.pc # "merge"
  BY <1>1 DEF Ran
<1>3. PICK t : t = Threads(arg, main.pids)
  OBVIOUS
<1>4. /\ main \in MainType /\ main.spawned \subseteq DOMAIN work
      /\ t \in Nat \ {0} /\ DOMAIN work = 0 .. t - 1
      /\ \A k \in Nat : k <= t => k \in WorkerIds
  BY <1>2, <1>3, MainAt DEF IInv
<1>5. 0 \in WorkerIds
  <2>1. 0 \in Nat /\ 0 <= t
    BY <1>4
  <2> QED BY <1>4, <2>1
<1> DEFINE n == [main EXCEPT !.pc = "merge", !.i = 0]
<1>6. /\ n \in MainType /\ n.pc = "merge" /\ n.i = 0 /\ n.pids = main.pids
      /\ n.out = main.out /\ n.sums = main.sums /\ n.rc = main.rc /\ n.spawned = main.spawned
  BY <1>4, <1>5 DEF MainType
<1>7. main' = n
  BY Zenon DEF Join
<1> HIDE DEF n
<1>8. ASSUME NEW j \in DOMAIN work PROVE work[j].st = "done"
  <2>1. CASE j = 0
    BY <2>1, <1>1 DEF IInv, Good, Started
  <2>2. CASE j # 0
    <3>1. j \in 1 .. t - 1
      BY <2>2, <1>4
    <3>2. Accounted(main, work, j)
      BY <3>1, <1>1, <1>3 DEF IInv, Good, Started
    <3> QED BY <3>2, <1>1 DEF Accounted
  <2> QED BY <2>1, <2>2
<1>9. Started(arg, n, work)
  <2>1. n.i <= Threads(arg, n.pids)
    BY <1>3, <1>4, <1>6
  <2> QED BY <2>1, <1>6, <1>8 DEF Started
<1>10. n.pc \in Ran /\ n.spawned \subseteq DOMAIN work
  BY <1>4, <1>6 DEF Ran
<1>11. Good(missed, arg, n, work)
  BY <1>2, <1>6, <1>9, <1>10, MainMoves DEF IInv
<1> QED BY <1>1, <1>7, <1>11 DEF IInv

----------------------------------------------------------------------------
\* What the workers before one have scanned, and it.
LEMMA BeforeNext ==
  ASSUME NEW ms, NEW a, NEW m, NEW wk, Good(ms, a, m, wk), m.pc = "merge", m.i \in DOMAIN wk,
         NEW n, n.pids = m.pids, n.i = m.i + 1
  PROVE  /\ Before(m, wk) \subseteq Procs /\ Scanned(m.pids, wk[m.i]) \subseteq Procs
         /\ Before(m, wk) \cap Scanned(m.pids, wk[m.i]) = {}
         /\ Before(n, wk) = Before(m, wk) \cup Scanned(m.pids, wk[m.i])
<1>1. m.pc \in Ran
  BY DEF Ran
<1>2. PICK t, i : t = Threads(a, m.pids) /\ i = m.i
  OBVIOUS
<1>3. i \in Nat /\ t \in Nat \ {0} /\ DOMAIN wk = 0 .. t - 1 /\ i \in DOMAIN wk
  BY <1>1, <1>2, MainAt
<1>4. PICK pids : pids = m.pids
  OBVIOUS
<1>5. pids \in Seq(Procs) /\ IsInjective(pids)
  BY <1>4 DEF Good, Typed, Shape, MainType
<1>6. ASSUME NEW j \in DOMAIN wk
      PROVE  /\ wk[j] \in Worker /\ wk[j].next <= wk[j].count
             /\ wk[j].first = Start(j, t, Len(pids)) /\ wk[j].count = Chunk(j, t, Len(pids))
             /\ wk[j].first + wk[j].count <= Len(pids)
  BY <1>1, <1>2, <1>4, InRan DEF WorkerOK
<1>7. ASSUME NEW j \in DOMAIN wk PROVE Scanned(pids, wk[j]) \subseteq Procs
  BY <1>5, <1>6, ScannedType
<1>8. ASSUME NEW j \in 0 .. i - 1 PROVE j \in DOMAIN wk
  BY <1>3
<1>9. ASSUME NEW j \in 0 .. i - 1 PROVE Scanned(pids, wk[j]) \cap Scanned(pids, wk[i]) = {}
  <2>1. PICK k \in Nat : k = Len(pids)
    BY <1>5
  <2>2. j \in Nat /\ j < i /\ i <= t
    BY <1>3
  <2>3. Start(j, t, k) + Chunk(j, t, k) <= Start(i, t, k)
    BY <1>3, <2>1, <2>2, SlicesApart
  <2>4. wk[j].first + wk[j].count <= wk[i].first
    BY <1>3, <1>6, <1>8, <2>1, <2>3
  <2>5. PICK v \in Worker, w \in Worker : v = wk[j] /\ w = wk[i]
    BY <1>3, <1>6, <1>8
  <2>6. v.next <= v.count /\ w.next <= w.count /\ v.first + v.count <= w.first
        /\ w.first + w.count <= Len(pids)
    BY <1>3, <1>6, <1>8, <2>4, <2>5
  <2>7. Scanned(pids, v) \cap Scanned(pids, w) = {}
    BY <1>5, <2>6, ScannedApart
  <2> QED BY <2>5, <2>7
<1>10. Before(m, wk) = UNION {Scanned(pids, wk[j]) : j \in 0 .. i - 1}
  BY <1>2, <1>4 DEF Before
<1>11. Before(n, wk) = UNION {Scanned(pids, wk[j]) : j \in 0 .. i}
  <2>1. n.i - 1 = i
    BY <1>2, <1>3
  <2> QED BY <2>1, <1>4 DEF Before
<1>12. 0 .. i = (0 .. i - 1) \cup {i}
  BY <1>3
<1>13. Before(n, wk) = Before(m, wk) \cup Scanned(pids, wk[i])
  BY <1>10, <1>11, <1>12
<1>14. Before(m, wk) \subseteq Procs
  BY <1>7, <1>8, <1>10
<1>15. Before(m, wk) \cap Scanned(pids, wk[i]) = {}
  BY <1>9, <1>10
<1> QED BY <1>2, <1>3, <1>4, <1>7, <1>13, <1>14, <1>15

\* When all workers are through, everything on the list has been scanned.
LEMMA BeforeAll ==
  ASSUME NEW ms, NEW a, NEW m, NEW wk, Good(ms, a, m, wk), m.pc = "merge",
         m.i \notin DOMAIN wk, NoneFailed(wk)
  PROVE  Before(m, wk) = ToSet(m.pids)
<1>1. m.pc \in Ran
  BY DEF Ran
<1>2. PICK t, i : t = Threads(a, m.pids) /\ i = m.i
  OBVIOUS
<1>3. i \in Nat /\ t \in Nat \ {0} /\ DOMAIN wk = 0 .. t - 1 /\ i \notin DOMAIN wk
  BY <1>1, <1>2, MainAt
<1>4. i = t
  <2>1. i <= t
    BY <1>2 DEF Good, Started
  <2>2. ~(i \in 0 .. t - 1)
    BY <1>3
  <2> QED BY <1>3, <2>1, <2>2
<1>5. PICK pids : pids = m.pids
  OBVIOUS
<1>6. pids \in Seq(Procs)
  BY <1>5 DEF Good, Typed, MainType
<1>7. PICK k \in Nat : k = Len(pids)
  BY <1>6
<1>8. ASSUME NEW j \in 0 .. t - 1
      PROVE  /\ wk[j] \in Worker /\ wk[j].next = Chunk(j, t, k)
             /\ wk[j].first = Start(j, t, k)
  <2>1. j \in DOMAIN wk
    BY <1>3
  <2>2. wk[j].st = "done"
    BY <2>1 DEF Good, Started
  <2>3. ~wk[j].failed
    BY <2>1 DEF NoneFailed
  <2>4. wk[j] \in Worker /\ WorkerOK(a, ms, pids, wk[j])
        /\ wk[j].first = Start(j, t, k) /\ wk[j].count = Chunk(j, t, k)
    BY <1>1, <1>2, <1>5, <1>7, <2>1, InRan
  <2> QED BY <2>2, <2>3, <2>4 DEF WorkerOK
<1>9. Before(m, wk) = UNION {Scanned(pids, wk[j]) : j \in 0 .. t - 1}
  BY <1>2, <1>4, <1>5 DEF Before
<1>10. ASSUME NEW j \in 0 .. t - 1
       PROVE  Scanned(pids, wk[j]) = {pids[Start(j, t, k) + x] : x \in 1 .. Chunk(j, t, k)}
  BY <1>8 DEF Scanned
<1>11. ToSet(pids) = {pids[x] : x \in 1 .. k}
  BY <1>6, <1>7 DEF ToSet
<1>12. ASSUME NEW j \in 0 .. t - 1, NEW x \in 1 .. Chunk(j, t, k)
       PROVE  Start(j, t, k) + x \in 1 .. k
  <2>1. PICK s, c : s = Start(j, t, k) /\ c = Chunk(j, t, k)
    OBVIOUS
  <2>2. s \in Nat /\ c \in Nat /\ s + c <= k
    BY <1>3, <2>1, SliceWithin
  <2> QED BY <2>1, <2>2
<1>13. Before(m, wk) \subseteq ToSet(pids)
  BY <1>9, <1>10, <1>11, <1>12
<1>14. ASSUME NEW y \in 1 .. k PROVE pids[y] \in Before(m, wk)
  <2>1. PICK j \in 0 .. t - 1 : Start(j, t, k) < y /\ y <= Start(j, t, k) + Chunk(j, t, k)
    BY <1>3, SlicesCover
  <2>2. PICK s, c : s = Start(j, t, k) /\ c = Chunk(j, t, k)
    OBVIOUS
  <2>3. s \in Nat /\ c \in Nat
    BY <1>3, <2>2, SliceWithin
  <2>4. y - s \in 1 .. c /\ s + (y - s) = y
    BY <2>1, <2>2, <2>3
  <2>5. pids[s + (y - s)] \in Scanned(pids, wk[j])
    BY <1>10, <2>2, <2>4
  <2> QED BY <1>9, <2>4, <2>5
<1> QED BY <1>5, <1>11, <1>13, <1>14
----------------------------------------------------------------------------
(* The results are merged *)

\* A worker's result is added to the whole.
AfterMerge(a, m, w) ==
  [m EXCEPT !.i    = m.i + 1,
            !.out  = IF a.stats THEN m.out ELSE m.out \o w.list,
            !.sums = IF ~a.stats THEN m.sums
                     ELSE [count |-> m.sums.count + w.stats.count,
                           total |-> m.sums.total + w.stats.total]]

\* One round of the merge: the next worker's slice shares nothing with the slices before.
LEMMA MergeGood ==
  ASSUME NEW ms, NEW a, NEW m, NEW wk, Good(ms, a, m, wk), m.pc = "merge", m.i \in DOMAIN wk,
         NoneFailed(wk)
  PROVE  Good(ms, a, AfterMerge(a, m, wk[m.i]), wk)
<1>1. m.pc \in Ran
  BY DEF Ran
<1>2. PICK t, i : t = Threads(a, m.pids) /\ i = m.i
  OBVIOUS
<1>3. /\ m \in MainType /\ i \in Nat /\ t \in Nat \ {0} /\ DOMAIN wk = 0 .. t - 1
      /\ i \in DOMAIN wk /\ \A k \in Nat : k <= t => k \in WorkerIds
  BY <1>1, <1>2, MainAt
<1>4. i + 1 \in WorkerIds /\ i + 1 <= t
  <2>1. i + 1 \in Nat /\ i + 1 <= t
    BY <1>3
  <2> QED BY <1>3, <2>1
<1>5. PICK w : w = wk[i]
  OBVIOUS
<1>6. w \in Worker /\ WorkerOK(a, ms, m.pids, w)
  BY <1>1, <1>3, <1>5, InRan
<1>7. PICK l \in Seq(Entry), s \in Sums, wl \in Seq(Entry), ws \in Sums :
        l = m.out /\ s = m.sums /\ wl = w.list /\ ws = w.stats
  BY <1>3, <1>6 DEF Worker, MainType, Sums
<1> DEFINE ls == IF a.stats THEN l ELSE l \o wl
           ss == IF ~a.stats THEN s
                 ELSE [count |-> s.count + ws.count, total |-> s.total + ws.total]
<1>8. ls \in Seq(Entry)
  OBVIOUS
<1>9. ss \in Sums
  BY DEF Sums
<1>10. AfterMerge(a, m, w) = [m EXCEPT !.i = i + 1, !.out = ls, !.sums = ss]
  BY <1>2, <1>7 DEF AfterMerge
<1> HIDE DEF ls, ss
<1> DEFINE n == AfterMerge(a, m, w)
<1>11. /\ n \in MainType /\ n.pc = "merge" /\ n.i = i + 1 /\ n.pids = m.pids /\ n.out = ls
       /\ n.sums = ss /\ n.rc = m.rc /\ n.spawned = m.spawned
  BY <1>3, <1>4, <1>8, <1>9, <1>10 DEF MainType
<1> HIDE DEF n
<1>12. Typed(n, wk) /\ Shape(a, n, wk) /\ Cut(ms, a, n, wk)
  BY <1>11 DEF Good, Typed, Shape, Cut
<1>13. Started(a, n, wk)
  <2>1. n.i <= Threads(a, n.pids)
    BY <1>2, <1>3, <1>4, <1>11
  <2> QED BY <2>1, <1>11 DEF Good, Started
<1>14. Held(a, ms, Before(n, wk), n.out, n.sums)
  <2>1. PICK ps, qs : ps = Before(m, wk) /\ qs = Scanned(m.pids, w)
    OBVIOUS
  <2>2. ps \subseteq Procs /\ qs \subseteq Procs /\ ps \cap qs = {} /\ Before(n, wk) = ps \cup qs
    BY <1>2, <1>3, <1>5, <1>11, <2>1, BeforeNext
  <2>3. Held(a, ms, ps, l, s)
    BY <1>7, <2>1 DEF Good, Merging
  <2>4. Held(a, ms, qs, wl, ws)
    BY <1>6, <1>7, <2>1 DEF WorkerOK
  <2>5. a \in Args
    BY DEF Good, Shape
  <2>6. Held(a, ms, ps \cup qs, ls, ss)
    BY <2>2, <2>3, <2>4, <2>5, HeldBoth DEF ls, ss
  <2> QED BY <1>11, <2>2, <2>6
<1>15. Merging(ms, a, n, wk) /\ Finished(ms, a, n, wk)
  BY <1>11, <1>14 DEF Merging, Finished
<1>16. Good(ms, a, n, wk)
  BY <1>12, <1>13, <1>15 DEF Good
<1> QED BY <1>2, <1>5, <1>16 DEF n

\* Merge.
LEMMA MergeKeeps ==
  ASSUME IInv, Merge
  PROVE  IInv'
<1>1. main.pc = "merge" /\ main.i \in DOMAIN work /\ UNCHANGED <<alive, missed, arg, work>>
      /\ NoneFailed(work)
  BY DEF Merge, At, Failed, NoneFailed
<1>2. main' = AfterMerge(arg, main, work[main.i])
  BY DEF Merge, AfterMerge
<1>3. Good(missed, arg, AfterMerge(arg, main, work[main.i]), work)
  BY <1>1, MergeGood DEF IInv
<1> QED BY <1>1, <1>2, <1>3 DEF IInv

\* run_parallel_scan returns, the workers' lists freed.
LEMMA ReturnGood ==
  ASSUME NEW ms, NEW a, NEW m, NEW wk, Good(ms, a, m, wk), m.pc = "merge",
         NEW out \in Seq(Entry), NEW rc \in {"ok", "error"},
         rc = "error" => out = << >>,
         rc = "ok" => /\ NoneFailed(wk) /\ Descends(out)
                      /\ Held(a, ms, ToSet(m.pids), out, m.sums),
         NEW xk, xk = [i \in DOMAIN wk |-> [wk[i] EXCEPT !.list = << >>]]
  PROVE  Good(ms, a, Return([m EXCEPT !.out = out], rc), xk)
<1> DEFINE n == Return([m EXCEPT !.out = out], rc)
<1>1. m \in MainType /\ a.only = 0 /\ m.spawned \subseteq DOMAIN wk
  BY DEF Good, Typed, Shape, Ran
<1>2. /\ n \in MainType /\ n.pc = "done" /\ n.rc = rc /\ n.out = out /\ n.sums = m.sums
      /\ n.pids = m.pids /\ n.spawned = m.spawned /\ n.i = m.i
  BY <1>1 DEF MainType, Return
<1> HIDE DEF n
<1>3. DOMAIN xk = DOMAIN wk
  OBVIOUS
<1>4. ASSUME NEW i \in DOMAIN wk
      PROVE  /\ xk[i] \in Worker /\ i \in WorkerIds /\ i < Slots(m.pids) /\ xk[i].list = << >>
             /\ xk[i].st = "done" /\ xk[i].failed = wk[i].failed
  <2>1. wk[i] \in Worker /\ i \in WorkerIds /\ i < Slots(m.pids) /\ wk[i].st = "done"
    BY DEF Good, Typed, Started
  <2>2. << >> \in Seq(Entry)
    OBVIOUS
  <2>3. xk[i] = [wk[i] EXCEPT !.list = << >>]
    OBVIOUS
  <2> QED BY <2>1, <2>2, <2>3 DEF Worker
<1>5. Typed(n, xk)
  BY <1>2, <1>3, <1>4 DEF Good, Typed
<1>6. Shape(a, n, xk)
  BY <1>1, <1>2, <1>3 DEF Good, Shape, Ran
<1>7. Cut(ms, a, n, xk) /\ Merging(ms, a, n, xk)
  BY <1>2 DEF Cut, Merging, Ran
<1>8. Started(a, n, xk)
  BY <1>2, <1>3, <1>4 DEF Started
<1>9. Finished(ms, a, n, xk)
  <2>1. rc = "ok" => NoneFailed(xk)
    BY <1>3, <1>4 DEF NoneFailed
  <2> QED BY <1>1, <1>2, <1>3, <1>4, <2>1 DEF Finished
<1> QED BY <1>5, <1>6, <1>7, <1>8, <1>9 DEF Good, n

\* MergeFail.
LEMMA MergeFailKeeps ==
  ASSUME IInv, MergeFail
  PROVE  IInv'
<1>1. main.pc = "merge" /\ UNCHANGED <<alive, missed, arg>>
  BY DEF MergeFail, At
<1>2. main' = Return([main EXCEPT !.out = << >>], "error")
  BY DEF MergeFail
<1>3. work' = [i \in DOMAIN work |-> [work[i] EXCEPT !.list = << >>]]
  BY DEF MergeFail, FreeLists
<1>4. PICK out \in Seq(Entry) : out = << >>
  <2>1. << >> \in Seq(Entry)
    OBVIOUS
  <2> QED BY <2>1
<1>5. Good(missed, arg, Return([main EXCEPT !.out = out], "error"), work')
  BY <1>1, <1>3, <1>4, ReturnGood DEF IInv
<1> QED BY <1>1, <1>2, <1>4, <1>5 DEF IInv

\* MergeDone.
LEMMA MergeDoneKeeps ==
  ASSUME IInv, MergeDone
  PROVE  IInv'
<1>1. main.pc = "merge" /\ UNCHANGED <<alive, missed, arg>> /\ main.i \notin DOMAIN work
      /\ NoneFailed(work)
  BY DEF MergeDone, At, Failed, NoneFailed
<1>2. PICK sorted \in Qsort(main.out) : main' = Return([main EXCEPT !.out = sorted], "ok")
  BY DEF MergeDone
<1>3. work' = [i \in DOMAIN work |-> [work[i] EXCEPT !.list = << >>]]
  BY DEF MergeDone, FreeLists
<1>4. main.out \in Seq(Entry)
  BY DEF IInv, Good, Typed, MainType
<1>5. sorted \in Seq(Entry) /\ Descends(sorted)
  BY <1>4, QsortIs DEF Descends, cmp_by_size_desc
<1>6. Held(arg, missed, ToSet(main.pids), main.out, main.sums)
  <2>1. Before(main, work) = ToSet(main.pids)
    BY <1>1, BeforeAll DEF IInv
  <2> QED BY <1>1, <2>1 DEF IInv, Good, Merging
<1>7. Held(arg, missed, ToSet(main.pids), sorted, main.sums)
  BY <1>4, <1>6, HeldSorted
<1>8. Good(missed, arg, Return([main EXCEPT !.out = sorted], "ok"), work')
  BY <1>1, <1>3, <1>5, <1>7, ReturnGood DEF IInv
<1> QED BY <1>1, <1>2, <1>8 DEF IInv

\* Every step keeps the invariant.
LEMMA Invariance == Spec => []IInv
<1>1. Init => IInv
  BY InitGood
<1>2. IInv /\ [Next]_vars => IInv'
  <2> SUFFICES ASSUME IInv, [Next]_vars PROVE IInv'
    OBVIOUS
  <2>1. CASE ScanOnly BY <2>1, ScanOnlyKeeps
  <2>2. CASE Gather BY <2>2, GatherKeeps
  <2>3. CASE Split BY <2>3, SplitKeeps
  <2>4. CASE Spawn BY <2>4, SpawnKeeps
  <2>5. CASE InlineDone BY <2>5, InlineDoneKeeps
  <2>6. CASE Own BY <2>6, OwnKeeps
  <2>7. CASE OwnDone BY <2>7, OwnDoneKeeps
  <2>8. CASE Join BY <2>8, JoinKeeps
  <2>9. CASE Merge BY <2>9, MergeKeeps
  <2>10. CASE MergeFail BY <2>10, MergeFailKeeps
  <2>11. CASE MergeDone BY <2>11, MergeDoneKeeps
  <2>12. ASSUME NEW i \in DOMAIN work, WorkerStep(i) PROVE IInv'
    BY <2>12, ScanKeeps, WorkerFailKeeps, WorkerDoneKeeps DEF WorkerStep
  <2>13. ASSUME NEW p \in Procs, Exit(p) PROVE IInv'
    BY <2>13, ExitKeeps
  <2>14. CASE UNCHANGED vars
    BY <2>14 DEF vars, IInv
  <2> QED BY <2>1, <2>2, <2>3, <2>4, <2>5, <2>6, <2>7, <2>8, <2>9, <2>10, <2>11, <2>12, <2>13,
             <2>14 DEF Next, MainStep
<1> QED BY <1>1, <1>2, PTL DEF Spec

----------------------------------------------------------------------------
\* The types hold, for any processes, files, limits and thread counts: pick_thread_count
\* never gives more workers than listed processes, and one when none is listed.
THEOREM ScanTypeOK == Spec => []TypeOK
<1>1. IInv => TypeOK
  BY DEF IInv, Good, Typed, TypeOK, MainType, Sums
<1> QED BY <1>1, Invariance, PTL

\* A full scan in which one worker failed returns an error with an empty list, and when it
\* returns no worker's list is left allocated, whichever worker failed and however the
\* threads were started.
THEOREM ScanNoPartialResult == Spec => []NoPartialResult
<1>1. IInv => NoPartialResult
  <2> SUFFICES ASSUME IInv, main.pc = "done", arg.only = 0
               PROVE  /\ \A i \in DOMAIN work : work[i].list = << >>
                      /\ (\E i \in DOMAIN work : work[i].failed)
                            => main.rc = "error" /\ main.out = << >>
    BY DEF NoPartialResult, At
  <2> QED BY DEF IInv, Good, Finished, NoneFailed
<1> QED BY <1>1, Invariance, PTL

\* The properties' Expected is Wanted.
LEMMA ExpectedIs == ASSUME NEW ps PROVE Expected(ps) = Wanted(arg, ps)
BY DEF Expected, Wanted, Kept, KeptBy

\* What a scan that succeeded has found.
LEMMA Found ==
  ASSUME IInv, Succeeded
  PROVE  /\ arg \in Args /\ Listed \subseteq Procs /\ Descends(main.out)
         /\ \E E \in SUBSET Expected(Listed) :
              /\ Expected(Listed) \ missed \subseteq E
              /\ Gathered(arg.stats, E, main.out, main.sums)
<1>1. main.pc = "done" /\ main.rc = "ok"
  BY DEF Succeeded, At
<1>2. arg \in Args /\ main.pids \in Seq(Procs)
  BY DEF IInv, Good, Typed, Shape, MainType
<1>3. Listed \subseteq Procs
  <2>1. CASE arg.only # 0
    BY <1>2, <2>1 DEF Listed, Args
  <2>2. CASE arg.only = 0
    BY <1>2, <2>2 DEF Listed, ToSet
  <2> QED BY <2>1, <2>2
<1>4. Held(arg, missed, Listed, main.out, main.sums) /\ Descends(main.out)
  BY <1>1 DEF IInv, Good, Finished, Listed
<1> QED BY <1>2, <1>3, <1>4, ExpectedIs DEF Held

\* hsed_scan that succeeds has every matching fd of the listed processes but those that
\* scan_one_pid passed over exactly once, nothing that does not match, the largest first:
\* slicing, threads that do not start, joining and merging lose and repeat nothing, for any
\* number of processes and slices and any order in which readdir and qsort leave equal sizes.
THEOREM ScanIsExact == Spec => []ScanExact
<1>1. IInv => ScanExact
  <2> SUFFICES ASSUME IInv, Succeeded, ~arg.stats
               PROVE  /\ IsInjective(main.out)
                      /\ ToSet(main.out) \subseteq Expected(Listed)
                      /\ Expected(Listed) \ missed \subseteq ToSet(main.out)
                      /\ \A i, j \in DOMAIN main.out :
                           i < j => main.out[i].size >= main.out[j].size
    BY DEF ScanExact
  <2> QED BY Found DEF Gathered, Descends
<1> QED BY <1>1, Invariance, PTL

\* Likewise the sums of hsed_scan_stats count every such fd once.
THEOREM StatsAreExact == Spec => []StatsExact
<1>1. IInv => StatsExact
  <2> SUFFICES ASSUME IInv, Succeeded, arg.stats PROVE StatsExact
    BY DEF StatsExact
  <2>1. PICK least, most : least = Expected(Listed) \ missed /\ most = Expected(Listed)
    OBVIOUS
  <2>2. PICK E \in SUBSET most : least \subseteq E /\ Gathered(arg.stats, E, main.out, main.sums)
    BY <2>1, Found
  <2>3. main.sums.count = Cardinality(E) /\ main.sums.total = Total(E)
    BY <2>2 DEF Gathered
  <2>4. most \subseteq Sized /\ IsFiniteSet(most)
    BY <2>1, Found, ExpectedIs, WantedIs
  <2>5. /\ IsFiniteSet(E) /\ Cardinality(least) <= Cardinality(E)
        /\ Cardinality(E) <= Cardinality(most)
    BY <2>2, <2>4, FS_Subset
  <2>6. Total(least) <= Total(E) /\ Total(E) <= Total(most)
    BY <2>2, <2>4, <2>5, TotalMonotone
  <2> QED BY <2>1, <2>3, <2>5, <2>6 DEF StatsExact
<1> QED BY <1>1, Invariance, PTL
=============================================================================
