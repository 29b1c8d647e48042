----------------------------- MODULE DataLemmas -----------------------------
(***************************************************************************)
(* Facts about data that several proofs need: induction over the numbers,  *)
(* stated with a set in place of a predicate, and loops; and bags of       *)
(* messages in flight, what is left when some are delivered and others are *)
(* sent.                                                                   *)
(***************************************************************************)
EXTENDS Mailbox, TLAPS, FiniteSetTheorems, WellFoundedInduction

\* A set of numbers has a least element: the intervals 0 .. n are finite sets, ordered by
\* strict inclusion, which is well founded.
LEMMA Least ==
  ASSUME NEW T, T \subseteq Nat, T # {}
  PROVE  \E x \in T : \A y \in T : x <= y
<1> DEFINE U == {0 .. n : n \in T}
<1>1. IsWellFoundedOn(StrictSubsetOrdering(Nat), FiniteSubsetsOf(Nat))
  BY FS_StrictSubsetOrderingWellFounded
<1>2. U \subseteq FiniteSubsetsOf(Nat)
  <2> SUFFICES ASSUME NEW n \in T PROVE 0 .. n \in FiniteSubsetsOf(Nat)
    OBVIOUS
  <2>1. IsFiniteSet(0 .. n)
    BY FS_Interval
  <2> QED BY <2>1 DEF FiniteSubsetsOf
<1>3. U # {}
  OBVIOUS
<1> HIDE DEF U
<1>4. PICK u \in U : \A y \in U : ~ (<<y, u>> \in StrictSubsetOrdering(Nat))
  BY <1>1, <1>2, <1>3, WFMin
<1>5. PICK x \in T : u = 0 .. x
  BY DEF U
<1>6. ASSUME NEW y \in T PROVE x <= y
  <2>1. 0 .. y \in U
    BY DEF U
  <2>2. ~ (<<0 .. y, 0 .. x>> \in StrictSubsetOrdering(Nat))
    BY <2>1, <1>4, <1>5
  <2>3. ASSUME y < x PROVE FALSE
    <3>1. 0 .. y \subseteq 0 .. x
      BY <2>3
    <3>2. x \in 0 .. x /\ x \notin 0 .. y
      BY <2>3
    <3>3. 0 .. x \subseteq Nat /\ 0 .. y \subseteq Nat
      OBVIOUS
    <3> QED BY <3>1, <3>2, <3>3, <2>2 DEF StrictSubsetOrdering
  <2> QED BY <2>3
<1> QED BY <1>6

\* So a set with 0 and with every successor has all numbers.
LEMMA Induct ==
  ASSUME NEW G, 0 \in G, \A n \in Nat : n \in G => n + 1 \in G
  PROVE  Nat \subseteq G
<1> SUFFICES ASSUME Nat \ G # {} PROVE FALSE
  OBVIOUS
<1>1. PICK x \in Nat \ G : \A y \in Nat \ G : x <= y
  BY Least, Nat \ G \subseteq Nat
<1>2. x - 1 \in Nat /\ x - 1 \notin Nat \ G
  BY <1>1
<1> QED BY <1>1, <1>2

\* A loop of n rounds, each of which takes a value of X to another, has a value after
\* every round.
IsLoop(step, X, n) == step \in [1 .. n -> [X -> X]]
Iterated(f, step, X, n, x) ==
  f \in [0 .. n -> X] /\ f[0] = x /\ \A i \in 1 .. n : f[i] = step[i][f[i - 1]]

LEMMA Iterates ==
  ASSUME NEW X, NEW n \in Nat, NEW x \in X, NEW step, IsLoop(step, X, n)
  PROVE  \E f : Iterated(f, step, X, n, x)
<1> USE DEF IsLoop
<1> DEFINE Runs(f, m) == f[0] = x /\ \A i \in 1 .. m : f[i] = step[i][f[i - 1]]
           G == {m \in Nat : m <= n => \E f \in [0 .. m -> X] : Runs(f, m)}
<1>1. 0 \in G
  <2> DEFINE f == [i \in 0 .. 0 |-> x]
  <2>1. f \in [0 .. 0 -> X] /\ Runs(f, 0)
    OBVIOUS
  <2> QED BY <2>1
<1>2. ASSUME NEW m \in Nat, m \in G PROVE m + 1 \in G
  <2> SUFFICES ASSUME m + 1 <= n PROVE \E f \in [0 .. m + 1 -> X] : Runs(f, m + 1)
    OBVIOUS
  <2>1. PICK f \in [0 .. m -> X] : Runs(f, m)
    BY <1>2
  <2> DEFINE g == [i \in 0 .. m + 1 |-> IF i = m + 1 THEN step[m + 1][f[m]] ELSE f[i]]
  <2>2. step[m + 1][f[m]] \in X
    <3>1. m + 1 \in 1 .. n /\ f[m] \in X
      OBVIOUS
    <3> QED BY <3>1
  <2>3. \A i \in 0 .. m : i \in 0 .. m + 1 /\ g[i] = f[i]
    OBVIOUS
  <2>4. g \in [0 .. m + 1 -> X]
    BY <2>2
  <2>5. g[0] = x
    BY <2>1, <2>3
  <2>6. ASSUME NEW i \in 1 .. m + 1 PROVE g[i] = step[i][g[i - 1]]
    <3>1. i - 1 \in 0 .. m /\ g[i - 1] = f[i - 1]
      BY <2>3
    <3>2. CASE i = m + 1
      <4>1. g[i] = step[m + 1][f[m]]
        BY <3>2
      <4> QED BY <3>1, <3>2, <4>1
    <3>3. CASE i # m + 1
      <4>1. i \in 1 .. m /\ i \in 0 .. m
        BY <3>3
      <4>2. g[i] = f[i] /\ f[i] = step[i][f[i - 1]]
        BY <2>1, <2>3, <4>1
      <4> QED BY <3>1, <4>2
    <3> QED BY <3>2, <3>3
  <2> QED BY <2>4, <2>5, <2>6
<1> HIDE DEF G
<1>3. n \in G
  BY <1>1, <1>2, Induct
<1>4. PICK f \in [0 .. n -> X] : Runs(f, n)
  BY <1>3 DEF G
<1>5. Iterated(f, step, X, n, x)
  BY <1>4 DEF Iterated
<1> QED BY <1>5

----------------------------------------------------------------------------
(* Bags *)

LEMMA CopiesType ==
  ASSUME NEW B, IsABag(B), NEW e
  PROVE  Copies(e, B) \in Nat /\ (Copies(e, B) > 0 <=> e \in BagToSet(B))
BY DEF IsABag, Copies, BagIn, BagToSet

LEMMA RemovedCopies ==
  ASSUME NEW B, IsABag(B), NEW done
  PROVE  LET C == B (-) SetToBag(done)
         IN  /\ IsABag(C)
             /\ \A e : Copies(e, C) = IF e \in done /\ e \in DOMAIN B THEN Copies(e, B) - 1
                                      ELSE Copies(e, B)
<1> DEFINE A == [e \in DOMAIN B |-> IF e \in done THEN B[e] - 1 ELSE B[e]]
           S == {d \in DOMAIN B : A[d] > 0}
           C == [e \in S |-> A[e]]
<1>1. B (-) SetToBag(done) = C
  <2>1. DOMAIN SetToBag(done) = done /\ \A e \in done : SetToBag(done)[e] = 1
    BY DEF SetToBag
  <2>2. A = [e \in DOMAIN B |-> IF e \in DOMAIN SetToBag(done) THEN B[e] - SetToBag(done)[e]
                                ELSE B[e]]
    BY <2>1
  <2>3. S = {d \in DOMAIN A : A[d] > 0}
    OBVIOUS
  <2> QED
    BY <2>2, <2>3 DEF (-)
<1>2. \A e \in DOMAIN B : B[e] \in Nat /\ B[e] > 0
  BY DEF IsABag
<1>3. DOMAIN C = S /\ \A e \in S : C[e] = A[e]
  OBVIOUS
<1>4. \A e \in S : A[e] \in {n \in Nat : n > 0}
  BY <1>2
<1>5. IsABag(C)
  BY <1>3, <1>4 DEF IsABag
<1>6. ASSUME NEW e
      PROVE  Copies(e, C) = IF e \in done /\ e \in DOMAIN B THEN Copies(e, B) - 1
                            ELSE Copies(e, B)
  <2>1. CASE e \notin DOMAIN B
    BY <2>1, <1>3 DEF Copies, BagIn, BagToSet
  <2>2. CASE e \in S
    BY <2>2, <1>3 DEF Copies, BagIn, BagToSet
  <2>3. CASE e \in DOMAIN B /\ e \notin S
    <3>1. A[e] = 0 /\ e \in done
      BY <1>2, <2>3
    <3> QED
      BY <2>3, <3>1, <1>3, <1>2 DEF Copies, BagIn, BagToSet
  <2> QED BY <2>1, <2>2, <2>3
<1> QED
  BY <1>1, <1>5, <1>6

LEMMA AddedCopies ==
  ASSUME NEW B, IsABag(B), NEW new
  PROVE  LET C == B (+) SetToBag(new)
         IN  /\ IsABag(C)
             /\ \A e : Copies(e, C) = IF e \in new THEN Copies(e, B) + 1 ELSE Copies(e, B)
<1> DEFINE C == [e \in DOMAIN B \cup new |->
                   (IF e \in DOMAIN B THEN B[e] ELSE 0) + (IF e \in new THEN 1 ELSE 0)]
<1>1. B (+) SetToBag(new) = C
  <2>1. DOMAIN SetToBag(new) = new /\ \A e \in new : SetToBag(new)[e] = 1
    BY DEF SetToBag
  <2>2. C = [e \in DOMAIN B \cup DOMAIN SetToBag(new) |->
               (IF e \in DOMAIN B THEN B[e] ELSE 0)
                 + (IF e \in DOMAIN SetToBag(new) THEN SetToBag(new)[e] ELSE 0)]
    BY <2>1
  <2> QED
    BY <2>2 DEF (+)
<1>2. \A e \in DOMAIN B : B[e] \in Nat /\ B[e] > 0
  BY DEF IsABag
<1>3. DOMAIN C = DOMAIN B \cup new
  OBVIOUS
<1>4. \A e \in DOMAIN C : C[e] \in {n \in Nat : n > 0}
  BY <1>2
<1>5. IsABag(C)
  BY <1>3, <1>4 DEF IsABag
<1>6. \A e : Copies(e, C) = IF e \in new THEN Copies(e, B) + 1 ELSE Copies(e, B)
  BY <1>2, <1>3 DEF Copies, BagIn, BagToSet
<1> QED
  BY <1>1, <1>5, <1>6

\* The bag after a delivery.
LEMMA ExchangedCopies ==
  ASSUME NEW B, IsABag(B), NEW done, NEW new
  PROVE  LET C == Exchanged(B, done, new)
         IN  /\ IsABag(C)
             /\ \A e : Copies(e, C) =
                  (IF e \in done /\ e \in DOMAIN B THEN Copies(e, B) - 1 ELSE Copies(e, B))
                    + (IF e \in new THEN 1 ELSE 0)
<1> DEFINE R == B (-) SetToBag(done)
           C == R (+) SetToBag(new)
<1>1. /\ IsABag(R)
      /\ \A e : Copies(e, R) = IF e \in done /\ e \in DOMAIN B THEN Copies(e, B) - 1
                               ELSE Copies(e, B)
  BY RemovedCopies
<1> HIDE DEF R
<1>2. /\ IsABag(C)
      /\ \A e : Copies(e, C) = IF e \in new THEN Copies(e, R) + 1 ELSE Copies(e, R)
  BY <1>1, AddedCopies
<1>3. \A e : Copies(e, B) \in Nat
  BY CopiesType
<1> HIDE DEF C
<1>4. \A e : Copies(e, C) =
               (IF e \in done /\ e \in DOMAIN B THEN Copies(e, B) - 1 ELSE Copies(e, B))
                 + (IF e \in new THEN 1 ELSE 0)
  BY <1>1, <1>2, <1>3
<1> QED
  BY <1>2, <1>4 DEF Exchanged, C, R

\* The messages in flight after a delivery.
LEMMA ExchangedSet ==
  ASSUME NEW B, IsABag(B), NEW done, NEW new
  PROVE  LET C == Exchanged(B, done, new)
         IN  /\ BagToSet(C) \subseteq BagToSet(B) \cup new
             /\ new \cup (BagToSet(B) \ done) \subseteq BagToSet(C)
<1> DEFINE C == Exchanged(B, done, new)
<1>1. /\ IsABag(C)
      /\ \A e : Copies(e, C) =
           (IF e \in done /\ e \in DOMAIN B THEN Copies(e, B) - 1 ELSE Copies(e, B))
             + (IF e \in new THEN 1 ELSE 0)
  BY ExchangedCopies
<1> HIDE DEF C
<1>2. \A e : /\ Copies(e, B) \in Nat /\ (Copies(e, B) > 0 <=> e \in BagToSet(B))
             /\ Copies(e, C) > 0 <=> e \in BagToSet(C)
  BY <1>1, CopiesType
<1>3. ASSUME NEW e \in BagToSet(C)
      PROVE  e \in BagToSet(B) \cup new
  <2>1. Copies(e, B) > 0 \/ e \in new
    BY <1>1, <1>2
  <2> QED BY <1>2, <2>1
<1>4. ASSUME NEW e, e \in new \/ (e \in BagToSet(B) /\ e \notin done)
      PROVE  e \in BagToSet(C)
  <2>1. Copies(e, C) > 0
    BY <1>1, <1>2, <1>4 DEF BagToSet
  <2> QED BY <1>2, <2>1
<1> QED
  BY <1>3, <1>4 DEF C
=============================================================================
