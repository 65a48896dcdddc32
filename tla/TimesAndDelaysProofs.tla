------------------------ MODULE TimesAndDelaysProofs ------------------------
(***************************************************************************)
(* Lemmas about TimesAndDelays: what the pruned list of times keeps of the *)
(* list it is made from, and how a delay doubles.  Both are defined by     *)
(* recursion on a number, so each is preceded by the fact that its         *)
(* equations have a solution.                                              *)
(***************************************************************************)
EXTENDS TimesAndDelays, FiniteSetTheorems, SequenceTheorems, WellFoundedInduction, TLAPS

\* A set of naturals that is not empty has a least element.
LEMMA LeastNatural ==
  ASSUME NEW S \in SUBSET Nat, S # {}
  PROVE  \E n \in S : \A m \in S : n <= m
<1> DEFINE R == OpToRel(<, Nat)
<1>1. \A m, n \in Nat : m < n => <<m, n>> \in R
  BY DEF OpToRel
<1>2. IsWellFoundedOn(R, Nat)
  BY NatLessThanWellFounded
<1> HIDE DEF R
<1>3. \E n \in S : \A m \in S : ~(<<m, n>> \in R)
  BY <1>2, WFMin
<1>4. \A m, n \in S : ~(<<m, n>> \in R) => n <= m
  <2> TAKE m, n \in S
  <2>1. m \in Nat /\ n \in Nat
    OBVIOUS
  <2> QED
    BY <2>1, <1>1
<1> QED
  BY <1>3, <1>4, Zenon

\* g[k] is made from g[k-1] by F, from b on, up to n.
Iterates(g, D, F, b, n) ==
    g \in [0 .. n -> D] /\ g[0] = b /\ \A k \in 1 .. n : g[k] = F[<<g[k-1], k>>]

LEMMA IterationExists ==
  ASSUME NEW D, NEW b \in D, NEW N \in Nat, NEW F \in [D \X (1 .. N) -> D]
  PROVE  \E g : Iterates(g, D, F, b, N)
<1> DEFINE S == {n \in Nat : n <= N /\ ~ \E g : Iterates(g, D, F, b, n)}
<1> SUFFICES ASSUME S # {} PROVE FALSE
  OBVIOUS
<1>1. PICK n \in S : \A m \in S : n <= m
  BY LeastNatural
<1>2. n \in Nat /\ n <= N
  OBVIOUS
<1>3. n # 0
  <2> DEFINE g == [k \in 0 .. 0 |-> b]
  <2>1. Iterates(g, D, F, b, 0)
    BY DEF Iterates
  <2> QED
    BY <2>1
<1>4. n - 1 \in Nat /\ n - 1 <= N /\ ~(n <= n - 1)
  BY <1>2, <1>3
<1>5. PICK h : Iterates(h, D, F, b, n - 1)
  BY <1>1, <1>4
<1> DEFINE g == [k \in 0 .. n |-> IF k = n THEN F[<<h[n-1], n>>] ELSE h[k]]
<1>6. h[n-1] \in D /\ n \in 1 .. N
  BY <1>2, <1>3, <1>5 DEF Iterates
<1>7. F[<<h[n-1], n>>] \in D
  BY <1>6
<1>8. g \in [0 .. n -> D] /\ g[n] = F[<<h[n-1], n>>] /\ \A k \in 0 .. n - 1 : g[k] = h[k]
  BY <1>2, <1>3, <1>5, <1>7 DEF Iterates
<1> HIDE DEF g
<1>9. ASSUME NEW k \in 1 .. n PROVE g[k] = F[<<g[k-1], k>>]
  <2>1. CASE k = n
    <3>1. n - 1 \in 0 .. n - 1 /\ k - 1 = n - 1
      BY <1>2, <1>3, <2>1
    <3>2. g[n-1] = h[n-1]
      BY <1>8, <3>1
    <3> QED
      BY <1>8, <2>1, <3>1, <3>2
  <2>2. CASE k # n
    <3>1. k \in 1 .. n - 1 /\ k \in 0 .. n - 1 /\ k - 1 \in 0 .. n - 1
      BY <1>2, <2>2
    <3>2. h[k] = F[<<h[k-1], k>>]
      BY <1>5, <3>1 DEF Iterates
    <3> QED
      BY <1>8, <3>1, <3>2
  <2> QED
    BY <2>1, <2>2
<1>10. g[0] = b
  BY <1>4, <1>5, <1>8 DEF Iterates
<1>11. Iterates(g, D, F, b, n)
  BY <1>8, <1>9, <1>10 DEF Iterates
<1> QED
  BY <1>11

-----------------------------------------------------------------------------
(* Times.  Since(times, c) are the places of the times after c. *)

Since(times, c) == {i \in 1 .. Len(times) : times[i] > c}

LEMMA SinceFinite ==
  ASSUME NEW Time \in SUBSET Int, NEW s \in Seq(Time), NEW c \in Int
  PROVE  /\ IsFiniteSet(Since(s, c)) /\ Cardinality(Since(s, c)) \in Nat
         /\ Cardinality(Since(s, c)) <= Len(s)
<1>1. Len(s) \in Nat
  OBVIOUS
<1>2. IsFiniteSet(1 .. Len(s)) /\ Cardinality(1 .. Len(s)) = Len(s)
  BY <1>1, FS_Interval
<1>3. Since(s, c) \subseteq 1 .. Len(s)
  BY DEF Since
<1>4. IsFiniteSet(Since(s, c)) /\ Cardinality(Since(s, c)) <= Cardinality(1 .. Len(s))
  BY <1>2, <1>3, FS_Subset
<1> QED
  BY <1>2, <1>4, FS_CardinalityType

\* One time more.
LEMMA SinceAppend ==
  ASSUME NEW Time \in SUBSET Int, NEW s \in Seq(Time), NEW t \in Time, NEW c \in Int
  PROVE  Cardinality(Since(Append(s, t), c))
           = Cardinality(Since(s, c)) + (IF t > c THEN 1 ELSE 0)
<1> DEFINE a == Append(s, t)
           n == Len(s) + 1
<1>1. /\ Len(s) \in Nat /\ Len(a) = n /\ a[n] = t /\ \A i \in 1 .. Len(s) : a[i] = s[i]
      /\ 1 .. n = (1 .. Len(s)) \cup {n} /\ n \notin 1 .. Len(s)
  OBVIOUS
<1> HIDE DEF a, n
<1>2. Since(a, c) = IF t > c THEN Since(s, c) \cup {n} ELSE Since(s, c)
  BY <1>1 DEF Since
<1>3. n \notin Since(s, c)
  BY <1>1 DEF Since
<1>4. Cardinality(Since(s, c) \cup {n}) = Cardinality(Since(s, c)) + 1
  BY <1>3, SinceFinite, FS_AddElement
<1>5. Cardinality(Since(s, c)) \in Nat
  BY SinceFinite
<1> QED
  BY <1>2, <1>4, <1>5 DEF a

LEMMA SinceEmpty == \A c : Cardinality(Since(<<>>, c)) = 0
<1>1. \A c : Since(<<>>, c) = {}
  BY DEF Since
<1> QED
  BY <1>1, FS_EmptySet

\* Of later times there are no more.
LEMMA SinceLater ==
  ASSUME NEW Time \in SUBSET Int, NEW s \in Seq(Time), NEW c \in Int, NEW e \in Int, c <= e
  PROVE  Cardinality(Since(s, e)) <= Cardinality(Since(s, c))
<1>1. Since(s, e) \subseteq Since(s, c)
  <2>1. \A i \in 1 .. Len(s) : s[i] \in Time
    OBVIOUS
  <2>2. \A i \in 1 .. Len(s) : s[i] \in Int
    BY <2>1
  <2> QED
    BY <2>2 DEF Since
<1> QED
  BY <1>1, SinceFinite, FS_Subset

\* What TimesAfter keeps: times after the cutoff only, and of those as many as there were
\* after any later time.
LEMMA TimesAfterKeeps ==
  ASSUME NEW Time \in SUBSET Int, NEW times \in Seq(Time), NEW cutoff \in Int
  PROVE  LET kept == TimesAfter(times, cutoff) IN
         /\ kept \in Seq(Time) /\ Len(kept) <= Len(times)
         /\ Cardinality(Since(kept, cutoff)) = Len(kept)
         /\ \A c \in Int : c >= cutoff =>
               Cardinality(Since(kept, c)) = Cardinality(Since(times, c))
<1> DEFINE N == Len(times)
           D == Seq(Time)
           F == [x \in D \X (1 .. N) |-> IF times[x[2]] > cutoff THEN Append(x[1], times[x[2]]) ELSE x[1]]
           kept[k \in 0 .. N] ==
             IF k = 0 THEN <<>>
             ELSE IF times[k] > cutoff THEN Append(kept[k-1], times[k]) ELSE kept[k-1]
<1>1. N \in Nat /\ cutoff \in Int /\ \A k \in 1 .. N : times[k] \in Time
  OBVIOUS
<1>2. TimesAfter(times, cutoff) = kept[N]
  BY DEF TimesAfter
<1> HIDE DEF D
<1>3. /\ F \in [D \X (1 .. N) -> D]
      /\ \A q \in D, k \in 1 .. N :
            F[<<q, k>>] = IF times[k] > cutoff THEN Append(q, times[k]) ELSE q
  BY <1>1 DEF D
<1> HIDE DEF F
<1>4. <<>> \in D
  BY DEF D
<1>5. PICK g : Iterates(g, D, F, <<>>, N)
  BY <1>1, <1>3, <1>4, IterationExists
<1>6. g = [k \in 0 .. N |-> IF k = 0 THEN <<>>
                           ELSE IF times[k] > cutoff THEN Append(g[k-1], times[k]) ELSE g[k-1]]
  <2>1. \A k \in 1 .. N : g[k] = IF times[k] > cutoff THEN Append(g[k-1], times[k]) ELSE g[k-1]
    <3> SUFFICES ASSUME NEW k \in 1 .. N
                 PROVE  g[k] = IF times[k] > cutoff THEN Append(g[k-1], times[k]) ELSE g[k-1]
      OBVIOUS
    <3>1. k - 1 \in 0 .. N
      BY <1>1
    <3>2. g[k] = F[<<g[k-1], k>>] /\ g[k-1] \in D
      BY <1>5, <3>1 DEF Iterates
    <3> QED
      BY <1>3, <3>2
  <2>2. \A k \in 0 .. N : k # 0 => k \in 1 .. N
    BY <1>1
  <2>3. g = [k \in 0 .. N |-> g[k]] /\ g[0] = <<>>
    BY <1>5 DEF Iterates
  <2> QED
    BY <2>1, <2>2, <2>3, Zenon
<1>7. kept = [k \in 0 .. N |-> IF k = 0 THEN <<>>
                             ELSE IF times[k] > cutoff THEN Append(kept[k-1], times[k]) ELSE kept[k-1]]
  <2> DEFINE Solves(f) == f = [k \in 0 .. N |-> IF k = 0 THEN <<>>
                             ELSE IF times[k] > cutoff THEN Append(f[k-1], times[k]) ELSE f[k-1]]
  <2>1. kept = CHOOSE f : Solves(f)
    OBVIOUS
  <2>2. Solves(g)
    BY <1>6
  <2> HIDE DEF Solves, kept
  <2>3. Solves(kept)
    BY <2>1, <2>2, Zenon
  <2> QED
    BY <2>3 DEF Solves
<1>8. /\ kept[0] = <<>>
      /\ \A k \in 1 .. N :
            kept[k] = IF times[k] > cutoff THEN Append(kept[k-1], times[k]) ELSE kept[k-1]
  <2>1. 0 \in 0 .. N /\ \A k \in 1 .. N : k \in 0 .. N /\ k # 0
    BY <1>1
  <2> HIDE DEF kept
  <2> QED
    BY <1>7, <2>1, Zenon
<1> HIDE DEF kept
\* The places of the first k times after c; what the first k times leave.
<1> DEFINE Early(k, c) == {i \in 1 .. k : times[i] > c}
           P(k) == /\ kept[k] \in Seq(Time) /\ Len(kept[k]) <= k
                   /\ \A i \in 1 .. Len(kept[k]) : kept[k][i] > cutoff
                   /\ \A c \in Int : c >= cutoff =>
                         Cardinality(Since(kept[k], c)) = Cardinality(Early(k, c))
           S == {k \in Nat : k <= N /\ ~P(k)}
<1>9. P(0)
  <2>1. \A c : Early(0, c) = {}
    OBVIOUS
  <2>2. \A c : Cardinality(Since(<<>>, c)) = Cardinality(Early(0, c))
    BY <2>1, SinceEmpty, FS_EmptySet
  <2>3. <<>> \in Seq(Time) /\ Len(<<>>) <= 0 /\ \A i \in 1 .. Len(<<>>) : FALSE
    OBVIOUS
  <2> HIDE DEF Early
  <2> QED
    BY <1>8, <2>2, <2>3, Zenon
<1>10. ASSUME NEW k \in 1 .. N, P(k-1) PROVE P(k)
  <2>1. k - 1 \in Nat /\ k \in Nat /\ (k - 1) + 1 = k /\ times[k] \in Time /\ times[k] \in Int
    <3>1. N \in Nat /\ times[k] \in Time
      BY <1>1
    <3> HIDE DEF N, P
    <3>2. k - 1 \in Nat /\ k \in Nat /\ (k - 1) + 1 = k
      BY <3>1
    <3> QED
      BY <3>1, <3>2
  <2>2. ASSUME NEW c \in Int
        PROVE  Cardinality(Early(k, c))
                 = Cardinality(Early(k-1, c)) + (IF times[k] > c THEN 1 ELSE 0)
    <3>1. 1 .. k = (1 .. k - 1) \cup {k} /\ k \notin 1 .. k - 1
      BY <2>1
    <3>2. /\ Early(k, c) = IF times[k] > c THEN Early(k-1, c) \cup {k} ELSE Early(k-1, c)
          /\ k \notin Early(k-1, c)
      BY <3>1
    <3>3. IsFiniteSet(Early(k-1, c)) /\ Cardinality(Early(k-1, c)) \in Nat
      <4>1. Early(k-1, c) \subseteq 1 .. k - 1
        OBVIOUS
      <4>2. IsFiniteSet(1 .. k - 1)
        BY <2>1, FS_Interval
      <4> HIDE DEF Early
      <4>3. IsFiniteSet(Early(k-1, c))
        BY <4>1, <4>2, FS_Subset
      <4> QED
        BY <4>3, FS_CardinalityType
    <3> HIDE DEF Early
    <3>4. Cardinality(Early(k-1, c) \cup {k}) = Cardinality(Early(k-1, c)) + 1
      BY <3>2, <3>3, FS_AddElement
    <3> QED
      BY <3>2, <3>3, <3>4
  <2> DEFINE q == kept[k-1]
  <2> HIDE DEF Early
  <2>3. /\ q \in Seq(Time) /\ Len(q) <= k - 1 /\ \A i \in 1 .. Len(q) : q[i] > cutoff
        /\ \A c \in Int : c >= cutoff => Cardinality(Since(q, c)) = Cardinality(Early(k-1, c))
    BY <1>10
  <2> HIDE DEF q
  <2>4. CASE times[k] > cutoff
    <3>1. kept[k] = Append(q, times[k])
      BY <1>8, <2>4 DEF q
    <3>2. Append(q, times[k]) \in Seq(Time) /\ Len(Append(q, times[k])) = Len(q) + 1 /\ Len(q) \in Nat
      BY <2>1, <2>3
    <3>3. \A i \in 1 .. Len(q) + 1 : Append(q, times[k])[i] > cutoff
      BY <2>3, <2>4, <3>2
    <3>4. \A c \in Int : c >= cutoff =>
             Cardinality(Since(Append(q, times[k]), c)) = Cardinality(Early(k, c))
      BY <2>1, <2>2, <2>3, SinceAppend
    <3>5. Len(Append(q, times[k])) <= k
      BY <2>1, <2>3, <3>2
    <3> QED
      BY <3>1, <3>2, <3>3, <3>4, <3>5
  <2>5. CASE ~(times[k] > cutoff)
    <3>1. kept[k] = q
      BY <1>8, <2>5 DEF q
    <3>2. \A c \in Int : c >= cutoff => Cardinality(Since(q, c)) = Cardinality(Early(k, c))
      <4> SUFFICES ASSUME NEW c \in Int, c >= cutoff
                   PROVE  Cardinality(Since(q, c)) = Cardinality(Early(k, c))
        OBVIOUS
      <4>1. ~(times[k] > c)
        BY <1>1, <2>1, <2>5
      <4>2. Cardinality(Since(q, c)) \in Nat /\ Cardinality(Since(q, c)) = Cardinality(Early(k-1, c))
        BY <2>3, SinceFinite
      <4> QED
        BY <2>2, <4>1, <4>2
    <3>3. Len(q) <= k
      BY <2>1, <2>3
    <3> QED
      BY <2>3, <3>1, <3>2, <3>3
  <2> QED
    BY <2>4, <2>5
<1> HIDE DEF P
<1>11. S = {}
  <2> SUFFICES ASSUME S # {} PROVE FALSE
    OBVIOUS
  <2>1. PICK k \in S : \A m \in S : k <= m
    BY LeastNatural
  <2>2. k \in Nat /\ k <= N /\ ~P(k)
    OBVIOUS
  <2>3. k # 0
    BY <1>9, <2>2
  <2>4. k \in 1 .. N /\ k - 1 \in Nat /\ k - 1 <= N /\ ~(k <= k - 1)
    BY <1>1, <2>2, <2>3
  <2>5. P(k-1)
    BY <2>1, <2>4
  <2> QED
    BY <1>10, <2>2, <2>4, <2>5
<1>12. P(N)
  BY <1>1, <1>11
<1> HIDE DEF N
<1>13. \A c : Early(N, c) = Since(times, c)
  BY DEF Since, N
<1> DEFINE r == kept[N]
<1> HIDE DEF Early
<1>14. /\ r \in Seq(Time) /\ Len(r) <= N /\ \A i \in 1 .. Len(r) : r[i] > cutoff
       /\ \A c \in Int : c >= cutoff => Cardinality(Since(r, c)) = Cardinality(Since(times, c))
  BY <1>12, <1>13 DEF P
<1> HIDE DEF r
<1>15. Cardinality(Since(r, cutoff)) = Len(r)
  <2>1. Since(r, cutoff) = 1 .. Len(r)
    BY <1>14 DEF Since
  <2>2. Len(r) \in Nat
    BY <1>14
  <2>3. \A n \in Nat : Cardinality(1 .. n) = n
    BY FS_Interval
  <2> QED
    BY <2>1, <2>2, <2>3, Zenon
<1> QED
  BY <1>2, <1>14, <1>15 DEF r, N

-----------------------------------------------------------------------------
(* Delays. *)

\* The equations of a doubled delay have a solution, and only numbers in it.
LEMMA DelayExists ==
  ASSUME NEW base \in Nat, NEW N \in Nat
  PROVE  LET delay[n \in 0 .. N] == IF n = 0 THEN base ELSE 2 * delay[n-1] IN
         /\ delay \in [0 .. N -> Nat] /\ delay[0] = base
         /\ \A n \in 1 .. N : delay[n] = 2 * delay[n-1]
<1> DEFINE delay[n \in 0 .. N] == IF n = 0 THEN base ELSE 2 * delay[n-1]
           F == [x \in Nat \X (1 .. N) |-> 2 * x[1]]
<1> SUFFICES /\ delay \in [0 .. N -> Nat] /\ delay[0] = base
             /\ \A n \in 1 .. N : delay[n] = 2 * delay[n-1]
  OBVIOUS
<1>1. F \in [Nat \X (1 .. N) -> Nat] /\ \A d \in Nat, n \in 1 .. N : F[<<d, n>>] = 2 * d
  OBVIOUS
<1> HIDE DEF F
<1>2. PICK g : Iterates(g, Nat, F, base, N)
  BY <1>1, IterationExists
<1>3. g \in [0 .. N -> Nat] /\ g[0] = base /\ \A n \in 1 .. N : g[n] = 2 * g[n-1]
  <2>1. g \in [0 .. N -> Nat] /\ g[0] = base /\ \A n \in 1 .. N : g[n] = F[<<g[n-1], n>>]
    BY <1>2 DEF Iterates
  <2>2. \A n \in 1 .. N : n - 1 \in 0 .. N
    OBVIOUS
  <2>3. \A n \in 1 .. N : g[n-1] \in Nat
    BY <2>1, <2>2
  <2> QED
    BY <1>1, <2>1, <2>3
<1>4. \A n \in 0 .. N : n # 0 => n \in 1 .. N
  OBVIOUS
<1> DEFINE Solves(f) == f = [n \in 0 .. N |-> IF n = 0 THEN base ELSE 2 * f[n-1]]
<1>5. Solves(g)
  <2>1. g = [n \in 0 .. N |-> g[n]]
    BY <1>3
  <2>2. \A n \in 0 .. N : g[n] = IF n = 0 THEN base ELSE 2 * g[n-1]
    BY <1>3, <1>4
  <2> QED
    BY <2>1, <2>2, Zenon
<1>6. delay = CHOOSE f : Solves(f)
  OBVIOUS
<1> HIDE DEF Solves, delay
<1>7. Solves(delay)
  BY <1>5, <1>6, Zenon
<1>8. delay = [n \in 0 .. N |-> IF n = 0 THEN base ELSE 2 * delay[n-1]]
  BY <1>7 DEF Solves
<1>9. 0 \in 0 .. N /\ \A n \in 1 .. N : n \in 0 .. N /\ n # 0
  OBVIOUS
<1>10. delay[0] = base /\ \A n \in 1 .. N : delay[n] = 2 * delay[n-1]
  BY <1>8, <1>9, Zenon
<1> DEFINE S == {n \in Nat : n <= N /\ delay[n] \notin Nat}
<1>11. S = {}
  <2> SUFFICES ASSUME S # {} PROVE FALSE
    OBVIOUS
  <2>1. PICK n \in S : \A m \in S : n <= m
    BY LeastNatural
  <2>2. n \in Nat /\ n <= N /\ delay[n] \notin Nat
    OBVIOUS
  <2>3. n # 0
    BY <1>10, <2>2
  <2>4. n \in 1 .. N /\ n - 1 \in Nat /\ n - 1 <= N /\ ~(n <= n - 1)
    BY <2>2, <2>3
  <2>5. delay[n-1] \in Nat
    BY <2>1, <2>4
  <2> QED
    BY <1>10, <2>2, <2>4, <2>5
<1>12. delay \in [0 .. N -> Nat]
  <2>1. \A n \in 0 .. N : delay[n] \in Nat
    BY <1>11
  <2>2. delay = [n \in 0 .. N |-> delay[n]]
    BY <1>8
  <2> QED
    BY <2>1, <2>2
<1> QED
  BY <1>10, <1>12

\* Each retry doubles the delay.
LEMMA DoubledStep ==
  ASSUME NEW base \in Nat, NEW N \in Nat
  PROVE  /\ Doubled(base, N) \in Nat
         /\ Doubled(base, 0) = base
         /\ Doubled(base, N + 1) = 2 * Doubled(base, N)
<1> DEFINE M == N + 1
           long[n \in 0 .. M] == IF n = 0 THEN base ELSE 2 * long[n-1]
           short[n \in 0 .. N] == IF n = 0 THEN base ELSE 2 * short[n-1]
           none[n \in 0 .. 0] == IF n = 0 THEN base ELSE 2 * none[n-1]
<1>1. M \in Nat /\ N \in 0 .. M /\ M \in 1 .. M /\ M - 1 = N
  OBVIOUS
<1>2. /\ Doubled(base, M) = long[M]
      /\ Doubled(base, N) = short[N]
      /\ Doubled(base, 0) = none[0]
  BY DEF Doubled
<1>3. none[0] = base
  BY DelayExists
<1>4. /\ short \in [0 .. N -> Nat] /\ short[0] = base
      /\ \A n \in 1 .. N : short[n] = 2 * short[n-1]
  BY DelayExists
<1> HIDE DEF M
<1>5. /\ long \in [0 .. M -> Nat] /\ long[0] = base
      /\ \A n \in 1 .. M : long[n] = 2 * long[n-1]
  BY <1>1, DelayExists
<1> HIDE DEF none, short, long
<1> DEFINE S == {n \in Nat : n <= N /\ long[n] # short[n]}
<1>6. S = {}
  <2> SUFFICES ASSUME S # {} PROVE FALSE
    OBVIOUS
  <2>1. PICK n \in S : \A m \in S : n <= m
    BY LeastNatural
  <2>2. n \in Nat /\ n <= N /\ long[n] # short[n]
    OBVIOUS
  <2>3. n # 0
    BY <1>4, <1>5, <2>2
  <2>4. n \in 1 .. N /\ n \in 1 .. M /\ n - 1 \in Nat /\ n - 1 <= N /\ ~(n <= n - 1)
    BY <2>2, <2>3 DEF M
  <2>5. long[n-1] = short[n-1]
    BY <2>1, <2>4
  <2> QED
    BY <1>4, <1>5, <2>2, <2>4, <2>5
<1>7. long[N] = short[N] /\ short[N] \in Nat
  BY <1>4, <1>6
<1>8. long[M] = 2 * long[N]
  BY <1>1, <1>5
<1> QED
  BY <1>2, <1>3, <1>7, <1>8 DEF M

\* The first five delays; the later ones are longer.
LEMMA DoubledTable ==
  ASSUME NEW base \in Nat, NEW N \in Nat
  PROVE  /\ N = 0 => Doubled(base, N) = base
         /\ N = 1 => Doubled(base, N) = 2 * base
         /\ N = 2 => Doubled(base, N) = 4 * base
         /\ N = 3 => Doubled(base, N) = 8 * base
         /\ N = 4 => Doubled(base, N) = 16 * base
         /\ N >= 5 => Doubled(base, N) >= 32 * base
<1>1. Doubled(base, 0) = base
  BY DoubledStep
<1>2. \A n \in Nat : Doubled(base, n) \in Nat /\ Doubled(base, n + 1) = 2 * Doubled(base, n)
  BY DoubledStep
<1>3. Doubled(base, 1) = 2 * base
  <2>1. 1 = 0 + 1 /\ 0 \in Nat
    OBVIOUS
  <2> QED
    BY <1>1, <1>2, <2>1
<1>4. Doubled(base, 2) = 4 * base
  <2>1. 2 = 1 + 1 /\ 1 \in Nat
    OBVIOUS
  <2> QED
    BY <1>2, <1>3, <2>1
<1>5. Doubled(base, 3) = 8 * base
  <2>1. 3 = 2 + 1 /\ 2 \in Nat
    OBVIOUS
  <2> QED
    BY <1>2, <1>4, <2>1
<1>6. Doubled(base, 4) = 16 * base
  <2>1. 4 = 3 + 1 /\ 3 \in Nat
    OBVIOUS
  <2> QED
    BY <1>2, <1>5, <2>1
<1>7. Doubled(base, 5) = 32 * base
  <2>1. 5 = 4 + 1 /\ 4 \in Nat
    OBVIOUS
  <2> QED
    BY <1>2, <1>6, <2>1
<1> DEFINE S == {n \in Nat : 5 <= n /\ ~(Doubled(base, n) >= 32 * base)}
<1>8. S = {}
  <2> SUFFICES ASSUME S # {} PROVE FALSE
    OBVIOUS
  <2>1. PICK n \in S : \A m \in S : n <= m
    BY LeastNatural
  <2>2. n \in Nat /\ 5 <= n /\ ~(Doubled(base, n) >= 32 * base)
    OBVIOUS
  <2>3. n # 5
    BY <1>7, <2>2
  <2>4. n - 1 \in Nat /\ 5 <= n - 1 /\ ~(n <= n - 1) /\ (n - 1) + 1 = n
    BY <2>2, <2>3
  <2>5. Doubled(base, n - 1) >= 32 * base
    BY <2>1, <2>4
  <2>6. Doubled(base, n - 1) \in Nat /\ Doubled(base, n) = 2 * Doubled(base, n - 1)
    BY <1>2, <2>4
  <2> QED
    BY <2>2, <2>5, <2>6
<1> QED
  BY <1>1, <1>3, <1>4, <1>5, <1>6, <1>8
=============================================================================
