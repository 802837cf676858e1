----------------------------- MODULE DataLemmas -----------------------------
(***************************************************************************)
(* Facts about numbers, sequences used as stacks and rings that the proofs *)
(* about several modules need.                                             *)
(***************************************************************************)
EXTENDS Integers, Sequences, FiniteSets, FiniteSetsExt, FiniteSetTheorems,
        SequenceTheorems, WellFoundedInduction, TLAPS

-----------------------------------------------------------------------------
(***************************************************************************)
(* Least elements.                                                         *)
(***************************************************************************)
\* Every non-empty set of naturals has a least element, which Min returns.
LEMMA MinOfNats ==
  ASSUME NEW T, T \subseteq Nat, T # {}
  PROVE  Min(T) \in T /\ \A y \in T : Min(T) <= y
<1> DEFINE less == {p \in Nat \X Nat : p[1] < p[2]}
<1>1. IsWellFoundedOn(less, Nat)
  BY NatLessThanWellFounded DEF OpToRel
<1> HIDE DEF less
<1>2. PICK x \in T : \A y \in T : ~ (<<y, x>> \in less)
  BY <1>1, WFMin
<1>3. ASSUME NEW y \in T PROVE x <= y
  <2>1. x \in Nat /\ y \in Nat /\ ~ (<<y, x>> \in less)
    BY <1>2
  <2>2. ~ (y < x)
    BY <2>1 DEF less
  <2>3. QED
    BY <2>1, <2>2
<1>4. QED
  BY <1>3 DEF Min

LEMMA MinOfTwo ==
  ASSUME NEW a \in Int, NEW b \in Int
  PROVE  Min({a, b}) = IF a <= b THEN a ELSE b
<1>1. \E x \in {a, b} : \A y \in {a, b} : x <= y
  <2>1. a <= b \/ b <= a
    OBVIOUS
  <2>2. QED
    BY <2>1
<1>2. Min({a, b}) \in {a, b} /\ Min({a, b}) <= a /\ Min({a, b}) <= b
  BY <1>1 DEF Min
<1>3. QED
  BY <1>2

LEMMA CountUpTo ==
  ASSUME NEW n \in Nat
  PROVE  IsFiniteSet(1 .. n) /\ Cardinality(1 .. n) = n
<1>1. IsFiniteSet(1 .. n) /\ Cardinality(1 .. n) = IF 1 > n THEN 0 ELSE n - 1 + 1
  BY FS_Interval
<1>2. CASE n = 0
  BY <1>1, <1>2
<1>3. CASE n # 0
  BY <1>1, <1>3
<1>4. QED
  BY <1>2, <1>3

\* A union counts at most what its parts count.
LEMMA UnionAtMost ==
  ASSUME NEW A, NEW B, IsFiniteSet(A), IsFiniteSet(B)
  PROVE  /\ IsFiniteSet(A \union B) /\ Cardinality(A \union B) \in Nat
         /\ Cardinality(A \union B) <= Cardinality(A) + Cardinality(B)
<1>1. /\ IsFiniteSet(A \union B)
      /\ Cardinality(A \union B) =
           Cardinality(A) + Cardinality(B) - Cardinality(A \intersect B)
  BY FS_Union
<1>2. IsFiniteSet(A \intersect B)
  BY FS_Intersection
<1>3. /\ Cardinality(A) \in Nat /\ Cardinality(B) \in Nat
      /\ Cardinality(A \intersect B) \in Nat /\ Cardinality(A \union B) \in Nat
  BY <1>1, <1>2, FS_CardinalityType
<1>4. QED
  BY <1>1, <1>3

\* A set without two different elements is empty or a singleton.
LEMMA AtMostOne ==
  ASSUME NEW A, \A x, y \in A : x = y
  PROVE  Cardinality(A) = IF A = {} THEN 0 ELSE 1
<1>1. CASE A = {}
  BY <1>1, FS_EmptySet
<1>2. CASE A # {}
  <2>1. PICK x : A = {x}
    BY <1>2
  <2>2. QED
    BY <1>2, <2>1, FS_Singleton
<1>3. QED
  BY <1>1, <1>2

\* The numbers before those of a set are no more than these.
LEMMA BeforeAtMost ==
  ASSUME NEW A, IsFiniteSet(A)
  PROVE  LET before == {i - 1 : i \in A}
         IN  IsFiniteSet(before) /\ Cardinality(before) <= Cardinality(A)
<1> DEFINE before == {i - 1 : i \in A}
           f == [i \in A |-> i - 1]
<1>1. f \in Surjection(A, before)
  BY DEF Surjection
<1>2. QED
  BY <1>1, FS_Surjection

\* A set of positions that goes down to the first one is an interval.
LEMMA DownClosed ==
  ASSUME NEW n \in Nat, NEW T \in SUBSET (1 .. n),
         \A i \in T : \A j \in 1 .. i : j \in T
  PROVE  Cardinality(T) \in 0 .. n /\ T = 1 .. Cardinality(T)
<1> DEFINE outside == {k \in Nat : k >= 1 /\ k \notin T}
           m == Min(outside)
<1>1. n + 1 \in outside
  OBVIOUS
<1>2. m \in outside /\ \A k \in outside : m <= k
  BY <1>1, MinOfNats
<1> HIDE DEF m
<1>3. T = 1 .. (m - 1)
  <2>1. ASSUME NEW i \in T PROVE i < m
    BY <1>2
  <2>2. ASSUME NEW i \in 1 .. (m - 1) PROVE i \in T
    BY <1>2
  <2>3. \A i \in T : i \in 1 .. (m - 1)
    BY <1>2, <2>1
  <2>4. QED
    BY <2>2, <2>3
<1>4. m \in 1 .. n + 1
  BY <1>1, <1>2
<1>5. Cardinality(1 .. (m - 1)) = m - 1
  BY <1>4, FS_Interval
<1>6. QED
  BY <1>3, <1>4, <1>5

-----------------------------------------------------------------------------
(***************************************************************************)
(* Sequences used as stacks: the innermost element first.                  *)
(***************************************************************************)
LEMMA PushProperties ==
  ASSUME NEW S, NEW rest \in Seq(S), NEW f \in S
  PROVE  /\ <<f>> \o rest \in Seq(S)
         /\ Len(<<f>> \o rest) = Len(rest) + 1
         /\ DOMAIN (<<f>> \o rest) = 1 .. Len(rest) + 1
         /\ (<<f>> \o rest)[1] = f
         /\ \A i \in 1 .. Len(rest) : (<<f>> \o rest)[i + 1] = rest[i]
         /\ \A i \in 2 .. Len(rest) + 1 : (<<f>> \o rest)[i] = rest[i - 1]
<1>1. <<f>> \o rest \in Seq(S) /\ Len(<<f>> \o rest) = Len(rest) + 1
  OBVIOUS
<1>2. Len(rest) \in Nat /\ DOMAIN (<<f>> \o rest) = 1 .. Len(rest) + 1
  BY <1>1
<1>3. (<<f>> \o rest)[1] = f
  OBVIOUS
<1>4. \A i \in 1 .. Len(rest) : (<<f>> \o rest)[i + 1] = rest[i]
  OBVIOUS
<1>5. \A i \in 2 .. Len(rest) + 1 : (<<f>> \o rest)[i] = rest[i - 1]
  BY <1>2
<1>6. QED
  BY <1>1, <1>2, <1>3, <1>4, <1>5

\* A stack that is not empty is its top pushed on the rest.
LEMMA PopProperties ==
  ASSUME NEW S, NEW s \in Seq(S), s # <<>>
  PROVE  /\ Head(s) \in S /\ Tail(s) \in Seq(S)
         /\ s = <<Head(s)>> \o Tail(s)
         /\ Head(s) = s[1]
  OBVIOUS

LEMMA PushTwice ==
  ASSUME NEW S, NEW f \in S, NEW g \in S, NEW rest \in Seq(S)
  PROVE  <<f, g>> \o rest = <<f>> \o (<<g>> \o rest)
<1> DEFINE gr == <<g>> \o rest
<1>1. /\ gr \in Seq(S) /\ Len(gr) = Len(rest) + 1 /\ gr[1] = g
      /\ \A i \in 2 .. Len(gr) : gr[i] = rest[i - 1]
  BY PushProperties
<1> HIDE DEF gr
<1> DEFINE s == <<f>> \o gr
           t == <<f, g>> \o rest
<1>2. /\ s \in Seq(S) /\ Len(s) = Len(gr) + 1 /\ s[1] = f
      /\ \A i \in 2 .. Len(s) : s[i] = gr[i - 1]
  BY <1>1, PushProperties
<1>3. /\ t \in Seq(S) /\ Len(t) = Len(rest) + 2 /\ t[1] = f /\ t[2] = g
      /\ \A i \in 3 .. Len(t) : t[i] = rest[i - 2]
  <2>1. t \in Seq(S) /\ Len(t) = Len(rest) + 2
    OBVIOUS
  <2>2. t[1] = f /\ t[2] = g
    OBVIOUS
  <2>3. \A i \in 3 .. Len(t) : t[i] = rest[i - 2]
    BY <2>1
  <2>4. QED
    BY <2>1, <2>2, <2>3
<1> HIDE DEF s, t
<1>4. ASSUME NEW i \in 1 .. Len(s) PROVE s[i] = t[i]
  <2>1. Len(rest) \in Nat /\ Len(s) = Len(rest) + 2 /\ i \in 1 .. Len(rest) + 2
    BY <1>1, <1>2
  <2>2. CASE i = 1
    BY <2>2, <1>2, <1>3
  <2>3. CASE i = 2
    BY <2>3, <2>1, <1>1, <1>2, <1>3
  <2>4. CASE i > 2
    <3>1. s[i] = gr[i - 1]
      BY <2>1, <2>4, <1>2
    <3>2. gr[i - 1] = rest[i - 2]
      BY <2>1, <2>4, <1>1
    <3>3. QED
      BY <3>1, <3>2, <2>1, <2>4, <1>3
  <2>5. QED
    BY <2>1, <2>2, <2>3, <2>4
<1>5. s = t
  BY <1>1, <1>2, <1>3, <1>4, SeqEqual
<1>6. QED
  BY <1>5 DEF s, t, gr

LEMMA PairIsPush ==
  ASSUME NEW S, NEW f \in S, NEW g \in S
  PROVE  <<f, g>> = <<f>> \o (<<g>> \o <<>>)
<1>1. <<f, g>> \in Seq(S) /\ <<>> \in Seq(S)
  OBVIOUS
<1>2. <<f, g>> \o <<>> = <<f, g>>
  BY <1>1, ConcatEmptySeq
<1>3. QED
  BY <1>1, <1>2, PushTwice

LEMMA SingleIsPush ==
  ASSUME NEW S, NEW f \in S
  PROVE  <<f>> = <<f>> \o <<>>
  OBVIOUS

LEMMA LengthBelow ==
  ASSUME NEW S, NEW s \in Seq(S), NEW n \in Nat, Len(s) < n
  PROVE  Len(s) \in 0 .. n - 1
<1> DEFINE l == Len(s)
<1>1. l \in Nat /\ l < n
  BY LenProperties
<1> HIDE DEF l
<1>2. l \in 0 .. n - 1
  BY <1>1
<1>3. QED
  BY <1>2 DEF l

\* Concatenations of sequences whose lengths are known.
SeqOf(S, n, s) == s \in Seq(S) /\ Len(s) = n

Joins(c, m, a, n, b) ==
  /\ \A i \in 1 .. m : c[i] = a[i]
  /\ \A i \in 1 .. n : c[m + i] = b[i]

LEMMA Joined ==
  ASSUME NEW S, NEW m, NEW n, NEW a, NEW b, SeqOf(S, m, a), SeqOf(S, n, b)
  PROVE  SeqOf(S, m + n, a \o b) /\ Joins(a \o b, m, a, n, b)
<1>1. a \in Seq(S) /\ b \in Seq(S) /\ m = Len(a) /\ n = Len(b) /\ m \in Nat /\ n \in Nat
  BY DEF SeqOf
<1>2. /\ a \o b \in Seq(S) /\ Len(a \o b) = m + n
      /\ \A i \in 1 .. m + n : (a \o b)[i] = IF i <= m THEN a[i] ELSE b[i - m]
  BY <1>1, ConcatProperties
<1>3. \A i \in 1 .. m : (a \o b)[i] = a[i]
  BY <1>1, <1>2
<1>4. ASSUME NEW i \in 1 .. n PROVE (a \o b)[m + i] = b[i]
  <2>1. m + i \in 1 .. m + n /\ ~ (m + i <= m) /\ (m + i) - m = i
    BY <1>1
  <2>2. QED
    BY <1>2, <2>1
<1>5. QED
  BY <1>2, <1>3, <1>4 DEF SeqOf, Joins

-----------------------------------------------------------------------------
(***************************************************************************)
(* Rings: positions modulo the size.                                       *)
(***************************************************************************)
LEMMA ModOnce ==
  ASSUME NEW m \in Nat \ {0}, NEW n \in 0 .. 2 * m - 1
  PROVE  n % m = IF n < m THEN n ELSE n - m
  BY SMTT(20)
\* Quotient and remainder.
LEMMA DivMod ==
  ASSUME NEW v \in Nat, NEW B \in Nat \ {0}
  PROVE  /\ v \div B \in Nat /\ v % B \in 0 .. B - 1
         /\ v = B * (v \div B) + (v % B)
<1>1. v \div B \in Nat
  OBVIOUS
<1>2. v % B \in 0 .. B - 1
  OBVIOUS
<1>3. v = B * (v \div B) + (v % B)
  OBVIOUS
<1>4. QED
  BY <1>1, <1>2, <1>3

LEMMA DivUnique ==
  ASSUME NEW D \in Nat \ {0}, NEW q \in Nat, NEW r \in 0 .. D - 1,
         NEW v \in Nat, v = D * q + r
  PROVE  v \div D = q /\ v % D = r
  OBVIOUS

\* The next position modulo m.
LEMMA ModNext ==
  ASSUME NEW m \in Nat \ {0}, NEW j \in Nat
  PROVE  (j + 1) % m = IF j % m = m - 1 THEN 0 ELSE (j % m) + 1
<1> DEFINE r == j % m
           d == j \div m
           v == j + 1
<1>1. d \in Nat /\ r \in 0 .. m - 1 /\ j = m * d + r
  BY DivMod
<1> HIDE DEF r, d
<1>2. v \in Nat /\ v = m * d + (r + 1)
  BY <1>1
<1>3. CASE r = m - 1
  <2>1. m * (d + 1) = m * d + m
    BY <1>1
  <2>2. v = m * (d + 1) + 0 /\ 0 \in 0 .. m - 1 /\ d + 1 \in Nat
    BY <1>1, <1>2, <1>3, <2>1
  <2> HIDE DEF v
  <2>3. v % m = 0
    BY <1>2, <2>2, DivUnique
  <2>4. QED
    BY <1>3, <2>3 DEF r, v
<1>4. CASE r # m - 1
  <2> DEFINE e == r + 1
  <2>1. e \in 0 .. m - 1 /\ v = m * d + e
    BY <1>1, <1>2, <1>4
  <2> HIDE DEF v, e
  <2>2. v \in Nat
    BY <1>2
  <2>3. v % m = e
    BY <1>1, <2>1, <2>2, DivUnique, ZenonT(20)
  <2>4. QED
    BY <1>4, <2>3 DEF r, v, e
<1>5. QED
  BY <1>3, <1>4

\* The three digits of a number in a base.
LEMMA Digits ==
  ASSUME NEW B \in Nat \ {0}, NEW v \in 0 .. B * B * B - 1
  PROVE  v = (v % B) + B * ((v \div B) % B) + (B * B) * ((v \div (B * B)) % B)
<1> DEFINE q == v \div B
           r == v % B
           q2 == q \div B
           r2 == q % B
<1>0. v \in Nat
  OBVIOUS
<1>1. q \in Nat /\ r \in 0 .. B - 1 /\ v = B * q + r
  BY <1>0, DivMod
<1>2. q2 \in Nat /\ r2 \in 0 .. B - 1 /\ q = B * q2 + r2
  BY <1>1, DivMod
<1> HIDE DEF q, r, q2, r2
<1>3. B * B \in Nat \ {0}
  OBVIOUS
<1>4. v = (B * B) * q2 + (B * r2 + r)
  <2>1. B * q = B * (B * q2) + B * r2
    BY <1>2
  <2>2. QED
    BY <1>1, <1>2, <2>1
<1>5. B * r2 + r \in 0 .. B * B - 1
  <2>1. B * r2 \in 0 .. B * (B - 1)
    BY <1>2
  <2>2. QED
    BY <1>1, <1>2, <2>1
<1>6. v \div (B * B) = q2
  <2> DEFINE D == B * B
             d == B * r2 + r
  <2>1. D \in Nat \ {0} /\ d \in 0 .. D - 1 /\ v = D * q2 + d
    BY <1>3, <1>4, <1>5
  <2> HIDE DEF D, d
  <2>2. v \div D = q2
    BY <1>0, <1>2, <2>1, DivUnique
  <2>3. QED
    BY <2>2 DEF D
<1>7. q2 < B
  <2>1. SUFFICES ASSUME q2 >= B PROVE FALSE
    BY <1>2
  <2>2. (B * B) * q2 >= (B * B) * B
    BY <1>2, <1>3, <2>1
  <2>3. QED
    BY <1>1, <1>2, <1>4, <1>5, <2>2
<1>8. q2 % B = q2
  BY <1>2, <1>7
<1>9. v = r + B * r2 + (B * B) * q2
  BY <1>1, <1>2, <1>4
<1>10. QED
  BY <1>6, <1>8, <1>9 DEF q, r, r2

\* What has passed between two looks at a clock that wraps.
LEMMA Elapsed ==
  ASSUME NEW m \in Nat \ {0}, NEW s \in 0 .. m - 1, NEW w \in 0 .. m - 1
  PROVE  (((s + w) % m) - s) % m = w
<1>1. CASE s + w < m
  BY <1>1
<1>2. CASE s + w >= m
  <2>1. (s + w) % m = s + w - m
    BY <1>2, SMTT(10)
  <2>2. (w - m) % m = w
    OBVIOUS
  <2>3. (s + w - m) - s = w - m
    OBVIOUS
  <2>4. QED
    BY <2>1, <2>2, <2>3
<1>3. QED
  BY <1>1, <1>2
=============================================================================
