----------------------------- MODULE ProofLemmas -----------------------------
(***************************************************************************)
(* Facts about naturals, remainders, sequences and loops that the proofs   *)
(* about the components share.                                             *)
(***************************************************************************)
EXTENDS Integers, SequencesExt, FiniteSetTheorems, SequenceTheorems, TLAPS

\* Every nonempty set of naturals has a least element: the intervals 0 .. n
\* are well founded under strict inclusion.
LEMMA LeastNatural ==
    ASSUME NEW S \in SUBSET Nat, S # {}
    PROVE  \E n \in S : \A m \in S : n <= m
  <1> DEFINE T == {0 .. n : n \in S}
             R == StrictSubsetOrdering(Nat)
             F == FiniteSubsetsOf(Nat)
  <1>1. \A n \in S : 0 .. n \in F
    <2> SUFFICES ASSUME NEW n \in S PROVE 0 .. n \in F
      OBVIOUS
    <2>1. IsFiniteSet(0 .. n) /\ 0 .. n \subseteq Nat
      BY FS_Interval
    <2> QED BY <2>1 DEF FiniteSubsetsOf
  <1>2. T \subseteq F /\ T # {}
    BY <1>1
  <1>3. IsWellFoundedOn(R, F)
    BY FS_StrictSubsetOrderingWellFounded
  <1> HIDE DEF R, F
  <1>4. PICK x \in T : \A y \in T : ~ (<<y, x>> \in R)
    BY <1>2, <1>3, WFMin
  <1>5. PICK n \in S : x = 0 .. n
    BY <1>4
  <1>6. ASSUME NEW m \in S, m < n PROVE FALSE
    <2>1. 0 .. m \in T /\ 0 .. m \subseteq 0 .. n /\ n \in 0 .. n /\ n \notin 0 .. m
      BY <1>6
    <2>2. 0 .. m \in SUBSET Nat /\ 0 .. n \in SUBSET Nat
      OBVIOUS
    <2>3. <<0 .. m, 0 .. n>> \in R
      BY <2>1, <2>2, Zenon DEF R, StrictSubsetOrdering
    <2> QED BY <1>4, <1>5, <2>1, <2>3
  <1> QED BY <1>6

\* Induction over the naturals, for the set of those that have the property.
LEMMA InductiveSet ==
    ASSUME NEW S, 0 \in S, \A n \in Nat : n \in S => n + 1 \in S
    PROVE  Nat \subseteq S
  <1> SUFFICES ASSUME NEW k \in Nat, k \notin S PROVE FALSE
    OBVIOUS
  <1>1. PICK n \in Nat \ S : \A m \in Nat \ S : n <= m
    <2>1. Nat \ S \in SUBSET Nat /\ Nat \ S # {}
      OBVIOUS
    <2> QED BY <2>1, LeastNatural
  <1>2. n # 0 /\ n - 1 \in Nat
    BY <1>1
  <1>3. n - 1 \in S
    BY <1>1, <1>2
  <1>4. (n - 1) + 1 \in S
    BY <1>2, <1>3
  <1> QED BY <1>1, <1>2, <1>4

LEMMA AppendPair ==
    ASSUME NEW a, NEW c
    PROVE  Append(<<a>>, c) = <<a, c>>
  <1>1. Len(<<a>>) = 1 /\ <<a>> \in Seq({a, c}) /\ <<a>>[1] = a /\ c \in {a, c}
    OBVIOUS
  <1>2. /\ Append(<<a>>, c) \in Seq({a, c}) /\ Len(Append(<<a>>, c)) = 2
    BY <1>1, AppendProperties
  <1>3. Append(<<a>>, c)[1] = a /\ Append(<<a>>, c)[2] = c
    BY <1>1, AppendProperties
  <1>4. /\ <<a, c>> \in Seq({a, c}) /\ Len(<<a, c>>) = 2
        /\ <<a, c>>[1] = a /\ <<a, c>>[2] = c
    OBVIOUS
  <1>5. \A i \in 1 .. 2 : Append(<<a>>, c)[i] = <<a, c>>[i]
    BY <1>3, <1>4
  <1> QED BY <1>2, <1>4, <1>5, SeqEqual

\* A nonempty sequence is its front followed by its last element.
LEMMA FrontProperties ==
    ASSUME NEW S, NEW s \in Seq(S), s # <<>>
    PROVE  /\ Front(s) \in Seq(S) /\ Len(Front(s)) = Len(s) - 1 /\ Len(s) > 0
           /\ \A i \in 1 .. Len(s) - 1 : Front(s)[i] = s[i]
           /\ Last(s) = s[Len(s)] /\ Last(s) \in S
           /\ Append(Front(s), Last(s)) = s
  <1>1. Len(s) \in Nat /\ Len(s) > 0
    BY EmptySeq
  <1>2. /\ Front(s) \in Seq(S) /\ Len(Front(s)) = Len(s) - 1
        /\ \A i \in 1 .. Len(s) - 1 : Front(s)[i] = s[i]
    <2> DEFINE n == Len(s) - 1
    <2>1. n \in Int /\ 1 \in Int /\ \A i \in 1 .. n : s[i] \in S
      BY <1>1
    <2>2. /\ SubSeq(s, 1, n) \in Seq(S) /\ Len(SubSeq(s, 1, n)) = IF 1 <= n THEN n - 1 + 1 ELSE 0
          /\ \A i \in 1 .. n - 1 + 1 : SubSeq(s, 1, n)[i] = s[1 + i - 1]
      <3> HIDE DEF n
      <3> QED BY <2>1, SubSeqProperties
    <2>3. n \in Nat /\ (IF 1 <= n THEN n - 1 + 1 ELSE 0) = n
      <3>1. n \in Nat
        BY <1>1
      <3> HIDE DEF n
      <3> QED BY <3>1
    <2>4. ASSUME NEW i \in 1 .. n PROVE SubSeq(s, 1, n)[i] = s[i]
      <3>1. 1 + i - 1 = i /\ i \in 1 .. n - 1 + 1
        BY <2>3
      <3> QED BY <2>2, <3>1
    <2>5. Front(s) = SubSeq(s, 1, n)
      BY DEF Front
    <2> HIDE DEF n
    <2>6. Front(s) \in Seq(S) /\ Len(Front(s)) = n /\ \A i \in 1 .. n : Front(s)[i] = s[i]
      BY <2>2, <2>3, <2>4, <2>5
    <2> QED BY <2>6 DEF n
  <1>3. Last(s) = s[Len(s)] /\ Last(s) \in S
    BY <1>1 DEF Last
  <1>4. /\ Append(Front(s), Last(s)) \in Seq(S) /\ Len(Append(Front(s), Last(s))) = Len(s)
        /\ \A i \in 1 .. Len(s) - 1 : Append(Front(s), Last(s))[i] = s[i]
        /\ Append(Front(s), Last(s))[Len(s)] = s[Len(s)]
    BY <1>1, <1>2, <1>3, AppendProperties
  <1>5. \A i \in 1 .. Len(s) : Append(Front(s), Last(s))[i] = s[i]
    BY <1>4
  <1>6. Append(Front(s), Last(s)) = s
    BY <1>4, <1>5, SeqEqual
  <1> QED BY <1>1, <1>2, <1>3, <1>6

\* A remainder of less than twice the divisor.
LEMMA ModOnce ==
    ASSUME NEW n \in Nat \ {0}, NEW a \in 0 .. 2 * n - 1
    PROVE  a % n = IF a < n THEN a ELSE a - n
  OBVIOUS

LEMMA Divided ==
    ASSUME NEW n \in Nat \ {0}, NEW a \in Int
    PROVE  a \div n \in Int /\ a % n \in 0 .. n - 1 /\ a = n * (a \div n) + (a % n)
  OBVIOUS

LEMMA SmallMultiple ==
    ASSUME NEW n \in Nat \ {0}, NEW d \in Int, n * d < n, n * d > -n
    PROVE  d = 0
  OBVIOUS

LEMMA TimesMinus ==
    ASSUME NEW n \in Int, NEW q1 \in Int, NEW q2 \in Int
    PROVE  n * (q1 - q2) = n * q1 - n * q2
  OBVIOUS

LEMMA Remainder ==
    ASSUME NEW n \in Nat \ {0}, NEW a \in Int, NEW q \in Int, NEW r \in 0 .. n - 1, a = n * q + r
    PROVE  a % n = r
  <1> DEFINE q1 == a \div n
             r1 == a % n
  <1>1. q1 \in Int /\ r1 \in 0 .. n - 1 /\ a = n * q1 + r1
    BY Divided
  <1> HIDE DEF q1, r1
  <1> DEFINE d == q1 - q
             p1 == n * q1
             p == n * q
  <1>2. n * d = p1 - p
    BY <1>1, TimesMinus
  <1>3. p1 \in Int /\ p \in Int /\ p1 - p = r - r1
    <2>1. p1 \in Int /\ p \in Int
      BY <1>1
    <2>2. a = p + r /\ a = p1 + r1
      BY <1>1
    <2> HIDE DEF p1, p
    <2> QED BY <1>1, <2>1, <2>2
  <1>4. n * d < n /\ n * d > -n /\ d \in Int
    <2>1. d \in Int
      BY <1>1
    <2> HIDE DEF d, p1, p
    <2> QED BY <1>1, <1>2, <1>3, <2>1
  <1>5. d = 0
    BY <1>4, SmallMultiple
  <1>6. q1 = q
    BY <1>1, <1>5
  <1> HIDE DEF p1, p, d
  <1>7. p1 = p
    BY <1>6 DEF p1, p
  <1> QED BY <1>1, <1>3, <1>7 DEF r1

\* Going round a ring of n from any place passes every position.
LEMMA AroundTo ==
    ASSUME NEW n \in Nat \ {0}, NEW h \in Nat, NEW p \in 0 .. n - 1
    PROVE  \E i \in 0 .. n - 1 : (h + i) % n = p
  <1> DEFINE q == h \div n
             r == h % n
             i == IF p >= r THEN p - r ELSE p - r + n
             t == IF p >= r THEN q ELSE q + 1
  <1>1. q \in Int /\ r \in 0 .. n - 1 /\ h = n * q + r
    BY Divided
  <1> HIDE DEF q, r
  <1>2. i \in 0 .. n - 1 /\ t \in Int
    BY <1>1
  <1>3. h + i = n * t + p
    <2>1. n * (q + 1) = n * q + n /\ n * q \in Int
      BY <1>1
    <2> QED BY <1>1, <2>1
  <1>4. h + i \in Int
    BY <1>2
  <1> HIDE DEF i, t
  <1> QED BY <1>2, <1>3, <1>4, Remainder

----------------------------------------------------------------------------
(* Loops *)

\* A loop of n turns that keeps its invariant S[i] after turn i exists.
Iteration(n, S, step, base, f) ==
    /\ f = [i \in 0 .. n |-> IF i = 0 THEN base ELSE step[<<i, f[i - 1]>>]]
    /\ \A i \in 0 .. n : f[i] \in S[i]

LEMMA LoopExists ==
    ASSUME NEW n \in Nat, NEW S, NEW step, NEW base \in S[0],
           \A i \in 1 .. n : \A x \in S[i - 1] : step[<<i, x>>] \in S[i]
    PROVE  \E f : Iteration(n, S, step, base, f)
  <1> DEFINE Loops(f, m) == /\ f = [i \in 0 .. m |-> IF i = 0 THEN base ELSE step[<<i, f[i - 1]>>]]
                            /\ \A i \in 0 .. m : f[i] \in S[i]
             T == {m \in Nat : m <= n => \E f : Loops(f, m)}
  <1>1. 0 \in T
    <2> DEFINE f == [i \in 0 .. 0 |-> base]
    <2>1. Loops(f, 0)
      <3>1. 0 .. 0 = {0}
        OBVIOUS
      <3>2. \A i \in 0 .. 0 : f[i] = IF i = 0 THEN base ELSE step[<<i, f[i - 1]>>]
        BY <3>1
      <3>3. \A i \in 0 .. 0 : f[i] \in S[i]
        BY <3>1
      <3> QED BY <3>2, <3>3
    <2> HIDE DEF Loops
    <2> QED BY <2>1
  <1>2. ASSUME NEW m \in Nat, m \in T PROVE m + 1 \in T
    <2> HIDE DEF Loops
    <2> SUFFICES ASSUME m + 1 <= n PROVE \E f : Loops(f, m + 1)
      OBVIOUS
    <2>1. PICK f : Loops(f, m)
      <3>1. m <= n
        OBVIOUS
      <3> QED BY <1>2, <3>1
    <2> USE DEF Loops
    <2> DEFINE x == step[<<m + 1, f[m]>>]
               g == [i \in 0 .. m + 1 |-> IF i = m + 1 THEN x ELSE f[i]]
    <2>2. m \in 0 .. m /\ m + 1 \in 1 .. n /\ (m + 1) - 1 = m
      OBVIOUS
    <2>3. f[m] \in S[m] /\ x \in S[m + 1]
      BY <2>1, <2>2
    <2>4. ASSUME NEW i \in 0 .. m + 1
          PROVE  g[i] = (IF i = 0 THEN base ELSE step[<<i, g[i - 1]>>]) /\ g[i] \in S[i]
      <3>1. CASE i = m + 1
        <4>1. g[i] = x /\ i # 0 /\ i - 1 = m /\ m \in 0 .. m + 1 /\ m # m + 1
          BY <3>1
        <4>2. g[i - 1] = f[m]
          BY <4>1
        <4> HIDE DEF g
        <4> QED BY <2>3, <3>1, <4>1, <4>2
      <3>2. CASE i # m + 1
        <4>1. i \in 0 .. m /\ g[i] = f[i]
          BY <3>2
        <4>2. f[i] = (IF i = 0 THEN base ELSE step[<<i, f[i - 1]>>]) /\ f[i] \in S[i]
          BY <2>1, <4>1
        <4>3. i # 0 => g[i - 1] = f[i - 1]
          BY <4>1
        <4> HIDE DEF g
        <4> QED BY <4>1, <4>2, <4>3
      <3> QED BY <3>1, <3>2
    <2>5. g = [i \in 0 .. m + 1 |-> g[i]]
      OBVIOUS
    <2>6. Loops(g, m + 1)
      <3> HIDE DEF g
      <3> QED BY <2>4, <2>5
    <2> QED BY <2>6
  <1>3. Nat \subseteq T
    <2> HIDE DEF T
    <2> QED BY <1>1, <1>2, InductiveSet
  <1>4. \E f : Loops(f, n)
    BY <1>3
  <1> QED BY <1>4 DEF Iteration

\* What every turn keeps holds after each of them.
LEMMA LoopKeeps ==
    ASSUME NEW n \in Nat, NEW S, NEW f, f[0] \in S[0],
           \A i \in 1 .. n : f[i - 1] \in S[i - 1] => f[i] \in S[i]
    PROVE  f[n] \in S[n]
  <1> DEFINE T == {m \in Nat : m <= n => f[m] \in S[m]}
  <1>1. 0 \in T
    OBVIOUS
  <1>2. ASSUME NEW m \in Nat, m \in T PROVE m + 1 \in T
    <2> SUFFICES ASSUME m + 1 <= n PROVE f[m + 1] \in S[m + 1]
      OBVIOUS
    <2>1. m + 1 \in 1 .. n /\ (m + 1) - 1 = m /\ f[m] \in S[m]
      BY <1>2
    <2> QED BY <2>1
  <1>3. Nat \subseteq T
    <2> HIDE DEF T
    <2> QED BY <1>1, <1>2, InductiveSet
  <1> QED BY <1>3

----------------------------------------------------------------------------
(* Occurrences in a sequence *)

\* How often i occurs in ids.
Occ(ids, i) == Cardinality({k \in DOMAIN ids : ids[k] = i})
OneAt(x, i) == IF x = i THEN 1 ELSE 0

LEMMA OccType ==
    ASSUME NEW S, NEW ids \in Seq(S), NEW i
    PROVE  /\ IsFiniteSet({k \in DOMAIN ids : ids[k] = i})
           /\ Occ(ids, i) \in Nat
           /\ i \notin S => Occ(ids, i) = 0
           /\ ids = <<>> => Occ(ids, i) = 0
  <1> DEFINE T == {k \in DOMAIN ids : ids[k] = i}
  <1>1. Len(ids) \in Nat /\ DOMAIN ids = 1 .. Len(ids) /\ \A k \in 1 .. Len(ids) : ids[k] \in S
    BY LenProperties, ElementOfSeq
  <1>2. IsFiniteSet(1 .. Len(ids)) /\ T \subseteq 1 .. Len(ids)
    BY <1>1, FS_Interval
  <1>3. IsFiniteSet(T)
    BY <1>2, FS_Subset
  <1>4. Cardinality(T) \in Nat
    BY <1>3, FS_CardinalityType
  <1>5. i \notin S => T = {}
    BY <1>1
  <1>6. ids = <<>> => T = {}
    BY <1>1
  <1> QED BY <1>3, <1>4, <1>5, <1>6, FS_EmptySet DEF Occ

LEMMA OccConcat ==
    ASSUME NEW S, NEW a \in Seq(S), NEW b \in Seq(S), NEW i
    PROVE  Occ(a \o b, i) = Occ(a, i) + Occ(b, i)
  <1> DEFINE m == Len(a)
             n == Len(b)
             A == {k \in DOMAIN a : a[k] = i}
             B == {k \in DOMAIN b : b[k] = i}
             C == {k \in DOMAIN (a \o b) : (a \o b)[k] = i}
             D == {k \in m + 1 .. m + n : b[k - m] = i}
             f == [k \in B |-> k + m]
  <1>1. /\ m \in Nat /\ n \in Nat /\ DOMAIN a = 1 .. m /\ DOMAIN b = 1 .. n
        /\ DOMAIN (a \o b) = 1 .. m + n
        /\ \A k \in 1 .. m + n : (a \o b)[k] = IF k <= m THEN a[k] ELSE b[k - m]
    BY ConcatProperties, LenProperties
  <1>2. IsFiniteSet(A) /\ IsFiniteSet(B) /\ Cardinality(A) \in Nat /\ Cardinality(B) \in Nat
    BY OccType DEF Occ
  <1> HIDE DEF m, n
  <1>3. C = A \union D /\ A \cap D = {}
    <2>1. ASSUME NEW k \in C PROVE k \in A \union D
      <3>1. k \in 1 .. m + n /\ (a \o b)[k] = i
        BY <1>1
      <3>2. CASE k <= m
        BY <1>1, <3>1, <3>2
      <3>3. CASE ~ (k <= m)
        BY <1>1, <3>1, <3>3
      <3> QED BY <3>2, <3>3
    <2>2. ASSUME NEW k \in A PROVE k \in C /\ k \notin D
      BY <1>1
    <2>3. ASSUME NEW k \in D PROVE k \in C
      <3>1. k \in 1 .. m + n /\ ~ (k <= m) /\ b[k - m] = i
        BY <1>1
      <3> QED BY <1>1, <3>1
    <2> HIDE DEF A, C, D
    <2> QED BY <2>1, <2>2, <2>3
  <1>4. f \in Bijection(B, D)
    <2>1. \A k \in B : f[k] \in D
      BY <1>1
    <2>2. \A k \in D : k - m \in B /\ f[k - m] = k
      BY <1>1
    <2>3. \A j, k \in B : f[j] = f[k] => j = k
      BY <1>1
    <2>4. f \in [B -> D] /\ \A t \in D : \E x \in B : f[x] = t
      BY <2>1, <2>2
    <2> HIDE DEF f, B, D
    <2> QED BY <2>3, <2>4 DEF Bijection, Injection, Surjection, IsInjective
  <1>5. IsFiniteSet(D) /\ Cardinality(D) = Cardinality(B)
    <2> HIDE DEF f, B, D
    <2> QED BY <1>2, <1>4, FS_Bijection DEF ExistsBijection
  <1>6. Cardinality(C) = Cardinality(A) + Cardinality(D)
    <2> HIDE DEF A, B, C, D
    <2>1. Cardinality(A \cap D) = 0
      BY <1>3, FS_EmptySet
    <2>2. Cardinality(A \union D) = Cardinality(A) + Cardinality(D) - Cardinality(A \cap D)
      BY <1>2, <1>5, FS_Union
    <2>3. Cardinality(D) \in Nat
      BY <1>2, <1>5
    <2> QED BY <1>2, <1>3, <2>1, <2>2, <2>3
  <1> QED BY <1>5, <1>6 DEF Occ

LEMMA OccSingle ==
    ASSUME NEW x, NEW i
    PROVE  Occ(<<x>>, i) = OneAt(x, i)
  <1>1. {k \in DOMAIN <<x>> : <<x>>[k] = i} = IF x = i THEN {1} ELSE {}
    OBVIOUS
  <1>2. Cardinality({1}) = 1 /\ Cardinality({}) = 0
    BY FS_EmptySet, FS_AddElement, FS_Singleton
  <1> QED BY <1>1, <1>2 DEF Occ, OneAt

LEMMA OccAppend ==
    ASSUME NEW S, NEW a \in Seq(S), NEW x \in S, NEW i
    PROVE  Occ(Append(a, x), i) = Occ(a, i) + OneAt(x, i)
  <1>1. Append(a, x) = a \o <<x>> /\ <<x>> \in Seq(S)
    OBVIOUS
  <1>2. Occ(a \o <<x>>, i) = Occ(a, i) + Occ(<<x>>, i)
    BY <1>1, OccConcat
  <1> QED BY <1>1, <1>2, OccSingle
==============================================================================
