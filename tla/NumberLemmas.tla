---------------------------- MODULE NumberLemmas ----------------------------
(***************************************************************************)
(* Facts about numbers that several components' proofs need.  Where a      *)
(* proof would be by induction, a set of numbers without its property has  *)
(* a least element.                                                        *)
(***************************************************************************)
EXTENDS Integers, FiniteSetTheorems, WellFoundedInduction, TLAPS

(* Some numbers have a least one. *)
LEMMA LeastNat ==
  ASSUME NEW S \in SUBSET Nat, S # {}
  PROVE  \E m \in S : \A n \in S : m <= n
<1>1. PICK m \in S : \A n \in S : ~(<<n, m>> \in OpToRel(<, Nat))
  BY NatLessThanWellFounded, WFMin, Zenon
<1>2. \A n \in S : ~(n < m)
  BY <1>1, Zenon DEF OpToRel
<1> QED
  BY <1>2

(* ... and a greatest one, up to a bound. *)
LEMMA GreatestNat ==
  ASSUME NEW S, S # {}, NEW d \in Nat, S \subseteq 0 .. d
  PROVE  \E m \in S : \A n \in S : n <= m
<1> DEFINE T == {e \in 0 .. d : d - e \in S}
<1>1. T \in SUBSET Nat /\ T # {}
  <2>1. PICK n \in S : TRUE
    OBVIOUS
  <2>2. d - n \in T
    BY <2>1
  <2> QED
    BY <2>2
<1>2. PICK m \in T : \A n \in T : m <= n
  <2> HIDE DEF T
  <2> QED
    BY <1>1, LeastNat
<1>3. d - m \in S
  OBVIOUS
<1>4. \A n \in S : n <= d - m
  <2> TAKE n \in S
  <2>1. d - n \in T /\ n \in 0 .. d /\ m \in 0 .. d
    OBVIOUS
  <2>2. m <= d - n
    <3> HIDE DEF T
    <3> QED
      BY <2>1, <1>2
  <2> QED
    BY <2>1, <2>2
<1> QED
  BY <1>3, <1>4

(* A measure of the elements of a finite set is least for one of them. *)
LEMMA LeastOfFinite ==
  ASSUME NEW S, IsFiniteSet(S), S # {}, NEW h \in [S -> Int]
  PROVE  \E m \in S : \A n \in S : h[m] <= h[n]
<1>1. PICK k \in Nat : ExistsBijection(1 .. k, S)
  BY FS_NatBijection
<1>2. PICK f \in Bijection(1 .. k, S) : TRUE
  BY <1>1 DEF ExistsBijection
<1>3. f \in [1 .. k -> S] /\ \A n \in S : \E i \in 1 .. k : f[i] = n
  BY <1>2 DEF Bijection, Surjection, Injection
<1> DEFINE HasLeast(j) == \E m \in 1 .. j : \A n \in 1 .. j : h[f[m]] <= h[f[n]]
           Bad == {j \in 1 .. k : ~HasLeast(j)}
<1>4. \A i \in 1 .. k : h[f[i]] \in Int
  BY <1>3
<1>5. k >= 1
  <2>1. PICK n \in S : TRUE
    OBVIOUS
  <2>2. PICK i \in 1 .. k : f[i] = n
    BY <1>3
  <2> QED
    BY <2>2
<1>6. ASSUME Bad # {} PROVE FALSE
  <2>1. Bad \in SUBSET Nat
    OBVIOUS
  <2>2. PICK j \in Bad : \A i \in Bad : j <= i
    <3> HIDE DEF Bad
    <3> QED
      BY <1>6, <2>1, LeastNat
  <2>3. j \in 1 .. k /\ ~HasLeast(j)
    BY <2>2
  <2>4. CASE j = 1
    <3>1. \A n \in 1 .. j : n = 1
      BY <2>4
    <3> QED
      BY <2>3, <2>4, <3>1, <1>4
  <2>5. CASE j # 1
    <3>0. j - 1 \in 1 .. k /\ ~(j <= j - 1)
      BY <2>3, <2>5
    <3>1. j - 1 \notin Bad
      <4> HIDE DEF Bad
      <4> QED
        BY <2>2, <3>0
    <3>2. PICK m \in 1 .. j - 1 : \A n \in 1 .. j - 1 : h[f[m]] <= h[f[n]]
      BY <3>0, <3>1
    <3>3. \A n \in 1 .. j : n \in 1 .. k /\ (n = j \/ n \in 1 .. j - 1)
      BY <2>3
    <3>4. m \in 1 .. j /\ m \in 1 .. k /\ j \in 1 .. j
      BY <2>3, <3>2
    <3>5. CASE h[f[m]] <= h[f[j]]
      <4>1. \A n \in 1 .. j : h[f[m]] <= h[f[n]]
        BY <3>2, <3>3, <3>5
      <4> QED
        BY <4>1, <3>4, <2>3
    <3>6. CASE ~(h[f[m]] <= h[f[j]])
      <4> HIDE DEF HasLeast, Bad
      <4>0. h[f[j]] \in Int /\ h[f[m]] \in Int
        BY <2>3, <3>4, <1>4
      <4>1. h[f[j]] \in Int /\ h[f[m]] \in Int /\ h[f[j]] <= h[f[m]]
        BY <4>0, <3>6
      <4>2. ASSUME NEW n \in 1 .. j PROVE h[f[j]] <= h[f[n]]
        <5>1. h[f[n]] \in Int /\ (n = j \/ h[f[m]] <= h[f[n]])
          BY <3>2, <3>3, <1>4
        <5> QED
          BY <4>1, <5>1
      <4> QED
        <5> USE DEF HasLeast
        <5> QED
          BY <4>2, <3>4, <2>3
    <3> QED
      BY <3>5, <3>6
  <2> QED
    BY <2>4, <2>5
<1>7. HasLeast(k)
  <2>1. k \in 1 .. k /\ k \notin Bad
    <3> HIDE DEF Bad
    <3> QED
      BY <1>5, <1>6
  <2> QED
    BY <2>1
<1>8. PICK m \in 1 .. k : \A n \in 1 .. k : h[f[m]] <= h[f[n]]
  BY <1>7
<1>9. f[m] \in S /\ \A n \in S : h[f[m]] <= h[n]
  BY <1>3, <1>8
<1> QED
  BY <1>9

(* ... and greatest for one of them. *)
LEMMA GreatestOfFinite ==
  ASSUME NEW S, IsFiniteSet(S), S # {}, NEW h \in [S -> Int]
  PROVE  \E m \in S : \A n \in S : h[n] <= h[m]
<1> DEFINE g == [n \in S |-> -h[n]]
<1>1. g \in [S -> Int]
  OBVIOUS
<1>2. PICK m \in S : \A n \in S : g[m] <= g[n]
  <2> HIDE DEF g
  <2> QED
    BY <1>1, LeastOfFinite
<1>3. \A n \in S : h[n] <= h[m]
  BY <1>2
<1> QED
  BY <1>3

(* Finitely many numbers have a least and a greatest one. *)
LEMMA Extremes ==
  ASSUME NEW T \in SUBSET Int, IsFiniteSet(T), T # {}
  PROVE  /\ \E m \in T : \A n \in T : m <= n
         /\ \E m \in T : \A n \in T : n <= m
<1> DEFINE h == [n \in T |-> n]
<1>1. h \in [T -> Int] /\ \A n \in T : h[n] = n
  OBVIOUS
<1> HIDE DEF h
<1>2. PICK m \in T : \A n \in T : h[m] <= h[n]
  BY <1>1, LeastOfFinite
<1>3. PICK p \in T : \A n \in T : h[n] <= h[p]
  BY <1>1, GreatestOfFinite
<1> QED
  BY <1>1, <1>2, <1>3

-----------------------------------------------------------------------------
(* Division by a positive number, and its remainder. *)
LEMMA Division ==
  ASSUME NEW a \in Int, NEW d \in Nat \ {0}
  PROVE  /\ a \div d \in Int /\ a % d \in 0 .. d - 1
         /\ a = d * (a \div d) + (a % d)
  OBVIOUS

(* Multiples of a positive number are as far apart as it. *)
LEMMA Multiples ==
  ASSUME NEW d \in Nat \ {0}, NEW p \in Int, NEW q \in Int, p < q
  PROVE  d * p + d <= d * q
  OBVIOUS

(* There is one quotient and one remainder. *)
LEMMA DivisionIsUnique ==
  ASSUME NEW d \in Nat \ {0}, NEW q \in Int, NEW r \in 0 .. d - 1
  PROVE  (d * q + r) \div d = q /\ (d * q + r) % d = r
<1> DEFINE a == d * q + r
           p == a \div d
<1>1. a \in Int
  OBVIOUS
<1>2. p \in Int /\ a % d \in 0 .. d - 1 /\ a = d * p + (a % d)
  BY <1>1, Division
<1> HIDE DEF p
<1>3. ~(p < q)
  <2> SUFFICES ASSUME p < q PROVE FALSE
    OBVIOUS
  <2>1. d * p + d <= d * q
    BY <1>2, Multiples
  <2> QED
    BY <1>2, <2>1
<1>4. ~(q < p)
  <2> SUFFICES ASSUME q < p PROVE FALSE
    OBVIOUS
  <2>1. d * q + d <= d * p
    BY <1>2, Multiples
  <2> QED
    BY <1>2, <2>1
<1>5. p = q
  BY <1>2, <1>3, <1>4
<1> QED
  BY <1>2, <1>5 DEF p

(* Only positive numbers have positive multiples. *)
LEMMA Positive ==
  ASSUME NEW d \in Nat \ {0}, NEW p \in Int, 0 < d * p
  PROVE  0 < p
<1>1. CASE p = 0
  BY <1>1
<1>2. CASE p < 0
  <2>1. d * p + d <= d * 0
    BY <1>2, Multiples
  <2> QED
    BY <2>1
<1> QED
  BY <1>1, <1>2

(* How many times d it takes to reach n, counted without a remainder. *)
LEMMA Ceiling ==
  ASSUME NEW n \in Nat \ {0}, NEW d \in Nat \ {0}
  PROVE  /\ (n + d - 1) \div d \in Nat \ {0}
         /\ n <= d * ((n + d - 1) \div d)
         /\ \A k \in Int : d * k < n => k < (n + d - 1) \div d
<1> DEFINE c == (n + d - 1) \div d
           r == (n + d - 1) % d
<1>1. n + d - 1 \in Int
  OBVIOUS
<1>2. c \in Int /\ r \in 0 .. d - 1 /\ n + d - 1 = d * c + r
  BY <1>1, Division
<1> HIDE DEF c, r
<1>3. n <= d * c
  BY <1>2
<1>4. 0 < c
  BY <1>2, <1>3, Positive
<1>5. ASSUME NEW k \in Int, d * k < n PROVE k < c
  <2>1. CASE k = c
    BY <1>3, <1>5, <2>1
  <2>2. CASE c < k
    <3>1. d * c + d <= d * k
      BY <1>2, <2>2, Multiples
    <3> QED
      BY <1>2, <1>3, <1>5, <3>1
  <2> QED
    BY <1>2, <2>1, <2>2
<1> QED
  BY <1>2, <1>3, <1>4, <1>5 DEF c

(* A quotient of something less than a multiple. *)
LEMMA QuotientBelow ==
  ASSUME NEW a \in Nat, NEW d \in Nat \ {0}, NEW c \in Nat, a < d * c
  PROVE  a \div d \in 0 .. c - 1
<1> DEFINE q == a \div d
           r == a % d
<1>1. q \in Int /\ r \in 0 .. d - 1 /\ a = d * q + r
  BY Division
<1> HIDE DEF q, r
<1>2. ~(q < 0)
  <2> SUFFICES ASSUME q < 0 PROVE FALSE
    OBVIOUS
  <2>1. d * q + d <= d * 0
    BY <1>1, Multiples
  <2> QED
    BY <1>1, <2>1
<1>3. q < c
  <2> SUFFICES ASSUME ~(q < c) PROVE FALSE
    OBVIOUS
  <2>1. CASE c = q
    BY <1>1, <2>1
  <2>2. CASE c < q
    <3>1. d * c + d <= d * q
      BY <1>1, <2>2, Multiples
    <3> QED
      BY <1>1, <3>1
  <2> QED
    BY <1>1, <2>1, <2>2
<1> QED
  BY <1>1, <1>2, <1>3 DEF q
=============================================================================
