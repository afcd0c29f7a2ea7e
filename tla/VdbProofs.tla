----------------------------- MODULE VdbProofs -----------------------------
(***************************************************************************)
(* Proofs about the VDB tree and about the interval iterator that walks    *)
(* it: the tree for every topology and every input, the iterator for every *)
(* ray in general position.                                                *)
(***************************************************************************)
EXTENDS VdbIterator, NumberLemmas, FiniteSetTheorems, SequenceTheorems, TLAPS

-----------------------------------------------------------------------------
(***************************************************************************)
(* Rounding down to a multiple: what masking out the lower bits does.      *)
(***************************************************************************)
Floor(n, r) == n - (n % r)

(* The quotient that a range of remainders leaves. *)
LEMMA FloorFacts ==
  ASSUME NEW n \in Int, NEW r \in Nat \ {0}
  PROVE  /\ Floor(n, r) \in Int /\ Floor(n, r) = r * (n \div r) /\ n \div r \in Int
         /\ Floor(n, r) <= n /\ n < Floor(n, r) + r
         /\ n % r \in 0 .. r - 1
<1>1. n \div r \in Int /\ n % r \in 0 .. r - 1 /\ n = r * (n \div r) + (n % r)
  BY Division
<1> DEFINE q == n \div r
           m == n % r
<1>2. q \in Int /\ m \in 0 .. r - 1 /\ n = r * q + m
  BY <1>1
<1>3. Floor(n, r) = n - m
  BY DEF Floor
<1> HIDE DEF q, m
<1>4. Floor(n, r) = r * q /\ r * q \in Int
  BY <1>2, <1>3
<1>5. Floor(n, r) <= n /\ n < Floor(n, r) + r
  BY <1>2, <1>3, <1>4
<1> QED
  BY <1>2, <1>4, <1>5 DEF q, m

(* There is one multiple at a distance less than the divisor. *)
LEMMA FloorIs ==
  ASSUME NEW r \in Nat \ {0}, NEW q \in Int, NEW n \in Int, r * q <= n, n < r * q + r
  PROVE  Floor(n, r) = r * q /\ n % r = n - r * q
<1>1. r * q \in Int
  OBVIOUS
<1> DEFINE m == n - r * q
<1>2. m \in 0 .. r - 1 /\ n = r * q + m
  BY <1>1
<1> HIDE DEF m
<1>3. n % r = m
  BY <1>2, DivisionIsUnique
<1> QED
  BY <1>1, <1>2, <1>3 DEF Floor, m

(* A natural number is rounded to one. *)
LEMMA FloorOfNat ==
  ASSUME NEW n \in Nat, NEW r \in Nat \ {0}
  PROVE  Floor(n, r) \in Nat
<1> DEFINE q == n \div r
<1>0. n \in Int
  OBVIOUS
<1>1. /\ Floor(n, r) \in Int /\ Floor(n, r) = r * q /\ q \in Int
      /\ n < Floor(n, r) + r
  BY <1>0, FloorFacts
<1> HIDE DEF q
<1>2. ~(q < 0)
  <2> SUFFICES ASSUME q < 0 PROVE FALSE
    OBVIOUS
  <2>1. r * q + r <= r * 0
    BY <1>1, Multiples
  <2> QED
    BY <1>1, <2>1
<1>3. r * q \in Nat
  BY <1>1, <1>2
<1> QED
  BY <1>1, <1>3

(* What is on a coarse multiple is on the fine multiple it contains. *)
LEMMA FloorOfFloor ==
  ASSUME NEW n \in Int, NEW r \in Nat \ {0}, NEW k \in Nat \ {0}
  PROVE  Floor(Floor(n, r), k * r) = Floor(n, k * r)
<1> DEFINE f == Floor(n, r)
           p == n \div r
           q == n \div (k * r)
           g == Floor(n, k * r)
<1>1. k * r \in Nat \ {0}
  OBVIOUS
<1>2. f \in Int /\ f = r * p /\ p \in Int /\ f <= n /\ n < f + r
  BY FloorFacts
<1>3. g \in Int /\ g = (k * r) * q /\ q \in Int /\ g <= n /\ n < g + k * r
  BY <1>1, FloorFacts
<1> HIDE DEF f, p, q, g
<1>4. (k * r) * q = r * (k * q) /\ k * q \in Int
  BY <1>3
<1>5. ~(p < k * q)
  <2> SUFFICES ASSUME p < k * q PROVE FALSE
    OBVIOUS
  <2>1. r * p + r <= r * (k * q)
    BY <1>2, <1>4, Multiples
  <2> QED
    BY <1>2, <1>3, <1>4, <2>1
<1>6. r * (k * q) <= r * p
  BY <1>2, <1>4, <1>5
<1>7. (k * r) * q <= f /\ f < (k * r) * q + k * r
  BY <1>1, <1>2, <1>3, <1>4, <1>6
<1>8. Floor(f, k * r) = (k * r) * q
  BY <1>1, <1>2, <1>3, <1>7, FloorIs
<1> QED
  BY <1>3, <1>8 DEF f, g

(* A fine multiple is the coarse one and a number of fine steps. *)
LEMMA FloorInSteps ==
  ASSUME NEW n \in Int, NEW r \in Nat \ {0}, NEW k \in Nat \ {0}
  PROVE  /\ (n % (k * r)) \div r \in 0 .. k - 1
         /\ Floor(n, k * r) + r * ((n % (k * r)) \div r) = Floor(n, r)
<1> DEFINE m == n % (k * r)
           x == m \div r
           q == n \div (k * r)
           g == Floor(n, k * r)
<1>1. k * r \in Nat \ {0}
  OBVIOUS
<1>2. /\ g \in Int /\ g = (k * r) * q /\ q \in Int /\ m \in 0 .. (k * r) - 1
      /\ n = g + m
  <2>1. /\ g \in Int /\ g = (k * r) * q /\ q \in Int /\ m \in 0 .. (k * r) - 1
    BY <1>1, FloorFacts
  <2>2. g = n - m
    BY DEF Floor
  <2> HIDE DEF g, m, q
  <2> QED
    BY <1>1, <2>1, <2>2
<1> HIDE DEF m, q, g
<1>3. m \in Nat /\ m < r * k
  BY <1>1, <1>2
<1>4. x \in 0 .. k - 1
  BY <1>3, QuotientBelow
<1>5. Floor(m, r) = r * x /\ Floor(m, r) <= m /\ m < Floor(m, r) + r /\ Floor(m, r) \in Int
  <2>1. m \in Int
    BY <1>3
  <2> QED
    BY <2>1, FloorFacts
<1> HIDE DEF x
<1>6. (k * r) * q + r * x = r * (k * q + x) /\ k * q + x \in Int
  BY <1>2, <1>4
<1>7. r * (k * q + x) <= n /\ n < r * (k * q + x) + r
  BY <1>2, <1>5, <1>6
<1>8. Floor(n, r) = r * (k * q + x)
  BY <1>6, <1>7, FloorIs
<1> QED
  BY <1>2, <1>4, <1>6, <1>8 DEF g, x, m

(* ... and the other way round. *)
LEMMA StepsFromFloor ==
  ASSUME NEW q \in Int, NEW r \in Nat \ {0}, NEW k \in Nat \ {0}, NEW x \in 0 .. k - 1
  PROVE  /\ Floor((k * r) * q + r * x, k * r) = (k * r) * q
         /\ (((k * r) * q + r * x) % (k * r)) \div r = x
         /\ Floor((k * r) * q + r * x, r) = (k * r) * q + r * x
<1> DEFINE b == (k * r) * q
           n == b + r * x
<1>1. k * r \in Nat \ {0} /\ b \in Int /\ r * x \in Nat /\ r * k = k * r
  OBVIOUS
<1>2. r * x + r <= r * k
  BY Multiples
<1>3. n \in Int /\ b <= n /\ n < b + k * r
  BY <1>1, <1>2
<1>4. Floor(n, k * r) = b /\ n % (k * r) = n - b
  BY <1>1, <1>3, FloorIs
<1>5. n - b = r * x + 0
  BY <1>1
<1>6. (r * x + 0) \div r = x
  BY DivisionIsUnique
<1>7. n = r * (k * q + x) /\ k * q + x \in Int
  OBVIOUS
<1> HIDE DEF n
<1>8. r * (k * q + x) <= n /\ n < r * (k * q + x) + r
  BY <1>3, <1>7
<1>9. Floor(n, r) = r * (k * q + x)
  BY <1>3, <1>7, <1>8, FloorIs
<1> QED
  BY <1>4, <1>5, <1>6, <1>7, <1>9 DEF n

-----------------------------------------------------------------------------
(***************************************************************************)
(* The topology: the resolution of a level is a multiple of that of every  *)
(* level below.                                                            *)
(***************************************************************************)

(* The recursive definition of Res has a solution. *)
LEMMA ResIsDefined ==
  \A l \in 0 .. NumLevels :
      Res[l] = IF l = NumLevels THEN 1 ELSE StorageRes[l] * Res[l + 1]
<1> DEFINE Levels(f, m) ==
               \A l \in NumLevels - m .. NumLevels :
                   f[l] = IF l = NumLevels THEN 1 ELSE StorageRes[l] * f[l + 1]
           Some(m) == \E f : Levels(f, m)
           Stuck == {m \in 0 .. NumLevels : ~Some(m)}
<1>1. NumLevels \in Nat
  BY TopologyAssumption
<1>2. Some(0)
  <2> DEFINE f == [l \in NumLevels .. NumLevels |-> 1]
  <2>1. Levels(f, 0)
    BY <1>1
  <2> QED
    BY <2>1
<1>3. ASSUME NEW m \in 1 .. NumLevels, Some(m - 1) PROVE Some(m)
  <2>1. PICK f : Levels(f, m - 1)
    BY <1>3
  <2> DEFINE k == NumLevels - m
             g == [l \in k .. NumLevels |-> IF l = k THEN StorageRes[k] * f[k + 1] ELSE f[l]]
  <2>2. k \in Nat /\ k < NumLevels /\ NumLevels - (m - 1) = k + 1
    BY <1>1
  <2>3. ASSUME NEW l \in k .. NumLevels
        PROVE  g[l] = IF l = NumLevels THEN 1 ELSE StorageRes[l] * g[l + 1]
    <3>1. CASE l = k
      <4>1. k + 1 \in k .. NumLevels /\ k + 1 # k
        BY <1>1, <2>2
      <4>2. g[k + 1] = f[k + 1]
        BY <4>1
      <4> QED
        BY <2>2, <3>1, <4>2
    <3>2. CASE l # k /\ l # NumLevels
      <4>1. l \in k + 1 .. NumLevels /\ l + 1 \in k .. NumLevels /\ l + 1 # k
        BY <1>1, <2>2, <3>2
      <4>2. f[l] = StorageRes[l] * f[l + 1]
        BY <2>1, <2>2, <3>2, <4>1
      <4> QED
        BY <3>2, <4>1, <4>2
    <3>3. CASE l = NumLevels
      <4>1. l \in k + 1 .. NumLevels /\ l # k
        BY <1>1, <2>2, <3>3
      <4>2. f[l] = 1
        BY <2>1, <2>2, <3>3, <4>1
      <4> QED
        BY <3>3, <4>1, <4>2
    <3> QED
      BY <3>1, <3>2, <3>3
  <2>4. Levels(g, m)
    BY <2>3
  <2> HIDE DEF g, Levels
  <2> QED
    BY <2>4
<1> HIDE DEF Some
<1>4. ASSUME Stuck # {} PROVE FALSE
  <2>1. Stuck \in SUBSET Nat
    BY <1>1
  <2>2. PICK m \in Stuck : \A k \in Stuck : m <= k
    <3> HIDE DEF Stuck
    <3> QED
      BY <1>4, <2>1, LeastNat
  <2>3. m \in 1 .. NumLevels /\ ~Some(m)
    BY <1>1, <1>2, <2>2
  <2>4. m - 1 \notin Stuck
    <3>1. ~(m <= m - 1)
      BY <1>1, <2>3
    <3> HIDE DEF Stuck
    <3> QED
      BY <2>2, <3>1
  <2>5. Some(m - 1)
    BY <1>1, <2>3, <2>4
  <2> QED
    BY <1>3, <2>3, <2>5
<1>5. Some(NumLevels)
  BY <1>1, <1>4
<1>6. PICK f : Levels(f, NumLevels)
  BY <1>5 DEF Some
<1> DEFINE h == [l \in 0 .. NumLevels |-> f[l]]
<1>7. h = [l \in 0 .. NumLevels |->
              IF l = NumLevels THEN 1 ELSE StorageRes[l] * h[l + 1]]
  <2>1. ASSUME NEW l \in 0 .. NumLevels
        PROVE  h[l] = IF l = NumLevels THEN 1 ELSE StorageRes[l] * h[l + 1]
    <3>1. l \in NumLevels - NumLevels .. NumLevels
      BY <1>1
    <3>2. f[l] = IF l = NumLevels THEN 1 ELSE StorageRes[l] * f[l + 1]
      BY <1>6, <3>1
    <3>3. l # NumLevels => l + 1 \in 0 .. NumLevels
      BY <1>1
    <3> QED
      BY <3>2, <3>3
  <2> QED
    BY <2>1
<1> HIDE DEF h
<1>8. Res = [l \in 0 .. NumLevels |->
              IF l = NumLevels THEN 1 ELSE StorageRes[l] * Res[l + 1]]
  BY <1>7 DEF Res
<1> QED
  BY <1>8

LEMMA ResFacts ==
  /\ NumLevels \in Nat \ {0, 1} /\ LeafLevel \in Nat \ {0} /\ LeafLevel + 1 = NumLevels
  /\ \A l \in 0 .. NumLevels : Res[l] \in Nat \ {0}
  /\ \A l \in InnerLevels \cup {LeafLevel} :
        /\ StorageRes[l] \in Nat \ {0, 1}
        /\ Res[l] = StorageRes[l] * Res[l + 1]
        /\ l + 1 \in 0 .. NumLevels /\ l \in 0 .. NumLevels
  /\ Res[NumLevels] = 1
  /\ LeafLevel \in 0 .. NumLevels
<1>1. NumLevels \in Nat \ {0, 1} /\ StorageRes \in [0 .. NumLevels - 1 -> Nat \ {0, 1}]
  BY TopologyAssumption
<1>2. LeafLevel \in Nat \ {0} /\ LeafLevel + 1 = NumLevels /\ LeafLevel \in 0 .. NumLevels
  BY <1>1 DEF LeafLevel
<1> DEFINE Bad == {m \in 0 .. NumLevels : Res[NumLevels - m] \notin Nat \ {0}}
<1>3. ASSUME Bad # {} PROVE FALSE
  <2>1. Bad \in SUBSET Nat
    BY <1>1
  <2>2. PICK m \in Bad : \A k \in Bad : m <= k
    <3> HIDE DEF Bad
    <3> QED
      BY <1>3, <2>1, LeastNat
  <2>3. m \in 0 .. NumLevels /\ Res[NumLevels - m] \notin Nat \ {0}
    BY <2>2
  <2>4. m # 0
    <3>1. NumLevels - 0 = NumLevels /\ NumLevels \in 0 .. NumLevels
      BY <1>1
    <3> QED
      BY <1>1, <2>3, <3>1, ResIsDefined
  <2>5. m - 1 \in 0 .. NumLevels /\ ~(m <= m - 1)
    BY <1>1, <2>3, <2>4
  <2>6. m - 1 \notin Bad
    <3> HIDE DEF Bad
    <3> QED
      BY <2>2, <2>5
  <2> DEFINE l == NumLevels - m
  <2>7. l \in 0 .. NumLevels - 1 /\ l # NumLevels /\ NumLevels - (m - 1) = l + 1 /\ l \in 0 .. NumLevels
    BY <1>1, <2>3, <2>4
  <2>8. Res[l + 1] \in Nat \ {0}
    BY <2>5, <2>6, <2>7
  <2>9. Res[l] = StorageRes[l] * Res[l + 1] /\ StorageRes[l] \in Nat \ {0, 1}
    BY <1>1, <2>7, ResIsDefined
  <2>10. Res[l] \in Nat \ {0}
    BY <2>8, <2>9
  <2> QED
    BY <2>3, <2>10
<1>4. ASSUME NEW l \in 0 .. NumLevels PROVE Res[l] \in Nat \ {0}
  <2>1. NumLevels - l \in 0 .. NumLevels /\ NumLevels - (NumLevels - l) = l
    BY <1>1
  <2> QED
    BY <1>3, <2>1
<1>5. ASSUME NEW l \in InnerLevels \cup {LeafLevel}
      PROVE  /\ StorageRes[l] \in Nat \ {0, 1}
             /\ Res[l] = StorageRes[l] * Res[l + 1]
             /\ l + 1 \in 0 .. NumLevels /\ l \in 0 .. NumLevels
  <2>1. /\ l \in 0 .. NumLevels - 1 /\ l # NumLevels
        /\ l + 1 \in 0 .. NumLevels /\ l \in 0 .. NumLevels
    BY <1>1, <1>2 DEF InnerLevels
  <2> QED
    BY <1>1, <2>1, ResIsDefined
<1>6. Res[NumLevels] = 1
  <2>1. NumLevels \in 0 .. NumLevels
    BY <1>1
  <2> QED
    BY <2>1, ResIsDefined
<1> QED
  BY <1>1, <1>2, <1>4, <1>5, <1>6

(* The resolution of a level is a multiple of that of a level below. *)
LEMMA ResDivides ==
  ASSUME NEW m \in 0 .. NumLevels, NEW l \in 0 .. m
  PROVE  \E k \in Nat \ {0} : Res[l] = k * Res[m]
<1> DEFINE Good(d) == \E k \in Nat \ {0} : Res[m - d] = k * Res[m]
           Bad == {d \in 0 .. m : ~Good(d)}
<1>1. NumLevels \in Nat /\ m \in Nat /\ Res[m] \in Nat \ {0}
  BY ResFacts
<1>2. Good(0)
  <2>1. m - 0 = m /\ Res[m] = 1 * Res[m] /\ 1 \in Nat \ {0}
    BY <1>1
  <2> QED
    BY <2>1
<1>3. ASSUME Bad # {} PROVE FALSE
  <2>1. Bad \in SUBSET Nat
    BY <1>1
  <2>2. PICK d \in Bad : \A e \in Bad : d <= e
    <3> HIDE DEF Bad
    <3> QED
      BY <1>3, <2>1, LeastNat
  <2>3. d \in 0 .. m /\ ~Good(d)
    BY <2>2
  <2>4. d # 0
    BY <1>2, <2>3
  <2>5. d - 1 \in 0 .. m /\ ~(d <= d - 1)
    BY <1>1, <2>3, <2>4
  <2>6. Good(d - 1)
    <3>1. d - 1 \notin Bad
      <4> HIDE DEF Bad
      <4> QED
        BY <2>2, <2>5
    <3> QED
      BY <2>5, <3>1
  <2>7. PICK k \in Nat \ {0} : Res[m - (d - 1)] = k * Res[m]
    BY <2>6
  <2> DEFINE n == m - d
  <2>8. n \in InnerLevels \cup {LeafLevel} /\ n + 1 = m - (d - 1)
    BY <1>1, <2>3, <2>4 DEF InnerLevels, LeafLevel
  <2>9. Res[n] = StorageRes[n] * Res[n + 1] /\ StorageRes[n] \in Nat \ {0}
    BY <2>8, ResFacts
  <2>10. Res[n] = StorageRes[n] * (k * Res[m])
    BY <2>7, <2>8, <2>9
  <2>11. /\ StorageRes[n] * (k * Res[m]) = (StorageRes[n] * k) * Res[m]
         /\ StorageRes[n] * k \in Nat \ {0}
    BY <1>1, <2>9
  <2> QED
    BY <2>3, <2>10, <2>11
<1>4. m - l \in 0 .. m /\ m - (m - l) = l
  BY <1>1
<1> QED
  BY <1>3, <1>4

-----------------------------------------------------------------------------
(***************************************************************************)
(* Coordinates, node origins and voxel indices.                            *)
(***************************************************************************)
Coordinates == [Axes -> Int]

LevelsDown == 0 .. LeafLevel

(* the lower corner of voxel x of a node at b on level l *)
Corner(b, x, l) == [a \in Axes |-> b[a] + Res[l + 1] * x[a]]

LEMMA LevelFacts ==
  ASSUME NEW l \in LevelsDown
  PROVE  /\ Res[l] \in Nat \ {0} /\ Res[l + 1] \in Nat \ {0} /\ StorageRes[l] \in Nat \ {0, 1}
         /\ Res[l] = StorageRes[l] * Res[l + 1]
         /\ l \in 0 .. NumLevels /\ l + 1 \in 0 .. NumLevels
<1>1. l \in InnerLevels \cup {LeafLevel}
  BY ResFacts DEF LevelsDown, InnerLevels
<1> QED
  BY <1>1, ResFacts

LEMMA NodeOriginFacts ==
  ASSUME NEW o \in Coordinates, NEW l \in 0 .. NumLevels
  PROVE  /\ NodeOrigin(o, l) \in Coordinates
         /\ \A a \in Axes : /\ NodeOrigin(o, l)[a] = Floor(o[a], Res[l])
                            /\ NodeOrigin(o, l)[a] <= o[a]
                            /\ o[a] < NodeOrigin(o, l)[a] + Res[l]
         /\ o \in [Axes -> Nat] => NodeOrigin(o, l) \in [Axes -> Nat]
<1>1. Res[l] \in Nat \ {0}
  BY ResFacts
<1>2. ASSUME NEW a \in Axes
      PROVE  /\ NodeOrigin(o, l)[a] = Floor(o[a], Res[l])
             /\ Floor(o[a], Res[l]) \in Int
             /\ Floor(o[a], Res[l]) <= o[a] /\ o[a] < Floor(o[a], Res[l]) + Res[l]
  <2>1. o[a] \in Int
    BY DEF Coordinates
  <2>2. NodeOrigin(o, l)[a] = Floor(o[a], Res[l])
    BY DEF NodeOrigin, Floor
  <2> QED
    BY <1>1, <2>1, <2>2, FloorFacts
<1>3. DOMAIN NodeOrigin(o, l) = Axes /\ NodeOrigin(o, l) = [a \in Axes |-> NodeOrigin(o, l)[a]]
  BY DEF NodeOrigin
<1>4. NodeOrigin(o, l) \in Coordinates
  BY <1>2, <1>3 DEF Coordinates
<1>5. ASSUME o \in [Axes -> Nat] PROVE NodeOrigin(o, l) \in [Axes -> Nat]
  <2>1. \A a \in Axes : NodeOrigin(o, l)[a] \in Nat
    <3> TAKE a \in Axes
    <3>1. o[a] \in Nat
      BY <1>5
    <3> QED
      BY <1>1, <1>2, <3>1, FloorOfNat
  <2> QED
    BY <1>3, <2>1
<1> QED
  BY <1>2, <1>4, <1>5

(* The node that contains a coordinate is the one less than its extent below it. *)
LEMMA NodeOriginIs ==
  ASSUME NEW o \in Coordinates, NEW l \in 0 .. NumLevels, NEW b \in Coordinates,
         NodeOrigin(b, l) = b, \A a \in Axes : b[a] <= o[a] /\ o[a] < b[a] + Res[l]
  PROVE  NodeOrigin(o, l) = b
<1>1. ASSUME NEW a \in Axes PROVE NodeOrigin(o, l)[a] = b[a]
  <2>1. o[a] \in Int /\ b[a] \in Int /\ Res[l] \in Nat \ {0}
    BY ResFacts DEF Coordinates
  <2> DEFINE q == b[a] \div Res[l]
  <2>2. Floor(b[a], Res[l]) = Res[l] * q /\ q \in Int
    BY <2>1, FloorFacts
  <2>3. Floor(b[a], Res[l]) = b[a]
    BY NodeOriginFacts
  <2> HIDE DEF q
  <2>4. Res[l] * q <= o[a] /\ o[a] < Res[l] * q + Res[l]
    BY <2>2, <2>3
  <2>5. Floor(o[a], Res[l]) = Res[l] * q
    BY <2>1, <2>2, <2>4, FloorIs
  <2> QED
    BY <2>2, <2>3, <2>5, NodeOriginFacts
<1>2. NodeOrigin(o, l) \in Coordinates
  BY NodeOriginFacts
<1> QED
  BY <1>1, <1>2 DEF Coordinates

(* A node on level l is inside one on each level m above. *)
LEMMA NodesNest ==
  ASSUME NEW o \in Coordinates, NEW m \in 0 .. NumLevels, NEW l \in 0 .. m
  PROVE  NodeOrigin(NodeOrigin(o, m), l) = NodeOrigin(o, l)
<1>1. PICK k \in Nat \ {0} : Res[l] = k * Res[m]
  BY ResDivides
<1>2. l \in 0 .. NumLevels /\ Res[m] \in Nat \ {0}
  BY ResFacts
<1> DEFINE p == NodeOrigin(o, m)
<1>3. p \in Coordinates
  BY NodeOriginFacts
<1>4. ASSUME NEW a \in Axes PROVE NodeOrigin(p, l)[a] = NodeOrigin(o, l)[a]
  <2>1. o[a] \in Int
    BY DEF Coordinates
  <2>2. Floor(Floor(o[a], Res[m]), k * Res[m]) = Floor(o[a], k * Res[m])
    BY <1>2, <2>1, FloorOfFloor
  <2>3. p[a] = Floor(o[a], Res[m])
    BY NodeOriginFacts
  <2>4. NodeOrigin(o, l)[a] = Floor(o[a], Res[l])
    BY <1>2, NodeOriginFacts
  <2>5. NodeOrigin(p, l)[a] = Floor(p[a], Res[l])
    BY <1>2, <1>3, NodeOriginFacts
  <2> QED
    BY <1>1, <2>2, <2>3, <2>4, <2>5
<1>5. NodeOrigin(p, l) \in Coordinates /\ NodeOrigin(o, l) \in Coordinates
  BY <1>2, <1>3, NodeOriginFacts
<1> QED
  BY <1>4, <1>5 DEF Coordinates

(* What is in one node on level m is in one node on each level above. *)
LEMMA SameNodeAbove ==
  ASSUME NEW o \in Coordinates, NEW p \in Coordinates, NEW m \in 0 .. NumLevels,
         NEW l \in 0 .. m, NodeOrigin(o, m) = NodeOrigin(p, m)
  PROVE  NodeOrigin(o, l) = NodeOrigin(p, l)
<1>1. NodeOrigin(NodeOrigin(o, m), l) = NodeOrigin(o, l)
  BY NodesNest
<1>2. NodeOrigin(NodeOrigin(p, m), l) = NodeOrigin(p, l)
  BY NodesNest
<1> QED
  BY <1>1, <1>2

(* The voxel of an offset is the node below that contains it. *)
LEMMA VoxelOfOffset ==
  ASSUME NEW o \in Coordinates, NEW l \in LevelsDown
  PROVE  /\ VoxelIndex(o, l) \in VoxelIndices(l)
         /\ Corner(NodeOrigin(o, l), VoxelIndex(o, l), l) = NodeOrigin(o, l + 1)
<1>1. /\ Res[l + 1] \in Nat \ {0} /\ StorageRes[l] \in Nat \ {0}
      /\ Res[l] = StorageRes[l] * Res[l + 1] /\ l \in 0 .. NumLevels /\ l + 1 \in 0 .. NumLevels
  BY LevelFacts
<1> DEFINE k == StorageRes[l]
           r == Res[l + 1]
           x == VoxelIndex(o, l)
<1>2. ASSUME NEW a \in Axes
      PROVE  x[a] \in 0 .. k - 1 /\ Floor(o[a], Res[l]) + r * x[a] = Floor(o[a], r)
  <2>1. o[a] \in Int
    BY DEF Coordinates
  <2>2. x[a] = (o[a] % Res[l]) \div r
    BY DEF VoxelIndex
  <2>3. r \in Nat \ {0} /\ k \in Nat \ {0} /\ Res[l] = k * r
    BY <1>1
  <2> HIDE DEF r, k, x
  <2>4. /\ (o[a] % (k * r)) \div r \in 0 .. k - 1
        /\ Floor(o[a], k * r) + r * ((o[a] % (k * r)) \div r) = Floor(o[a], r)
    BY <2>1, <2>3, FloorInSteps
  <2> QED
    BY <2>2, <2>3, <2>4
<1>3. x = [a \in Axes |-> x[a]]
  BY DEF VoxelIndex
<1>4. x \in VoxelIndices(l)
  BY <1>2, <1>3 DEF VoxelIndices
<1> DEFINE p == Corner(NodeOrigin(o, l), x, l)
<1>5. ASSUME NEW a \in Axes PROVE p[a] = NodeOrigin(o, l + 1)[a]
  <2>1. p[a] = NodeOrigin(o, l)[a] + r * x[a]
    BY DEF Corner
  <2>2. NodeOrigin(o, l)[a] = Floor(o[a], Res[l]) /\ NodeOrigin(o, l + 1)[a] = Floor(o[a], r)
    BY <1>1, NodeOriginFacts
  <2> QED
    BY <1>2, <2>1, <2>2
<1>6. NodeOrigin(o, l + 1) \in Coordinates
  BY <1>1, NodeOriginFacts
<1>7. p = NodeOrigin(o, l + 1)
  BY <1>5, <1>6 DEF Corner, Coordinates
<1> QED
  BY <1>4, <1>7

(* ... and a voxel of a node contains its own corner, in that node. *)
LEMMA OffsetOfVoxel ==
  ASSUME NEW l \in LevelsDown, NEW b \in Coordinates, NodeOrigin(b, l) = b,
         NEW x \in VoxelIndices(l)
  PROVE  /\ Corner(b, x, l) \in Coordinates
         /\ NodeOrigin(Corner(b, x, l), l) = b
         /\ VoxelIndex(Corner(b, x, l), l) = x
         /\ NodeOrigin(Corner(b, x, l), l + 1) = Corner(b, x, l)
<1>1. /\ Res[l] \in Nat \ {0} /\ Res[l + 1] \in Nat \ {0} /\ StorageRes[l] \in Nat \ {0}
      /\ Res[l] = StorageRes[l] * Res[l + 1] /\ l \in 0 .. NumLevels /\ l + 1 \in 0 .. NumLevels
  BY LevelFacts
<1> DEFINE k == StorageRes[l]
           r == Res[l + 1]
           p == Corner(b, x, l)
<1>2. ASSUME NEW a \in Axes
      PROVE  /\ p[a] \in Int
             /\ Floor(p[a], Res[l]) = b[a] /\ (p[a] % Res[l]) \div r = x[a]
             /\ Floor(p[a], r) = p[a]
  <2>1. b[a] \in Int /\ x[a] \in 0 .. k - 1
    BY DEF Coordinates, VoxelIndices
  <2> DEFINE q == b[a] \div Res[l]
  <2>2. Floor(b[a], Res[l]) = Res[l] * q /\ q \in Int
    BY <1>1, <2>1, FloorFacts
  <2>3. Floor(b[a], Res[l]) = b[a]
    BY <1>1, NodeOriginFacts
  <2>4. p[a] = b[a] + r * x[a]
    BY DEF Corner
  <2> HIDE DEF q, p
  <2>5. p[a] = (k * r) * q + r * x[a]
    BY <1>1, <2>2, <2>3, <2>4
  <2>6. /\ Floor(p[a], k * r) = (k * r) * q
        /\ (p[a] % (k * r)) \div r = x[a]
        /\ Floor(p[a], r) = p[a]
    <3> HIDE DEF k, r
    <3>1. r \in Nat \ {0} /\ k \in Nat \ {0} /\ x[a] \in 0 .. k - 1
      BY <1>1, <2>1 DEF k, r
    <3>2. /\ Floor((k * r) * q + r * x[a], k * r) = (k * r) * q
          /\ (((k * r) * q + r * x[a]) % (k * r)) \div r = x[a]
          /\ Floor((k * r) * q + r * x[a], r) = (k * r) * q + r * x[a]
      BY <2>2, <3>1, StepsFromFloor, Zenon
    <3> QED
      BY <2>5, <3>2
  <2>7. p[a] \in Int
    <3> HIDE DEF k, r
    <3>1. r \in Nat \ {0} /\ x[a] \in 0 .. k - 1 /\ k \in Nat
      BY <1>1, <2>1 DEF k, r
    <3> QED
      BY <2>1, <2>4, <3>1
  <2> QED
    BY <1>1, <2>2, <2>3, <2>6, <2>7
<1>3. p \in Coordinates
  BY <1>2 DEF Corner, Coordinates
<1>4. NodeOrigin(p, l) = b
  <2>1. \A a \in Axes : NodeOrigin(p, l)[a] = b[a]
    <3> HIDE DEF p
    <3> QED
      BY <1>1, <1>2, <1>3, NodeOriginFacts
  <2>2. NodeOrigin(p, l) \in Coordinates
    BY <1>1, <1>3, NodeOriginFacts
  <2> QED
    BY <2>1, <2>2 DEF Coordinates
<1>5. VoxelIndex(p, l) = x
  <2>1. \A a \in Axes : VoxelIndex(p, l)[a] = x[a]
    BY <1>2 DEF VoxelIndex
  <2> HIDE DEF p
  <2> QED
    BY <2>1 DEF VoxelIndex, VoxelIndices
<1>6. NodeOrigin(p, l + 1) = p
  <2>1. \A a \in Axes : NodeOrigin(p, l + 1)[a] = p[a]
    <3> HIDE DEF p
    <3> QED
      BY <1>1, <1>2, <1>3, NodeOriginFacts
  <2>2. NodeOrigin(p, l + 1) \in Coordinates
    BY <1>1, <1>3, NodeOriginFacts
  <2> QED
    BY <1>3, <2>1, <2>2 DEF Coordinates
<1> QED
  BY <1>3, <1>4, <1>5, <1>6

(* Voxels with the same corner are the same. *)
LEMMA CornersDiffer ==
  ASSUME NEW l \in LevelsDown, NEW b \in Coordinates, NodeOrigin(b, l) = b,
         NEW c \in Coordinates, NodeOrigin(c, l) = c,
         NEW x \in VoxelIndices(l), NEW y \in VoxelIndices(l),
         Corner(b, x, l) = Corner(c, y, l)
  PROVE  b = c /\ x = y
<1>1. NodeOrigin(Corner(b, x, l), l) = b /\ VoxelIndex(Corner(b, x, l), l) = x
  BY OffsetOfVoxel
<1>2. NodeOrigin(Corner(c, y, l), l) = c /\ VoxelIndex(Corner(c, y, l), l) = y
  BY OffsetOfVoxel
<1> QED
  BY <1>1, <1>2

-----------------------------------------------------------------------------
(***************************************************************************)
(* The input, its bounding box and the offsets of the leaves.              *)
(***************************************************************************)

(* The image of a finite set is finite. *)
LEMMA FiniteImage ==
  ASSUME NEW S, IsFiniteSet(S), NEW h
  PROVE  IsFiniteSet({h[x] : x \in S})
<1> DEFINE T == {h[x] : x \in S}
           f == [x \in S |-> h[x]]
<1>1. f \in [S -> T] /\ \A t \in T : \E x \in S : f[x] = t
  OBVIOUS
<1> HIDE DEF f, T
<1>2. f \in Surjection(S, T)
  BY <1>1 DEF Surjection
<1> QED
  BY <1>2, FS_Surjection DEF T

LEMMA InputFacts ==
  ASSUME leaves \in Inputs
  PROVE  /\ Len(leaves) \in Nat \ {0} /\ IsFiniteSet(Leaves) /\ Leaves # {}
         /\ Leaves \subseteq Nat \ {0}
         /\ \A i \in Leaves :
               /\ leaves[i].level \in LevelsDown /\ leaves[i].origin \in Coordinates
               /\ leaves[i].format \in {"TILE", "DENSE_ZYX"}
               /\ Extent(i) \in Nat \ {0}
               /\ leaves[i].level \in 0 .. NumLevels
<1>1. /\ leaves \in Seq([level : 0 .. LeafLevel, origin : [Axes -> Int],
                         format : {"TILE", "DENSE_ZYX"}])
      /\ leaves # <<>>
  BY TreeAssumption
<1>2. Len(leaves) \in Nat \ {0}
  BY <1>1
<1>3. IsFiniteSet(Leaves) /\ Leaves # {} /\ Leaves \subseteq Nat \ {0}
  <2> DEFINE n == Len(leaves)
  <2>1. n \in Nat \ {0} /\ Leaves = 1 .. n
    BY <1>2 DEF Leaves
  <2> HIDE DEF n
  <2>2. 1 \in Int /\ n \in Int
    BY <2>1
  <2>3. IsFiniteSet(1 .. n)
    BY <2>2, FS_Interval
  <2> QED
    BY <2>1, <2>3
<1>4. ASSUME NEW i \in Leaves
      PROVE  leaves[i] \in [level : 0 .. LeafLevel, origin : [Axes -> Int],
                            format : {"TILE", "DENSE_ZYX"}]
  <2> DEFINE R == [level : 0 .. LeafLevel, origin : [Axes -> Int],
                   format : {"TILE", "DENSE_ZYX"}]
  <2>1. leaves \in Seq(R) /\ i \in 1 .. Len(leaves)
    BY <1>1 DEF Leaves
  <2> HIDE DEF R
  <2>2. leaves[i] \in R
    BY <2>1
  <2> QED
    BY <2>2 DEF R
<1>5. ASSUME NEW i \in Leaves
      PROVE  /\ leaves[i].level \in LevelsDown /\ leaves[i].origin \in Coordinates
             /\ leaves[i].format \in {"TILE", "DENSE_ZYX"}
  BY <1>4 DEF LevelsDown, Coordinates
<1>6. ASSUME NEW i \in Leaves PROVE Extent(i) \in Nat \ {0} /\ leaves[i].level \in 0 .. NumLevels
  BY <1>5, LevelFacts DEF Extent
<1> QED
  BY <1>2, <1>3, <1>5, <1>6

(* The smallest and the largest of finitely many numbers. *)
LEMMA SmallestAndLargest ==
  ASSUME NEW S \in SUBSET Int, IsFiniteSet(S), S # {}
  PROVE  /\ SmallestOf(S) \in S /\ \A m \in S : SmallestOf(S) <= m
         /\ LargestOf(S) \in S /\ \A m \in S : m <= LargestOf(S)
<1>1. (\E n \in S : \A m \in S : n <= m) /\ (\E n \in S : \A m \in S : m <= n)
  BY Extremes
<1>2. \E n \in S : \A m \in S : n >= m
  BY <1>1
<1>3. SmallestOf(S) \in S /\ \A m \in S : SmallestOf(S) <= m
  BY <1>1 DEF SmallestOf
<1>4. LargestOf(S) \in S /\ \A m \in S : LargestOf(S) >= m
  BY <1>2 DEF LargestOf
<1>5. \A m \in S : m <= LargestOf(S)
  BY <1>4
<1> QED
  BY <1>3, <1>4, <1>5

LEMMA BoundsFacts ==
  ASSUME leaves \in Inputs, NEW a \in Axes
  PROVE  /\ Lower[a] \in Int /\ Upper[a] \in Int
         /\ \A i \in Leaves : /\ Lower[a] <= leaves[i].origin[a]
                              /\ leaves[i].origin[a] + Extent(i) <= Upper[a]
         /\ \E i \in Leaves : Lower[a] = leaves[i].origin[a]
         /\ \E i \in Leaves : Upper[a] = leaves[i].origin[a] + Extent(i)
         /\ Lower[a] < Upper[a]
<1> DEFINE S == {leaves[i].origin[a] : i \in Leaves}
           T == {leaves[i].origin[a] + Extent(i) : i \in Leaves}
<1>1. \A i \in Leaves : leaves[i].origin[a] \in Int /\ Extent(i) \in Nat \ {0}
  BY InputFacts DEF Coordinates
<1>2. S \in SUBSET Int /\ T \in SUBSET Int
  BY <1>1
<1>3. IsFiniteSet(Leaves) /\ Leaves # {}
  BY InputFacts
<1> DEFINE g == [i \in Leaves |-> leaves[i].origin[a]]
           h == [i \in Leaves |-> leaves[i].origin[a] + Extent(i)]
<1>4. IsFiniteSet(S) /\ IsFiniteSet(T)
  <2>1. S = {g[i] : i \in Leaves} /\ T = {h[i] : i \in Leaves}
    OBVIOUS
  <2> HIDE DEF g, h, S, T
  <2> QED
    BY <1>3, <2>1, FiniteImage
<1>5. S # {} /\ T # {}
  BY <1>3
<1>6. Lower[a] = SmallestOf(S) /\ Upper[a] = LargestOf(T)
  BY DEF Lower, Upper
<1>7. /\ \A i \in Leaves : leaves[i].origin[a] \in S /\ leaves[i].origin[a] + Extent(i) \in T
      /\ \A m \in S : \E i \in Leaves : m = leaves[i].origin[a]
      /\ \A m \in T : \E i \in Leaves : m = leaves[i].origin[a] + Extent(i)
  OBVIOUS
<1> HIDE DEF S, T
<1>8. /\ Lower[a] \in S /\ \A m \in S : Lower[a] <= m
      /\ Upper[a] \in T /\ \A m \in T : m <= Upper[a]
  BY <1>2, <1>4, <1>5, <1>6, SmallestAndLargest
<1>9. Lower[a] \in Int /\ Upper[a] \in Int
  BY <1>2, <1>8
<1>10. \A i \in Leaves : /\ Lower[a] <= leaves[i].origin[a]
                         /\ leaves[i].origin[a] + Extent(i) <= Upper[a]
  BY <1>7, <1>8
<1>11. Lower[a] < Upper[a]
  <2>1. PICK i \in Leaves : Lower[a] = leaves[i].origin[a]
    BY <1>7, <1>8
  <2> QED
    BY <1>1, <1>9, <1>10, <2>1
<1> QED
  BY <1>7, <1>8, <1>9, <1>10, <1>11

(* The root is where the bounding box begins, or less than a child of the root before. *)
LEMMA RootFacts ==
  ASSUME leaves \in Inputs
  PROVE  /\ RootOrigin(Lower) \in Coordinates
         /\ \A a \in Axes : /\ RootOrigin(Lower)[a] <= Lower[a]
                            /\ Lower[a] < RootOrigin(Lower)[a] + Res[1]
                            /\ \E q \in Int : RootOrigin(Lower)[a] = Res[1] * q
         /\ Minus(Upper, RootOrigin(Lower)) \in [Axes -> Nat]
<1> DEFINE r == RootOrigin(Lower)
<1>1. Res[1] \in Nat \ {0}
  BY ResFacts
<1>2. ASSUME NEW a \in Axes
      PROVE  /\ r[a] \in Int /\ r[a] <= Lower[a] /\ Lower[a] < r[a] + Res[1]
             /\ \E q \in Int : r[a] = Res[1] * q
             /\ Upper[a] - r[a] \in Nat
  <2>1. Lower[a] \in Int /\ Upper[a] \in Int /\ Lower[a] < Upper[a]
    BY BoundsFacts
  <2>2. r[a] = Res[1] * (Lower[a] \div Res[1])
    BY DEF RootOrigin
  <2>3. /\ Floor(Lower[a], Res[1]) = Res[1] * (Lower[a] \div Res[1])
        /\ Lower[a] \div Res[1] \in Int /\ Floor(Lower[a], Res[1]) \in Int
        /\ Floor(Lower[a], Res[1]) <= Lower[a]
        /\ Lower[a] < Floor(Lower[a], Res[1]) + Res[1]
    BY <1>1, <2>1, FloorFacts
  <2>4. /\ r[a] \in Int /\ r[a] <= Lower[a] /\ Lower[a] < r[a] + Res[1]
        /\ \E q \in Int : r[a] = Res[1] * q
    BY <2>2, <2>3
  <2> HIDE DEF r
  <2>5. Upper[a] - r[a] \in Nat
    BY <2>1, <2>4
  <2> QED
    BY <2>4, <2>5
<1>3. r \in Coordinates
  BY <1>2 DEF RootOrigin, Coordinates
<1>4. Minus(Upper, r) \in [Axes -> Nat]
  BY <1>2 DEF Minus
<1> QED
  BY <1>2, <1>3, <1>4

LEMMA OffsetFacts ==
  ASSUME leaves \in Inputs, rootOrigin = RootOrigin(Lower), NEW i \in Leaves
  PROVE  /\ Offset(i) \in [Axes -> Nat] /\ Offset(i) \in Coordinates
         /\ \A a \in Axes : Offset(i)[a] = leaves[i].origin[a] - rootOrigin[a]
<1>1. ASSUME NEW a \in Axes
      PROVE  Offset(i)[a] = leaves[i].origin[a] - rootOrigin[a] /\ Offset(i)[a] \in Nat
  <2>1. leaves[i].origin[a] \in Int
    BY InputFacts DEF Coordinates
  <2>2. rootOrigin[a] \in Int /\ rootOrigin[a] <= Lower[a] /\ Lower[a] \in Int
    BY RootFacts, BoundsFacts DEF Coordinates
  <2>3. Lower[a] <= leaves[i].origin[a]
    BY BoundsFacts
  <2>4. Offset(i)[a] = leaves[i].origin[a] - rootOrigin[a]
    BY DEF Offset, Minus
  <2> QED
    BY <2>1, <2>2, <2>3, <2>4
<1>2. Offset(i) = [a \in Axes |-> Offset(i)[a]]
  BY DEF Offset, Minus
<1>3. Offset(i) \in [Axes -> Nat]
  BY <1>1, <1>2
<1> QED
  BY <1>1, <1>3 DEF Coordinates

-----------------------------------------------------------------------------
(***************************************************************************)
(* The first part of the inductive invariant: what has been computed in    *)
(* each phase, and the shape of the tree.                                  *)
(***************************************************************************)
Allocated == phase \in {"insert", "computeRanges", "committed"}

Verified == phase = "allocate" \/ Allocated

InputOK == leaves \in Inputs /\ packed \in BOOLEAN

ExtentOK ==
    phase = "verify" \/ Verified =>
        rootOrigin = RootOrigin(Lower) /\ activeSize = Minus(Upper, rootOrigin)

(* the inner nodes that the leaves need on a level *)
AllOrigins(l) == {NodeOrigin(Offset(i), l) : i \in {j \in Leaves : leaves[j].level > l}}

Nothing ==
    /\ cursor = Root /\ DOMAIN voxels = {}
    /\ origin = [l \in InnerLevels |-> <<>>]

CountsOK ==
    /\ phase \in {"uncommitted", "verify"} => Nothing /\ level = LeafLevel /\ oldInner = {}
    /\ Verified => \A i \in Leaves : ~Invalid(i)
    /\ phase = "allocate" =>
          /\ Nothing /\ level \in 1 .. LeafLevel /\ todo = Leaves
          /\ oldInner = AllOrigins(level)
          /\ \A l \in level .. LeafLevel - 1 : capacity[l] = Cardinality(AllOrigins(l))
    /\ Allocated =>
          /\ origin[0] = <<Zero>>
          /\ \A l \in InnerLevels : capacity[l] = Cardinality(AllOrigins(l))

CursorOK ==
    phase = "insert" => \A i \in Leaves : Current(i) => cursor.level < leaves[i].level

ShapeInv == InputOK /\ ExtentOK /\ CountsOK /\ CursorOK /\ TypeOK

(* What does not depend on the tree. *)
LEMMA InputStays ==
  ASSUME leaves' = leaves, packed' = packed
  PROVE  /\ Leaves' = Leaves /\ Lower' = Lower /\ Upper' = Upper /\ InputOK' = InputOK
         /\ \A i : /\ Extent(i)' = Extent(i) /\ Invalid(i)' = Invalid(i)
                   /\ PackedIndex(i)' = PackedIndex(i) /\ LeafPtr(i)' = LeafPtr(i)
         /\ TooLarge' = TooLarge
<1>1. Leaves' = Leaves /\ \A i : Extent(i)' = Extent(i)
  BY DEF Leaves, Extent
<1>2. Lower' = Lower /\ Upper' = Upper
  BY <1>1 DEF Lower, Upper
<1>3. \A i : Invalid(i)' = Invalid(i)
  BY DEF Invalid
<1>4. \A i : PackedIndex(i)' = PackedIndex(i)
  BY DEF PackedIndex
<1>5. \A i : LeafPtr(i)' = LeafPtr(i)
  BY <1>4 DEF LeafPtr
<1>6. InputOK' = InputOK /\ TooLarge' = TooLarge
  BY <1>2 DEF InputOK, TooLarge
<1> QED
  BY <1>1, <1>2, <1>3, <1>4, <1>5, <1>6

LEMMA OffsetsStay ==
  ASSUME leaves' = leaves, packed' = packed, rootOrigin' = rootOrigin
  PROVE  /\ \A i : Offset(i)' = Offset(i)
         /\ \A l : AllOrigins(l)' = AllOrigins(l)
<1>1. \A i : Offset(i)' = Offset(i)
  BY DEF Offset
<1> QED
  BY <1>1, InputStays DEF AllOrigins

LEMMA ShapeInitially == Init => ShapeInv
<1> SUFFICES ASSUME Init PROVE ShapeInv
  OBVIOUS
<1>1. LeafLevel \in Nat \ {0}
  BY ResFacts
<1>2. InputOK /\ ExtentOK /\ CountsOK /\ CursorOK
  BY DEF Init, InputOK, ExtentOK, CountsOK, CursorOK, Verified, Allocated, Nothing
<1>3. Zero \in [Axes -> Nat] /\ Zero \in [Axes -> Int]
  BY DEF Zero
<1>4. cursor \in [level : InnerLevels, node : Nat]
  BY <1>1 DEF Init, Root, InnerLevels
<1>5. origin \in [InnerLevels -> Seq([Axes -> Nat])]
  BY DEF Init
<1>6. capacity \in [InnerLevels -> Nat]
  BY DEF Init
<1>7. DOMAIN voxels = {}
  BY DEF Init
<1>8. TypeOK
  BY <1>1, <1>3, <1>4, <1>5, <1>6, <1>7 DEF Init, TypeOK
<1> QED
  BY <1>2, <1>8 DEF ShapeInv

LEMMA ShapeAfterFail ==
  ASSUME ShapeInv, Fail PROVE ShapeInv'
<1>1. /\ phase' = "failed"
      /\ UNCHANGED <<leaves, packed, rootOrigin, activeSize, level, oldInner, capacity,
                     todo, cursor, origin, voxels>>
  BY DEF Fail, input, extent, counts, tree
<1>2. InputOK' /\ ExtentOK' /\ CountsOK' /\ CursorOK'
  BY <1>1 DEF ShapeInv, InputOK, ExtentOK, CountsOK, CursorOK, Verified, Allocated
<1>3. Leaves' = Leaves /\ \A i \in Leaves : LeafPtr(i)' = LeafPtr(i)
  BY <1>1, InputStays
<1>4. TypeOK'
  BY <1>1, <1>3 DEF ShapeInv, TypeOK
<1> QED
  BY <1>2, <1>4 DEF ShapeInv

LEMMA ShapeAfterRoot ==
  ASSUME ShapeInv, ComputeRoot PROVE ShapeInv'
<1>1. CASE TooLarge
  BY <1>1, ShapeAfterFail DEF ComputeRoot
<1>2. CASE ~TooLarge
  <2>1. /\ phase = "uncommitted" /\ phase' = "verify"
        /\ rootOrigin' = RootOrigin(Lower)
        /\ activeSize' = Minus(Upper, RootOrigin(Lower))
        /\ UNCHANGED <<leaves, packed, level, oldInner, capacity, todo, cursor, origin, voxels>>
    BY <1>2 DEF ComputeRoot, input, counts, tree
  <2>2. Lower' = Lower /\ Upper' = Upper /\ Leaves' = Leaves /\ InputOK'
        /\ \A i \in Leaves : LeafPtr(i)' = LeafPtr(i)
    BY <2>1, InputStays DEF ShapeInv
  <2>3. rootOrigin' = RootOrigin(Lower)' /\ activeSize' = Minus(Upper, rootOrigin)'
    BY <2>1, <2>2 DEF RootOrigin, Minus
  <2>4. ExtentOK'
    BY <2>3 DEF ExtentOK
  <2>5. CountsOK' /\ CursorOK'
    BY <2>1 DEF ShapeInv, CountsOK, CursorOK, Verified, Allocated, Nothing
  <2>6. rootOrigin' \in [Axes -> Int] /\ activeSize' \in [Axes -> Nat]
    BY <2>1, RootFacts DEF ShapeInv, InputOK, Coordinates
  <2>7. TypeOK'
    BY <2>1, <2>2, <2>6 DEF ShapeInv, TypeOK
  <2> QED
    BY <2>2, <2>4, <2>5, <2>7 DEF ShapeInv
<1> QED
  BY <1>1, <1>2

(* Below the leaf level there is nothing to allocate. *)
LEMMA NoOrigins ==
  ASSUME leaves \in Inputs PROVE AllOrigins(LeafLevel) = {}
<1>1. \A i \in Leaves : ~(leaves[i].level > LeafLevel)
  BY InputFacts, ResFacts DEF LevelsDown
<1> QED
  BY <1>1 DEF AllOrigins

LEMMA ShapeAfterVerify ==
  ASSUME ShapeInv, VerifyLeaves PROVE ShapeInv'
<1>1. CASE \E i \in Leaves : Invalid(i)
  BY <1>1, ShapeAfterFail DEF VerifyLeaves
<1>2. CASE ~\E i \in Leaves : Invalid(i)
  <2>1. /\ phase = "verify" /\ phase' = "allocate" /\ todo' = Leaves
        /\ UNCHANGED <<leaves, packed, rootOrigin, activeSize, level, oldInner, capacity,
                       cursor, origin, voxels>>
    BY <1>2 DEF VerifyLeaves, input, extent, counts
  <2>2. /\ Lower' = Lower /\ Upper' = Upper /\ Leaves' = Leaves /\ InputOK'
        /\ \A i : LeafPtr(i)' = LeafPtr(i) /\ Invalid(i)' = Invalid(i)
        /\ \A l : AllOrigins(l)' = AllOrigins(l)
    BY <2>1, InputStays, OffsetsStay DEF ShapeInv
  <2>3. ExtentOK'
    BY <2>1, <2>2 DEF ShapeInv, ExtentOK, Verified, RootOrigin, Minus
  <2>4. Nothing' /\ level = LeafLevel /\ oldInner = {}
    BY <2>1 DEF ShapeInv, CountsOK, Nothing
  <2>5. AllOrigins(LeafLevel) = {} /\ LeafLevel \in Nat \ {0}
    BY NoOrigins, ResFacts DEF ShapeInv, InputOK
  <2>6. CountsOK'
    <3>1. \A i \in Leaves' : ~Invalid(i)'
      BY <1>2, <2>2
    <3>2. \A l \in level' .. LeafLevel - 1 : FALSE
      BY <2>1, <2>4, <2>5
    <3>3. oldInner' = AllOrigins(level)'
      BY <2>1, <2>2, <2>4, <2>5 DEF AllOrigins
    <3> QED
      BY <2>1, <2>2, <2>4, <2>5, <3>1, <3>2, <3>3 DEF CountsOK, Allocated
  <2>7. CursorOK'
    BY <2>1 DEF CursorOK
  <2>8. TypeOK'
    BY <2>1, <2>2 DEF ShapeInv, TypeOK
  <2> QED
    BY <2>2, <2>3, <2>6, <2>7, <2>8 DEF ShapeInv
<1> QED
  BY <1>1, <1>2

(* The parents of the nodes and of the leaves on a level are the nodes above it. *)
LEMMA ParentsAreAllOrigins ==
  ASSUME leaves \in Inputs, rootOrigin = RootOrigin(Lower), NEW l \in 1 .. LeafLevel,
         oldInner = AllOrigins(l)
  PROVE  InnerOrigins(l) = AllOrigins(l - 1)
<1>1. l \in 0 .. NumLevels /\ l - 1 \in 0 .. l /\ LeafLevel \in Nat
  BY ResFacts
<1>2. \A i \in Leaves : NodeOrigin(NodeOrigin(Offset(i), l), l - 1) = NodeOrigin(Offset(i), l - 1)
  <2> TAKE i \in Leaves
  <2>1. Offset(i) \in Coordinates
    BY OffsetFacts
  <2> QED
    BY <1>1, <2>1, NodesNest
<1>3. \A i \in Leaves : leaves[i].level \in Int
                          /\ (leaves[i].level > l - 1 <=> leaves[i].level = l \/ leaves[i].level > l)
  BY <1>1, InputFacts DEF LevelsDown
<1>4. ASSUME NEW o \in InnerOrigins(l) PROVE o \in AllOrigins(l - 1)
  <2>1. CASE o \in {NodeOrigin(Offset(i), l - 1) : i \in LeavesOn(l)}
    <3>1. PICK i \in LeavesOn(l) : o = NodeOrigin(Offset(i), l - 1)
      BY <2>1
    <3>2. i \in Leaves /\ leaves[i].level > l - 1
      BY <1>3 DEF LeavesOn
    <3> QED
      BY <3>1, <3>2 DEF AllOrigins
  <2>2. CASE o \in {NodeOrigin(p, l - 1) : p \in oldInner}
    <3>1. PICK p \in AllOrigins(l) : o = NodeOrigin(p, l - 1)
      BY <2>2
    <3>2. PICK i \in Leaves : leaves[i].level > l /\ p = NodeOrigin(Offset(i), l)
      BY DEF AllOrigins
    <3>3. o = NodeOrigin(Offset(i), l - 1) /\ leaves[i].level > l - 1
      BY <1>2, <1>3, <3>1, <3>2
    <3> QED
      BY <3>3 DEF AllOrigins
  <2> QED
    BY <2>1, <2>2 DEF InnerOrigins
<1>5. ASSUME NEW o \in AllOrigins(l - 1) PROVE o \in InnerOrigins(l)
  <2>1. PICK i \in Leaves : leaves[i].level > l - 1 /\ o = NodeOrigin(Offset(i), l - 1)
    BY DEF AllOrigins
  <2>2. CASE leaves[i].level = l
    BY <2>1, <2>2 DEF InnerOrigins, LeavesOn
  <2>3. CASE leaves[i].level > l
    <3>1. NodeOrigin(Offset(i), l) \in oldInner
      BY <2>3 DEF AllOrigins
    <3>2. o = NodeOrigin(NodeOrigin(Offset(i), l), l - 1)
      BY <1>2, <2>1
    <3> QED
      BY <3>1, <3>2 DEF InnerOrigins
  <2> QED
    BY <1>3, <2>1, <2>2, <2>3
<1> QED
  BY <1>4, <1>5

LEMMA OriginsAreFinite ==
  ASSUME leaves \in Inputs, NEW l
  PROVE  IsFiniteSet(AllOrigins(l)) /\ Cardinality(AllOrigins(l)) \in Nat
<1> DEFINE S == {j \in Leaves : leaves[j].level > l}
           h == [i \in S |-> NodeOrigin(Offset(i), l)]
<1>1. IsFiniteSet(S)
  <2>1. IsFiniteSet(Leaves) /\ S \in SUBSET Leaves
    BY InputFacts
  <2> HIDE DEF S
  <2> QED
    BY <2>1, FS_Subset
<1>2. AllOrigins(l) = {h[i] : i \in S}
  BY DEF AllOrigins
<1> HIDE DEF S, h
<1>3. IsFiniteSet(AllOrigins(l))
  BY <1>1, <1>2, FiniteImage
<1> QED
  BY <1>3, FS_CardinalityType

LEMMA ShapeAfterAllocate ==
  ASSUME ShapeInv, AllocateInnerLevel PROVE ShapeInv'
<1>1. /\ phase = "allocate" /\ level' = level - 1
      /\ oldInner' = InnerOrigins(level)
      /\ capacity' = [capacity EXCEPT ![level - 1] = Cardinality(InnerOrigins(level))]
      /\ UNCHANGED <<leaves, packed, rootOrigin, activeSize, todo, cursor, voxels>>
  BY DEF AllocateInnerLevel, input, extent
<1>2. /\ Lower' = Lower /\ Upper' = Upper /\ Leaves' = Leaves /\ InputOK'
      /\ \A i : LeafPtr(i)' = LeafPtr(i) /\ Invalid(i)' = Invalid(i)
      /\ \A l : AllOrigins(l)' = AllOrigins(l)
  BY <1>1, InputStays, OffsetsStay DEF ShapeInv
<1>3. /\ Nothing /\ level \in 1 .. LeafLevel /\ todo = Leaves /\ oldInner = AllOrigins(level)
      /\ \A l \in level .. LeafLevel - 1 : capacity[l] = Cardinality(AllOrigins(l))
      /\ \A i \in Leaves : ~Invalid(i)
      /\ rootOrigin = RootOrigin(Lower) /\ leaves \in Inputs
      /\ activeSize = Minus(Upper, rootOrigin)
  BY <1>1 DEF ShapeInv, CountsOK, ExtentOK, Verified, InputOK
<1>4. LeafLevel \in Nat \ {0}
  BY ResFacts
<1>5. InnerOrigins(level) = AllOrigins(level - 1)
  BY <1>3, ParentsAreAllOrigins
<1>6. oldInner' = AllOrigins(level - 1)
  BY <1>1, <1>5
<1>7. capacity \in [InnerLevels -> Nat] /\ level - 1 \in InnerLevels
  BY <1>3, <1>4 DEF ShapeInv, TypeOK, InnerLevels
<1>8. \A l \in level - 1 .. LeafLevel - 1 : capacity'[l] = Cardinality(AllOrigins(l))
  <2> TAKE l \in level - 1 .. LeafLevel - 1
  <2>1. l \in InnerLevels
    BY <1>3, <1>4 DEF InnerLevels
  <2>2. CASE l = level - 1
    BY <1>1, <1>5, <1>7, <2>2
  <2>3. CASE l # level - 1
    <3>1. l \in level .. LeafLevel - 1
      BY <1>3, <1>4, <2>3
    <3> QED
      BY <1>1, <1>3, <1>7, <2>1, <2>3, <3>1
  <2> QED
    BY <2>2, <2>3
<1>9. capacity' \in [InnerLevels -> Nat]
  <2>1. Cardinality(InnerOrigins(level)) \in Nat
    BY <1>3, <1>5, OriginsAreFinite
  <2> QED
    BY <1>1, <1>7, <2>1
<1>10. ExtentOK'
  BY <1>1, <1>2, <1>3 DEF ExtentOK, RootOrigin, Minus
<1>11. Zero \in [Axes -> Nat]
  BY DEF Zero
<1>12. cursor' = Root /\ DOMAIN voxels' = {} /\ cursor' \in [level : InnerLevels, node : Nat]
       /\ rootOrigin' \in [Axes -> Int] /\ activeSize' \in [Axes -> Nat]
       /\ todo' \subseteq Leaves'
  BY <1>1, <1>2, <1>3 DEF Nothing, ShapeInv, TypeOK
<1>13. CASE level = 1
  <2>1. phase' = "insert" /\ origin' = [origin EXCEPT ![0] = <<Zero>>]
    BY <1>13 DEF AllocateInnerLevel
  <2>2. origin' = [l \in InnerLevels |-> IF l = 0 THEN <<Zero>> ELSE <<>>] /\ 0 \in InnerLevels
    <3>1. origin = [l \in InnerLevels |-> <<>>] /\ 0 \in InnerLevels
      BY <1>3, <1>4 DEF Nothing, InnerLevels
    <3> QED
      BY <2>1, <3>1, Zenon
  <2>3. <<Zero>> \in Seq([Axes -> Nat]) /\ 1 \in DOMAIN <<Zero>> /\ <<>> \in Seq([Axes -> Nat])
    BY <1>11
  <2>4. origin' \in [InnerLevels -> Seq([Axes -> Nat])]
    BY <2>2, <2>3
  <2>5. \A l \in InnerLevels : capacity'[l] = Cardinality(AllOrigins(l))'
    BY <1>2, <1>8, <1>13 DEF InnerLevels
  <2>6. CountsOK'
    BY <1>2, <1>3, <2>1, <2>2, <2>5 DEF CountsOK, Allocated, Verified
  <2>7. CursorOK'
    <3>1. cursor'.level = 0
      BY <1>12 DEF Root
    <3>2. \A i \in Leaves : leaves[i].level \in LevelsDown /\ leaves[i].level # 0
      BY <1>3, InputFacts DEF Invalid
    <3>3. \A i \in Leaves : 0 < leaves[i].level
      BY <1>4, <3>2 DEF LevelsDown
    <3> QED
      BY <1>1, <1>2, <3>1, <3>3 DEF CursorOK
  <2>8. level' \in 0 .. LeafLevel
    BY <1>1, <1>3, <1>4
  <2>9. cursor'.level = 0 /\ cursor'.node = 1
    BY <1>12 DEF Root
  <2>10. cursor'.node \in DOMAIN origin'[cursor'.level]
    BY <2>2, <2>3, <2>9
  <2>11. TypeOK'
    BY <1>9, <1>12, <2>1, <2>4, <2>8, <2>10 DEF TypeOK
  <2> QED
    BY <1>2, <1>10, <2>6, <2>7, <2>11 DEF ShapeInv
<1>14. CASE level # 1
  <2>1. phase' = "allocate" /\ origin' = origin
    BY <1>1, <1>14 DEF AllocateInnerLevel
  <2>2. level' \in 1 .. LeafLevel /\ level' \in 0 .. LeafLevel
    BY <1>1, <1>3, <1>4, <1>14
  <2>3. \A l \in level' .. LeafLevel' - 1 : capacity'[l] = Cardinality(AllOrigins(l))'
    BY <1>1, <1>2, <1>8 DEF LeafLevel
  <2>4. oldInner' = AllOrigins(level)'
    <3>1. AllOrigins(level)' = AllOrigins(level')
      BY <1>2 DEF AllOrigins
    <3> QED
      BY <1>1, <1>6, <3>1
  <2>5. CountsOK'
    BY <1>1, <1>2, <1>3, <2>1, <2>2, <2>3, <2>4 DEF CountsOK, Allocated, Nothing
  <2>6. CursorOK'
    BY <2>1 DEF CursorOK
  <2>7. TypeOK'
    BY <1>9, <1>12, <2>1, <2>2 DEF TypeOK, ShapeInv
  <2> QED
    BY <1>2, <1>10, <2>5, <2>6, <2>7 DEF ShapeInv
<1> QED
  BY <1>13, <1>14

-----------------------------------------------------------------------------
(***************************************************************************)
(* Inserting one leaf on one level.                                        *)
(***************************************************************************)

(* There is at most one leaf to insert next. *)
LEMMA CurrentIsOne ==
  ASSUME leaves \in Inputs, NEW i \in Leaves, NEW j \in Leaves, Current(i), Current(j)
  PROVE  i = j
<1>1. Precedes(i, j) /\ Precedes(j, i)
  BY DEF Current
<1>2. i \in Nat /\ j \in Nat /\ leaves[i].level \in Int /\ leaves[j].level \in Int
  BY InputFacts, ResFacts DEF LevelsDown
<1> QED
  BY <1>1, <1>2 DEF Precedes

LEMMA LeafLevels ==
  ASSUME leaves \in Inputs, NEW i \in Leaves, ~Invalid(i)
  PROVE  leaves[i].level \in 1 .. LeafLevel /\ leaves[i].level - 1 \in InnerLevels
<1>1. leaves[i].level \in 0 .. LeafLevel /\ leaves[i].level # 0
  BY InputFacts DEF Invalid, LevelsDown
<1> QED
  BY <1>1, ResFacts DEF InnerLevels

LEMMA HereFacts ==
  ASSUME ShapeInv, phase = "insert", NEW i \in Leaves, Current(i)
  PROVE  /\ leaves \in Inputs /\ rootOrigin = RootOrigin(Lower)
         /\ Offset(i) \in [Axes -> Nat] /\ Offset(i) \in Coordinates
         /\ leaves[i].level \in 1 .. LeafLevel
         /\ cursor.level \in InnerLevels /\ cursor.level \in LevelsDown
         /\ cursor.level \in 0 .. leaves[i].level - 1
         /\ cursor.node \in DOMAIN origin[cursor.level] /\ cursor.node \in Nat
         /\ Here(i)[1] = cursor.level /\ Here(i)[2] = cursor.node
         /\ Here(i)[3] = VoxelIndex(Offset(i), cursor.level)
         /\ Here(i)[3] \in VoxelIndices(cursor.level)
         /\ ~IsLast(i) => /\ cursor.level + 1 \in InnerLevels
                          /\ cursor.level + 1 < leaves[i].level
<1>1. /\ leaves \in Inputs /\ rootOrigin = RootOrigin(Lower) /\ ~Invalid(i)
      /\ cursor \in [level : InnerLevels, node : Nat]
      /\ cursor.node \in DOMAIN origin[cursor.level]
      /\ cursor.level < leaves[i].level
  BY DEF ShapeInv, InputOK, ExtentOK, CountsOK, CursorOK, TypeOK, Verified, Allocated
<1>2. Offset(i) \in [Axes -> Nat] /\ Offset(i) \in Coordinates
  BY <1>1, OffsetFacts
<1>3. leaves[i].level \in 1 .. LeafLevel /\ LeafLevel \in Nat \ {0}
  BY <1>1, LeafLevels, ResFacts
<1>4. cursor.level \in InnerLevels /\ cursor.level \in LevelsDown /\ cursor.node \in Nat
  BY <1>1, <1>3 DEF InnerLevels, LevelsDown
<1>5. VoxelIndex(Offset(i), cursor.level) \in VoxelIndices(cursor.level)
  BY <1>2, <1>4, VoxelOfOffset
<1>6. cursor.level \in 0 .. leaves[i].level - 1
  BY <1>1, <1>3, <1>4 DEF InnerLevels
<1>7. ~IsLast(i) => cursor.level + 1 \in InnerLevels /\ cursor.level + 1 < leaves[i].level
  BY <1>3, <1>6 DEF IsLast, InnerLevels
<1> QED
  BY <1>1, <1>2, <1>3, <1>4, <1>5, <1>6, <1>7 DEF Here

LEMMA AdvanceFacts ==
  ASSUME ShapeInv, phase = "insert", NEW i \in Leaves, Current(i), NEW n \in Nat,
         Advance(i, n), leaves' = leaves, packed' = packed
  PROVE  /\ CursorOK' /\ cursor' \in [level : InnerLevels, node : Nat]
         /\ todo' \subseteq Leaves'
         /\ IsLast(i) => cursor' = Root /\ todo' = todo \ {i}
         /\ ~IsLast(i) => /\ cursor' = [level |-> cursor.level + 1, node |-> n]
                          /\ todo' = todo /\ \A j : Current(j)' <=> Current(j)
<1>1. /\ leaves \in Inputs /\ LeafLevel \in Nat \ {0}
      /\ \A j \in Leaves : leaves[j].level \in 1 .. LeafLevel
      /\ todo \subseteq Leaves
  <2>1. /\ leaves \in Inputs /\ todo \subseteq Leaves /\ \A j \in Leaves : ~Invalid(j)
    BY DEF ShapeInv, InputOK, CountsOK, Verified, Allocated, TypeOK
  <2> QED
    BY <2>1, LeafLevels, ResFacts
<1>2. Leaves' = Leaves
  BY InputStays
<1>3. CASE IsLast(i)
  <2>1. todo' = todo \ {i} /\ cursor' = Root
    BY <1>3 DEF Advance
  <2>2. cursor'.level = 0 /\ cursor' \in [level : InnerLevels, node : Nat]
    BY <1>1, <2>1 DEF Root, InnerLevels
  <2>3. CursorOK'
    BY <1>1, <1>2, <2>2 DEF CursorOK
  <2> QED
    BY <1>1, <1>2, <1>3, <2>1, <2>2, <2>3
<1>4. CASE ~IsLast(i)
  <2>1. cursor' = [level |-> cursor.level + 1, node |-> n] /\ todo' = todo
    BY <1>4 DEF Advance
  <2>2. cursor.level + 1 \in InnerLevels /\ cursor.level + 1 < leaves[i].level
    BY <1>4, HereFacts
  <2>3. cursor' \in [level : InnerLevels, node : Nat]
    BY <2>1, <2>2
  <2>4. \A j : Current(j)' <=> Current(j)
    BY <2>1 DEF Current, Precedes
  <2>5. ASSUME NEW j \in Leaves, Current(j) PROVE cursor'.level < leaves[j].level
    <3>1. j = i
      BY <1>1, <2>5, CurrentIsOne
    <3> QED
      BY <2>1, <2>2, <3>1
  <2>6. CursorOK'
    BY <1>2, <2>4, <2>5 DEF CursorOK
  <2> QED
    BY <1>1, <1>2, <1>4, <2>1, <2>3, <2>4, <2>6
<1> QED
  BY <1>3, <1>4

(* The parts of the invariant that an insertion leaves alone. *)
LEMMA InsertKeeps ==
  ASSUME ShapeInv, phase = "insert", leaves' = leaves, packed' = packed,
         phase' = phase, rootOrigin' = rootOrigin, activeSize' = activeSize,
         capacity' = capacity, origin'[0] = origin[0]
  PROVE  InputOK' /\ ExtentOK' /\ CountsOK'
<1>1. /\ Lower' = Lower /\ Upper' = Upper /\ Leaves' = Leaves /\ InputOK'
      /\ \A i : Invalid(i)' = Invalid(i) /\ \A l : AllOrigins(l)' = AllOrigins(l)
  BY InputStays, OffsetsStay DEF ShapeInv
<1>2. ExtentOK'
  BY <1>1 DEF ShapeInv, ExtentOK, Verified, Allocated, RootOrigin, Minus
<1>3. CountsOK'
  BY <1>1 DEF ShapeInv, CountsOK, Verified, Allocated
<1> QED
  BY <1>1, <1>2, <1>3

LEMMA ShapeAfterIntoChild ==
  ASSUME ShapeInv, phase = "insert", NEW i \in Leaves, Current(i), InsertIntoChild(i)
  PROVE  ShapeInv'
<1>1. /\ Here(i) \in DOMAIN voxels /\ voxels[Here(i)].type = "child"
      /\ Advance(i, voxels[Here(i)].index)
      /\ UNCHANGED <<leaves, packed, phase, rootOrigin, activeSize, level, oldInner, capacity,
                     origin, voxels>>
  BY DEF InsertIntoChild, input, extent, counts
<1> DEFINE n == voxels[Here(i)].index
<1>2. /\ Here(i)[1] = cursor.level
      /\ Here(i)[1] + 1 \in InnerLevels /\ n \in DOMAIN origin[Here(i)[1] + 1]
  BY <1>1, HereFacts DEF ShapeInv, TypeOK
<1>3. n \in DOMAIN origin[cursor.level + 1] /\ cursor.level + 1 \in InnerLevels
  BY <1>2
<1>4. origin \in [InnerLevels -> Seq([Axes -> Nat])]
  BY DEF ShapeInv, TypeOK
<1>5. n \in Nat
  BY <1>3, <1>4
<1> HIDE DEF n
<1>6. /\ CursorOK' /\ cursor' \in [level : InnerLevels, node : Nat]
      /\ todo' \subseteq Leaves'
      /\ IsLast(i) => cursor' = Root
      /\ ~IsLast(i) => cursor' = [level |-> cursor.level + 1, node |-> n]
  BY <1>1, <1>5, AdvanceFacts DEF n
<1>7. cursor'.node \in DOMAIN origin'[cursor'.level]
  <2>1. CASE IsLast(i)
    <3>1. origin[0] = <<Zero>>
      BY DEF ShapeInv, CountsOK, Allocated
    <3> QED
      BY <1>1, <1>6, <2>1, <3>1 DEF Root
  <2>2. CASE ~IsLast(i)
    BY <1>1, <1>3, <1>6, <2>2
  <2> QED
    BY <2>1, <2>2
<1>8. InputOK' /\ ExtentOK' /\ CountsOK'
  BY <1>1, InsertKeeps
<1>9. Leaves' = Leaves /\ \A j : LeafPtr(j)' = LeafPtr(j)
  BY <1>1, InputStays
<1>10. TypeOK'
  BY <1>1, <1>6, <1>7, <1>9 DEF ShapeInv, TypeOK
<1> QED
  BY <1>6, <1>8, <1>10 DEF ShapeInv

(* A level's list of nodes grows by the new one. *)
LEMMA AppendFacts ==
  ASSUME NEW S, NEW s \in Seq(S), NEW e \in S
  PROVE  /\ Append(s, e) \in Seq(S) /\ Len(s) \in Nat
         /\ DOMAIN s = 1 .. Len(s) /\ DOMAIN Append(s, e) = 1 .. Len(s) + 1
         /\ Append(s, e)[Len(s) + 1] = e
         /\ \A k \in 1 .. Len(s) : Append(s, e)[k] = s[k]
  OBVIOUS

LEMMA InsertChildFacts ==
  ASSUME ShapeInv, phase = "insert", NEW i \in Leaves, Current(i), InsertChild(i)
  PROVE  LET next == cursor.level + 1
             new  == Len(origin[next]) + 1
             o    == NodeOrigin(Offset(i), next)
         IN  /\ next \in InnerLevels /\ next # 0 /\ new \in Nat \ {0} /\ o \in [Axes -> Nat]
             /\ next \in 0 .. NumLevels
             /\ ~IsLast(i) /\ Advance(i, new) /\ Here(i) \notin DOMAIN voxels
             /\ origin' \in [InnerLevels -> Seq([Axes -> Nat])]
             /\ \A l \in InnerLevels : l # next => origin'[l] = origin[l]
             /\ DOMAIN origin[next] = 1 .. new - 1 /\ DOMAIN origin'[next] = 1 .. new
             /\ origin'[next][new] = o
             /\ \A k \in 1 .. new - 1 : origin'[next][k] = origin[next][k]
             /\ \A l \in InnerLevels : DOMAIN origin[l] \subseteq DOMAIN origin'[l]
             /\ \A l \in InnerLevels : \A k \in DOMAIN origin[l] : origin'[l][k] = origin[l][k]
             /\ DOMAIN voxels' = DOMAIN voxels \cup {Here(i)}
             /\ voxels'[Here(i)] = Child(new)
             /\ \A v \in DOMAIN voxels : v # Here(i) /\ voxels'[v] = voxels[v]
             /\ UNCHANGED <<leaves, packed, phase, rootOrigin, activeSize, level, oldInner,
                            capacity>>
<1> DEFINE next == cursor.level + 1
           new == Len(origin[next]) + 1
           o == NodeOrigin(Offset(i), next)
<1>1. /\ ~IsLast(i) /\ Advance(i, new) /\ Here(i) \notin DOMAIN voxels
      /\ voxels' = With(voxels, Here(i), Child(new))
      /\ origin' = [origin EXCEPT ![next] = Append(origin[next], o)]
      /\ UNCHANGED <<leaves, packed, phase, rootOrigin, activeSize, level, oldInner, capacity>>
  BY DEF InsertChild, input, extent, counts
<1>2. next \in InnerLevels /\ next # 0 /\ Offset(i) \in [Axes -> Nat] /\ Offset(i) \in Coordinates
  BY <1>1, HereFacts DEF InnerLevels
<1>3. next \in 0 .. NumLevels
  BY <1>2, ResFacts DEF InnerLevels
<1>4. o \in [Axes -> Nat]
  BY <1>2, <1>3, NodeOriginFacts
<1>5. origin \in [InnerLevels -> Seq([Axes -> Nat])]
  BY DEF ShapeInv, TypeOK
<1> DEFINE s == origin[next]
<1>6. s \in Seq([Axes -> Nat])
  BY <1>2, <1>5
<1>7. /\ Append(s, o) \in Seq([Axes -> Nat]) /\ Len(s) \in Nat
      /\ DOMAIN s = 1 .. Len(s) /\ DOMAIN Append(s, o) = 1 .. Len(s) + 1
      /\ Append(s, o)[Len(s) + 1] = o
      /\ \A k \in 1 .. Len(s) : Append(s, o)[k] = s[k]
  <2> HIDE DEF s, o
  <2> QED
    BY <1>4, <1>6, AppendFacts
<1> HIDE DEF o, next
<1>8. origin'[next] = Append(s, o) /\ \A l \in InnerLevels : l # next => origin'[l] = origin[l]
  BY <1>1, <1>2, <1>5
<1>9. origin' \in [InnerLevels -> Seq([Axes -> Nat])]
  BY <1>1, <1>2, <1>5, <1>7
<1>10. /\ DOMAIN s = 1 .. new - 1 /\ DOMAIN origin'[next] = 1 .. new /\ new \in Nat \ {0}
       /\ origin'[next][new] = o
       /\ \A k \in 1 .. new - 1 : origin'[next][k] = s[k]
  <2>1. new = Len(s) + 1
    OBVIOUS
  <2> HIDE DEF new, s
  <2> QED
    BY <1>7, <1>8, <2>1
<1> HIDE DEF new
<1>11. \A l \in InnerLevels : /\ DOMAIN origin[l] \subseteq DOMAIN origin'[l]
                              /\ \A k \in DOMAIN origin[l] : origin'[l][k] = origin[l][k]
  <2> TAKE l \in InnerLevels
  <2>1. CASE l = next
    BY <1>10, <2>1
  <2>2. CASE l # next
    BY <1>8, <2>2
  <2> QED
    BY <2>1, <2>2
<1>12. /\ DOMAIN voxels' = DOMAIN voxels \cup {Here(i)}
       /\ voxels'[Here(i)] = Child(new)
       /\ \A v \in DOMAIN voxels : v # Here(i) /\ voxels'[v] = voxels[v]
  <2> DEFINE w == With(voxels, Here(i), Child(new))
  <2>1. /\ DOMAIN w = DOMAIN voxels \cup {Here(i)} /\ w[Here(i)] = Child(new)
        /\ \A v \in DOMAIN voxels : v # Here(i) => w[v] = voxels[v]
    BY DEF With
  <2>2. voxels' = w
    BY <1>1
  <2> HIDE DEF w
  <2> QED
    BY <1>1, <2>1, <2>2
<1> QED
  BY <1>1, <1>2, <1>3, <1>4, <1>8, <1>9, <1>10, <1>11, <1>12 DEF next, new, o

LEMMA ShapeAfterChild ==
  ASSUME ShapeInv, phase = "insert", NEW i \in Leaves, Current(i), InsertChild(i)
  PROVE  ShapeInv'
<1> DEFINE next == cursor.level + 1
           new == Len(origin[next]) + 1
<1>1. /\ next \in InnerLevels /\ next # 0 /\ new \in Nat \ {0}
      /\ ~IsLast(i) /\ Advance(i, new)
      /\ origin' \in [InnerLevels -> Seq([Axes -> Nat])]
      /\ \A l \in InnerLevels : l # next => origin'[l] = origin[l]
      /\ DOMAIN origin'[next] = 1 .. new
      /\ \A l \in InnerLevels : DOMAIN origin[l] \subseteq DOMAIN origin'[l]
      /\ DOMAIN voxels' = DOMAIN voxels \cup {Here(i)}
      /\ voxels'[Here(i)] = Child(new)
      /\ \A v \in DOMAIN voxels : voxels'[v] = voxels[v]
      /\ UNCHANGED <<leaves, packed, phase, rootOrigin, activeSize, level, oldInner, capacity>>
  BY InsertChildFacts
<1> HIDE DEF new
<1>2. /\ CursorOK' /\ cursor' \in [level : InnerLevels, node : Nat]
      /\ todo' \subseteq Leaves'
      /\ cursor' = [level |-> next, node |-> new]
  BY <1>1, AdvanceFacts
<1>3. cursor'.node \in DOMAIN origin'[cursor'.level]
  BY <1>1, <1>2
<1>4. origin'[0] = origin[0]
  <2>1. 0 \in InnerLevels /\ 0 # next
    BY <1>1, ResFacts DEF InnerLevels
  <2> HIDE DEF next
  <2> QED
    BY <1>1, <2>1
<1>5. InputOK' /\ ExtentOK' /\ CountsOK'
  BY <1>1, <1>4, InsertKeeps
<1>6. Leaves' = Leaves /\ \A j : LeafPtr(j)' = LeafPtr(j)
  BY <1>1, InputStays
<1>7. ASSUME NEW v \in DOMAIN voxels'
      PROVE  /\ v[1] \in InnerLevels /\ v[2] \in DOMAIN origin'[v[1]]
             /\ v[3] \in VoxelIndices(v[1])
             /\ \/ voxels'[v].type = "leaf" /\ voxels'[v] \in {LeafPtr(j)' : j \in Leaves'}
                \/ voxels'[v].type = "child" /\ v[1] + 1 \in InnerLevels
                     /\ voxels'[v].index \in DOMAIN origin'[v[1] + 1]
  <2>1. CASE v = Here(i)
    <3>1. voxels'[v].type = "child" /\ voxels'[v].index = new
      BY <1>1, <2>1 DEF Child
    <3>2. /\ v[1] = cursor.level /\ v[2] = cursor.node /\ v[3] \in VoxelIndices(v[1])
          /\ cursor.level \in InnerLevels /\ cursor.node \in DOMAIN origin[cursor.level]
      BY <2>1, HereFacts
    <3>3. v[1] + 1 = next /\ new \in DOMAIN origin'[next]
      BY <1>1, <3>2
    <3> QED
      BY <1>1, <3>1, <3>2, <3>3
  <2>2. CASE v \in DOMAIN voxels
    <3>1. /\ v[1] \in InnerLevels /\ v[2] \in DOMAIN origin[v[1]]
          /\ v[3] \in VoxelIndices(v[1])
          /\ \/ voxels[v].type = "leaf" /\ voxels[v] \in {LeafPtr(j) : j \in Leaves}
             \/ voxels[v].type = "child" /\ v[1] + 1 \in InnerLevels
                  /\ voxels[v].index \in DOMAIN origin[v[1] + 1]
      BY <2>2 DEF ShapeInv, TypeOK
    <3>2. voxels'[v] = voxels[v]
      BY <1>1, <2>2
    <3> QED
      BY <1>1, <1>6, <3>1, <3>2
  <2> QED
    BY <1>1, <2>1, <2>2
<1>8. TypeOK'
  BY <1>1, <1>2, <1>3, <1>7 DEF ShapeInv, TypeOK
<1> QED
  BY <1>2, <1>5, <1>8 DEF ShapeInv

LEMMA InsertLeafFacts ==
  ASSUME ShapeInv, phase = "insert", NEW i \in Leaves, Current(i), InsertLeaf(i)
  PROVE  /\ IsLast(i) /\ todo' = todo \ {i} /\ cursor' = Root /\ Here(i) \notin DOMAIN voxels
         /\ CursorOK' /\ cursor' \in [level : InnerLevels, node : Nat] /\ todo' \subseteq Leaves'
         /\ DOMAIN voxels' = DOMAIN voxels \cup {Here(i)}
         /\ voxels'[Here(i)] = LeafPtr(i)
         /\ \A v \in DOMAIN voxels : v # Here(i) /\ voxels'[v] = voxels[v]
         /\ UNCHANGED <<leaves, packed, phase, rootOrigin, activeSize, level, oldInner,
                        capacity, origin>>
<1>1. /\ IsLast(i) /\ Advance(i, cursor.node) /\ Here(i) \notin DOMAIN voxels
      /\ voxels' = With(voxels, Here(i), LeafPtr(i))
      /\ UNCHANGED <<leaves, packed, phase, rootOrigin, activeSize, level, oldInner,
                     capacity, origin>>
  BY DEF InsertLeaf, input, extent, counts
<1>2. cursor.node \in Nat
  BY HereFacts
<1>3. /\ CursorOK' /\ cursor' \in [level : InnerLevels, node : Nat] /\ todo' \subseteq Leaves'
      /\ cursor' = Root /\ todo' = todo \ {i}
  BY <1>1, <1>2, AdvanceFacts
<1>4. /\ DOMAIN voxels' = DOMAIN voxels \cup {Here(i)}
      /\ voxels'[Here(i)] = LeafPtr(i)
      /\ \A v \in DOMAIN voxels : v # Here(i) /\ voxels'[v] = voxels[v]
  <2> DEFINE w == With(voxels, Here(i), LeafPtr(i))
  <2>1. /\ DOMAIN w = DOMAIN voxels \cup {Here(i)} /\ w[Here(i)] = LeafPtr(i)
        /\ \A v \in DOMAIN voxels : v # Here(i) => w[v] = voxels[v]
    BY DEF With
  <2>2. voxels' = w
    BY <1>1
  <2> HIDE DEF w
  <2> QED
    BY <1>1, <2>1, <2>2
<1> QED
  BY <1>1, <1>3, <1>4

LEMMA ShapeAfterLeaf ==
  ASSUME ShapeInv, phase = "insert", NEW i \in Leaves, Current(i), InsertLeaf(i)
  PROVE  ShapeInv'
<1>1. /\ cursor' = Root /\ CursorOK' /\ cursor' \in [level : InnerLevels, node : Nat]
      /\ todo' \subseteq Leaves'
      /\ DOMAIN voxels' = DOMAIN voxels \cup {Here(i)}
      /\ voxels'[Here(i)] = LeafPtr(i)
      /\ \A v \in DOMAIN voxels : voxels'[v] = voxels[v]
      /\ UNCHANGED <<leaves, packed, phase, rootOrigin, activeSize, level, oldInner,
                     capacity, origin>>
  BY InsertLeafFacts
<1>2. origin[0] = <<Zero>>
  BY DEF ShapeInv, CountsOK, Allocated
<1>3. cursor'.node \in DOMAIN origin'[cursor'.level]
  BY <1>1, <1>2 DEF Root
<1>4. InputOK' /\ ExtentOK' /\ CountsOK'
  BY <1>1, InsertKeeps
<1>5. Leaves' = Leaves /\ \A j : LeafPtr(j)' = LeafPtr(j)
  BY <1>1, InputStays
<1>6. ASSUME NEW v \in DOMAIN voxels'
      PROVE  /\ v[1] \in InnerLevels /\ v[2] \in DOMAIN origin'[v[1]]
             /\ v[3] \in VoxelIndices(v[1])
             /\ \/ voxels'[v].type = "leaf" /\ voxels'[v] \in {LeafPtr(j)' : j \in Leaves'}
                \/ voxels'[v].type = "child" /\ v[1] + 1 \in InnerLevels
                     /\ voxels'[v].index \in DOMAIN origin'[v[1] + 1]
  <2>1. CASE v = Here(i)
    <3>1. voxels'[v].type = "leaf" /\ voxels'[v] = LeafPtr(i)
      BY <1>1, <2>1 DEF LeafPtr
    <3>2. /\ v[1] = cursor.level /\ v[2] = cursor.node /\ v[3] \in VoxelIndices(v[1])
          /\ cursor.level \in InnerLevels /\ cursor.node \in DOMAIN origin[cursor.level]
      BY <2>1, HereFacts
    <3> QED
      BY <1>1, <1>5, <3>1, <3>2
  <2>2. CASE v \in DOMAIN voxels
    <3>1. /\ v[1] \in InnerLevels /\ v[2] \in DOMAIN origin[v[1]]
          /\ v[3] \in VoxelIndices(v[1])
          /\ \/ voxels[v].type = "leaf" /\ voxels[v] \in {LeafPtr(j) : j \in Leaves}
             \/ voxels[v].type = "child" /\ v[1] + 1 \in InnerLevels
                  /\ voxels[v].index \in DOMAIN origin[v[1] + 1]
      BY <2>2 DEF ShapeInv, TypeOK
    <3>2. voxels'[v] = voxels[v]
      BY <1>1, <2>2
    <3> QED
      BY <1>1, <1>5, <3>1, <3>2
  <2> QED
    BY <1>1, <2>1, <2>2
<1>7. TypeOK'
  BY <1>1, <1>3, <1>6 DEF ShapeInv, TypeOK
<1> QED
  BY <1>1, <1>4, <1>7 DEF ShapeInv

LEMMA ShapeAfterInsert ==
  ASSUME ShapeInv, NEW i \in Leaves, Insert(i) PROVE ShapeInv'
BY ShapeAfterFail, ShapeAfterIntoChild, ShapeAfterChild, ShapeAfterLeaf
   DEF Insert, InsertIntoLeaf

(* Nothing of the tree changes when the ranges are computed. *)
LEMMA ShapeAfterRanges ==
  ASSUME ShapeInv, Allocated, phase' \in {"computeRanges", "committed"},
         UNCHANGED <<input, extent, counts, tree>>
  PROVE  ShapeInv'
<1>1. UNCHANGED <<leaves, packed, rootOrigin, activeSize, level, oldInner, capacity,
                  todo, cursor, origin, voxels>>
  BY DEF input, extent, counts, tree
<1>2. /\ Lower' = Lower /\ Upper' = Upper /\ Leaves' = Leaves /\ InputOK'
      /\ \A i : LeafPtr(i)' = LeafPtr(i) /\ Invalid(i)' = Invalid(i)
      /\ \A l : AllOrigins(l)' = AllOrigins(l)
  BY <1>1, InputStays, OffsetsStay DEF ShapeInv
<1>3. ExtentOK'
  BY <1>1, <1>2 DEF ShapeInv, ExtentOK, Verified, RootOrigin, Minus
<1>4. CountsOK' /\ CursorOK'
  BY <1>1, <1>2 DEF ShapeInv, CountsOK, CursorOK, Verified, Allocated
<1>5. TypeOK'
  BY <1>1, <1>2 DEF ShapeInv, TypeOK
<1> QED
  BY <1>2, <1>3, <1>4, <1>5 DEF ShapeInv

LEMMA ShapeNext ==
  ASSUME ShapeInv, [Next]_vars PROVE ShapeInv'
<1>1. CASE UNCHANGED vars
  <2>1. UNCHANGED <<leaves, packed, phase, rootOrigin, activeSize, level, oldInner, capacity,
                    todo, cursor, origin, voxels>>
    BY <1>1 DEF vars
  <2>2. /\ Lower' = Lower /\ Upper' = Upper /\ Leaves' = Leaves /\ InputOK'
        /\ \A i : LeafPtr(i)' = LeafPtr(i) /\ Invalid(i)' = Invalid(i)
        /\ \A l : AllOrigins(l)' = AllOrigins(l)
    BY <2>1, InputStays, OffsetsStay DEF ShapeInv
  <2>3. AllOrigins(level)' = AllOrigins(level)
    BY <2>1, <2>2 DEF AllOrigins
  <2>4. ExtentOK'
    BY <2>1, <2>2 DEF ShapeInv, ExtentOK, Verified, Allocated, RootOrigin, Minus
  <2>5. CountsOK'
    BY <2>1, <2>2, <2>3 DEF ShapeInv, CountsOK, Verified, Allocated, Nothing
  <2>6. CursorOK'
    BY <2>1, <2>2 DEF ShapeInv, CursorOK, Current, Precedes
  <2>7. TypeOK'
    BY <2>1, <2>2 DEF ShapeInv, TypeOK
  <2> QED
    BY <2>2, <2>4, <2>5, <2>6, <2>7 DEF ShapeInv
<1>2. CASE Commit
  <2>1. CASE StartRanges
    BY <2>1, ShapeAfterRanges DEF StartRanges, Allocated
  <2>2. CASE ExtendRanges
    BY <2>2, ShapeAfterRanges DEF ExtendRanges, Allocated
  <2>3. ASSUME NEW i \in Leaves, ComputeRange(i) PROVE ShapeInv'
    BY <2>3, ShapeAfterRanges DEF ComputeRange, Allocated
  <2> QED
    BY <1>2, <2>1, <2>2, <2>3, ShapeAfterRoot, ShapeAfterVerify, ShapeAfterAllocate,
       ShapeAfterInsert DEF Commit
<1> QED
  BY <1>1, <1>2 DEF Next, Done

LEMMA ShapeInvariance == Spec => []ShapeInv
BY ShapeInitially, ShapeNext, PTL DEF Spec

(***************************************************************************)
(* The tree is well formed whatever the input: each voxel belongs to a     *)
(* node of its level and leads to a node of the level below or to a leaf,  *)
(* and the descent of an insertion stays in the tree.                      *)
(***************************************************************************)
THEOREM TypeCorrect == Spec => []TypeOK
<1>1. ShapeInv => TypeOK
  BY DEF ShapeInv
<1> QED
  BY <1>1, ShapeInvariance, PTL

-----------------------------------------------------------------------------
(***************************************************************************)
(* The second part of the inductive invariant, for the trees that fit one  *)
(* root node: nodes and voxels are where their coordinates say, and each   *)
(* leaf that was inserted has its path from the root.                      *)
(***************************************************************************)
CornerOf(v) == Corner(origin[v[1]][v[2]], v[3], v[1])

IsChild(v) == v \in DOMAIN voxels /\ voxels[v].type = "child"

PathVoxel(i, l, n) == <<l, n, VoxelIndex(Offset(i), l)>>

(* the node of level l on the way to leaf i, with a voxel that leads on to it *)
OnPath(i, l) ==
    \E n \in DOMAIN origin[l] :
        /\ origin[l][n] = NodeOrigin(Offset(i), l)
        /\ PathVoxel(i, l, n) \in DOMAIN voxels
        /\ IF l + 1 = leaves[i].level THEN voxels[PathVoxel(i, l, n)] = LeafPtr(i)
                                      ELSE voxels[PathVoxel(i, l, n)].type = "child"

KeysAreTriples == \A v \in DOMAIN voxels : v = <<v[1], v[2], v[3]>>

OriginsAreAligned ==
    \A l \in InnerLevels : \A n \in DOMAIN origin[l] :
        NodeOrigin(origin[l][n], l) = origin[l][n]

OriginsDiffer ==
    \A l \in InnerLevels : \A m, n \in DOMAIN origin[l] :
        origin[l][m] = origin[l][n] => m = n

ChildrenFit ==
    \A v \in DOMAIN voxels :
        voxels[v].type = "child" => origin[v[1] + 1][voxels[v].index] = CornerOf(v)

NodesHaveParents ==
    \A l \in InnerLevels : \A n \in DOMAIN origin[l] :
        l # 0 => \E v \in DOMAIN voxels : /\ v[1] + 1 = l /\ voxels[v].type = "child"
                                          /\ voxels[v].index = n

LeavesFit ==
    \A v \in DOMAIN voxels :
        voxels[v].type = "leaf" =>
            \E i \in Leaves : /\ i \notin todo /\ voxels[v] = LeafPtr(i)
                              /\ v[1] + 1 = leaves[i].level
                              /\ CornerOf(v) = NodeOrigin(Offset(i), leaves[i].level)

(* what the nodes are there for *)
NodesAreNeeded ==
    \A l \in InnerLevels : \A n \in DOMAIN origin[l] :
        l # 0 => \E i \in Leaves : /\ i \notin todo \/ Current(i)
                                   /\ leaves[i].level > l
                                   /\ origin[l][n] = NodeOrigin(Offset(i), l)

PathsLeadToLeaves ==
    \A i \in Leaves : i \notin todo => \A l \in 0 .. leaves[i].level - 1 : OnPath(i, l)

CursorIsOnPath ==
    phase = "insert" =>
        \A i \in Leaves : Current(i) =>
            /\ \A l \in 0 .. cursor.level - 1 : OnPath(i, l)
            /\ origin[cursor.level][cursor.node] = NodeOrigin(Offset(i), cursor.level)

InsertedInOrder ==
    \A i \in Leaves : i \notin todo => \A j \in todo : leaves[i].level <= leaves[j].level

TreeOK ==
    /\ KeysAreTriples /\ OriginsAreAligned /\ OriginsDiffer /\ ChildrenFit
    /\ NodesHaveParents /\ LeavesFit /\ NodesAreNeeded
    /\ PathsLeadToLeaves /\ CursorIsOnPath /\ InsertedInOrder

TreeInv == Allocated /\ FitsRoot => TreeOK

(* All leaves are in the root node, whose origin is that of the tree. *)
LEMMA RootCovers ==
  ASSUME ShapeInv, Allocated, FitsRoot, NEW i \in Leaves
  PROVE  NodeOrigin(Offset(i), 0) = Zero
<1>1. /\ leaves \in Inputs /\ rootOrigin = RootOrigin(Lower)
      /\ \A j \in Leaves : ~Invalid(j)
      /\ capacity[0] = Cardinality(AllOrigins(0)) /\ capacity[0] = 1
  BY ResFacts DEF ShapeInv, InputOK, ExtentOK, CountsOK, Verified, FitsRoot, InnerLevels
<1>2. PICK o : AllOrigins(0) = {o}
  BY <1>1, OriginsAreFinite, FS_Singleton
<1>3. ASSUME NEW j \in Leaves PROVE NodeOrigin(Offset(j), 0) = o
  <2>1. leaves[j].level > 0
    BY <1>1, LeafLevels, ResFacts
  <2>2. NodeOrigin(Offset(j), 0) \in AllOrigins(0)
    BY <2>1 DEF AllOrigins
  <2> QED
    BY <1>2, <2>2
<1>4. 0 \in 0 .. NumLevels /\ Res[0] \in Nat \ {0} /\ Res[1] \in Nat \ {0} /\ Res[1] <= Res[0]
  <2>1. /\ 0 \in 0 .. NumLevels /\ 0 \in LevelsDown
    BY ResFacts DEF LevelsDown
  <2>2. /\ Res[0] \in Nat \ {0} /\ Res[0 + 1] \in Nat \ {0} /\ StorageRes[0] \in Nat \ {0, 1}
        /\ Res[0] = StorageRes[0] * Res[0 + 1]
    BY <2>1, LevelFacts
  <2> DEFINE k == StorageRes[0]
             r == Res[0 + 1]
  <2>3. k \in Nat \ {0, 1} /\ r \in Nat \ {0} /\ Res[0] = k * r /\ r = Res[1]
    BY <2>2
  <2> HIDE DEF k, r
  <2>4. r <= k * r
    BY <2>3
  <2> QED
    BY <2>1, <2>2, <2>3, <2>4
<1>5. ASSUME NEW a \in Axes PROVE o[a] = 0
  <2>1. PICK j \in Leaves : Lower[a] = leaves[j].origin[a]
    BY <1>1, BoundsFacts
  <2>2. /\ Offset(j) \in Coordinates /\ Offset(j) \in [Axes -> Nat]
        /\ Offset(j)[a] = Lower[a] - rootOrigin[a]
    BY <1>1, <2>1, OffsetFacts
  <2>3. /\ Lower[a] \in Int /\ rootOrigin[a] \in Int /\ rootOrigin[a] <= Lower[a]
        /\ Lower[a] < rootOrigin[a] + Res[1]
    BY <1>1, BoundsFacts, RootFacts DEF Coordinates
  <2>4. Offset(j)[a] \in Int /\ 0 <= Offset(j)[a] /\ Offset(j)[a] < Res[0]
    BY <1>4, <2>2, <2>3
  <2>5. Res[0] * 0 <= Offset(j)[a] /\ Offset(j)[a] < Res[0] * 0 + Res[0] /\ Res[0] * 0 = 0
    BY <1>4, <2>4
  <2>6. Floor(Offset(j)[a], Res[0]) = 0
    <3> DEFINE x == Offset(j)[a]
               r == Res[0]
    <3>1. x \in Int /\ r \in Nat \ {0} /\ 0 \in Int /\ r * 0 <= x /\ x < r * 0 + r /\ r * 0 = 0
      BY <1>4, <2>4, <2>5
    <3> HIDE DEF x, r
    <3>2. Floor(x, r) = r * 0
      BY <3>1, FloorIs
    <3> QED
      BY <3>1, <3>2 DEF x, r
  <2> QED
    BY <1>3, <1>4, <2>2, <2>6, NodeOriginFacts
<1>6. o \in Coordinates
  <2>1. Offset(i) \in Coordinates
    BY <1>1, OffsetFacts
  <2> QED
    BY <1>3, <1>4, <2>1, NodeOriginFacts
<1>7. o = Zero
  BY <1>5, <1>6 DEF Coordinates, Zero
<1> QED
  BY <1>3, <1>7

LEMMA RootCoversAll ==
  ShapeInv /\ Allocated /\ FitsRoot => \A i \in Leaves : NodeOrigin(Offset(i), 0) = Zero
BY RootCovers

(* The coordinates of nodes and voxels. *)
LEMMA CornerFacts ==
  ASSUME ShapeInv, TreeOK, NEW v \in DOMAIN voxels
  PROVE  /\ v[1] \in InnerLevels /\ v[1] \in LevelsDown /\ v[2] \in DOMAIN origin[v[1]]
         /\ v[3] \in VoxelIndices(v[1])
         /\ origin[v[1]][v[2]] \in Coordinates
         /\ NodeOrigin(origin[v[1]][v[2]], v[1]) = origin[v[1]][v[2]]
         /\ CornerOf(v) \in Coordinates
         /\ NodeOrigin(CornerOf(v), v[1]) = origin[v[1]][v[2]]
         /\ VoxelIndex(CornerOf(v), v[1]) = v[3]
         /\ NodeOrigin(CornerOf(v), v[1] + 1) = CornerOf(v)
<1>1. /\ v[1] \in InnerLevels /\ v[2] \in DOMAIN origin[v[1]] /\ v[3] \in VoxelIndices(v[1])
      /\ origin \in [InnerLevels -> Seq([Axes -> Nat])]
  BY DEF ShapeInv, TypeOK
<1>2. v[1] \in LevelsDown
  BY <1>1, ResFacts DEF InnerLevels, LevelsDown
<1>3. origin[v[1]][v[2]] \in [Axes -> Nat]
  BY <1>1
<1>4. origin[v[1]][v[2]] \in Coordinates
  BY <1>3 DEF Coordinates
<1>5. NodeOrigin(origin[v[1]][v[2]], v[1]) = origin[v[1]][v[2]]
  BY <1>1 DEF TreeOK, OriginsAreAligned
<1> QED
  BY <1>1, <1>2, <1>4, <1>5, OffsetOfVoxel DEF CornerOf

(* A voxel is known by its level and its corner. *)
LEMMA VoxelsDiffer ==
  ASSUME ShapeInv, TreeOK, NEW l \in InnerLevels, NEW n \in DOMAIN origin[l],
         NEW o \in Coordinates, origin[l][n] = NodeOrigin(o, l),
         NEW v \in DOMAIN voxels, v[1] = l, CornerOf(v) = NodeOrigin(o, l + 1)
  PROVE  v = <<l, n, VoxelIndex(o, l)>>
<1>1. l \in LevelsDown /\ l \in 0 .. l + 1 /\ l + 1 \in 0 .. NumLevels /\ l \in 0 .. NumLevels
  BY ResFacts DEF InnerLevels, LevelsDown
<1>2. /\ v[2] \in DOMAIN origin[l] /\ v[3] \in VoxelIndices(l)
      /\ origin[l][v[2]] \in Coordinates
      /\ NodeOrigin(origin[l][v[2]], l) = origin[l][v[2]]
      /\ CornerOf(v) = Corner(origin[l][v[2]], v[3], l)
  BY CornerFacts DEF CornerOf
<1>3. /\ VoxelIndex(o, l) \in VoxelIndices(l)
      /\ Corner(NodeOrigin(o, l), VoxelIndex(o, l), l) = NodeOrigin(o, l + 1)
  BY <1>1, VoxelOfOffset
<1>4. /\ NodeOrigin(o, l) \in Coordinates /\ NodeOrigin(NodeOrigin(o, l), l) = NodeOrigin(o, l)
  BY <1>1, NodeOriginFacts, NodesNest
<1>5. origin[l][v[2]] = NodeOrigin(o, l) /\ v[3] = VoxelIndex(o, l)
  <2>1. Corner(origin[l][v[2]], v[3], l) = Corner(NodeOrigin(o, l), VoxelIndex(o, l), l)
    BY <1>2, <1>3
  <2> QED
    BY <1>1, <1>2, <1>3, <1>4, <2>1, CornersDiffer
<1>6. v[2] = n
  BY <1>2, <1>5 DEF TreeOK, OriginsDiffer
<1> QED
  BY <1>5, <1>6 DEF TreeOK, KeysAreTriples

(* The empty tree. *)
LEMMA TreeStarts ==
  ASSUME ShapeInv, ShapeInv', AllocateInnerLevel, phase' = "insert", FitsRoot'
  PROVE  TreeOK'
<1>1. /\ DOMAIN voxels' = {} /\ cursor' = Root /\ todo' = Leaves'
  <2>1. Nothing /\ todo = Leaves
    BY DEF ShapeInv, CountsOK, AllocateInnerLevel
  <2>2. Leaves' = Leaves
    BY InputStays DEF AllocateInnerLevel, input
  <2> QED
    BY <2>1, <2>2 DEF AllocateInnerLevel, Nothing
<1>2. origin' = [l \in InnerLevels |-> IF l = 0 THEN <<Zero>> ELSE <<>>]
  <2>1. origin = [l \in InnerLevels |-> <<>>] /\ origin' = [origin EXCEPT ![0] = <<Zero>>]
    BY DEF ShapeInv, CountsOK, AllocateInnerLevel, Nothing
  <2>2. 0 \in InnerLevels
    BY ResFacts DEF InnerLevels
  <2> QED
    BY <2>1, <2>2, Zenon
<1>3. /\ \A l \in InnerLevels : l # 0 => DOMAIN origin'[l] = {}
      /\ DOMAIN origin'[0] = {1} /\ origin'[0][1] = Zero /\ 0 \in InnerLevels
  <2>1. 0 \in InnerLevels
    BY ResFacts DEF InnerLevels
  <2> QED
    BY <1>2, <2>1
<1>4. NodeOrigin(Zero, 0) = Zero
  <2>1. 0 \in 0 .. NumLevels /\ Res[0] \in Nat \ {0}
    BY ResFacts
  <2>2. 0 % Res[0] = 0
    BY <2>1
  <2> QED
    BY <2>2 DEF NodeOrigin, Zero
<1>5. \A i \in Leaves' : NodeOrigin(Offset(i)', 0) = Zero
  <2>1. (ShapeInv /\ Allocated /\ FitsRoot => \A i \in Leaves : NodeOrigin(Offset(i), 0) = Zero)'
    BY RootCoversAll, PTL
  <2>2. Allocated'
    BY DEF Allocated
  <2> QED
    BY <2>1, <2>2
<1>6. /\ KeysAreTriples' /\ ChildrenFit' /\ LeavesFit'
  BY <1>1 DEF KeysAreTriples, ChildrenFit, LeavesFit
<1>7. OriginsAreAligned' /\ OriginsDiffer' /\ NodesHaveParents' /\ NodesAreNeeded'
  BY <1>3, <1>4 DEF OriginsAreAligned, OriginsDiffer, NodesHaveParents, NodesAreNeeded
<1>8. PathsLeadToLeaves' /\ InsertedInOrder'
  BY <1>1 DEF PathsLeadToLeaves, InsertedInOrder
<1>9. CursorIsOnPath'
  <2>1. cursor'.level = 0 /\ cursor'.node = 1 /\ \A l \in 0 .. 0 - 1 : FALSE
    BY <1>1 DEF Root
  <2> QED
    BY <1>3, <1>5, <2>1 DEF CursorIsOnPath
<1> QED
  BY <1>6, <1>7, <1>8, <1>9 DEF TreeOK

-----------------------------------------------------------------------------
(* A tree that grows keeps its paths. *)
LEMMA OnPathStays ==
  ASSUME leaves' = leaves, packed' = packed, rootOrigin' = rootOrigin,
         NEW i, NEW l, OnPath(i, l),
         DOMAIN origin[l] \subseteq DOMAIN origin'[l],
         \A k \in DOMAIN origin[l] : origin'[l][k] = origin[l][k],
         \A v \in DOMAIN voxels : v \in DOMAIN voxels' /\ voxels'[v] = voxels[v]
  PROVE  OnPath(i, l)'
<1>1. PICK n \in DOMAIN origin[l] :
         /\ origin[l][n] = NodeOrigin(Offset(i), l)
         /\ PathVoxel(i, l, n) \in DOMAIN voxels
         /\ IF l + 1 = leaves[i].level THEN voxels[PathVoxel(i, l, n)] = LeafPtr(i)
                                       ELSE voxels[PathVoxel(i, l, n)].type = "child"
  BY DEF OnPath
<1>2. /\ Offset(i)' = Offset(i) /\ LeafPtr(i)' = LeafPtr(i)
  BY InputStays, OffsetsStay
<1>3. PathVoxel(i, l, n)' = PathVoxel(i, l, n)
  BY <1>2 DEF PathVoxel
<1>4. n \in DOMAIN origin'[l] /\ origin'[l][n] = NodeOrigin(Offset(i)', l)
  BY <1>1, <1>2
<1>5. /\ PathVoxel(i, l, n)' \in DOMAIN voxels'
      /\ voxels'[PathVoxel(i, l, n)'] = voxels[PathVoxel(i, l, n)]
  BY <1>1, <1>3
<1> QED
  BY <1>1, <1>2, <1>4, <1>5 DEF OnPath

LEMMA TreeStays ==
  ASSUME TreeOK,
         UNCHANGED <<leaves, packed, rootOrigin, todo, cursor, origin, voxels>>,
         phase' = phase \/ phase' # "insert"
  PROVE  TreeOK'
<1>1. /\ Leaves' = Leaves
      /\ \A i : Offset(i)' = Offset(i) /\ LeafPtr(i)' = LeafPtr(i)
  BY InputStays, OffsetsStay
<1>2. \A v : CornerOf(v)' = CornerOf(v)
  BY DEF CornerOf
<1>3. \A i : Current(i)' <=> Current(i)
  BY DEF Current, Precedes
<1>4. \A i, l : OnPath(i, l) => OnPath(i, l)'
  BY OnPathStays
<1>5. KeysAreTriples' /\ OriginsAreAligned' /\ OriginsDiffer' /\ NodesHaveParents'
  BY DEF TreeOK, KeysAreTriples, OriginsAreAligned, OriginsDiffer, NodesHaveParents
<1>6. ChildrenFit'
  BY <1>2 DEF TreeOK, ChildrenFit
<1>7. LeavesFit'
  BY <1>1, <1>2 DEF TreeOK, LeavesFit
<1>8. NodesAreNeeded'
  BY <1>1, <1>3 DEF TreeOK, NodesAreNeeded
<1>9. PathsLeadToLeaves'
  BY <1>1, <1>4 DEF TreeOK, PathsLeadToLeaves
<1>10. CursorIsOnPath'
  BY <1>1, <1>3, <1>4 DEF TreeOK, CursorIsOnPath
<1>11. InsertedInOrder'
  BY <1>1 DEF TreeOK, InsertedInOrder
<1> QED
  BY <1>5, <1>6, <1>7, <1>8, <1>9, <1>10, <1>11 DEF TreeOK

(* A child at the last voxel of the way would belong to a leaf of a lower level. *)
LEMMA LastVoxelIsNoChild ==
  ASSUME ShapeInv, TreeOK, phase = "insert", NEW i \in Leaves, Current(i),
         Here(i) \in DOMAIN voxels, voxels[Here(i)].type = "child"
  PROVE  ~IsLast(i)
<1> SUFFICES ASSUME IsLast(i) PROVE FALSE
  OBVIOUS
<1> DEFINE l == cursor.level + 1
           n == voxels[Here(i)].index
<1>1. /\ Here(i)[1] + 1 \in InnerLevels /\ n \in DOMAIN origin[Here(i)[1] + 1]
      /\ Here(i)[1] = cursor.level /\ cursor.level \in InnerLevels
      /\ leaves \in Inputs /\ leaves[i].level \in 1 .. LeafLevel
  BY HereFacts DEF ShapeInv, TypeOK
<1>2. l \in InnerLevels /\ n \in DOMAIN origin[l] /\ l # 0
  BY <1>1 DEF InnerLevels
<1>3. PICK j \in Leaves : (j \notin todo \/ Current(j)) /\ leaves[j].level > l
  BY <1>2 DEF TreeOK, NodesAreNeeded
<1>4. l = leaves[i].level /\ l \in Nat /\ leaves[j].level \in Int
  <2>1. l = leaves[i].level
    BY DEF IsLast
  <2>2. leaves[j].level \in 0 .. LeafLevel
    BY <1>1, InputFacts DEF LevelsDown
  <2> HIDE DEF l
  <2> QED
    BY <1>1, <2>1, <2>2, ResFacts
<1>5. CASE j \notin todo
  <2>1. i \in todo
    BY DEF Current
  <2>2. leaves[j].level <= leaves[i].level
    BY <1>5, <2>1 DEF TreeOK, InsertedInOrder
  <2> QED
    BY <1>3, <1>4, <2>2
<1>6. CASE Current(j)
  <2>1. j = i
    BY <1>1, <1>6, CurrentIsOne
  <2> QED
    BY <1>3, <1>4, <2>1
<1> QED
  BY <1>3, <1>5, <1>6

(* The voxel that the insertion is at is the one that contains the leaf. *)
LEMMA HereFits ==
  ASSUME ShapeInv, TreeOK, phase = "insert", NEW i \in Leaves, Current(i)
  PROVE  /\ Here(i) = PathVoxel(i, cursor.level, cursor.node)
         /\ Here(i) = <<Here(i)[1], Here(i)[2], Here(i)[3]>>
         /\ origin[cursor.level][cursor.node] = NodeOrigin(Offset(i), cursor.level)
         /\ CornerOf(Here(i)) = NodeOrigin(Offset(i), cursor.level + 1)
<1>1. /\ Here(i) = PathVoxel(i, cursor.level, cursor.node)
      /\ Here(i) = <<Here(i)[1], Here(i)[2], Here(i)[3]>>
  BY DEF Here, PathVoxel
<1>2. origin[cursor.level][cursor.node] = NodeOrigin(Offset(i), cursor.level)
  BY DEF TreeOK, CursorIsOnPath
<1>3. /\ Here(i)[1] = cursor.level /\ Here(i)[2] = cursor.node
      /\ Here(i)[3] = VoxelIndex(Offset(i), cursor.level)
      /\ cursor.level \in LevelsDown /\ Offset(i) \in Coordinates
  BY HereFacts
<1>4. Corner(NodeOrigin(Offset(i), cursor.level), VoxelIndex(Offset(i), cursor.level), cursor.level)
        = NodeOrigin(Offset(i), cursor.level + 1)
  BY <1>3, VoxelOfOffset
<1> QED
  BY <1>1, <1>2, <1>3, <1>4 DEF CornerOf

LEMMA TreeAfterIntoChild ==
  ASSUME ShapeInv, TreeOK, phase = "insert", NEW i \in Leaves, Current(i), InsertIntoChild(i)
  PROVE  TreeOK'
<1> DEFINE v == Here(i)
           n == voxels[Here(i)].index
<1>1. /\ v \in DOMAIN voxels /\ voxels[v].type = "child" /\ Advance(i, n)
      /\ UNCHANGED <<leaves, packed, phase, rootOrigin, origin, voxels>>
  BY DEF InsertIntoChild, input, extent
<1>2. ~IsLast(i)
  BY <1>1, LastVoxelIsNoChild
<1>3. cursor' = [level |-> cursor.level + 1, node |-> n] /\ todo' = todo
  BY <1>1, <1>2 DEF Advance
<1>4. /\ Leaves' = Leaves
      /\ \A j : Offset(j)' = Offset(j) /\ LeafPtr(j)' = LeafPtr(j)
  BY <1>1, InputStays, OffsetsStay
<1>5. \A w : CornerOf(w)' = CornerOf(w)
  BY <1>1 DEF CornerOf
<1>6. \A j : Current(j)' <=> Current(j)
  BY <1>1, <1>3 DEF Current, Precedes
<1>7. \A j, l : OnPath(j, l) => OnPath(j, l)'
  BY <1>1, OnPathStays
<1>8. /\ v = PathVoxel(i, cursor.level, cursor.node)
      /\ origin[cursor.level][cursor.node] = NodeOrigin(Offset(i), cursor.level)
      /\ CornerOf(v) = NodeOrigin(Offset(i), cursor.level + 1)
  BY HereFits
<1>9. /\ cursor.level \in InnerLevels /\ cursor.node \in DOMAIN origin[cursor.level]
      /\ cursor.level + 1 # leaves[i].level /\ v[1] = cursor.level /\ leaves \in Inputs
      /\ cursor.level \in Nat
  BY <1>2, HereFacts DEF IsLast, InnerLevels
<1>10. OnPath(i, cursor.level)
  BY <1>1, <1>8, <1>9 DEF OnPath
<1>11. origin[cursor.level + 1][n] = NodeOrigin(Offset(i), cursor.level + 1)
  BY <1>1, <1>8, <1>9 DEF TreeOK, ChildrenFit
<1>12. CursorIsOnPath'
  <2>1. ASSUME NEW j \in Leaves, Current(j)
        PROVE  /\ \A l \in 0 .. cursor'.level - 1 : OnPath(j, l)'
               /\ origin'[cursor'.level][cursor'.node] = NodeOrigin(Offset(j)', cursor'.level)
    <3>1. j = i
      BY <1>9, <2>1, CurrentIsOne
    <3>2. cursor'.level = cursor.level + 1 /\ cursor'.node = n
      BY <1>3
    <3>3. ASSUME NEW l \in 0 .. cursor'.level - 1 PROVE OnPath(i, l)
      <4>1. l = cursor.level \/ l \in 0 .. cursor.level - 1
        BY <1>9, <3>2
      <4>2. \A k \in 0 .. cursor.level - 1 : OnPath(i, k)
        BY DEF TreeOK, CursorIsOnPath
      <4> QED
        BY <1>10, <4>1, <4>2
    <3> QED
      BY <1>1, <1>4, <1>7, <1>11, <3>1, <3>2, <3>3
  <2> QED
    BY <1>4, <1>6, <2>1 DEF CursorIsOnPath
<1>13. KeysAreTriples' /\ OriginsAreAligned' /\ OriginsDiffer' /\ NodesHaveParents'
  BY <1>1 DEF TreeOK, KeysAreTriples, OriginsAreAligned, OriginsDiffer, NodesHaveParents
<1>14. ChildrenFit'
  BY <1>1, <1>5 DEF TreeOK, ChildrenFit
<1>15. LeavesFit'
  BY <1>1, <1>3, <1>4, <1>5 DEF TreeOK, LeavesFit
<1>16. NodesAreNeeded'
  BY <1>1, <1>3, <1>4, <1>6 DEF TreeOK, NodesAreNeeded
<1>17. PathsLeadToLeaves'
  BY <1>1, <1>3, <1>4, <1>7 DEF TreeOK, PathsLeadToLeaves
<1>18. InsertedInOrder'
  BY <1>1, <1>3, <1>4 DEF TreeOK, InsertedInOrder
<1> QED
  BY <1>12, <1>13, <1>14, <1>15, <1>16, <1>17, <1>18 DEF TreeOK

LEMMA TreeAfterChild ==
  ASSUME ShapeInv, TreeOK, phase = "insert", NEW i \in Leaves, Current(i), InsertChild(i)
  PROVE  TreeOK'
<1>0. PICK v, at, node, next, new, o :
         /\ v = Here(i) /\ at = cursor.level /\ node = cursor.node /\ next = cursor.level + 1
         /\ new = Len(origin[next]) + 1 /\ o = NodeOrigin(Offset(i), next)
  OBVIOUS
<1>1. /\ next \in InnerLevels /\ next # 0 /\ new \in Nat \ {0} /\ o \in [Axes -> Nat]
      /\ next \in 0 .. NumLevels
      /\ ~IsLast(i) /\ Advance(i, new) /\ v \notin DOMAIN voxels
      /\ \A l \in InnerLevels : l # next => origin'[l] = origin[l]
      /\ DOMAIN origin[next] = 1 .. new - 1 /\ DOMAIN origin'[next] = 1 .. new
      /\ origin'[next][new] = o
      /\ \A l \in InnerLevels : DOMAIN origin[l] \subseteq DOMAIN origin'[l]
      /\ \A l \in InnerLevels : \A k \in DOMAIN origin[l] : origin'[l][k] = origin[l][k]
      /\ DOMAIN voxels' = DOMAIN voxels \cup {v}
      /\ voxels'[v] = Child(new)
      /\ \A w \in DOMAIN voxels : w # v /\ voxels'[w] = voxels[w]
      /\ UNCHANGED <<leaves, packed, phase, rootOrigin>>
  BY <1>0, InsertChildFacts
<1>2. /\ v = PathVoxel(i, at, node) /\ v = <<v[1], v[2], v[3]>>
      /\ origin[at][node] = NodeOrigin(Offset(i), at)
      /\ CornerOf(v) = o
  BY <1>0, HereFits
<1>3. /\ leaves \in Inputs /\ Offset(i) \in Coordinates /\ next < leaves[i].level
      /\ at \in InnerLevels /\ node \in DOMAIN origin[at] /\ next = at + 1
      /\ v[1] = at /\ v[2] = node /\ at + 1 # leaves[i].level
      /\ v[3] = VoxelIndex(Offset(i), at)
  BY <1>0, <1>1, HereFacts DEF IsLast
<1>4. NodeOrigin(o, next) = o
  <2>1. next \in 0 .. next
    BY <1>1 DEF InnerLevels
  <2> QED
    BY <1>0, <1>1, <1>3, <2>1, NodesNest
<1>5. cursor' = [level |-> next, node |-> new] /\ todo' = todo
  BY <1>0, <1>1 DEF Advance
<1>6. at \in Nat
  BY <1>3 DEF InnerLevels
<1>7. /\ Leaves' = Leaves
      /\ \A j : Offset(j)' = Offset(j) /\ LeafPtr(j)' = LeafPtr(j)
  BY <1>1, InputStays, OffsetsStay
<1>8. \A j : Current(j)' <=> Current(j)
  BY <1>1, <1>5 DEF Current, Precedes
(* the nodes: the old ones, and the new one *)
<1>9. ASSUME NEW l \in InnerLevels, NEW n \in DOMAIN origin'[l]
      PROVE  \/ n \in DOMAIN origin[l] /\ origin'[l][n] = origin[l][n]
             \/ l = next /\ n = new /\ n \notin DOMAIN origin[l] /\ origin'[l][n] = o
  <2>1. CASE l = next
    BY <1>1, <2>1
  <2>2. CASE l # next
    BY <1>1, <2>2
  <2> QED
    BY <2>1, <2>2
<1>10. ASSUME NEW w \in DOMAIN voxels
       PROVE  /\ w[1] \in InnerLevels /\ w[2] \in DOMAIN origin[w[1]]
              /\ CornerOf(w)' = CornerOf(w) /\ voxels'[w] = voxels[w] /\ w # v
              /\ voxels[w].type = "child" => /\ w[1] + 1 \in InnerLevels
                                             /\ voxels[w].index \in DOMAIN origin[w[1] + 1]
  <2>1. /\ w[1] \in InnerLevels /\ w[2] \in DOMAIN origin[w[1]]
        /\ voxels[w].type = "child" => /\ w[1] + 1 \in InnerLevels
                                       /\ voxels[w].index \in DOMAIN origin[w[1] + 1]
    BY DEF ShapeInv, TypeOK
  <2> QED
    BY <1>1, <2>1 DEF CornerOf
<1>11. CornerOf(v)' = CornerOf(v)
  BY <1>1, <1>3 DEF CornerOf
<1>12. voxels'[v].type = "child" /\ voxels'[v].index = new
  BY <1>1 DEF Child
(* no node had the origin of the new one *)
<1>13. ASSUME NEW m \in DOMAIN origin[next], origin[next][m] = o PROVE FALSE
  <2>1. PICK w \in DOMAIN voxels : /\ w[1] + 1 = next /\ voxels[w].type = "child"
                                   /\ voxels[w].index = m
    BY <1>1 DEF TreeOK, NodesHaveParents
  <2>2. CornerOf(w) = o
    BY <1>13, <2>1 DEF TreeOK, ChildrenFit
  <2>3. w[1] = at
    <3>1. w[1] \in Nat
      BY <1>10 DEF InnerLevels
    <3> QED
      BY <1>3, <1>6, <2>1, <3>1
  <2>4. w = <<at, node, VoxelIndex(Offset(i), at)>>
    BY <1>0, <1>2, <1>3, <2>2, <2>3, VoxelsDiffer
  <2>5. w = v
    BY <1>2, <1>3, <2>4
  <2> QED
    BY <1>1, <2>5
<1>14. \A j, l : l \in InnerLevels /\ OnPath(j, l) => OnPath(j, l)'
  <2> SUFFICES ASSUME NEW j, NEW l, l \in InnerLevels, OnPath(j, l) PROVE OnPath(j, l)'
    OBVIOUS
  <2>1. /\ DOMAIN origin[l] \subseteq DOMAIN origin'[l]
        /\ \A k \in DOMAIN origin[l] : origin'[l][k] = origin[l][k]
        /\ \A w \in DOMAIN voxels : w \in DOMAIN voxels' /\ voxels'[w] = voxels[w]
    BY <1>1
  <2> QED
    BY <1>1, <2>1, OnPathStays
<1>15. KeysAreTriples'
  BY <1>1, <1>2 DEF TreeOK, KeysAreTriples
<1>16. OriginsAreAligned'
  BY <1>4, <1>9 DEF TreeOK, OriginsAreAligned
<1>17. OriginsDiffer'
  <2> SUFFICES ASSUME NEW l \in InnerLevels, NEW m \in DOMAIN origin'[l],
                      NEW n \in DOMAIN origin'[l], origin'[l][m] = origin'[l][n]
               PROVE  m = n
    BY DEF OriginsDiffer
  <2>1. CASE m \in DOMAIN origin[l] /\ n \in DOMAIN origin[l]
    <3>1. origin'[l][m] = origin[l][m] /\ origin'[l][n] = origin[l][n]
      BY <1>1, <2>1
    <3> QED
      BY <2>1, <3>1 DEF TreeOK, OriginsDiffer
  <2>2. CASE m \notin DOMAIN origin[l] /\ n \notin DOMAIN origin[l]
    BY <1>9, <2>2
  <2>3. CASE m \in DOMAIN origin[l] /\ n \notin DOMAIN origin[l]
    <3>1. l = next /\ origin'[l][n] = o
      BY <1>9, <2>3
    <3>2. origin[next][m] = o
      BY <1>1, <2>3, <3>1
    <3> QED
      BY <1>13, <2>3, <3>1, <3>2
  <2>4. CASE m \notin DOMAIN origin[l] /\ n \in DOMAIN origin[l]
    <3>1. l = next /\ origin'[l][m] = o
      BY <1>9, <2>4
    <3>2. origin[next][n] = o
      BY <1>1, <2>4, <3>1
    <3> QED
      BY <1>13, <2>4, <3>1, <3>2
  <2> QED
    BY <2>1, <2>2, <2>3, <2>4
<1>18. ChildrenFit'
  <2> SUFFICES ASSUME NEW w \in DOMAIN voxels', voxels'[w].type = "child"
               PROVE  origin'[w[1] + 1][voxels'[w].index] = CornerOf(w)'
    BY DEF ChildrenFit
  <2>1. CASE w = v
    <3>1. w[1] + 1 = next
      BY <1>3, <2>1
    <3> QED
      BY <1>1, <1>2, <1>11, <1>12, <2>1, <3>1
  <2>2. CASE w \in DOMAIN voxels
    <3>1. /\ CornerOf(w)' = CornerOf(w) /\ voxels'[w] = voxels[w]
          /\ w[1] + 1 \in InnerLevels /\ voxels[w].index \in DOMAIN origin[w[1] + 1]
      BY <1>10, <2>2
    <3>2. origin[w[1] + 1][voxels[w].index] = CornerOf(w)
      BY <2>2, <3>1 DEF TreeOK, ChildrenFit
    <3>3. PICK l, k : l = w[1] + 1 /\ k = voxels[w].index
      OBVIOUS
    <3>4. origin'[l][k] = origin[l][k]
      BY <1>1, <3>1, <3>3
    <3> QED
      BY <3>1, <3>2, <3>3, <3>4
  <2> QED
    BY <1>1, <2>1, <2>2
<1>19. NodesHaveParents'
  <2> SUFFICES ASSUME NEW l \in InnerLevels, NEW n \in DOMAIN origin'[l], l # 0
               PROVE  \E w \in DOMAIN voxels' : /\ w[1] + 1 = l /\ voxels'[w].type = "child"
                                                /\ voxels'[w].index = n
    BY DEF NodesHaveParents
  <2>1. CASE n \in DOMAIN origin[l]
    <3>1. PICK w \in DOMAIN voxels : /\ w[1] + 1 = l /\ voxels[w].type = "child"
                                     /\ voxels[w].index = n
      BY <2>1 DEF TreeOK, NodesHaveParents
    <3> QED
      BY <1>1, <3>1
  <2>2. CASE l = next /\ n = new
    <3>1. v[1] + 1 = l /\ v \in DOMAIN voxels'
      BY <1>1, <1>3, <2>2
    <3> QED
      BY <1>12, <2>2, <3>1
  <2> QED
    BY <1>9, <2>1, <2>2
<1>20. LeavesFit'
  <2> SUFFICES ASSUME NEW w \in DOMAIN voxels', voxels'[w].type = "leaf"
               PROVE  \E j \in Leaves : /\ j \notin todo /\ voxels'[w] = LeafPtr(j)
                                        /\ w[1] + 1 = leaves[j].level
                                        /\ CornerOf(w)' = NodeOrigin(Offset(j), leaves[j].level)
    BY <1>1, <1>5, <1>7 DEF LeavesFit
  <2>1. w # v
    BY <1>12
  <2>2. w \in DOMAIN voxels
    BY <1>1, <2>1
  <2> QED
    BY <1>10, <2>2 DEF TreeOK, LeavesFit
<1>21. NodesAreNeeded'
  <2> SUFFICES ASSUME NEW l \in InnerLevels, NEW n \in DOMAIN origin'[l], l # 0
               PROVE  \E j \in Leaves : /\ j \notin todo \/ Current(j)
                                        /\ leaves[j].level > l
                                        /\ origin'[l][n] = NodeOrigin(Offset(j), l)
    BY <1>1, <1>5, <1>7, <1>8 DEF NodesAreNeeded
  <2>1. CASE n \in DOMAIN origin[l]
    <3>1. PICK j \in Leaves : /\ j \notin todo \/ Current(j)
                              /\ leaves[j].level > l
                              /\ origin[l][n] = NodeOrigin(Offset(j), l)
      BY <2>1 DEF TreeOK, NodesAreNeeded
    <3> QED
      BY <1>1, <2>1, <3>1
  <2>2. CASE l = next /\ origin'[l][n] = o
    <3>1. leaves[i].level > l
      BY <1>3, <2>2
    <3> QED
      BY <2>2, <3>1, <1>0
  <2> QED
    BY <1>9, <2>1, <2>2
<1>22. PathsLeadToLeaves'
  <2> SUFFICES ASSUME NEW j \in Leaves, j \notin todo, NEW l \in 0 .. leaves[j].level - 1
               PROVE  OnPath(j, l)'
    BY <1>1, <1>5, <1>7 DEF PathsLeadToLeaves
  <2>1. OnPath(j, l)
    BY DEF TreeOK, PathsLeadToLeaves
  <2>2. l \in InnerLevels
    <3>1. leaves[j].level \in 0 .. LeafLevel /\ LeafLevel \in Nat
      BY <1>3, InputFacts, ResFacts DEF LevelsDown
    <3> QED
      BY <3>1 DEF InnerLevels
  <2> QED
    BY <1>14, <2>1, <2>2
<1>23. OnPath(i, at)'
  <2>1. /\ node \in DOMAIN origin'[at]
        /\ origin'[at][node] = NodeOrigin(Offset(i)', at)
    BY <1>1, <1>2, <1>3, <1>7
  <2>2. PathVoxel(i, at, node)' = v
    BY <1>2, <1>7 DEF PathVoxel
  <2>3. /\ PathVoxel(i, at, node)' \in DOMAIN voxels'
        /\ voxels'[PathVoxel(i, at, node)'].type = "child"
        /\ at + 1 # leaves'[i].level
    BY <1>1, <1>3, <1>12, <2>2
  <2> QED
    BY <2>1, <2>3 DEF OnPath
<1>24. CursorIsOnPath'
  <2>1. ASSUME NEW j \in Leaves, Current(j)
        PROVE  /\ \A l \in 0 .. next - 1 : OnPath(j, l)'
               /\ origin'[next][new] = NodeOrigin(Offset(j)', next)
    <3>1. j = i
      BY <1>3, <2>1, CurrentIsOne
    <3>2. ASSUME NEW l \in 0 .. next - 1 PROVE OnPath(i, l)'
      <4>1. CASE l = at
        BY <1>23, <4>1
      <4>2. CASE l # at
        <5>1. l \in 0 .. at - 1
          BY <1>3, <1>6, <4>2
        <5>2. l \in InnerLevels
          <6>1. at \in 0 .. LeafLevel - 1 /\ LeafLevel \in Nat
            BY <1>3, ResFacts DEF InnerLevels
          <6> QED
            BY <5>1, <6>1 DEF InnerLevels
        <5>3. OnPath(i, l)
          BY <1>0, <5>1 DEF TreeOK, CursorIsOnPath
        <5> QED
          BY <1>14, <5>2, <5>3
      <4> QED
        BY <4>1, <4>2
    <3> QED
      BY <1>0, <1>1, <1>7, <3>1, <3>2
  <2>2. cursor'.level = next /\ cursor'.node = new
    BY <1>5
  <2> QED
    BY <1>7, <1>8, <2>1, <2>2 DEF CursorIsOnPath
<1>25. InsertedInOrder'
  BY <1>1, <1>5, <1>7 DEF TreeOK, InsertedInOrder
<1> QED
  BY <1>15, <1>16, <1>17, <1>18, <1>19, <1>20, <1>21, <1>22, <1>24, <1>25 DEF TreeOK

LEMMA TreeAfterLeaf ==
  ASSUME ShapeInv, TreeOK, FitsRoot, phase = "insert", NEW i \in Leaves, Current(i),
         InsertLeaf(i)
  PROVE  TreeOK'
<1>0. PICK v, at, node : v = Here(i) /\ at = cursor.level /\ node = cursor.node
  OBVIOUS
<1>1. /\ IsLast(i) /\ todo' = todo \ {i} /\ cursor' = Root /\ v \notin DOMAIN voxels
      /\ DOMAIN voxels' = DOMAIN voxels \cup {v}
      /\ voxels'[v] = LeafPtr(i)
      /\ \A w \in DOMAIN voxels : w # v /\ voxels'[w] = voxels[w]
      /\ UNCHANGED <<leaves, packed, phase, rootOrigin, origin>>
  BY <1>0, InsertLeafFacts
<1>2. /\ v = PathVoxel(i, at, node) /\ v = <<v[1], v[2], v[3]>>
      /\ origin[at][node] = NodeOrigin(Offset(i), at)
      /\ CornerOf(v) = NodeOrigin(Offset(i), at + 1)
  BY <1>0, HereFits
<1>3. /\ leaves \in Inputs /\ at + 1 = leaves[i].level /\ at \in InnerLevels
      /\ node \in DOMAIN origin[at] /\ v[1] = at /\ v[2] = node
  BY <1>0, <1>1, HereFacts DEF IsLast
<1>4. /\ Leaves' = Leaves
      /\ \A j : Offset(j)' = Offset(j) /\ LeafPtr(j)' = LeafPtr(j)
  BY <1>1, InputStays, OffsetsStay
<1>5. \A w : CornerOf(w)' = CornerOf(w)
  BY <1>1 DEF CornerOf
<1>6. LeafPtr(i).type = "leaf"
  BY DEF LeafPtr
<1>7. \A j, l : OnPath(j, l) => OnPath(j, l)'
  BY <1>1, OnPathStays
<1>8. KeysAreTriples' /\ OriginsAreAligned' /\ OriginsDiffer'
  BY <1>1, <1>2 DEF TreeOK, KeysAreTriples, OriginsAreAligned, OriginsDiffer
<1>9. ChildrenFit' /\ NodesHaveParents'
  BY <1>1, <1>5, <1>6 DEF TreeOK, ChildrenFit, NodesHaveParents
<1>10. LeavesFit'
  <2> SUFFICES ASSUME NEW w \in DOMAIN voxels', voxels'[w].type = "leaf"
               PROVE  \E j \in Leaves : /\ j \notin todo' /\ voxels'[w] = LeafPtr(j)
                                        /\ w[1] + 1 = leaves[j].level
                                        /\ CornerOf(w) = NodeOrigin(Offset(j), leaves[j].level)
    BY <1>1, <1>4, <1>5 DEF LeavesFit
  <2>1. CASE w = v
    BY <1>1, <1>2, <1>3, <2>1
  <2>2. CASE w \in DOMAIN voxels
    BY <1>1, <2>2 DEF TreeOK, LeavesFit
  <2> QED
    BY <1>1, <2>1, <2>2
<1>11. NodesAreNeeded'
  <2> SUFFICES ASSUME NEW l \in InnerLevels, NEW n \in DOMAIN origin[l], l # 0
               PROVE  \E j \in Leaves : /\ j \notin todo'
                                        /\ leaves[j].level > l
                                        /\ origin[l][n] = NodeOrigin(Offset(j), l)
    BY <1>1, <1>4 DEF NodesAreNeeded
  <2>1. PICK j \in Leaves : /\ j \notin todo \/ Current(j)
                            /\ leaves[j].level > l
                            /\ origin[l][n] = NodeOrigin(Offset(j), l)
    BY DEF TreeOK, NodesAreNeeded
  <2>2. j \notin todo'
    BY <1>1, <1>3, <2>1, CurrentIsOne
  <2> QED
    BY <2>1, <2>2
<1>12. OnPath(i, at)'
  <2>1. /\ node \in DOMAIN origin'[at] /\ origin'[at][node] = NodeOrigin(Offset(i)', at)
    BY <1>1, <1>2, <1>3, <1>4
  <2>2. PathVoxel(i, at, node)' = v
    BY <1>2, <1>4 DEF PathVoxel
  <2>3. /\ PathVoxel(i, at, node)' \in DOMAIN voxels'
        /\ voxels'[PathVoxel(i, at, node)'] = LeafPtr(i)'
        /\ at + 1 = leaves'[i].level
    BY <1>1, <1>3, <1>4, <2>2
  <2> QED
    BY <2>1, <2>3 DEF OnPath
<1>13. PathsLeadToLeaves'
  <2> SUFFICES ASSUME NEW j \in Leaves, j \notin todo', NEW l \in 0 .. leaves[j].level - 1
               PROVE  OnPath(j, l)'
    BY <1>1, <1>4 DEF PathsLeadToLeaves
  <2>1. CASE j \notin todo
    BY <1>7, <2>1 DEF TreeOK, PathsLeadToLeaves
  <2>2. CASE j = i /\ l = at
    BY <1>12, <2>2
  <2>3. CASE j = i /\ l # at
    <3>1. l \in 0 .. at - 1
      <4>1. at \in Nat /\ l \in 0 .. at
        BY <1>3, <2>3 DEF InnerLevels
      <4> QED
        BY <2>3, <4>1
    <3>2. OnPath(i, l)
      BY <1>0, <3>1 DEF TreeOK, CursorIsOnPath
    <3> QED
      BY <1>7, <2>3, <3>2
  <2> QED
    BY <1>1, <2>1, <2>2, <2>3
<1>14. CursorIsOnPath'
  <2>1. cursor'.level = 0 /\ cursor'.node = 1 /\ 0 .. 0 - 1 = {}
    BY <1>1 DEF Root
  <2>2. origin'[0][1] = Zero
    BY <1>1 DEF ShapeInv, CountsOK, Allocated
  <2>3. \A j \in Leaves : NodeOrigin(Offset(j), 0) = Zero
    BY RootCoversAll DEF Allocated
  <2> QED
    BY <1>4, <2>1, <2>2, <2>3 DEF CursorIsOnPath
<1>15. InsertedInOrder'
  <2> SUFFICES ASSUME NEW j \in Leaves, j \notin todo', NEW k \in todo'
               PROVE  leaves[j].level <= leaves[k].level
    BY <1>1, <1>4 DEF InsertedInOrder
  <2>1. CASE j \notin todo
    BY <1>1, <2>1 DEF TreeOK, InsertedInOrder
  <2>2. CASE j = i
    <3>1. Precedes(i, k) /\ k \in Leaves
      BY <1>1 DEF Current, ShapeInv, TypeOK
    <3>2. leaves[i].level \in Int /\ leaves[k].level \in Int
      BY <1>3, <3>1, InputFacts, ResFacts DEF LevelsDown
    <3> QED
      BY <2>2, <3>1, <3>2 DEF Precedes
  <2> QED
    BY <1>1, <2>1, <2>2
<1> QED
  BY <1>8, <1>9, <1>10, <1>11, <1>13, <1>14, <1>15 DEF TreeOK

(* A step from a tree that fits, into one that fits. *)
LEMMA TreeNext ==
  ASSUME ShapeInv, ShapeInv', TreeInv, [Next]_vars PROVE TreeInv'
<1> SUFFICES ASSUME Allocated', FitsRoot' PROVE TreeOK'
  BY DEF TreeInv
<1>1. CASE UNCHANGED vars
  <2>1. /\ UNCHANGED <<leaves, packed, rootOrigin, todo, cursor, origin, voxels, phase>>
        /\ Allocated /\ FitsRoot
    BY <1>1 DEF vars, Allocated, FitsRoot
  <2> QED
    BY <2>1, TreeStays DEF TreeInv
<1>2. CASE ComputeRoot \/ VerifyLeaves
  BY <1>2 DEF ComputeRoot, VerifyLeaves, Fail, Allocated
<1>3. CASE AllocateInnerLevel
  <2>1. phase' = "insert" \/ phase' = "allocate"
    BY <1>3 DEF AllocateInnerLevel
  <2> QED
    BY <1>3, <2>1, TreeStarts DEF Allocated
<1>4. CASE StartRanges \/ ExtendRanges \/ \E i \in Leaves : ComputeRange(i)
  <2>1. /\ UNCHANGED <<input, extent, counts, tree>>
        /\ phase' # "insert" /\ Allocated
    BY <1>4 DEF StartRanges, ExtendRanges, ComputeRange, Allocated
  <2>2. /\ UNCHANGED <<leaves, packed, rootOrigin, todo, cursor, origin, voxels, capacity>>
    BY <2>1 DEF input, extent, counts, tree
  <2>3. FitsRoot
    BY <2>2 DEF FitsRoot
  <2> QED
    BY <2>1, <2>2, <2>3, TreeStays DEF TreeInv
<1>5. ASSUME NEW i \in Leaves, Insert(i) PROVE TreeOK'
  <2>1. phase = "insert" /\ Current(i) /\ Allocated
    BY <1>5 DEF Insert, Allocated
  <2>2. CASE InsertIntoLeaf(i)
    BY <2>2 DEF InsertIntoLeaf, Fail, Allocated
  <2>3. CASE InsertIntoChild(i) \/ InsertChild(i) \/ InsertLeaf(i)
    <3>1. capacity' = capacity
      BY <2>3 DEF InsertIntoChild, InsertChild, InsertLeaf, counts
    <3>2. FitsRoot /\ TreeOK
      BY <2>1, <3>1 DEF FitsRoot, TreeInv
    <3> QED
      BY <2>1, <2>3, <3>2, TreeAfterIntoChild, TreeAfterChild, TreeAfterLeaf
  <2> QED
    BY <1>5, <2>2, <2>3 DEF Insert
<1> QED
  BY <1>1, <1>2, <1>3, <1>4, <1>5 DEF Next, Commit, Done

LEMMA TreeInvariance == Spec => []TreeInv
<1>1. Init => TreeInv
  BY DEF Init, TreeInv, Allocated
<1>2. ShapeInv /\ ShapeInv' /\ TreeInv /\ [Next]_vars => TreeInv'
  BY TreeNext
<1> QED
  BY <1>1, <1>2, ShapeInvariance, PTL DEF Spec

-----------------------------------------------------------------------------
(***************************************************************************)
(* The number of nodes.                                                    *)
(***************************************************************************)
Inserted == phase \in {"computeRanges", "committed"}

RangesOK ==
    /\ Inserted => todo = {} /\ DOMAIN range = DOMAIN voxels
    /\ ~Inserted => \A i \in Leaves : leafRange[i] = {}
    /\ DOMAIN leafRange = Leaves
    /\ \A i \in Leaves : leafRange[i] \in {{}, NeighbourhoodSamples(i)}
    /\ phase = "committed" =>
          /\ \A i \in Leaves : leafRange[i] # {}
          /\ range = [v \in DOMAIN voxels |->
                        UNION {leafRange[i] : i \in {j \in Leaves : v \in Visited(j)}}]

(* What a sampler reads depends on the tree, the input and the root only. *)
LEMMA SamplesStay ==
  ASSUME UNCHANGED <<leaves, packed, rootOrigin, activeSize, voxels>>
  PROVE  /\ \A i : NeighbourhoodSamples(i)' = NeighbourhoodSamples(i)
         /\ \A i : Visited(i)' = Visited(i)
<1>1. \A c, m : Descend(c, m)' = Descend(c, m)
  BY DEF Descend
<1>2. \A c : InDomain(c)' = InDomain(c)
  BY DEF InDomain
<1>3. \A c : Traverse(c)' = Traverse(c) /\ Outside(c)' = Outside(c)
  BY <1>2 DEF Traverse, Outside, Descend
<1>4. \A v : DataOf(v)' = DataOf(v)
  BY DEF DataOf, Leaves, PackedIndex
<1>5. \A i, d : NodeSamples(i, d)' = NodeSamples(i, d)
  BY <1>3, <1>4 DEF NodeSamples
<1>6. \A i : NeighbourhoodSamples(i)' = NeighbourhoodSamples(i)
  BY <1>5 DEF NeighbourhoodSamples
<1>7. \A i : Visited(i)' = Visited(i)
  BY DEF Visited, Descend, Offset, Minus
<1> QED
  BY <1>6, <1>7

LEMMA RangesNext ==
  ASSUME ShapeInv, RangesOK, [Next]_vars PROVE RangesOK'
<1>1. CASE UNCHANGED vars
  <2>1. /\ UNCHANGED <<leaves, packed, rootOrigin, activeSize, voxels>>
        /\ UNCHANGED <<phase, todo, leafRange, range>> /\ Leaves' = Leaves
    BY <1>1 DEF vars, Leaves
  <2>2. /\ \A i : NeighbourhoodSamples(i)' = NeighbourhoodSamples(i)
        /\ \A i : Visited(i)' = Visited(i)
    BY <2>1, SamplesStay
  <2> QED
    BY <2>1, <2>2 DEF RangesOK, Inserted
<1>2. CASE ~Inserted /\ ~Inserted' /\ UNCHANGED <<leaves, leafRange>>
  BY <1>2 DEF RangesOK, Leaves, Inserted
<1>3. CASE StartRanges
  <2>1. ~Inserted /\ Inserted' /\ phase' # "committed"
    BY <1>3 DEF StartRanges, Inserted
  <2>2. UNCHANGED <<leaves, todo, voxels, leafRange>> /\ todo = {}
    BY <1>3 DEF StartRanges, input, tree
  <2>3. DOMAIN range' = DOMAIN voxels'
    BY <1>3, <2>2 DEF StartRanges
  <2>4. Leaves' = Leaves
    BY <2>2 DEF Leaves
  <2> QED
    BY <2>1, <2>2, <2>3, <2>4 DEF RangesOK
<1>4. ASSUME NEW i \in Leaves, ComputeRange(i) PROVE RangesOK'
  <2>1. /\ phase = "computeRanges" /\ phase' = phase
        /\ leafRange' = [leafRange EXCEPT ![i] = NeighbourhoodSamples(i)]
        /\ UNCHANGED <<leaves, packed, rootOrigin, activeSize, voxels, todo, range>>
    BY <1>4 DEF ComputeRange, input, extent, tree
  <2>2. \A j : NeighbourhoodSamples(j)' = NeighbourhoodSamples(j)
    BY <2>1, SamplesStay
  <2>3. Leaves' = Leaves
    BY <2>1 DEF Leaves
  <2>4. DOMAIN leafRange' = Leaves
    BY <2>1 DEF RangesOK
  <2>5. ASSUME NEW j \in Leaves
        PROVE  leafRange'[j] \in {{}, NeighbourhoodSamples(j)}
    <3>1. leafRange'[j] = IF j = i THEN NeighbourhoodSamples(i) ELSE leafRange[j]
      BY <2>1 DEF RangesOK
    <3> QED
      BY <3>1 DEF RangesOK
  <2> QED
    BY <2>1, <2>2, <2>3, <2>4, <2>5 DEF RangesOK, Inserted
<1>5. CASE ExtendRanges
  <2>1. /\ phase = "computeRanges" /\ phase' = "committed"
        /\ \A i \in Leaves : leafRange[i] # {}
        /\ UNCHANGED <<leaves, packed, rootOrigin, activeSize, voxels, todo, leafRange>>
        /\ range' = [v \in DOMAIN range |->
                       UNION {leafRange[i] : i \in {j \in Leaves : v \in Visited(j)}}]
    BY <1>5 DEF ExtendRanges, input, extent, tree
  <2>2. /\ \A i : NeighbourhoodSamples(i)' = NeighbourhoodSamples(i)
        /\ \A i : Visited(i)' = Visited(i)
    BY <2>1, SamplesStay
  <2>3. Leaves' = Leaves
    BY <2>1 DEF Leaves
  <2>4. DOMAIN range = DOMAIN voxels
    BY <2>1 DEF RangesOK, Inserted
  <2>5. range' = [v \in DOMAIN voxels' |->
                    UNION {leafRange'[i] : i \in {j \in Leaves' : v \in Visited(j)'}}]
    BY <2>1, <2>2, <2>3, <2>4
  <2> QED
    BY <2>1, <2>2, <2>3, <2>4, <2>5 DEF RangesOK, Inserted
<1>6. CASE ComputeRoot \/ VerifyLeaves \/ AllocateInnerLevel
  <2>1. ~Inserted /\ ~Inserted' /\ UNCHANGED <<leaves, leafRange>>
    BY <1>6 DEF ComputeRoot, VerifyLeaves, AllocateInnerLevel, Fail, Inserted, input, ranges
  <2> QED
    BY <1>2, <2>1
<1>7. ASSUME NEW i \in Leaves, Insert(i) PROVE RangesOK'
  <2>1. ~Inserted /\ ~Inserted' /\ UNCHANGED <<leaves, leafRange>>
    BY <1>7 DEF Insert, InsertIntoLeaf, InsertIntoChild, InsertChild, InsertLeaf, Fail, Inserted,
                input, ranges
  <2> QED
    BY <1>2, <2>1
<1> QED
  BY <1>1, <1>3, <1>4, <1>5, <1>6, <1>7 DEF Next, Commit, Done

LEMMA RangesInvariance == Spec => []RangesOK
<1>1. Init => RangesOK
  BY DEF Init, RangesOK, Inserted, Leaves
<1> QED
  BY <1>1, ShapeInvariance, RangesNext, PTL DEF Spec

(* What holds in every state. *)
CommitInv == ShapeInv /\ TreeInv /\ RangesOK

LEMMA CommitInvariance == Spec => []CommitInv
<1>1. ShapeInv /\ TreeInv /\ RangesOK => CommitInv
  BY DEF CommitInv
<1> QED
  BY <1>1, ShapeInvariance, TreeInvariance, RangesInvariance, PTL

(***************************************************************************)
(* Insertion never needs more nodes on a level than allocateInnerLevels    *)
(* counted there, so that it never writes past a level buffer, and a tree  *)
(* that is finished has all of them.  Nodes have different origins, each   *)
(* the parent of a leaf that was inserted or is being inserted, and at the *)
(* end each leaf has all its parents.                                      *)
(***************************************************************************)
THEOREM NodesFit == Spec => []NodesFitTheCapacity
<1>1. ASSUME CommitInv PROVE NodesFitTheCapacity
  <2> SUFFICES ASSUME Allocated, FitsRoot, NEW l \in InnerLevels
               PROVE  /\ Len(origin[l]) <= capacity[l]
                      /\ phase = "committed" => Len(origin[l]) = capacity[l]
    BY DEF NodesFitTheCapacity, Allocated
  <2>1. TreeOK /\ ShapeInv /\ RangesOK /\ leaves \in Inputs
    BY <1>1 DEF CommitInv, TreeInv, ShapeInv, InputOK
  <2>2. capacity[l] = Cardinality(AllOrigins(l)) /\ origin \in [InnerLevels -> Seq([Axes -> Nat])]
    BY <2>1 DEF ShapeInv, CountsOK, TypeOK
  <2> DEFINE s == origin[l]
             n == Len(s)
             T == AllOrigins(l)
             f == [k \in 1 .. n |-> s[k]]
  <2>3. n \in Nat /\ DOMAIN s = 1 .. n
    BY <2>2
  <2>4. IsFiniteSet(T) /\ Cardinality(T) \in Nat
    BY <2>1, OriginsAreFinite
  <2>5. IsFiniteSet(1 .. n) /\ Cardinality(1 .. n) = n
    <3> HIDE DEF n
    <3> QED
      BY <2>3, FS_Interval
  <2>6. ASSUME NEW k \in 1 .. n PROVE s[k] \in T
    <3>1. CASE l = 0
      <4>1. s = <<Zero>>
        BY <2>1, <3>1 DEF ShapeInv, CountsOK
      <4>2. k = 1
        BY <2>6, <4>1
      <4>3. PICK i \in Leaves : TRUE
        BY <2>1, InputFacts
      <4>4. leaves[i].level > 0
        <5>1. ~Invalid(i)
          BY <2>1 DEF ShapeInv, CountsOK, Verified
        <5>2. leaves[i].level \in 1 .. LeafLevel
          BY <2>1, <5>1, LeafLevels
        <5> QED
          BY <5>2, ResFacts
      <4>5. NodeOrigin(Offset(i), 0) = Zero
        BY <2>1, RootCovers
      <4> QED
        BY <3>1, <4>1, <4>2, <4>4, <4>5 DEF AllOrigins
    <3>2. CASE l # 0
      <4>1. PICK i \in Leaves : leaves[i].level > l /\ s[k] = NodeOrigin(Offset(i), l)
        BY <2>1, <2>3, <3>2 DEF TreeOK, NodesAreNeeded
      <4> QED
        BY <4>1 DEF AllOrigins
    <3> QED
      BY <3>1, <3>2
  <2>7. \A j, k \in 1 .. n : s[j] = s[k] => j = k
    BY <2>1, <2>3 DEF TreeOK, OriginsDiffer
  <2>8. n <= Cardinality(T)
    <3> HIDE DEF n, s, T
    <3>1. f \in [1 .. n -> T] /\ \A j, k \in 1 .. n : f[j] = f[k] => j = k
      BY <2>6, <2>7
    <3> HIDE DEF f
    <3>2. f \in Injection(1 .. n, T)
      BY <3>1 DEF Injection, IsInjective
    <3>3. Cardinality(1 .. n) <= Cardinality(T)
      BY <2>4, <3>2, FS_Injection
    <3> QED
      BY <2>5, <3>3
  <2>9. ASSUME phase = "committed" PROVE Cardinality(T) <= n
    <3>1. todo = {}
      BY <2>1, <2>9 DEF RangesOK, Inserted
    <3>2. ASSUME NEW o \in T PROVE \E k \in 1 .. n : s[k] = o
      <4>1. PICK i \in Leaves : leaves[i].level > l /\ o = NodeOrigin(Offset(i), l)
        BY <3>2 DEF AllOrigins
      <4>2. l \in 0 .. leaves[i].level - 1
        <5>1. leaves[i].level \in Int /\ l \in Nat
          BY <2>1, InputFacts, ResFacts DEF LevelsDown, InnerLevels
        <5> QED
          BY <4>1, <5>1
      <4>3. OnPath(i, l)
        BY <2>1, <3>1, <4>2 DEF TreeOK, PathsLeadToLeaves
      <4> QED
        BY <2>3, <4>1, <4>3 DEF OnPath
    <3> HIDE DEF n, s, T
    <3>3. f \in [1 .. n -> T] /\ \A o \in T : \E k \in 1 .. n : f[k] = o
      BY <2>6, <3>2
    <3> HIDE DEF f
    <3>4. f \in Surjection(1 .. n, T)
      BY <3>3 DEF Surjection
    <3>5. Cardinality(T) <= Cardinality(1 .. n)
      BY <2>5, <3>4, FS_Surjection
    <3> QED
      BY <2>5, <3>5
  <2> HIDE DEF s, T
  <2>10. Len(origin[l]) = n /\ capacity[l] = Cardinality(T)
    BY <2>2 DEF s, T
  <2> HIDE DEF n
  <2> QED
    BY <2>3, <2>4, <2>8, <2>9, <2>10
<1> QED
  BY <1>1, CommitInvariance, PTL

-----------------------------------------------------------------------------
(***************************************************************************)
(* The descent to an offset: it visits the voxels that contain the offset, *)
(* one per level, and stops at a leaf, at the depth asked for, or where    *)
(* there is no voxel.                                                      *)
(***************************************************************************)
StartOfDescent == [visited |-> <<>>, voxel |-> Empty, done |-> FALSE, node |-> 1]

Descent(o, m) ==
    CHOOSE Down : Down = [l \in 0 .. LeafLevel |->
        IF l = 0 THEN StartOfDescent ELSE DescendOnLevel(voxels, Down[l - 1], l - 1, o, m)]

LEMMA DescendIsDescent ==
  ASSUME NEW o, NEW m PROVE Descend(o, m) = Descent(o, m)[LeafLevel]
BY DEF Descend, DescendIn, Descent, StartOfDescent

LEMMA DescentIsDefined ==
  ASSUME NEW o, NEW m
  PROVE  /\ Descent(o, m)[0] = StartOfDescent
         /\ \A l \in 1 .. LeafLevel :
               Descent(o, m)[l] = DescendOnLevel(voxels, Descent(o, m)[l - 1], l - 1, o, m)
<1> DEFINE Levels(f, n) ==
               \A l \in 0 .. n :
                   f[l] = IF l = 0 THEN StartOfDescent
                          ELSE DescendOnLevel(voxels, f[l - 1], l - 1, o, m)
           Some(n) == \E f : Levels(f, n)
           Stuck == {n \in 0 .. LeafLevel : ~Some(n)}
<1>1. LeafLevel \in Nat \ {0}
  BY ResFacts
<1>2. Some(0)
  <2> DEFINE f == [l \in 0 .. 0 |-> StartOfDescent]
  <2>1. Levels(f, 0)
    OBVIOUS
  <2> HIDE DEF Levels, f
  <2> QED
    BY <2>1
<1>3. ASSUME NEW n \in 1 .. LeafLevel, Some(n - 1) PROVE Some(n)
  <2>1. PICK f : Levels(f, n - 1)
    BY <1>3
  <2> DEFINE g == [l \in 0 .. n |-> IF l = n THEN DescendOnLevel(voxels, f[n - 1], n - 1, o, m)
                                   ELSE f[l]]
  <2>2. n \in Nat \ {0}
    BY <1>1
  <2>3. ASSUME NEW l \in 0 .. n
        PROVE  g[l] = IF l = 0 THEN StartOfDescent
                      ELSE DescendOnLevel(voxels, g[l - 1], l - 1, o, m)
    <3>1. CASE l = n
      <4>1. n - 1 \in 0 .. n /\ n - 1 # n /\ n # 0
        BY <2>2
      <4>2. g[n - 1] = f[n - 1]
        BY <4>1
      <4> QED
        BY <3>1, <4>1, <4>2
    <3>2. CASE l # n /\ l # 0
      <4>1. l \in 0 .. n - 1 /\ l - 1 \in 0 .. n /\ l - 1 # n
        BY <2>2, <3>2
      <4>2. f[l] = DescendOnLevel(voxels, f[l - 1], l - 1, o, m)
        BY <2>1, <3>2, <4>1
      <4>3. g[l] = f[l] /\ g[l - 1] = f[l - 1]
        BY <3>2, <4>1
      <4> QED
        BY <3>2, <4>2, <4>3
    <3>3. CASE l = 0
      <4>1. 0 \in 0 .. n - 1 /\ l # n
        BY <2>2, <3>3
      <4>2. f[0] = StartOfDescent
        BY <2>1, <4>1
      <4> QED
        BY <3>3, <4>1, <4>2
    <3> QED
      BY <3>1, <3>2, <3>3
  <2>4. Levels(g, n)
    BY <2>3
  <2> HIDE DEF g, Levels
  <2> QED
    BY <2>4
<1> HIDE DEF Some
<1>4. ASSUME Stuck # {} PROVE FALSE
  <2>1. Stuck \in SUBSET Nat
    BY <1>1
  <2>2. PICK n \in Stuck : \A k \in Stuck : n <= k
    <3> HIDE DEF Stuck
    <3> QED
      BY <1>4, <2>1, LeastNat
  <2>3. n \in 1 .. LeafLevel /\ ~Some(n)
    BY <1>1, <1>2, <2>2
  <2>4. n - 1 \notin Stuck
    <3>1. ~(n <= n - 1)
      BY <1>1, <2>3
    <3> HIDE DEF Stuck
    <3> QED
      BY <2>2, <3>1
  <2>5. Some(n - 1)
    BY <1>1, <2>3, <2>4
  <2> QED
    BY <1>3, <2>3, <2>5
<1>5. Some(LeafLevel)
  BY <1>1, <1>4
<1>6. PICK f : Levels(f, LeafLevel)
  BY <1>5 DEF Some
<1> DEFINE h == [l \in 0 .. LeafLevel |-> f[l]]
<1>7. h = [l \in 0 .. LeafLevel |->
             IF l = 0 THEN StartOfDescent ELSE DescendOnLevel(voxels, h[l - 1], l - 1, o, m)]
  <2>1. ASSUME NEW l \in 0 .. LeafLevel
        PROVE  h[l] = IF l = 0 THEN StartOfDescent
                      ELSE DescendOnLevel(voxels, h[l - 1], l - 1, o, m)
    <3>1. h[l] = f[l]
      OBVIOUS
    <3>2. f[l] = IF l = 0 THEN StartOfDescent
                 ELSE DescendOnLevel(voxels, f[l - 1], l - 1, o, m)
      BY <1>6
    <3>3. l # 0 => h[l - 1] = f[l - 1]
      BY <1>1
    <3> QED
      BY <3>1, <3>2, <3>3
  <2> HIDE DEF Levels
  <2> QED
    BY <2>1
<1> HIDE DEF h
<1>8. Descent(o, m) = [l \in 0 .. LeafLevel |->
        IF l = 0 THEN StartOfDescent
        ELSE DescendOnLevel(voxels, Descent(o, m)[l - 1], l - 1, o, m)]
  BY <1>7 DEF Descent
<1>9. 0 \in 0 .. LeafLevel /\ \A l \in 1 .. LeafLevel : l \in 0 .. LeafLevel /\ l # 0
  BY <1>1
<1> QED
  BY <1>8, <1>9

(* what a descent that has done k levels knows *)
Descended(d, o, m, k) ==
    LET n == Len(d.visited)
    IN  /\ d = [visited |-> d.visited, voxel |-> d.voxel, done |-> d.done, node |-> d.node]
        /\ d.visited \in Seq(DOMAIN voxels) /\ n \in 0 .. k /\ d.done \in BOOLEAN
        /\ \A j \in 1 .. n : /\ j - 1 <= m /\ d.visited[j][1] = j - 1
                             /\ CornerOf(d.visited[j]) = NodeOrigin(o, j)
                             /\ j < n => IsChild(d.visited[j])
        /\ n = 0 => d.voxel = Empty
        /\ n > 0 => d.voxel = voxels[d.visited[n]]
        /\ ~d.done => /\ n = k /\ k <= m /\ k \in InnerLevels
                      /\ d.node \in DOMAIN origin[k] /\ origin[k][d.node] = NodeOrigin(o, k)
                      /\ k > 0 => d.voxel.type = "child"
        /\ d.done => \/ n > 0 /\ d.voxel.type = "leaf"
                     \/ n = m + 1 /\ d.voxel.type = "child"
                     \/ /\ n > 0 => d.voxel.type = "child"
                        /\ \A v \in DOMAIN voxels : v[1] = n => CornerOf(v) # NodeOrigin(o, n + 1)

LEMMA DescentStarts ==
  ASSUME ShapeInv, Allocated, NEW o \in Coordinates, NodeOrigin(o, 0) = Zero, NEW m \in Nat
  PROVE  Descended(StartOfDescent, o, m, 0)
<1> DEFINE d == StartOfDescent
<1>1. /\ d.visited = <<>> /\ d.voxel = Empty /\ d.done = FALSE /\ d.node = 1
      /\ d = [visited |-> d.visited, voxel |-> d.voxel, done |-> d.done, node |-> d.node]
  BY DEF StartOfDescent
<1>2. d.visited \in Seq(DOMAIN voxels) /\ Len(d.visited) = 0
  BY <1>1
<1>3. 0 \in InnerLevels /\ origin[0] = <<Zero>>
  BY ResFacts DEF InnerLevels, ShapeInv, CountsOK
<1>4. 1 \in DOMAIN origin[0] /\ origin[0][1] = Zero
  BY <1>3
<1>5. 1 .. 0 = {} /\ 0 \in 0 .. 0 /\ 0 <= m /\ ~(0 > 0)
  OBVIOUS
<1> HIDE DEF d
<1>6. ~d.done
  BY <1>1
<1>7. Descended(d, o, m, 0)
  BY <1>1, <1>2, <1>3, <1>4, <1>5, <1>6 DEF Descended
<1> QED
  BY <1>7 DEF d

LEMMA DescentStep ==
  ASSUME ShapeInv, TreeOK, NEW o \in Coordinates, NEW m \in Nat, NEW l \in InnerLevels,
         NEW d, Descended(d, o, m, l)
  PROVE  Descended(DescendOnLevel(voxels, d, l, o, m), o, m, l + 1)
<1>1. /\ l \in Nat /\ l \in LevelsDown /\ l + 1 \in Nat
  BY ResFacts DEF InnerLevels, LevelsDown
<1>2. PICK n : n = Len(d.visited)
  OBVIOUS
<1>3. /\ d = [visited |-> d.visited, voxel |-> d.voxel, done |-> d.done, node |-> d.node]
      /\ d.visited \in Seq(DOMAIN voxels) /\ n \in 0 .. l /\ d.done \in BOOLEAN
      /\ \A j \in 1 .. n : /\ j - 1 <= m /\ d.visited[j][1] = j - 1
                           /\ CornerOf(d.visited[j]) = NodeOrigin(o, j)
                           /\ j < n => IsChild(d.visited[j])
      /\ n = 0 => d.voxel = Empty
      /\ n > 0 => d.voxel = voxels[d.visited[n]]
      /\ d.done => \/ n > 0 /\ d.voxel.type = "leaf"
                   \/ n = m + 1 /\ d.voxel.type = "child"
                   \/ /\ n > 0 => d.voxel.type = "child"
                      /\ \A v \in DOMAIN voxels : v[1] = n => CornerOf(v) # NodeOrigin(o, n + 1)
  BY <1>2 DEF Descended
<1>4. n \in Nat /\ n \in 0 .. l + 1
  BY <1>1, <1>3
<1>5. CASE d.done
  <2>1. DescendOnLevel(voxels, d, l, o, m) = d
    BY <1>5 DEF DescendOnLevel
  <2> QED
    BY <1>2, <1>3, <1>4, <1>5, <2>1 DEF Descended
<1>6. CASE ~d.done
  <2>1. /\ n = l /\ l <= m /\ d.node \in DOMAIN origin[l] /\ origin[l][d.node] = NodeOrigin(o, l)
        /\ l > 0 => d.voxel.type = "child"
    BY <1>2, <1>6 DEF Descended
  <2>2. PICK v : v = <<l, d.node, VoxelIndex(o, l)>>
    OBVIOUS
  <2>3. CASE v \notin DOMAIN voxels
    <3>1. PICK e : e = DescendOnLevel(voxels, d, l, o, m)
      OBVIOUS
    <3>2. e = [visited |-> d.visited, voxel |-> d.voxel, done |-> TRUE, node |-> d.node]
      <4>1. e = [d EXCEPT !.done = TRUE]
        BY <1>6, <2>2, <2>3, <3>1 DEF DescendOnLevel
      <4> QED
        BY <1>3, <4>1
    <3>3. \A w \in DOMAIN voxels : w[1] = n => CornerOf(w) # NodeOrigin(o, n + 1)
      <4> SUFFICES ASSUME NEW w \in DOMAIN voxels, w[1] = n, CornerOf(w) = NodeOrigin(o, n + 1)
                   PROVE  FALSE
        OBVIOUS
      <4>1. w = v
        BY <2>1, <2>2, VoxelsDiffer
      <4> QED
        BY <2>3, <4>1
    <3>4. /\ e.visited = d.visited /\ e.voxel = d.voxel /\ e.done /\ e.node = d.node
          /\ e = [visited |-> e.visited, voxel |-> e.voxel, done |-> e.done, node |-> e.node]
          /\ e.done \in BOOLEAN
      BY <3>2
    <3>5. n > 0 => d.voxel.type = "child"
      BY <2>1
    <3>6. Descended(e, o, m, l + 1)
      BY <1>2, <1>3, <1>4, <3>3, <3>4, <3>5 DEF Descended
    <3> QED
      BY <3>1, <3>6
  <2>4. CASE v \in DOMAIN voxels
    <3>1. PICK e : e = DescendOnLevel(voxels, d, l, o, m)
      OBVIOUS
    <3>2. /\ e.visited = Append(d.visited, v) /\ e.voxel = voxels[v]
          /\ e.done = (voxels[v].type = "leaf" \/ l + 1 > m) /\ e.node = voxels[v].index
          /\ e = [visited |-> e.visited, voxel |-> e.voxel, done |-> e.done, node |-> e.node]
      <4>1. e = [visited |-> Append(d.visited, v), voxel |-> voxels[v],
                 done |-> (voxels[v].type = "leaf" \/ l + 1 > m), node |-> voxels[v].index]
        BY <1>6, <2>2, <2>4, <3>1 DEF DescendOnLevel
      <4> QED
        BY <4>1
    <3>3. CornerOf(v) = NodeOrigin(o, l + 1) /\ v[1] = l
      <4>1. v[1] = l /\ v[2] = d.node /\ v[3] = VoxelIndex(o, l)
        BY <2>2
      <4>2. Corner(NodeOrigin(o, l), VoxelIndex(o, l), l) = NodeOrigin(o, l + 1)
        BY <1>1, VoxelOfOffset
      <4> QED
        BY <2>1, <4>1, <4>2 DEF CornerOf
    <3>4. \/ voxels[v].type = "leaf"
          \/ /\ voxels[v].type = "child" /\ l + 1 \in InnerLevels
             /\ voxels[v].index \in DOMAIN origin[l + 1]
             /\ origin[l + 1][voxels[v].index] = NodeOrigin(o, l + 1)
      <4>1. \/ voxels[v].type = "leaf"
            \/ /\ voxels[v].type = "child" /\ l + 1 \in InnerLevels
               /\ voxels[v].index \in DOMAIN origin[l + 1]
        BY <2>4, <3>3 DEF ShapeInv, TypeOK
      <4>2. voxels[v].type = "child" => origin[l + 1][voxels[v].index] = NodeOrigin(o, l + 1)
        BY <2>4, <3>3 DEF TreeOK, ChildrenFit
      <4> QED
        BY <4>1, <4>2
    <3>5. /\ Append(d.visited, v) \in Seq(DOMAIN voxels) /\ Len(Append(d.visited, v)) = l + 1
          /\ Append(d.visited, v)[l + 1] = v
          /\ \A j \in 1 .. l : Append(d.visited, v)[j] = d.visited[j]
      <4>1. PICK q : q = d.visited
        OBVIOUS
      <4>2. q \in Seq(DOMAIN voxels) /\ Len(q) = l
        BY <1>2, <1>3, <2>1, <4>1
      <4> QED
        BY <2>4, <4>1, <4>2, AppendFacts
    <3>6. PICK s : s = e.visited
      OBVIOUS
    <3>7. /\ s \in Seq(DOMAIN voxels) /\ Len(s) = l + 1 /\ s[l + 1] = v
          /\ \A j \in 1 .. l : s[j] = d.visited[j]
      BY <3>2, <3>5, <3>6
    <3>8. ASSUME NEW j \in 1 .. l + 1
          PROVE  /\ j - 1 <= m /\ s[j][1] = j - 1
                 /\ CornerOf(s[j]) = NodeOrigin(o, j)
                 /\ j < l + 1 => IsChild(s[j])
      <4>1. CASE j = l + 1
        BY <1>1, <2>1, <3>3, <3>7, <4>1
      <4>2. CASE j # l + 1
        <5>1. j \in 1 .. l
          BY <1>1, <4>2
        <5>2. /\ j - 1 <= m /\ s[j] = d.visited[j] /\ s[j][1] = j - 1
              /\ CornerOf(s[j]) = NodeOrigin(o, j)
              /\ j < l => IsChild(s[j])
          BY <1>3, <2>1, <3>7, <5>1
        <5>3. j = l => IsChild(s[j])
          <6>1. ASSUME j = l
                PROVE  d.voxel.type = "child" /\ d.voxel = voxels[s[j]] /\ s[j] \in DOMAIN voxels
            <7>1. l > 0 /\ l \in 1 .. Len(d.visited)
              BY <1>2, <2>1, <5>1, <6>1
            <7>2. d.visited[l] \in DOMAIN voxels
              BY <1>3, <7>1, ElementOfSeq
            <7> QED
              BY <1>3, <2>1, <5>2, <6>1, <7>1, <7>2
          <6> QED
            BY <6>1 DEF IsChild
        <5>4. j < l \/ j = l
          BY <1>1, <5>1
        <5> QED
          BY <5>2, <5>3, <5>4
      <4> QED
        BY <4>1, <4>2
    <3>9. /\ e.done \in BOOLEAN /\ e.voxel = voxels[s[l + 1]] /\ l + 1 # 0 /\ l + 1 > 0
          /\ l + 1 \in 0 .. l + 1 /\ n + 1 = l + 1
      BY <1>1, <2>1, <3>2, <3>7
    <3>10. e.done <=> voxels[v].type = "leaf" \/ l + 1 > m
      BY <3>2, Zenon
    <3>11. ~e.done => /\ l + 1 <= m /\ l + 1 \in InnerLevels /\ e.voxel.type = "child"
                      /\ e.node \in DOMAIN origin[l + 1]
                      /\ origin[l + 1][e.node] = NodeOrigin(o, l + 1)
      BY <1>1, <3>2, <3>4, <3>10
    <3>12. e.done => \/ e.voxel.type = "leaf"
                     \/ l + 1 = m + 1 /\ e.voxel.type = "child"
      BY <1>1, <2>1, <3>2, <3>4, <3>10
    <3>13. Len(e.visited) = l + 1
      BY <3>6, <3>7
    <3>14. Descended(e, o, m, l + 1)
      BY <3>2, <3>6, <3>7, <3>8, <3>9, <3>11, <3>12, <3>13 DEF Descended
    <3> QED
      BY <3>1, <3>14
  <2> QED
    BY <2>3, <2>4
<1> QED
  BY <1>3, <1>5, <1>6

LEMMA DescentEnds ==
  ASSUME ShapeInv, TreeOK, Allocated, NEW o \in Coordinates, NodeOrigin(o, 0) = Zero,
         NEW m \in Nat
  PROVE  Descended(Descend(o, m), o, m, LeafLevel) /\ Descend(o, m).done
<1> DEFINE Bad == {k \in 0 .. LeafLevel : ~Descended(Descent(o, m)[k], o, m, k)}
<1>1. LeafLevel \in Nat \ {0}
  BY ResFacts
<1>2. 0 \notin Bad
  BY DescentStarts, DescentIsDefined
<1>3. ASSUME Bad # {} PROVE FALSE
  <2>1. Bad \in SUBSET Nat
    BY <1>1
  <2>2. PICK k \in Bad : \A n \in Bad : k <= n
    <3> HIDE DEF Bad
    <3> QED
      BY <1>3, <2>1, LeastNat
  <2>3. k \in 1 .. LeafLevel /\ ~Descended(Descent(o, m)[k], o, m, k)
    BY <1>1, <1>2, <2>2
  <2>4. Descended(Descent(o, m)[k - 1], o, m, k - 1)
    <3>1. ~(k <= k - 1)
      BY <1>1, <2>3
    <3>2. k - 1 \notin Bad
      <4> HIDE DEF Bad
      <4> QED
        BY <2>2, <3>1
    <3> QED
      BY <1>1, <2>3, <3>2
  <2>5. k - 1 \in InnerLevels /\ (k - 1) + 1 = k
    BY <1>1, <2>3 DEF InnerLevels
  <2>6. Descent(o, m)[k] = DescendOnLevel(voxels, Descent(o, m)[k - 1], k - 1, o, m)
    BY <2>3, DescentIsDefined
  <2>7. Descended(Descent(o, m)[k], o, m, (k - 1) + 1)
    BY <2>4, <2>5, <2>6, DescentStep
  <2> QED
    BY <2>3, <2>5, <2>7
<1>4. Descended(Descent(o, m)[LeafLevel], o, m, LeafLevel)
  BY <1>1, <1>3
<1>5. Descended(Descend(o, m), o, m, LeafLevel)
  BY <1>4, DescendIsDescent
<1>6. LeafLevel \notin InnerLevels
  BY <1>1 DEF InnerLevels
<1> QED
  BY <1>5, <1>6 DEF Descended

(* what the descent leaves behind *)
LEMMA DescendFacts ==
  ASSUME ShapeInv, TreeOK, Allocated, NEW o \in Coordinates, NodeOrigin(o, 0) = Zero,
         NEW m \in Nat, NEW s, s = Descend(o, m).visited, NEW n, n = Len(s),
         NEW x, x = Descend(o, m).voxel
  PROVE  /\ s \in Seq(DOMAIN voxels) /\ n \in 0 .. LeafLevel
         /\ \A j \in 1 .. n : /\ j - 1 <= m /\ s[j] \in DOMAIN voxels /\ s[j][1] = j - 1
                              /\ CornerOf(s[j]) = NodeOrigin(o, j)
                              /\ j < n => voxels[s[j]].type = "child"
         /\ n = 0 => x = Empty
         /\ n > 0 => x = voxels[s[n]]
         /\ \/ n > 0 /\ x.type = "leaf"
            \/ n = m + 1 /\ x.type = "child"
            \/ /\ n > 0 => x.type = "child"
               /\ \A v \in DOMAIN voxels : v[1] = n => CornerOf(v) # NodeOrigin(o, n + 1)
<1>1. PICK d : d = Descend(o, m)
  OBVIOUS
<1>2. Descended(d, o, m, LeafLevel) /\ d.done /\ s = d.visited /\ x = d.voxel
  BY <1>1, DescentEnds
<1>3. /\ s \in Seq(DOMAIN voxels) /\ n \in 0 .. LeafLevel
      /\ \A j \in 1 .. n : /\ j - 1 <= m /\ s[j][1] = j - 1
                           /\ CornerOf(s[j]) = NodeOrigin(o, j)
                           /\ j < n => IsChild(s[j])
      /\ n = 0 => x = Empty
      /\ n > 0 => x = voxels[s[n]]
      /\ \/ n > 0 /\ x.type = "leaf"
         \/ n = m + 1 /\ x.type = "child"
         \/ /\ n > 0 => x.type = "child"
            /\ \A v \in DOMAIN voxels : v[1] = n => CornerOf(v) # NodeOrigin(o, n + 1)
  BY <1>2 DEF Descended
<1>4. \A j \in 1 .. n : s[j] \in DOMAIN voxels
  BY <1>3, ElementOfSeq
<1> QED
  BY <1>3, <1>4 DEF IsChild

LEMMA VoxelsAreUnique ==
  ASSUME ShapeInv, TreeOK, NEW v \in DOMAIN voxels, NEW w \in DOMAIN voxels,
         v[1] = w[1], CornerOf(v) = CornerOf(w)
  PROVE  v = w
<1>1. PICK o, l, n : o = CornerOf(v) /\ l = v[1] /\ n = v[2]
  OBVIOUS
<1>2. /\ l \in InnerLevels /\ n \in DOMAIN origin[l] /\ o \in Coordinates
      /\ origin[l][n] = NodeOrigin(o, l) /\ VoxelIndex(o, l) = v[3] /\ NodeOrigin(o, l + 1) = o
  BY <1>1, CornerFacts
<1>3. w = <<l, n, VoxelIndex(o, l)>>
  BY <1>1, <1>2, VoxelsDiffer
<1> QED
  BY <1>1, <1>2, <1>3 DEF TreeOK, KeysAreTriples

(* The voxels on the way to a leaf. *)
LEMMA WayToLeaf ==
  ASSUME ShapeInv, TreeOK, Allocated, NEW i \in Leaves, i \notin todo,
         NEW l \in 0 .. leaves[i].level - 1
  PROVE  \E v \in DOMAIN voxels :
            /\ v[1] = l /\ CornerOf(v) = NodeOrigin(Offset(i), l + 1)
            /\ IF l + 1 = leaves[i].level THEN voxels[v] = LeafPtr(i)
                                          ELSE voxels[v].type = "child"
<1>1. PICK n \in DOMAIN origin[l] :
         /\ origin[l][n] = NodeOrigin(Offset(i), l)
         /\ PathVoxel(i, l, n) \in DOMAIN voxels
         /\ IF l + 1 = leaves[i].level THEN voxels[PathVoxel(i, l, n)] = LeafPtr(i)
                                       ELSE voxels[PathVoxel(i, l, n)].type = "child"
  BY DEF TreeOK, PathsLeadToLeaves, OnPath
<1>2. /\ leaves \in Inputs /\ rootOrigin = RootOrigin(Lower) /\ Offset(i) \in Coordinates
  BY OffsetFacts DEF ShapeInv, InputOK, ExtentOK, Verified
<1>3. l \in LevelsDown
  <2>1. leaves[i].level \in 0 .. LeafLevel /\ LeafLevel \in Nat
    BY <1>2, InputFacts, ResFacts DEF LevelsDown
  <2> QED
    BY <2>1 DEF LevelsDown
<1>4. PICK v : v = PathVoxel(i, l, n)
  OBVIOUS
<1>5. v[1] = l /\ v[2] = n /\ v[3] = VoxelIndex(Offset(i), l)
  BY <1>4 DEF PathVoxel
<1>6. CornerOf(v) = NodeOrigin(Offset(i), l + 1)
  BY <1>1, <1>2, <1>3, <1>5, VoxelOfOffset DEF CornerOf
<1> QED
  BY <1>1, <1>4, <1>5, <1>6

(***************************************************************************)
(* The descent to an offset in the node of a leaf ends at the leaf, or at  *)
(* the depth asked for if that is above it.                                *)
(***************************************************************************)
LEMMA LeafIsFound ==
  ASSUME ShapeInv, TreeOK, Allocated, NEW o \in Coordinates, NodeOrigin(o, 0) = Zero,
         NEW i \in Leaves, i \notin todo,
         NodeOrigin(o, leaves[i].level) = NodeOrigin(Offset(i), leaves[i].level),
         NEW m \in Nat, NEW s, s = Descend(o, m).visited
  PROVE  /\ \A j \in 1 .. Len(s) : /\ s[j] \in DOMAIN voxels /\ s[j][1] = j - 1
                                   /\ CornerOf(s[j]) = NodeOrigin(o, j)
         /\ m + 1 < leaves[i].level => Len(s) = m + 1
         /\ m + 1 >= leaves[i].level => /\ Len(s) = leaves[i].level
                                        /\ Descend(o, m).voxel = LeafPtr(i)
<1>1. PICK n, x, k : n = Len(s) /\ x = Descend(o, m).voxel /\ k = leaves[i].level
  OBVIOUS
<1>2. /\ s \in Seq(DOMAIN voxels) /\ n \in 0 .. LeafLevel
      /\ \A j \in 1 .. n : /\ j - 1 <= m /\ s[j] \in DOMAIN voxels /\ s[j][1] = j - 1
                           /\ CornerOf(s[j]) = NodeOrigin(o, j)
                           /\ j < n => voxels[s[j]].type = "child"
      /\ n = 0 => x = Empty
      /\ n > 0 => x = voxels[s[n]]
      /\ \/ n > 0 /\ x.type = "leaf"
         \/ n = m + 1 /\ x.type = "child"
         \/ /\ n > 0 => x.type = "child"
            /\ \A v \in DOMAIN voxels : v[1] = n => CornerOf(v) # NodeOrigin(o, n + 1)
  BY <1>1, DescendFacts
<1>3. /\ leaves \in Inputs /\ rootOrigin = RootOrigin(Lower) /\ Offset(i) \in Coordinates
      /\ k \in 1 .. LeafLevel /\ LeafLevel \in Nat /\ k \in 0 .. NumLevels
  <2>1. /\ leaves \in Inputs /\ rootOrigin = RootOrigin(Lower) /\ ~Invalid(i)
    BY DEF ShapeInv, InputOK, ExtentOK, CountsOK, Verified
  <2> QED
    BY <1>1, <2>1, OffsetFacts, LeafLevels, InputFacts, ResFacts
<1>4. n \in Nat /\ k \in Nat \ {0}
  BY <1>2, <1>3
<1>5. ASSUME NEW l \in 1 .. k PROVE NodeOrigin(o, l) = NodeOrigin(Offset(i), l)
  <2>1. l \in 0 .. k
    BY <1>3
  <2> QED
    BY <1>1, <1>3, <2>1, SameNodeAbove
<1>6. ASSUME NEW l \in 1 .. k
      PROVE  \E v \in DOMAIN voxels : /\ v[1] = l - 1 /\ CornerOf(v) = NodeOrigin(o, l)
                                      /\ l = k => voxels[v] = LeafPtr(i)
                                      /\ l # k => voxels[v].type = "child"
  <2>1. l - 1 \in 0 .. leaves[i].level - 1 /\ (l - 1) + 1 = l
    BY <1>1, <1>3
  <2> QED
    BY <1>1, <1>5, <2>1, WayToLeaf
<1>7. ASSUME NEW l \in 1 .. k, l <= n
      PROVE  /\ l = k => voxels[s[l]] = LeafPtr(i)
             /\ l # k => voxels[s[l]].type = "child"
  <2>1. l \in 1 .. n
    BY <1>4, <1>7
  <2>2. PICK v \in DOMAIN voxels : /\ v[1] = l - 1 /\ CornerOf(v) = NodeOrigin(o, l)
                                   /\ l = k => voxels[v] = LeafPtr(i)
                                   /\ l # k => voxels[v].type = "child"
    BY <1>6
  <2>3. s[l] = v
    BY <1>2, <2>1, <2>2, VoxelsAreUnique
  <2> QED
    BY <2>2, <2>3
<1>8. LeafPtr(i).type = "leaf"
  BY DEF LeafPtr
<1>9. n <= k
  <2> SUFFICES ASSUME n > k PROVE FALSE
    BY <1>4
  <2>1. k \in 1 .. k /\ k \in 1 .. n /\ k < n /\ k <= n
    BY <1>4
  <2> QED
    BY <1>2, <1>7, <1>8, <2>1
<1>10. CASE n < k
  <2>1. n > 0 => x.type = "child"
    <3>1. n > 0 => n \in 1 .. k /\ n # k /\ n <= n
      BY <1>4, <1>10
    <3> QED
      BY <1>2, <1>7, <3>1
  <2>2. ~\A v \in DOMAIN voxels : v[1] = n => CornerOf(v) # NodeOrigin(o, n + 1)
    <3>1. n + 1 \in 1 .. k /\ (n + 1) - 1 = n
      BY <1>4, <1>10
    <3> QED
      BY <1>6, <3>1
  <2>3. n = m + 1
    BY <1>2, <2>1, <2>2
  <2> QED
    BY <1>1, <1>2, <1>4, <1>10, <2>3
<1>11. CASE n = k
  <2>1. n \in 1 .. k /\ n <= n /\ n > 0 /\ n \in 1 .. n
    BY <1>4, <1>11
  <2>2. x = LeafPtr(i)
    BY <1>2, <1>7, <1>11, <2>1
  <2>3. n - 1 <= m
    BY <1>2, <2>1
  <2>4. m + 1 >= k
    BY <1>4, <1>11, <2>3
  <2> QED
    BY <1>1, <1>2, <1>4, <1>11, <2>2, <2>4
<1> QED
  BY <1>4, <1>9, <1>10, <1>11

(* A leaf pointer that a descent ends at is that of the leaf whose node contains the offset. *)
LEMMA FoundIsLeaf ==
  ASSUME ShapeInv, TreeOK, Allocated, NEW o \in Coordinates, NodeOrigin(o, 0) = Zero,
         NEW m \in Nat, Descend(o, m).voxel.type = "leaf"
  PROVE  \E i \in Leaves : /\ Descend(o, m).voxel = LeafPtr(i)
                           /\ NodeOrigin(o, leaves[i].level) =
                                NodeOrigin(Offset(i), leaves[i].level)
<1>1. PICK s, n, x : s = Descend(o, m).visited /\ n = Len(s) /\ x = Descend(o, m).voxel
  OBVIOUS
<1>2. /\ n \in 0 .. LeafLevel
      /\ \A j \in 1 .. n : /\ s[j] \in DOMAIN voxels /\ s[j][1] = j - 1
                           /\ CornerOf(s[j]) = NodeOrigin(o, j)
      /\ n = 0 => x = Empty
      /\ n > 0 => x = voxels[s[n]]
  BY <1>1, DescendFacts
<1>3. n > 0 /\ n \in 1 .. n /\ (n - 1) + 1 = n
  BY <1>1, <1>2 DEF Empty
<1>4. PICK i \in Leaves : /\ voxels[s[n]] = LeafPtr(i) /\ s[n][1] + 1 = leaves[i].level
                          /\ CornerOf(s[n]) = NodeOrigin(Offset(i), leaves[i].level)
  BY <1>1, <1>2, <1>3 DEF TreeOK, LeavesFit
<1>5. leaves[i].level = n
  BY <1>2, <1>3, <1>4
<1> QED
  BY <1>1, <1>2, <1>3, <1>4, <1>5

-----------------------------------------------------------------------------
(***************************************************************************)
(* Input whose leaves lie on the grid of their level, as OpenVDB's do.     *)
(* The code does not check it, the documentation does not ask for it, and  *)
(* a leaf that is elsewhere is moved to the node its origin is in: what    *)
(* follows about the cells of leaves is promised of aligned input.         *)
(***************************************************************************)
Aligned == \A i \in Leaves, a \in Axes : leaves[i].origin[a] % Extent(i) = 0

LEMMA AlignedOffset ==
  ASSUME leaves \in Inputs, rootOrigin = RootOrigin(Lower), Aligned, NEW i \in Leaves,
         ~Invalid(i)
  PROVE  NodeOrigin(Offset(i), leaves[i].level) = Offset(i)
<1> DEFINE l == leaves[i].level
           r == Res[leaves[i].level]
<1>1. /\ l \in 1 .. LeafLevel /\ l \in 0 .. NumLevels /\ r \in Nat \ {0}
      /\ leaves[i].origin \in Coordinates /\ r = Extent(i)
  BY LeafLevels, InputFacts DEF Extent
<1>2. PICK k \in Nat \ {0} : Res[1] = k * r
  <2>1. 1 \in 0 .. l
    BY <1>1
  <2> QED
    BY <1>1, <2>1, ResDivides
<1>3. Offset(i) \in Coordinates /\ NodeOrigin(Offset(i), l) \in Coordinates
  BY <1>1, OffsetFacts, NodeOriginFacts
<1>4. ASSUME NEW a \in Axes PROVE NodeOrigin(Offset(i), l)[a] = Offset(i)[a]
  <2>1. PICK q \in Int : rootOrigin[a] = Res[1] * q
    BY RootFacts
  <2>2. /\ leaves[i].origin[a] \in Int /\ leaves[i].origin[a] % r = 0
        /\ Offset(i)[a] = leaves[i].origin[a] - rootOrigin[a]
    BY <1>1, OffsetFacts DEF Aligned, Coordinates
  <2> DEFINE p == leaves[i].origin[a] \div r
  <2>3. p \in Int /\ leaves[i].origin[a] = r * p
    <3>1. /\ Floor(leaves[i].origin[a], r) = r * p /\ p \in Int
      BY <1>1, <2>2, FloorFacts
    <3>2. Floor(leaves[i].origin[a], r) = leaves[i].origin[a]
      BY <2>2 DEF Floor
    <3> QED
      BY <3>1, <3>2
  <2>4. Offset(i)[a] = r * p - (k * r) * q
    BY <1>2, <2>1, <2>2, <2>3
  <2> HIDE DEF p, r
  <2>5. r * p - (k * r) * q = r * (p - k * q) /\ p - k * q \in Int
    <3>1. (k * r) * q = r * (k * q) /\ k * q \in Int
      BY <1>1, <1>2, <2>1
    <3>2. PICK t \in Int : t = k * q
      BY <3>1
    <3>3. r * p - r * t = r * (p - t)
      BY <1>1, <2>3
    <3> QED
      BY <2>3, <3>1, <3>2, <3>3
  <2>6. PICK t \in Int : Offset(i)[a] = r * t
    BY <2>4, <2>5
  <2>7. r * t <= Offset(i)[a] /\ Offset(i)[a] < r * t + r /\ Offset(i)[a] \in Int
    <3>1. r * t \in Int
      BY <1>1
    <3> QED
      BY <1>1, <2>6, <3>1
  <2>8. Floor(Offset(i)[a], r) = r * t
    BY <1>1, <2>7, FloorIs
  <2> QED
    BY <1>1, <1>3, <2>6, <2>8, NodeOriginFacts DEF r
<1> QED
  BY <1>3, <1>4 DEF Coordinates

LEMMA CubeFacts ==
  ASSUME NEW o \in Coordinates, NEW n \in Nat \ {0}, NEW c
  PROVE  c \in Cube(o, n) <=> c \in Coordinates /\ \A a \in Axes : o[a] <= c[a] /\ c[a] < o[a] + n
<1>1. \A a \in Axes : o[a] \in Int
  BY DEF Coordinates
<1>2. ASSUME c \in Cube(o, n)
      PROVE  c \in Coordinates /\ \A a \in Axes : o[a] <= c[a] /\ c[a] < o[a] + n
  <2>1. PICK d \in [Axes -> 0 .. n - 1] : c = Plus(o, d)
    BY <1>2 DEF Cube
  <2>2. c = [a \in Axes |-> o[a] + d[a]]
    BY <2>1 DEF Plus
  <2>3. \A a \in Axes : d[a] \in 0 .. n - 1
    BY <2>1
  <2> QED
    BY <1>1, <2>2, <2>3 DEF Coordinates
<1>3. ASSUME c \in Coordinates, \A a \in Axes : o[a] <= c[a] /\ c[a] < o[a] + n
      PROVE  c \in Cube(o, n)
  <2> DEFINE d == [a \in Axes |-> c[a] - o[a]]
  <2>1. \A a \in Axes : c[a] \in Int
    BY <1>3 DEF Coordinates
  <2>2. d \in [Axes -> 0 .. n - 1]
    BY <1>1, <1>3, <2>1
  <2>3. \A a \in Axes : o[a] + d[a] = c[a]
    BY <1>1, <2>1
  <2>4. c = [a \in Axes |-> c[a]]
    BY <1>3 DEF Coordinates
  <2> HIDE DEF d
  <2>5. c = Plus(o, d)
    BY <2>3, <2>4 DEF Plus
  <2> QED
    BY <2>2, <2>5 DEF Cube
<1> QED
  BY <1>2, <1>3

LEMMA CellsFacts ==
  ASSUME leaves \in Inputs, NEW i \in Leaves, NEW c
  PROVE  c \in Cells(i) <=> c \in Coordinates /\ InLeaf(c, i)
BY InputFacts, CubeFacts DEF Cells, InLeaf

(* The cells of a leaf are those that NodeOrigin takes to its offset. *)
LEMMA CellsOfLeaf ==
  ASSUME leaves \in Inputs, rootOrigin = RootOrigin(Lower), Aligned, NEW i \in Leaves,
         ~Invalid(i), NEW c \in Coordinates
  PROVE  /\ Minus(c, rootOrigin) \in Coordinates
         /\ InLeaf(c, i) <=> NodeOrigin(Minus(c, rootOrigin), leaves[i].level) = Offset(i)
<1> DEFINE o == Minus(c, rootOrigin)
<1>1. rootOrigin \in Coordinates
  BY RootFacts
<1>2. o \in Coordinates /\ \A a \in Axes : o[a] = c[a] - rootOrigin[a]
  BY <1>1 DEF Minus, Coordinates
<1>3. /\ Offset(i) \in Coordinates /\ NodeOrigin(Offset(i), leaves[i].level) = Offset(i)
      /\ \A a \in Axes : Offset(i)[a] = leaves[i].origin[a] - rootOrigin[a]
      /\ leaves[i].level \in 0 .. NumLevels /\ Extent(i) = Res[leaves[i].level]
      /\ Extent(i) \in Nat \ {0} /\ leaves[i].origin \in Coordinates
  BY OffsetFacts, AlignedOffset, InputFacts DEF Extent
<1> HIDE DEF o
<1>4. InLeaf(c, i) <=> \A a \in Axes : Offset(i)[a] <= o[a] /\ o[a] < Offset(i)[a] + Extent(i)
  <2>1. ASSUME NEW a \in Axes
        PROVE  /\ leaves[i].origin[a] <= c[a] <=> Offset(i)[a] <= o[a]
               /\ c[a] < leaves[i].origin[a] + Extent(i) <=> o[a] < Offset(i)[a] + Extent(i)
    <3>1. /\ leaves[i].origin[a] \in Int /\ c[a] \in Int /\ rootOrigin[a] \in Int
          /\ o[a] = c[a] - rootOrigin[a] /\ Offset(i)[a] = leaves[i].origin[a] - rootOrigin[a]
      BY <1>1, <1>2, <1>3 DEF Coordinates
    <3> QED
      BY <1>3, <3>1
  <2> QED
    BY <2>1 DEF InLeaf
<1>5. ASSUME InLeaf(c, i) PROVE NodeOrigin(o, leaves[i].level) = Offset(i)
  BY <1>2, <1>3, <1>4, <1>5, NodeOriginIs
<1>6. ASSUME NodeOrigin(o, leaves[i].level) = Offset(i) PROVE InLeaf(c, i)
  BY <1>2, <1>3, <1>4, <1>6, NodeOriginFacts
<1>7. o = Minus(c, rootOrigin)
  BY DEF o
<1> QED
  BY <1>2, <1>5, <1>6, <1>7

(* Leaf pointers tell leaves apart. *)
LEMMA PackedIndexGrows ==
  ASSUME leaves \in Inputs, NEW i \in Leaves, NEW j \in Leaves, i < j,
         leaves[i].format = leaves[j].format
  PROVE  PackedIndex(i) # PackedIndex(j)
<1> DEFINE S == {k \in 1 .. i : leaves[k].format = leaves[i].format}
           T == {k \in 1 .. j : leaves[k].format = leaves[j].format}
<1>1. i \in Nat \ {0} /\ j \in Nat \ {0}
  BY InputFacts
<1>2. S \subseteq T /\ j \in T /\ j \notin S
  BY <1>1
<1>3. IsFiniteSet(T)
  <2>1. 1 \in Int /\ j \in Int
    BY <1>1
  <2>2. IsFiniteSet(1 .. j)
    BY <2>1, FS_Interval
  <2>3. T \in SUBSET (1 .. j)
    OBVIOUS
  <2> HIDE DEF T
  <2> QED
    BY <2>2, <2>3, FS_Subset
<1>4. PackedIndex(i) = Cardinality(S) /\ PackedIndex(j) = Cardinality(T)
  BY DEF PackedIndex
<1> HIDE DEF S, T
<1>5. Cardinality(T) = Cardinality(S) => T = S
  BY <1>2, <1>3, FS_Subset
<1> QED
  BY <1>2, <1>4, <1>5

LEMMA PackedIndexDiffers ==
  ASSUME leaves \in Inputs, NEW i \in Leaves, NEW j \in Leaves,
         leaves[i].format = leaves[j].format, PackedIndex(i) = PackedIndex(j)
  PROVE  i = j
<1>1. i \in Nat /\ j \in Nat
  BY InputFacts
<1>2. CASE i < j
  BY <1>2, PackedIndexGrows
<1>3. CASE j < i
  BY <1>3, PackedIndexGrows
<1> QED
  BY <1>1, <1>2, <1>3

LEMMA LeafPtrsDiffer ==
  ASSUME leaves \in Inputs, NEW i \in Leaves, NEW j \in Leaves, LeafPtr(i) = LeafPtr(j)
  PROVE  i = j
<1>1. LeafPtr(i).format = LeafPtr(j).format /\ LeafPtr(i).index = LeafPtr(j).index
  OBVIOUS
<1>2. /\ leaves[i].format = leaves[j].format
      /\ (IF packed THEN PackedIndex(i) ELSE i) = (IF packed THEN PackedIndex(j) ELSE j)
  BY <1>1 DEF LeafPtr
<1>3. CASE packed
  BY <1>2, <1>3, PackedIndexDiffers
<1>4. CASE ~packed
  BY <1>2, <1>4
<1> QED
  BY <1>3, <1>4

(* A leaf pointer leads to the data of its leaf. *)
LEMMA DataOfLeafPtr ==
  ASSUME leaves \in Inputs, NEW i \in Leaves
  PROVE  /\ DataOf(LeafPtr(i)) = i /\ LeafPtr(i) # Empty
         /\ LeafPtr(i).type = "leaf" /\ LeafPtr(i).format = leaves[i].format
<1>1. /\ LeafPtr(i).format = leaves[i].format /\ LeafPtr(i).type = "leaf"
      /\ LeafPtr(i).index = IF packed THEN PackedIndex(i) ELSE i
  BY DEF LeafPtr
<1>2. CASE packed
  <2>1. DataOf(LeafPtr(i)) = CHOOSE j \in Leaves : /\ leaves[j].format = leaves[i].format
                                                   /\ PackedIndex(j) = PackedIndex(i)
    BY <1>1, <1>2 DEF DataOf
  <2>2. \A j \in Leaves : leaves[j].format = leaves[i].format /\ PackedIndex(j) = PackedIndex(i)
                            => j = i
    BY PackedIndexDiffers
  <2> QED
    BY <1>1, <2>1, <2>2 DEF Empty
<1>3. CASE ~packed
  BY <1>1, <1>3 DEF DataOf, Empty
<1> QED
  BY <1>1, <1>2, <1>3

-----------------------------------------------------------------------------
(***************************************************************************)
(* Which inputs are accepted.                                              *)
(***************************************************************************)
LEMMA VerifiedFacts ==
  ASSUME ShapeInv, Verified
  PROVE  /\ leaves \in Inputs /\ rootOrigin = RootOrigin(Lower)
         /\ \A i \in Leaves : /\ ~Invalid(i) /\ leaves[i].level \in 1 .. LeafLevel
                              /\ leaves[i].level \in 0 .. NumLevels
                              /\ leaves[i].level - 1 \in InnerLevels
                              /\ Offset(i) \in Coordinates
<1>1. /\ leaves \in Inputs /\ rootOrigin = RootOrigin(Lower)
      /\ \A i \in Leaves : ~Invalid(i)
  BY DEF ShapeInv, InputOK, ExtentOK, CountsOK
<1> QED
  BY <1>1, LeafLevels, InputFacts, OffsetFacts

(* Of two leaves that overlap, the second cannot be in the tree below the first. *)
LEMMA InsertedAreDisjoint ==
  ASSUME ShapeInv, TreeOK, Allocated, Aligned, NEW i \in Leaves, NEW j \in Leaves, i # j,
         i \notin todo, j \notin todo, leaves[i].level <= leaves[j].level
  PROVE  ~Overlap(i, j)
<1> SUFFICES ASSUME NEW c, c \in Cells(i), c \in Cells(j) PROVE FALSE
  BY DEF Overlap
<1>1. /\ leaves \in Inputs /\ rootOrigin = RootOrigin(Lower)
      /\ \A n \in Leaves : /\ ~Invalid(n) /\ leaves[n].level \in 1 .. LeafLevel
                           /\ leaves[n].level \in 0 .. NumLevels /\ Offset(n) \in Coordinates
  BY VerifiedFacts DEF Verified
<1>2. c \in Coordinates /\ InLeaf(c, i) /\ InLeaf(c, j)
  BY <1>1, CellsFacts
<1>3. PICK o, k, l : o = Minus(c, rootOrigin) /\ k = leaves[i].level /\ l = leaves[j].level
  OBVIOUS
<1>4. o \in Coordinates /\ NodeOrigin(o, k) = Offset(i) /\ NodeOrigin(o, l) = Offset(j)
  BY <1>1, <1>2, <1>3, CellsOfLeaf
<1>5. k \in 0 .. l /\ l \in 0 .. NumLevels /\ k \in 0 .. NumLevels /\ LeafLevel \in Nat
  BY <1>1, <1>3, ResFacts
<1>6. NodeOrigin(Offset(j), k) = NodeOrigin(Offset(i), k)
  <2>1. NodeOrigin(Offset(j), k) = NodeOrigin(o, k)
    BY <1>4, <1>5, NodesNest
  <2>2. NodeOrigin(Offset(i), k) = NodeOrigin(o, k)
    <3>1. k \in 0 .. k
      BY <1>5
    <3> QED
      BY <1>4, <1>5, <3>1, NodesNest
  <2> QED
    BY <2>1, <2>2
<1>7. k - 1 \in 0 .. k - 1 /\ k - 1 \in 0 .. l - 1 /\ (k - 1) + 1 = k
  BY <1>1, <1>3, <1>5
<1>8. PICK v \in DOMAIN voxels : /\ v[1] = k - 1 /\ CornerOf(v) = NodeOrigin(Offset(i), k)
                                 /\ voxels[v] = LeafPtr(i)
  BY <1>3, <1>7, WayToLeaf
<1>9. PICK w \in DOMAIN voxels : /\ w[1] = k - 1 /\ CornerOf(w) = NodeOrigin(Offset(j), k)
                                 /\ voxels[w] = LeafPtr(j) \/ voxels[w].type = "child"
  BY <1>3, <1>7, WayToLeaf
<1>10. v = w
  BY <1>6, <1>8, <1>9, VoxelsAreUnique
<1>11. LeafPtr(i) = LeafPtr(j)
  BY <1>8, <1>9, <1>10 DEF LeafPtr
<1> QED
  BY <1>1, <1>11, LeafPtrsDiffer

(* A leaf pointer in the way is that of an overlapping leaf. *)
LEMMA InTheWay ==
  ASSUME ShapeInv, TreeOK, Aligned, NEW i \in Leaves, Insert(i), InsertIntoLeaf(i)
  PROVE  \E n, j \in Leaves : n # j /\ Overlap(n, j)
<1>1. phase = "insert" /\ Current(i) /\ Here(i) \in DOMAIN voxels /\ voxels[Here(i)].type = "leaf"
  BY DEF Insert, InsertIntoLeaf
<1>2. PICK v, l : v = Here(i) /\ l = v[1] + 1
  OBVIOUS
<1>3. PICK j \in Leaves : /\ j \notin todo /\ l = leaves[j].level
                          /\ CornerOf(v) = NodeOrigin(Offset(j), l)
  BY <1>1, <1>2 DEF TreeOK, LeavesFit
<1>4. CornerOf(v) = NodeOrigin(Offset(i), l)
  <2>1. v[1] = cursor.level
    BY <1>1, <1>2, HereFacts
  <2> QED
    BY <1>1, <1>2, <2>1, HereFits
<1>5. /\ leaves \in Inputs /\ rootOrigin = RootOrigin(Lower)
      /\ \A n \in Leaves : ~Invalid(n)
  BY <1>1, VerifiedFacts DEF Verified, Allocated
<1>6. PICK c : c = leaves[i].origin
  OBVIOUS
<1>7. c \in Coordinates /\ Minus(c, rootOrigin) = Offset(i)
  BY <1>5, <1>6, InputFacts DEF Offset
<1>8. InLeaf(c, j)
  <2>1. NodeOrigin(Offset(j), l) = Offset(j)
    BY <1>3, <1>5, AlignedOffset
  <2> QED
    BY <1>3, <1>4, <1>5, <1>7, <2>1, CellsOfLeaf
<1>9. InLeaf(c, i)
  <2>1. \A a \in Axes : c[a] \in Int
    BY <1>7 DEF Coordinates
  <2>2. Extent(i) \in Nat \ {0}
    BY <1>5, InputFacts
  <2> QED
    BY <1>6, <2>1, <2>2 DEF InLeaf
<1>10. c \in Cells(i) /\ c \in Cells(j)
  BY <1>5, <1>7, <1>8, <1>9, CellsFacts
<1>11. i # j
  BY <1>1, <1>3 DEF Current
<1> QED
  BY <1>10, <1>11 DEF Overlap

(* why a commit fails *)
Rejected ==
    \/ \E i, j \in Leaves : i # j /\ Overlap(i, j)
    \/ \E i \in Leaves : Invalid(i)
    \/ TooLarge
    \/ ~FitsRoot

FailsForAReason == phase = "failed" => Rejected

LEMMA RejectedStays ==
  ASSUME Rejected, UNCHANGED <<leaves, packed, capacity>> PROVE Rejected'
<1>1. /\ Leaves' = Leaves /\ \A i : Extent(i)' = Extent(i) /\ Invalid(i)' = Invalid(i)
      /\ TooLarge' = TooLarge
  BY InputStays
<1>2. \A i, j : Overlap(i, j)' = Overlap(i, j)
  BY <1>1 DEF Overlap, Cells
<1>3. FitsRoot' = FitsRoot
  BY DEF FitsRoot
<1> QED
  BY <1>1, <1>2, <1>3 DEF Rejected

LEMMA FailsNext ==
  ASSUME CommitInv, Aligned, FailsForAReason, [Next]_vars PROVE FailsForAReason'
<1> SUFFICES ASSUME phase' = "failed" PROVE Rejected'
  BY DEF FailsForAReason
<1>1. CASE UNCHANGED vars
  <2>1. UNCHANGED <<leaves, packed, capacity, phase>>
    BY <1>1 DEF vars
  <2> QED
    BY <2>1, RejectedStays DEF FailsForAReason
<1>2. ASSUME Fail, Rejected PROVE Rejected'
  BY <1>2, RejectedStays DEF Fail, input, counts
<1>3. CASE ComputeRoot
  <2>1. Fail /\ TooLarge
    BY <1>3 DEF ComputeRoot
  <2> QED
    BY <1>2, <2>1 DEF Rejected
<1>4. CASE VerifyLeaves
  <2>1. Fail /\ \E i \in Leaves : Invalid(i)
    BY <1>4 DEF VerifyLeaves
  <2> QED
    BY <1>2, <2>1 DEF Rejected
<1>5. CASE AllocateInnerLevel \/ StartRanges \/ ExtendRanges \/ \E i \in Leaves : ComputeRange(i)
  BY <1>5 DEF AllocateInnerLevel, StartRanges, ExtendRanges, ComputeRange
<1>6. ASSUME NEW i \in Leaves, Insert(i) PROVE Rejected'
  <2>1. InsertIntoLeaf(i) /\ Fail /\ phase = "insert"
    BY <1>6 DEF Insert, InsertIntoLeaf, InsertIntoChild, InsertChild, InsertLeaf
  <2>2. Rejected
    <3>1. CASE FitsRoot
      <4>1. ShapeInv /\ TreeOK
        BY <2>1, <3>1 DEF CommitInv, TreeInv, Allocated
      <4> QED
        BY <1>6, <2>1, <4>1, InTheWay DEF Rejected
    <3>2. CASE ~FitsRoot
      BY <3>2 DEF Rejected
    <3> QED
      BY <3>1, <3>2
  <2> QED
    BY <1>2, <2>1, <2>2
<1> QED
  BY <1>1, <1>3, <1>4, <1>5, <1>6 DEF Next, Commit, Done

(***************************************************************************)
(* Of aligned input the commit accepts exactly what has no overlapping     *)
(* leaves, whatever their order and levels: a leaf below, above or in the  *)
(* place of another one meets its pointer on the way, because the leaves   *)
(* are inserted from the upper levels to the lower, and what meets a leaf  *)
(* pointer overlaps its leaf.                                              *)
(***************************************************************************)
THEOREM AcceptsDisjoint == Spec => [](Aligned => AcceptsExactlyDisjointLeaves)
<1>1. Spec => [](Aligned => FailsForAReason)
  <2>1. Init => (Aligned => FailsForAReason)
    BY DEF Init, FailsForAReason
  <2>2. CommitInv /\ (Aligned => FailsForAReason) /\ [Next]_vars
          => (Aligned => FailsForAReason)'
    <3> SUFFICES ASSUME CommitInv, Aligned => FailsForAReason, [Next]_vars, Aligned'
                 PROVE  FailsForAReason'
      OBVIOUS
    <3>1. leaves' = leaves
      BY DEF Next, Commit, Done, vars, ComputeRoot, VerifyLeaves, AllocateInnerLevel,
             StartRanges, ExtendRanges, Insert, InsertIntoLeaf, InsertIntoChild, InsertChild,
             InsertLeaf, ComputeRange, Fail, input
    <3>2. Aligned
      BY <3>1 DEF Aligned, Leaves, Extent
    <3> QED
      BY <3>2, FailsNext
  <2> QED
    BY <2>1, <2>2, CommitInvariance, PTL DEF Spec
<1>2. CommitInv /\ (Aligned => FailsForAReason) => (Aligned => AcceptsExactlyDisjointLeaves)
  <2> SUFFICES ASSUME CommitInv, FailsForAReason, Aligned PROVE AcceptsExactlyDisjointLeaves
    OBVIOUS
  <2>1. ASSUME Inserted, FitsRoot, NEW i \in Leaves, NEW j \in Leaves, i # j
        PROVE  ~Overlap(i, j)
    <3>1. ShapeInv /\ TreeOK /\ Allocated /\ todo = {} /\ leaves \in Inputs
      BY <2>1 DEF CommitInv, TreeInv, RangesOK, Inserted, Allocated, ShapeInv, InputOK
    <3>2. leaves[i].level <= leaves[j].level \/ leaves[j].level <= leaves[i].level
      BY <3>1, InputFacts, ResFacts DEF LevelsDown
    <3>3. Overlap(i, j) <=> Overlap(j, i)
      BY DEF Overlap
    <3> QED
      BY <2>1, <3>1, <3>2, <3>3, InsertedAreDisjoint
  <2>2. ASSUME phase = "failed" PROVE Rejected
    BY <2>2 DEF FailsForAReason
  <2> QED
    BY <2>1, <2>2 DEF AcceptsExactlyDisjointLeaves, Inserted, Rejected
<1> QED
  BY <1>1, <1>2, CommitInvariance, PTL

-----------------------------------------------------------------------------
(***************************************************************************)
(* What a sampler finds.                                                   *)
(***************************************************************************)

(* The leaves end where the root node ends, or before. *)
LEMMA DomainFitsRoot ==
  ASSUME ShapeInv, Allocated, FitsRoot, Aligned, NEW c \in Coordinates, InDomain(c)
  PROVE  /\ Minus(c, rootOrigin) \in Coordinates
         /\ NodeOrigin(Minus(c, rootOrigin), 0) = Zero
<1>1. /\ leaves \in Inputs /\ rootOrigin = RootOrigin(Lower)
      /\ \A i \in Leaves : /\ ~Invalid(i) /\ leaves[i].level \in 1 .. LeafLevel
                           /\ leaves[i].level \in 0 .. NumLevels /\ Offset(i) \in Coordinates
      /\ activeSize = Minus(Upper, rootOrigin)
  BY VerifiedFacts DEF Verified, ShapeInv, ExtentOK
<1>2. PICK o : o = Minus(c, rootOrigin)
  OBVIOUS
<1>3. rootOrigin \in Coordinates /\ Res[0] \in Nat \ {0} /\ 0 \in 0 .. NumLevels
  BY <1>1, RootFacts, ResFacts
<1>4. o \in Coordinates /\ \A a \in Axes : o[a] = c[a] - rootOrigin[a]
  BY <1>2, <1>3 DEF Minus, Coordinates
<1>5. ASSUME NEW a \in Axes PROVE Zero[a] <= o[a] /\ o[a] < Zero[a] + Res[0]
  <2>1. PICK i \in Leaves : Upper[a] = leaves[i].origin[a] + Extent(i)
    BY <1>1, BoundsFacts
  <2>2. PICK p, k : p = [b \in Axes |-> Offset(i)[b] + Extent(i) - 1] /\ k = leaves[i].level
    OBVIOUS
  <2>3. /\ Offset(i) \in Coordinates /\ NodeOrigin(Offset(i), k) = Offset(i)
        /\ Extent(i) = Res[k] /\ Extent(i) \in Nat \ {0} /\ k \in 0 .. NumLevels
        /\ Offset(i)[a] = leaves[i].origin[a] - rootOrigin[a] /\ 0 \in 0 .. k
    BY <1>1, <2>2, AlignedOffset, OffsetFacts, InputFacts DEF Extent
  <2>4. /\ p \in Coordinates
        /\ \A b \in Axes : Offset(i)[b] <= p[b] /\ p[b] < Offset(i)[b] + Res[k]
        /\ p[a] = Offset(i)[a] + Extent(i) - 1
    <3>1. \A b \in Axes : Offset(i)[b] \in Int
      BY <2>3 DEF Coordinates
    <3> QED
      BY <2>2, <2>3, <3>1 DEF Coordinates
  <2>5. NodeOrigin(p, k) = NodeOrigin(Offset(i), k)
    BY <2>3, <2>4, NodeOriginIs
  <2>6. NodeOrigin(p, 0) = Zero
    <3>1. NodeOrigin(p, 0) = NodeOrigin(Offset(i), 0)
      BY <2>3, <2>4, <2>5, SameNodeAbove
    <3> QED
      BY <3>1, RootCovers
  <2>7. p[a] < Zero[a] + Res[0]
    BY <1>3, <2>4, <2>6, NodeOriginFacts
  <2>8. /\ Zero[a] = 0 /\ c[a] \in Int /\ rootOrigin[a] \in Int /\ Upper[a] \in Int
        /\ leaves[i].origin[a] \in Int
    BY <1>1, <1>3, BoundsFacts, InputFacts DEF Zero, Coordinates
  <2>9. c[a] >= rootOrigin[a] /\ c[a] - rootOrigin[a] < Upper[a] - rootOrigin[a]
    BY <1>1 DEF InDomain, Minus
  <2> QED
    BY <1>3, <1>4, <2>1, <2>3, <2>4, <2>7, <2>8, <2>9
<1>6. Zero \in Coordinates /\ NodeOrigin(Zero, 0) = Zero
  <2>1. 0 % Res[0] = 0
    BY <1>3
  <2> QED
    BY <2>1 DEF NodeOrigin, Zero, Coordinates
<1>7. NodeOrigin(o, 0) = Zero
  BY <1>3, <1>4, <1>5, <1>6, NodeOriginIs
<1> QED
  BY <1>2, <1>4, <1>7

LEMMA LeavesAreInDomain ==
  ASSUME ShapeInv, Allocated, NEW i \in Leaves, NEW c \in Coordinates, InLeaf(c, i)
  PROVE  InDomain(c)
<1>1. /\ leaves \in Inputs /\ rootOrigin = RootOrigin(Lower)
      /\ activeSize = Minus(Upper, rootOrigin)
  BY VerifiedFacts DEF Verified, ShapeInv, ExtentOK
<1>2. ASSUME NEW a \in Axes
      PROVE  c[a] >= rootOrigin[a] /\ c[a] - rootOrigin[a] < activeSize[a]
  <2>1. /\ rootOrigin[a] \in Int /\ rootOrigin[a] <= Lower[a] /\ Lower[a] \in Int
        /\ Lower[a] <= leaves[i].origin[a] /\ leaves[i].origin[a] \in Int
        /\ leaves[i].origin[a] + Extent(i) <= Upper[a] /\ Upper[a] \in Int
        /\ Extent(i) \in Nat /\ c[a] \in Int
    BY <1>1, BoundsFacts, RootFacts, InputFacts DEF Coordinates
  <2>2. activeSize[a] = Upper[a] - rootOrigin[a]
    BY <1>1 DEF Minus
  <2>3. leaves[i].origin[a] <= c[a] /\ c[a] < leaves[i].origin[a] + Extent(i)
    BY DEF InLeaf
  <2> QED
    BY <2>1, <2>2, <2>3
<1> QED
  BY <1>2 DEF InDomain

LEMMA TraverseFindsLeaf ==
  ASSUME CommitInv, Inserted, FitsRoot, Aligned, NEW c \in Coordinates
  PROVE  /\ \A i \in Leaves : InLeaf(c, i) => Traverse(c) = LeafPtr(i)
         /\ (\A i \in Leaves : ~InLeaf(c, i)) => Traverse(c) = Empty
<1>1. Allocated /\ ShapeInv /\ TreeOK /\ todo = {}
  BY DEF CommitInv, TreeInv, RangesOK, Inserted, Allocated
<1>2. CASE InDomain(c)
  <2>1. PICK o, e : o = Minus(c, rootOrigin) /\ e = NodeOrigin(o, LeafLevel)
    OBVIOUS
  <2>2. o \in Coordinates /\ NodeOrigin(o, 0) = Zero
    BY <1>1, <1>2, <2>1, DomainFitsRoot
  <2>3. LeafLevel \in 0 .. NumLevels /\ LeafLevel \in Nat \ {0}
    BY ResFacts
  <2>4. e \in Coordinates /\ \A l \in 0 .. LeafLevel : NodeOrigin(e, l) = NodeOrigin(o, l)
    BY <2>1, <2>2, <2>3, NodeOriginFacts, NodesNest
  <2>5. NodeOrigin(e, 0) = Zero
    <3>1. 0 \in 0 .. LeafLevel
      BY <2>3
    <3> QED
      BY <2>2, <2>4, <3>1
  <2>6. PICK d : d = Descend(e, LeafLevel)
    OBVIOUS
  <2>7. Traverse(c) = IF d.voxel.type = "leaf" THEN d.voxel ELSE Empty
    BY <1>2, <2>1, <2>6 DEF Traverse
  <2>8. ASSUME NEW i \in Leaves
        PROVE  /\ leaves[i].level \in 1 .. LeafLevel
               /\ NodeOrigin(e, leaves[i].level) = NodeOrigin(o, leaves[i].level)
               /\ NodeOrigin(Offset(i), leaves[i].level) = Offset(i)
               /\ InLeaf(c, i) <=> NodeOrigin(o, leaves[i].level) = Offset(i)
    <3>1. /\ leaves \in Inputs /\ rootOrigin = RootOrigin(Lower) /\ ~Invalid(i)
          /\ leaves[i].level \in 1 .. LeafLevel
      BY <1>1, VerifiedFacts DEF Verified
    <3>2. leaves[i].level \in 0 .. LeafLevel
      BY <2>3, <3>1
    <3> QED
      BY <2>1, <2>4, <3>1, <3>2, AlignedOffset, CellsOfLeaf
  <2>9. ASSUME NEW i \in Leaves, InLeaf(c, i) PROVE Traverse(c) = LeafPtr(i)
    <3>1. NodeOrigin(e, leaves[i].level) = NodeOrigin(Offset(i), leaves[i].level)
      BY <2>8, <2>9
    <3>2. LeafLevel + 1 >= leaves[i].level
      BY <2>3, <2>8
    <3>3. d.voxel = LeafPtr(i)
      BY <1>1, <2>3, <2>4, <2>5, <2>6, <3>1, <3>2, LeafIsFound
    <3> QED
      BY <2>7, <3>3 DEF LeafPtr
  <2>10. ASSUME d.voxel.type = "leaf" PROVE \E i \in Leaves : InLeaf(c, i)
    <3>1. PICK i \in Leaves : NodeOrigin(e, leaves[i].level) =
                                NodeOrigin(Offset(i), leaves[i].level)
      BY <1>1, <2>3, <2>4, <2>5, <2>6, <2>10, FoundIsLeaf
    <3> QED
      BY <2>8, <3>1
  <2> QED
    BY <2>7, <2>9, <2>10
<1>3. CASE ~InDomain(c)
  <2>1. Traverse(c) = Empty
    BY <1>3 DEF Traverse
  <2> QED
    BY <1>1, <1>3, <2>1, LeavesAreInDomain
<1> QED
  BY <1>2, <1>3

(***************************************************************************)
(* A sampler finds, for every coordinate, the data of the leaf that        *)
(* contains it, and nothing where there is none.                           *)
(***************************************************************************)
THEOREM TraversalIsRight == Spec => [](Aligned => TraversalFindsTheLeaf)
<1>1. ASSUME CommitInv, Aligned PROVE TraversalFindsTheLeaf
  <2> SUFFICES ASSUME phase = "committed", FitsRoot, NEW c \in Around
               PROVE  IF \E i \in Leaves : InLeaf(c, i)
                      THEN Traverse(c) # Empty /\ InLeaf(c, DataOf(Traverse(c)))
                      ELSE Traverse(c) = Empty
    BY DEF TraversalFindsTheLeaf
  <2>1. c \in Coordinates
    BY DEF Around, Coordinates
  <2>2. /\ \A i \in Leaves : InLeaf(c, i) => Traverse(c) = LeafPtr(i)
        /\ (\A i \in Leaves : ~InLeaf(c, i)) => Traverse(c) = Empty
    BY <1>1, <2>1, TraverseFindsLeaf DEF Inserted
  <2>3. leaves \in Inputs
    BY <1>1 DEF CommitInv, ShapeInv, InputOK
  <2> QED
    BY <2>2, <2>3, DataOfLeafPtr
<1> QED
  BY <1>1, CommitInvariance, PTL

-----------------------------------------------------------------------------
(***************************************************************************)
(* Value ranges.                                                           *)
(***************************************************************************)
LEMMA InsertedFacts ==
  ASSUME CommitInv, Inserted, FitsRoot
  PROVE  /\ Allocated /\ Verified /\ ShapeInv /\ TreeOK /\ todo = {}
         /\ leaves \in Inputs /\ rootOrigin = RootOrigin(Lower) /\ rootOrigin \in Coordinates
         /\ \A i \in Leaves : /\ ~Invalid(i) /\ leaves[i].level \in 1 .. LeafLevel
                              /\ leaves[i].level \in 0 .. NumLevels
                              /\ leaves[i].level - 1 \in InnerLevels
                              /\ Offset(i) \in Coordinates
                              /\ NodeOrigin(Offset(i), 0) = Zero
<1>1. Allocated /\ Verified /\ ShapeInv /\ TreeOK /\ todo = {}
  BY DEF CommitInv, TreeInv, RangesOK, Inserted, Allocated, Verified
<1> QED
  BY <1>1, VerifiedFacts, RootCovers, RootFacts

(* The voxels on the way to a leaf are those its range is added to. *)
LEMMA WayIsVisited ==
  ASSUME CommitInv, Inserted, FitsRoot, NEW i \in Leaves, NEW v \in DOMAIN voxels,
         v[1] \in 0 .. leaves[i].level - 1, CornerOf(v) = NodeOrigin(Offset(i), v[1] + 1)
  PROVE  v \in Visited(i)
<1>1. PICK s, k : s = Descend(Offset(i), leaves[i].level - 1).visited /\ k = leaves[i].level
  OBVIOUS
<1>2. k \in 1 .. LeafLevel /\ LeafLevel \in Nat /\ k - 1 \in Nat /\ (k - 1) + 1 >= k
  BY <1>1, InsertedFacts, ResFacts
<1>3. /\ Len(s) = k
      /\ \A j \in 1 .. Len(s) : /\ s[j] \in DOMAIN voxels /\ s[j][1] = j - 1
                                /\ CornerOf(s[j]) = NodeOrigin(Offset(i), j)
  <2>1. /\ ShapeInv /\ TreeOK /\ Allocated /\ Offset(i) \in Coordinates
        /\ NodeOrigin(Offset(i), 0) = Zero /\ i \notin todo
    BY InsertedFacts
  <2>2. PICK o, m : o = Offset(i) /\ m = k - 1
    OBVIOUS
  <2>3. /\ m \in Nat /\ o \in Coordinates /\ NodeOrigin(o, 0) = Zero
        /\ NodeOrigin(o, leaves[i].level) = NodeOrigin(Offset(i), leaves[i].level)
        /\ s = Descend(o, m).visited /\ m + 1 >= leaves[i].level
    BY <1>1, <1>2, <2>1, <2>2
  <2>4. /\ \A j \in 1 .. Len(s) : /\ s[j] \in DOMAIN voxels /\ s[j][1] = j - 1
                                   /\ CornerOf(s[j]) = NodeOrigin(o, j)
        /\ Len(s) = leaves[i].level
    BY <2>1, <2>3, LeafIsFound
  <2> QED
    BY <1>1, <2>2, <2>4
<1>4. v[1] + 1 \in 1 .. k /\ (v[1] + 1) - 1 = v[1]
  BY <1>1, <1>2
<1>5. s[v[1] + 1] = v
  BY <1>3, <1>4, InsertedFacts, VoxelsAreUnique
<1> QED
  BY <1>1, <1>3, <1>4, <1>5 DEF Visited

LEMMA VisitedRanges ==
  ASSUME CommitInv, phase = "committed", NEW i \in Leaves, NEW v \in DOMAIN voxels,
         v \in Visited(i)
  PROVE  NeighbourhoodSamples(i) \subseteq range[v]
<1>1. /\ leafRange[i] \in {{}, NeighbourhoodSamples(i)} /\ leafRange[i] # {}
      /\ range = [w \in DOMAIN voxels |->
                    UNION {leafRange[j] : j \in {k \in Leaves : w \in Visited(k)}}]
  BY DEF CommitInv, RangesOK
<1>2. range[v] = UNION {leafRange[j] : j \in {k \in Leaves : v \in Visited(k)}}
  BY <1>1
<1> QED
  BY <1>1, <1>2

(* What is read of a leaf. *)
LEMMA SampleFacts ==
  ASSUME CommitInv, Inserted, FitsRoot, Aligned, NEW c \in Coordinates
  PROVE  /\ \A i \in Leaves : InLeaf(c, i) =>
               Sample(c) = IF leaves[i].format = "TILE" THEN <<"tile", i>>
                           ELSE <<"cell", i, [a \in Axes |-> (c[a] - rootOrigin[a]) % Res[LeafLevel]]>>
         /\ (\A i \in Leaves : ~InLeaf(c, i)) => Sample(c) = Outside(c)
<1>1. /\ \A i \in Leaves : InLeaf(c, i) => Traverse(c) = LeafPtr(i)
      /\ (\A i \in Leaves : ~InLeaf(c, i)) => Traverse(c) = Empty
  BY TraverseFindsLeaf
<1>2. \A i \in Leaves : /\ DataOf(LeafPtr(i)) = i /\ LeafPtr(i) # Empty
                        /\ LeafPtr(i).format = leaves[i].format
  BY InsertedFacts, DataOfLeafPtr
<1> QED
  BY <1>1, <1>2 DEF Sample

Neighbour(i, d) == [a \in Axes |-> leaves[i].origin[a] + d[a] * Res[LeafLevel]]

LEMMA NodeSamplesFacts ==
  ASSUME CommitInv, Inserted, FitsRoot, Aligned, NEW i \in Leaves, NEW d,
         Neighbour(i, d) \in Coordinates
  PROVE  /\ \A j \in Leaves : InLeaf(Neighbour(i, d), j) =>
               NodeSamples(i, d) = IF leaves[j].format = "TILE" THEN {<<"tile", j>>}
                                   ELSE {<<"cell", j, x>> :
                                           x \in {y \in [Axes -> 0 .. Res[LeafLevel] - 1] :
                                                    \A a \in Axes : y[a] \in Reach(d[a])}}
         /\ (\A j \in Leaves : ~InLeaf(Neighbour(i, d), j)) =>
               NodeSamples(i, d) = {Outside(Neighbour(i, d))}
<1>1. PICK n : n = Neighbour(i, d)
  OBVIOUS
<1>2. /\ \A j \in Leaves : InLeaf(n, j) => Traverse(n) = LeafPtr(j)
      /\ (\A j \in Leaves : ~InLeaf(n, j)) => Traverse(n) = Empty
  BY <1>1, TraverseFindsLeaf
<1>3. \A j \in Leaves : /\ DataOf(LeafPtr(j)) = j /\ LeafPtr(j) # Empty
                        /\ LeafPtr(j).format = leaves[j].format
  BY InsertedFacts, DataOfLeafPtr
<1>4. NodeSamples(i, d) = IF Traverse(n) = Empty THEN {Outside(n)}
                          ELSE IF Traverse(n).format = "TILE" THEN {<<"tile", DataOf(Traverse(n))>>}
                          ELSE {<<"cell", DataOf(Traverse(n)), x>> :
                                  x \in {y \in [Axes -> 0 .. Res[LeafLevel] - 1] :
                                           \A a \in Axes : y[a] \in Reach(d[a])}}
  BY <1>1 DEF NodeSamples, Neighbour
<1> QED
  <2>1. ASSUME NEW j \in Leaves, InLeaf(n, j)
        PROVE  NodeSamples(i, d) = IF leaves[j].format = "TILE" THEN {<<"tile", j>>}
                                   ELSE {<<"cell", j, x>> :
                                           x \in {y \in [Axes -> 0 .. Res[LeafLevel] - 1] :
                                                    \A a \in Axes : y[a] \in Reach(d[a])}}
    <3>1. /\ Traverse(n) # Empty /\ DataOf(Traverse(n)) = j
          /\ Traverse(n).format = leaves[j].format
      BY <1>2, <1>3, <2>1
    <3>2. NodeSamples(i, d) = IF leaves[j].format = "TILE" THEN {<<"tile", DataOf(Traverse(n))>>}
                              ELSE {<<"cell", DataOf(Traverse(n)), x>> :
                                      x \in {y \in [Axes -> 0 .. Res[LeafLevel] - 1] :
                                               \A a \in Axes : y[a] \in Reach(d[a])}}
      BY <1>4, <3>1, Zenon
    <3> QED
      BY <3>1, <3>2
  <2>2. (\A j \in Leaves : ~InLeaf(n, j)) => NodeSamples(i, d) = {Outside(n)}
    BY <1>2, <1>4, Zenon
  <2> QED
    BY <1>1, <2>1, <2>2

LEMMA ReachFacts ==
  /\ Reach(-1) = {Res[LeafLevel] - 1} /\ Reach(0) = 0 .. Res[LeafLevel] - 1
  /\ Reach(1) = {0, 1}
BY DEF Reach

LEMMA LeafResFacts == Res[LeafLevel] \in Nat \ {0, 1} /\ LeafLevel \in LevelsDown
<1>1. LeafLevel \in LevelsDown /\ LeafLevel + 1 = NumLevels /\ Res[NumLevels] = 1
  BY ResFacts DEF LevelsDown
<1>2. Res[LeafLevel] = StorageRes[LeafLevel] * 1 /\ StorageRes[LeafLevel] \in Nat \ {0, 1}
  BY <1>1, LevelFacts
<1> QED
  BY <1>1, <1>2

(* Nodes of the lowest level next to one another. *)
LEMMA ShiftedNode ==
  ASSUME NEW b \in Coordinates, NodeOrigin(b, LeafLevel) = b, NEW e \in [Axes -> Int],
         NEW s, s = [a \in Axes |-> b[a] + e[a] * Res[LeafLevel]]
  PROVE  s \in Coordinates /\ NodeOrigin(s, LeafLevel) = s
<1>1. LeafLevel \in 0 .. NumLevels /\ Res[LeafLevel] \in Nat \ {0}
  BY ResFacts, LeafResFacts
<1>2. PICK r \in Nat \ {0} : r = Res[LeafLevel]
  BY <1>1
<1>3. \A a \in Axes : b[a] \in Int /\ e[a] \in Int
  BY DEF Coordinates
<1>4. s \in Coordinates
  BY <1>2, <1>3 DEF Coordinates
<1>5. ASSUME NEW a \in Axes PROVE NodeOrigin(s, LeafLevel)[a] = s[a]
  <2>1. Floor(b[a], r) = r * (b[a] \div r) /\ b[a] \div r \in Int
    BY <1>3, FloorFacts
  <2>2. Floor(b[a], r) = b[a]
    BY <1>1, <1>2, NodeOriginFacts
  <2>3. PICK q \in Int : b[a] = r * q
    BY <2>1, <2>2
  <2>4. s[a] = r * (q + e[a]) /\ s[a] \in Int /\ q + e[a] \in Int
    <3>1. e[a] * r = r * e[a] /\ r * e[a] \in Int /\ r * q \in Int
      BY <1>3
    <3>2. r * (q + e[a]) = r * q + r * e[a]
      BY <1>3
    <3> QED
      BY <1>2, <1>3, <2>3, <3>1, <3>2
  <2>5. PICK t \in Int : s[a] = r * t /\ s[a] \in Int
    BY <2>4
  <2>6. Floor(s[a], r) = r * t
    <3>1. r * t <= s[a] /\ s[a] < r * t + r
      BY <2>5
    <3> QED
      BY <2>5, <3>1, FloorIs
  <2> QED
    BY <1>1, <1>2, <1>4, <2>5, <2>6, NodeOriginFacts
<1>6. NodeOrigin(s, LeafLevel) \in Coordinates
  BY <1>1, <1>4, NodeOriginFacts
<1> QED
  BY <1>4, <1>5, <1>6 DEF Coordinates

(* The domain consists of whole nodes of the lowest level. *)
LEMMA DomainOfNodes ==
  ASSUME CommitInv, Inserted, FitsRoot, Aligned, NEW c \in Coordinates, NEW n \in Coordinates,
         NodeOrigin(Minus(c, rootOrigin), LeafLevel) = Minus(n, rootOrigin)
  PROVE  InDomain(c) <=> InDomain(n)
<1>1. PICK r \in Nat \ {0} : r = Res[LeafLevel]
  BY LeafResFacts
<1>2. /\ leaves \in Inputs /\ rootOrigin = RootOrigin(Lower) /\ rootOrigin \in Coordinates
      /\ activeSize = Minus(Upper, rootOrigin) /\ LeafLevel \in Nat \ {0}
      /\ LeafLevel \in 0 .. NumLevels
  BY InsertedFacts, ResFacts DEF CommitInv, ShapeInv, ExtentOK
<1>3. PICK o, p : o = Minus(c, rootOrigin) /\ p = Minus(n, rootOrigin)
  OBVIOUS
<1>4. /\ o \in Coordinates /\ p \in Coordinates
      /\ \A a \in Axes : o[a] = c[a] - rootOrigin[a] /\ p[a] = n[a] - rootOrigin[a]
  BY <1>2, <1>3 DEF Minus, Coordinates
<1>5. ASSUME NEW a \in Axes
      PROVE  (c[a] >= rootOrigin[a] /\ c[a] - rootOrigin[a] < activeSize[a])
                <=> (n[a] >= rootOrigin[a] /\ n[a] - rootOrigin[a] < activeSize[a])
  <2>1. c[a] \in Int /\ n[a] \in Int /\ rootOrigin[a] \in Int
    BY <1>2 DEF Coordinates
  <2>2. PICK i \in Leaves : Upper[a] = leaves[i].origin[a] + Extent(i)
    BY <1>2, BoundsFacts
  <2>3. PICK k \in Nat \ {0} : Extent(i) = k * r
    <3>1. leaves[i].level \in 0 .. LeafLevel
      BY <1>2, InputFacts DEF LevelsDown
    <3> QED
      BY <1>1, <1>2, <3>1, ResDivides DEF Extent
  <2>4. PICK q \in Int : Offset(i)[a] = Extent(i) * q
    <3>1. /\ Offset(i) \in Coordinates /\ leaves[i].level \in 0 .. NumLevels
          /\ NodeOrigin(Offset(i), leaves[i].level) = Offset(i)
          /\ Extent(i) = Res[leaves[i].level] /\ Extent(i) \in Nat \ {0}
      BY <1>2, InsertedFacts, AlignedOffset, InputFacts DEF Extent
    <3>2. Offset(i)[a] = Floor(Offset(i)[a], Extent(i)) /\ Offset(i)[a] \in Int
      BY <3>1, NodeOriginFacts DEF Coordinates
    <3> QED
      BY <3>1, <3>2, FloorFacts
  <2>5. activeSize[a] = Extent(i) * q + Extent(i)
    <3>1. Offset(i)[a] = leaves[i].origin[a] - rootOrigin[a]
      BY <1>2, OffsetFacts
    <3>2. activeSize[a] = Upper[a] - rootOrigin[a]
      BY <1>2 DEF Minus
    <3>3. leaves[i].origin[a] \in Int /\ Extent(i) \in Int
      BY <1>2, InputFacts DEF Coordinates
    <3> QED
      BY <2>1, <2>2, <2>4, <3>1, <3>2, <3>3
  <2>6. PICK t \in Int : activeSize[a] = r * t
    <3>1. (k * r) * q + k * r = r * (k * q + k) /\ k * q + k \in Int
      <4>1. (k * r) * q = r * (k * q) /\ k * r = r * k /\ k * q \in Int
        OBVIOUS
      <4>2. PICK y \in Int : y = k * q
        BY <4>1
      <4>3. r * y + r * k = r * (y + k)
        OBVIOUS
      <4> QED
        BY <4>1, <4>2, <4>3
    <3> QED
      BY <2>3, <2>5, <3>1
  <2>7. PICK w \in Int : p[a] = r * w /\ r * w <= o[a] /\ o[a] < r * w + r
    <3>1. p[a] = Floor(o[a], r) /\ o[a] \in Int
      BY <1>1, <1>2, <1>3, <1>4, NodeOriginFacts DEF Coordinates
    <3> QED
      BY <3>1, FloorFacts
  <2>8. o[a] >= 0 <=> r * w >= 0
    <3>1. o[a] \in Int /\ r * w \in Int
      BY <1>4 DEF Coordinates
    <3>2. ASSUME o[a] >= 0 PROVE r * w >= 0
      <4>1. r * w + r > 0
        BY <2>7, <3>1, <3>2
      <4>2. w + 1 > 0
        <5>1. r * w + r = r * (w + 1)
          OBVIOUS
        <5> QED
          BY <4>1, <5>1
      <4> QED
        BY <4>2
    <3> QED
      BY <2>7, <3>1, <3>2
  <2>9. o[a] < r * t <=> r * w < r * t
    <3>1. o[a] \in Int /\ r * w \in Int /\ r * t \in Int
      BY <1>4 DEF Coordinates
    <3>2. ASSUME r * w < r * t PROVE o[a] < r * t
      <4>1. w < t
        BY <3>2
      <4>2. r * (w + 1) <= r * t
        BY <4>1
      <4>3. r * w + r = r * (w + 1)
        OBVIOUS
      <4> QED
        BY <2>7, <3>1, <4>2, <4>3
    <3> QED
      BY <2>7, <3>1, <3>2
  <2>10. /\ c[a] >= rootOrigin[a] <=> o[a] >= 0
         /\ n[a] >= rootOrigin[a] <=> p[a] >= 0
         /\ c[a] - rootOrigin[a] = o[a] /\ n[a] - rootOrigin[a] = p[a]
    BY <1>4, <2>1
  <2> QED
    <3>1. (o[a] >= 0 <=> p[a] >= 0) /\ (o[a] < activeSize[a] <=> p[a] < activeSize[a])
      BY <2>6, <2>7, <2>8, <2>9
    <3> QED
      BY <2>10, <3>1
<1> QED
  BY <1>5 DEF InDomain

(* A coordinate is in the same leaves as the leaf-sized node around it. *)
LEMMA SameLeaves ==
  ASSUME CommitInv, Inserted, FitsRoot, Aligned, NEW c \in Coordinates, NEW n \in Coordinates,
         NodeOrigin(Minus(c, rootOrigin), LeafLevel) = Minus(n, rootOrigin),
         NEW j \in Leaves
  PROVE  InLeaf(c, j) <=> InLeaf(n, j)
<1>1. /\ leaves \in Inputs /\ rootOrigin = RootOrigin(Lower) /\ ~Invalid(j)
      /\ leaves[j].level \in 1 .. LeafLevel
  BY InsertedFacts
<1>2. LeafLevel \in 0 .. NumLevels /\ leaves[j].level \in 0 .. LeafLevel
  BY <1>1, ResFacts
<1>3. /\ Minus(c, rootOrigin) \in Coordinates
      /\ InLeaf(c, j) <=> NodeOrigin(Minus(c, rootOrigin), leaves[j].level) = Offset(j)
      /\ InLeaf(n, j) <=> NodeOrigin(Minus(n, rootOrigin), leaves[j].level) = Offset(j)
  BY <1>1, CellsOfLeaf
<1>4. NodeOrigin(Minus(n, rootOrigin), leaves[j].level) =
        NodeOrigin(Minus(c, rootOrigin), leaves[j].level)
  BY <1>2, <1>3, NodesNest
<1> QED
  BY <1>3, <1>4

(* The step from a cell of a leaf to the node of a cell that a filter reads. *)
FilterStep(x, r) == IF x < 0 THEN -1 ELSE IF x < r THEN 0 ELSE 1

LEMMA FilterStepFacts ==
  ASSUME NEW r \in Nat \ {0, 1}, NEW x \in -1 .. r + 1, NEW e, e = FilterStep(x, r)
  PROVE  /\ e \in {-1, 0, 1} /\ x - e * r \in 0 .. r - 1
         /\ e = -1 => x - e * r = r - 1
         /\ e = 1 => x - e * r \in {0, 1}
<1>1. CASE x < 0
  <2>1. e = -1 /\ x - (-1) * r = r - 1
    BY <1>1 DEF FilterStep
  <2> QED
    BY <2>1
<1>2. CASE x \in 0 .. r - 1
  <2>1. e = 0 /\ x - 0 * r = x
    BY <1>2 DEF FilterStep
  <2> QED
    BY <1>2, <2>1
<1>3. CASE x \in {r, r + 1}
  <2>1. e = 1 /\ x - 1 * r \in {0, 1} /\ {0, 1} \subseteq 0 .. r - 1
    BY <1>3 DEF FilterStep
  <2> QED
    BY <2>1
<1> QED
  BY <1>1, <1>2, <1>3

(* What a filter reads is in one of the nodes that computeValueRange goes through. *)
LEMMA SamplesOfFilter ==
  ASSUME CommitInv, Inserted, FitsRoot, Aligned, NEW i \in Leaves, leaves[i].level = LeafLevel,
         NEW c \in Coordinates, InLeaf(c, i), NEW d \in [Axes -> -1 .. 2]
  PROVE  Sample(Plus(c, d)) \in NeighbourhoodSamples(i)
<1>1. /\ leaves \in Inputs /\ rootOrigin = RootOrigin(Lower) /\ rootOrigin \in Coordinates
      /\ leaves[i].origin \in Coordinates /\ Extent(i) = Res[LeafLevel]
      /\ Offset(i) \in Coordinates /\ NodeOrigin(Offset(i), LeafLevel) = Offset(i)
      /\ \A a \in Axes : Offset(i)[a] = leaves[i].origin[a] - rootOrigin[a]
      /\ LeafLevel \in 0 .. NumLevels
  BY InsertedFacts, InputFacts, OffsetFacts, AlignedOffset, ResFacts DEF Extent
<1>2. PICK r \in Nat \ {0, 1} : r = Res[LeafLevel]
  BY LeafResFacts
<1>3. PICK p : p = Plus(c, d)
  OBVIOUS
<1>4. \A a \in Axes : /\ c[a] \in Int /\ d[a] \in -1 .. 2 /\ rootOrigin[a] \in Int
                      /\ leaves[i].origin[a] \in Int
                      /\ leaves[i].origin[a] <= c[a] /\ c[a] < leaves[i].origin[a] + r
  BY <1>1, <1>2 DEF Coordinates, InLeaf
<1>5. p \in Coordinates /\ \A a \in Axes : p[a] = c[a] + d[a]
  BY <1>3, <1>4 DEF Plus, Coordinates
<1>6. PICK e : e = [a \in Axes |-> FilterStep(p[a] - leaves[i].origin[a], r)]
  OBVIOUS
<1>7. e \in [Axes -> {-1, 0, 1}]
  BY <1>6 DEF FilterStep
<1>8. ASSUME NEW a \in Axes
      PROVE  /\ e[a] \in {-1, 0, 1}
             /\ p[a] - leaves[i].origin[a] - e[a] * r \in 0 .. r - 1
             /\ e[a] = -1 => p[a] - leaves[i].origin[a] - e[a] * r = r - 1
             /\ e[a] = 1 => p[a] - leaves[i].origin[a] - e[a] * r \in {0, 1}
  <2>1. p[a] - leaves[i].origin[a] \in -1 .. r + 1
    BY <1>4, <1>5
  <2>2. e[a] = FilterStep(p[a] - leaves[i].origin[a], r)
    BY <1>6
  <2> QED
    BY <2>1, <2>2, FilterStepFacts
<1>9. PICK n : n = Neighbour(i, e)
  OBVIOUS
<1>10. n \in Coordinates /\ \A a \in Axes : n[a] = leaves[i].origin[a] + e[a] * r
  BY <1>2, <1>4, <1>7, <1>9 DEF Neighbour, Coordinates
<1>11. PICK o, b : o = Minus(p, rootOrigin) /\ b = Minus(n, rootOrigin)
  OBVIOUS
<1>12. /\ o \in Coordinates /\ b \in Coordinates
       /\ \A a \in Axes : o[a] = p[a] - rootOrigin[a] /\ b[a] = n[a] - rootOrigin[a]
  BY <1>1, <1>5, <1>10, <1>11 DEF Minus, Coordinates
<1>13. NodeOrigin(b, LeafLevel) = b
  <2>1. e \in [Axes -> Int]
    BY <1>7
  <2>2. \A a \in Axes : b[a] = Offset(i)[a] + e[a] * Res[LeafLevel]
    <3> TAKE a \in Axes
    <3>1. e[a] * r \in Int
      BY <1>7
    <3> QED
      BY <1>1, <1>2, <1>4, <1>10, <1>12, <3>1
  <2>3. b = [a \in Axes |-> Offset(i)[a] + e[a] * Res[LeafLevel]]
    BY <1>12, <2>2 DEF Coordinates
  <2> QED
    BY <1>1, <2>1, <2>3, ShiftedNode
<1>14. ASSUME NEW a \in Axes
       PROVE  /\ b[a] <= o[a] /\ o[a] < b[a] + r
              /\ o[a] - b[a] = p[a] - leaves[i].origin[a] - e[a] * r
              /\ o[a] - b[a] \in 0 .. r - 1
  <2>1. e[a] * r \in Int /\ p[a] \in Int /\ n[a] \in Int /\ o[a] \in Int /\ b[a] \in Int
    BY <1>5, <1>7, <1>10, <1>12 DEF Coordinates
  <2>2. PICK t \in Int : t = e[a] * r
    BY <2>1
  <2> QED
    BY <1>4, <1>8, <1>10, <1>12, <2>1, <2>2
<1>15. NodeOrigin(o, LeafLevel) = b
  BY <1>1, <1>2, <1>12, <1>13, <1>14, NodeOriginIs
<1>16. \A j \in Leaves : InLeaf(p, j) <=> InLeaf(n, j)
  BY <1>5, <1>10, <1>11, <1>15, SameLeaves
<1>17. Sample(p) \in NodeSamples(i, e)
  <2>1. CASE \A j \in Leaves : ~InLeaf(p, j)
    <3>1. Sample(p) = Outside(p) /\ NodeSamples(i, e) = {Outside(n)}
      BY <1>5, <1>9, <1>10, <1>16, <2>1, SampleFacts, NodeSamplesFacts
    <3>2. Outside(p) = Outside(n)
      BY <1>5, <1>10, <1>11, <1>15, DomainOfNodes DEF Outside
    <3> QED
      BY <3>1, <3>2
  <2>2. ASSUME NEW j \in Leaves, InLeaf(p, j), leaves[j].format = "TILE"
        PROVE  Sample(p) \in NodeSamples(i, e)
    <3>1. Sample(p) = <<"tile", j>> /\ NodeSamples(i, e) = {<<"tile", j>>}
      BY <1>5, <1>9, <1>10, <1>16, <2>2, SampleFacts, NodeSamplesFacts
    <3> QED
      BY <3>1
  <2>3. ASSUME NEW j \in Leaves, InLeaf(p, j), leaves[j].format # "TILE"
        PROVE  Sample(p) \in NodeSamples(i, e)
    <3>1. PICK y : y = [a \in Axes |-> (p[a] - rootOrigin[a]) % Res[LeafLevel]]
      OBVIOUS
    <3>2. Sample(p) = <<"cell", j, y>>
      BY <1>5, <2>3, <3>1, SampleFacts
    <3>3. NodeSamples(i, e) = {<<"cell", j, x>> :
                                 x \in {z \in [Axes -> 0 .. Res[LeafLevel] - 1] :
                                          \A a \in Axes : z[a] \in Reach(e[a])}}
      BY <1>9, <1>10, <1>16, <2>3, NodeSamplesFacts
    <3>4. ASSUME NEW a \in Axes PROVE y[a] \in 0 .. Res[LeafLevel] - 1 /\ y[a] \in Reach(e[a])
      <4>1. y[a] = o[a] % r
        BY <1>2, <1>12, <3>1
      <4>2. o[a] - (o[a] % r) = b[a]
        BY <1>1, <1>2, <1>12, <1>15, NodeOriginFacts DEF Floor
      <4>3. o[a] \in Int /\ b[a] \in Int /\ o[a] % r \in Int
        BY <1>12 DEF Coordinates
      <4>4. y[a] = o[a] - b[a]
        BY <4>1, <4>2, <4>3
      <4>5. /\ y[a] \in 0 .. r - 1
            /\ e[a] = -1 => y[a] = r - 1
            /\ e[a] = 1 => y[a] \in {0, 1}
        BY <1>8, <1>14, <4>4
      <4> QED
        BY <1>2, <1>8, <4>5, ReachFacts
    <3>5. y \in {z \in [Axes -> 0 .. Res[LeafLevel] - 1] : \A a \in Axes : z[a] \in Reach(e[a])}
      BY <3>1, <3>4
    <3> QED
      BY <3>2, <3>3, <3>5
  <2> QED
    BY <2>1, <2>2, <2>3
<1> QED
  BY <1>3, <1>7, <1>17 DEF NeighbourhoodSamples

(***************************************************************************)
(* At every depth the range that an iterator tests for a point of a leaf   *)
(* of the lowest level covers all that a reconstruction filter combines    *)
(* there: one cell to the lower side, two to the upper side.               *)
(***************************************************************************)
THEOREM RangesCoverFilter == Spec => [](Aligned => LeafRangesCoverFilter)
<1>1. ASSUME CommitInv, Aligned PROVE LeafRangesCoverFilter
  <2> SUFFICES ASSUME phase = "committed", FitsRoot, NEW i \in Leaves,
                      leaves[i].level = LeafLevel, NEW c \in Cells(i),
                      NEW d \in [Axes -> -1 .. 2], NEW limit \in InnerLevels
               PROVE  Sample(Plus(c, d)) \in QueriedRange(c, limit)
    BY DEF LeafRangesCoverFilter
  <2>1. Inserted
    BY DEF Inserted
  <2>2. /\ leaves \in Inputs /\ rootOrigin = RootOrigin(Lower) /\ ~Invalid(i)
        /\ ShapeInv /\ TreeOK /\ Allocated /\ todo = {} /\ Offset(i) \in Coordinates
        /\ NodeOrigin(Offset(i), 0) = Zero
    BY <1>1, <2>1, InsertedFacts
  <2>3. c \in Coordinates /\ InLeaf(c, i)
    BY <2>2, CellsFacts
  <2>4. Sample(Plus(c, d)) \in NeighbourhoodSamples(i)
    BY <1>1, <2>1, <2>3, SamplesOfFilter
  <2>5. LeafLevel \in Nat \ {0} /\ LeafLevel \in 0 .. NumLevels
    BY ResFacts
  <2>6. PICK o, s : o = Minus(c, rootOrigin) /\ s = Descend(o, limit).visited
    OBVIOUS
  <2>7. /\ o \in Coordinates /\ NodeOrigin(o, LeafLevel) = Offset(i)
        /\ NodeOrigin(Offset(i), LeafLevel) = Offset(i)
    BY <1>1, <2>2, <2>3, <2>6, CellsOfLeaf, AlignedOffset
  <2>8. \A l \in 0 .. LeafLevel : NodeOrigin(o, l) = NodeOrigin(Offset(i), l)
    BY <2>2, <2>5, <2>7, SameNodeAbove
  <2>9. limit \in Nat /\ limit + 1 \in 0 .. LeafLevel /\ limit \in 0 .. LeafLevel - 1
    BY <2>5 DEF InnerLevels
  <2>10. /\ \A j \in 1 .. Len(s) : /\ s[j] \in DOMAIN voxels /\ s[j][1] = j - 1
                                   /\ CornerOf(s[j]) = NodeOrigin(o, j)
         /\ Len(s) = limit + 1
    <3>1. NodeOrigin(o, 0) = Zero
      <4>1. 0 \in 0 .. LeafLevel
        BY <2>5
      <4> QED
        BY <2>2, <2>8, <4>1
    <3>2. NodeOrigin(o, leaves[i].level) = NodeOrigin(Offset(i), leaves[i].level)
      BY <2>7
    <3>3. /\ \A j \in 1 .. Len(s) : /\ s[j] \in DOMAIN voxels /\ s[j][1] = j - 1
                                    /\ CornerOf(s[j]) = NodeOrigin(o, j)
          /\ limit + 1 < leaves[i].level => Len(s) = limit + 1
          /\ limit + 1 >= leaves[i].level => Len(s) = leaves[i].level
      BY <2>2, <2>6, <2>7, <2>9, <3>1, <3>2, LeafIsFound
    <3> QED
      BY <2>5, <2>9, <3>3
  <2>11. PICK v : v = s[limit + 1]
    OBVIOUS
  <2>12. v \in DOMAIN voxels /\ v[1] = limit /\ CornerOf(v) = NodeOrigin(Offset(i), v[1] + 1)
    <3>1. limit + 1 \in 1 .. Len(s) /\ (limit + 1) - 1 = limit
      BY <2>9, <2>10
    <3> QED
      BY <2>8, <2>9, <2>10, <2>11, <3>1
  <2>13. NeighbourhoodSamples(i) \subseteq range[v]
    <3>1. v \in Visited(i)
      BY <1>1, <2>1, <2>9, <2>12, WayIsVisited
    <3> QED
      BY <1>1, <2>12, <3>1, VisitedRanges
  <2>14. QueriedRange(c, limit) = range[v]
    BY <2>6, <2>10, <2>11 DEF QueriedRange, Last
  <2> QED
    BY <2>4, <2>13, <2>14
<1> QED
  BY <1>1, CommitInvariance, PTL

-----------------------------------------------------------------------------
(***************************************************************************)
(* What the InnerNode observer lists.                                      *)
(***************************************************************************)

(* The cells of the box of a voxel are those that NodeOrigin takes to its corner. *)
LEMMA BoxFacts ==
  ASSUME CommitInv, Inserted, FitsRoot, NEW v \in DOMAIN voxels, NEW c
  PROVE  c \in Cube(Box(v).origin, Box(v).res) <=>
            /\ c \in Coordinates
            /\ NodeOrigin(Minus(c, rootOrigin), v[1] + 1) = CornerOf(v)
<1>1. PICK l, b, p, r : /\ l = v[1] + 1 /\ b = Box(v).origin /\ p = CornerOf(v)
                        /\ r = Box(v).res
  OBVIOUS
<1>2. /\ v[1] \in InnerLevels /\ v[1] \in LevelsDown /\ p \in Coordinates
      /\ NodeOrigin(p, l) = p /\ rootOrigin \in Coordinates
      /\ origin[v[1]][v[2]] \in Coordinates /\ v[3] \in VoxelIndices(v[1])
  BY <1>1, InsertedFacts, CornerFacts
<1>3. l \in 0 .. NumLevels /\ Res[l] \in Nat \ {0} /\ r = Res[l]
  BY <1>1, <1>2, LevelFacts DEF Box
<1>4. ASSUME NEW a \in Axes PROVE b[a] = rootOrigin[a] + p[a] /\ b[a] \in Int
  <2>1. b[a] = rootOrigin[a] + origin[v[1]][v[2]][a] + Res[l] * v[3][a]
    BY <1>1 DEF Box
  <2>2. p[a] = origin[v[1]][v[2]][a] + Res[l] * v[3][a]
    BY <1>1 DEF CornerOf, Corner
  <2>3. v[3][a] \in Int
    BY <1>2 DEF VoxelIndices
  <2>4. rootOrigin[a] \in Int /\ origin[v[1]][v[2]][a] \in Int /\ Res[l] * v[3][a] \in Int
    BY <1>2, <1>3, <2>3 DEF Coordinates
  <2>5. PICK t \in Int : t = Res[l] * v[3][a]
    BY <2>4
  <2> QED
    BY <2>1, <2>2, <2>4, <2>5
<1>5. b \in Coordinates
  <2>1. b = [a \in Axes |-> b[a]]
    BY <1>1 DEF Box
  <2> QED
    BY <1>4, <2>1 DEF Coordinates
<1>6. c \in Cube(b, r) <=> c \in Coordinates /\ \A a \in Axes : b[a] <= c[a] /\ c[a] < b[a] + r
  BY <1>3, <1>5, CubeFacts
<1>7. ASSUME c \in Coordinates
      PROVE  (\A a \in Axes : b[a] <= c[a] /\ c[a] < b[a] + r)
                <=> NodeOrigin(Minus(c, rootOrigin), l) = p
  <2>1. PICK o : o = Minus(c, rootOrigin)
    OBVIOUS
  <2>2. o \in Coordinates /\ \A a \in Axes : o[a] = c[a] - rootOrigin[a]
    BY <1>2, <1>7, <2>1 DEF Minus, Coordinates
  <2>3. ASSUME NEW a \in Axes
        PROVE  (b[a] <= c[a] /\ c[a] < b[a] + r) <=> (p[a] <= o[a] /\ o[a] < p[a] + r)
    <3>1. c[a] \in Int /\ p[a] \in Int /\ rootOrigin[a] \in Int /\ r \in Int
      BY <1>2, <1>3, <1>7 DEF Coordinates
    <3> QED
      BY <1>4, <2>2, <3>1
  <2>4. ASSUME \A a \in Axes : p[a] <= o[a] /\ o[a] < p[a] + r PROVE NodeOrigin(o, l) = p
    BY <1>2, <1>3, <2>2, <2>4, NodeOriginIs
  <2>5. ASSUME NodeOrigin(o, l) = p PROVE \A a \in Axes : p[a] <= o[a] /\ o[a] < p[a] + r
    BY <1>3, <2>2, <2>5, NodeOriginFacts
  <2> QED
    BY <2>1, <2>3, <2>4, <2>5
<1> QED
  BY <1>1, <1>6, <1>7

(* There is nothing below a leaf. *)
LEMMA NothingBelowLeaves ==
  ASSUME CommitInv, Inserted, FitsRoot, NEW v \in DOMAIN voxels, voxels[v].type = "leaf",
         NEW w \in DOMAIN voxels, v[1] < w[1],
         NEW o \in Coordinates, NodeOrigin(o, v[1] + 1) = CornerOf(v),
         NodeOrigin(o, w[1] + 1) = CornerOf(w)
  PROVE  FALSE
<1>1. ShapeInv /\ TreeOK /\ Allocated /\ todo = {} /\ leaves \in Inputs
  BY InsertedFacts
<1>2. PICK k, l : k = v[1] + 1 /\ l = w[1]
  OBVIOUS
<1>3. /\ v[1] \in InnerLevels /\ l \in InnerLevels /\ w[2] \in DOMAIN origin[l]
      /\ NodeOrigin(CornerOf(w), l) = origin[l][w[2]]
  BY <1>1, <1>2, CornerFacts
<1>4. /\ k \in 1 .. l /\ l # 0 /\ l \in Nat /\ l \in 0 .. NumLevels /\ l + 1 \in 0 .. NumLevels
      /\ l \in 0 .. l + 1 /\ k \in 0 .. l
  BY <1>2, <1>3, ResFacts DEF InnerLevels
<1>5. origin[l][w[2]] = NodeOrigin(o, l)
  BY <1>2, <1>3, <1>4, NodesNest
<1>6. PICK j \in Leaves : leaves[j].level > l /\ origin[l][w[2]] = NodeOrigin(Offset(j), l)
  BY <1>1, <1>3, <1>4 DEF TreeOK, NodesAreNeeded
<1>7. NodeOrigin(Offset(j), k) = NodeOrigin(o, k)
  BY <1>4, <1>5, <1>6, InsertedFacts, SameNodeAbove
<1>8. k - 1 \in 0 .. leaves[j].level - 1 /\ (k - 1) + 1 = k /\ k # leaves[j].level
  <2>1. leaves[j].level \in Nat
    BY InsertedFacts
  <2> QED
    BY <1>4, <1>6, <2>1
<1>9. PICK u \in DOMAIN voxels : /\ u[1] = k - 1 /\ CornerOf(u) = NodeOrigin(Offset(j), k)
                                 /\ voxels[u].type = "child"
  BY <1>1, <1>8, WayToLeaf
<1>10. u = v
  <2>1. v[1] \in Int
    BY <1>3 DEF InnerLevels
  <2>2. u[1] = v[1]
    BY <1>2, <1>9, <2>1
  <2> QED
    BY <1>1, <1>2, <1>7, <1>9, <2>2, VoxelsAreUnique
<1> QED
  BY <1>9, <1>10

LEMMA ListedVoxels ==
  ASSUME NEW limit \in InnerLevels, NEW b
  PROVE  b \in InnerNodes(limit) <=>
            \E v \in DOMAIN voxels : /\ b = Box(v) /\ v[1] \in 0 .. limit
                                     /\ v[1] = limit \/ voxels[v].type = "leaf"
<1>1. limit < LeafLevel
  BY ResFacts DEF InnerLevels
<1>2. VisitedLevels(limit) = 0 .. limit
  BY <1>1 DEF VisitedLevels
<1> QED
  BY <1>2 DEF InnerNodes

(***************************************************************************)
(* The boxes that the InnerNode observer lists are disjoint, each leaf is  *)
(* inside one of them, and that one's range covers what is read of it.     *)
(***************************************************************************)
THEOREM InnerNodesCover == Spec => [](Aligned => InnerNodesCoverLeaves)
<1>1. ASSUME CommitInv, Aligned, phase = "committed", FitsRoot, NEW limit \in InnerLevels,
             NEW b1 \in InnerNodes(limit), NEW b2 \in InnerNodes(limit), b1 # b2
      PROVE  Cube(b1.origin, b1.res) \cap Cube(b2.origin, b2.res) = {}
  <2> SUFFICES ASSUME NEW c \in Cube(b1.origin, b1.res), c \in Cube(b2.origin, b2.res)
               PROVE  FALSE
    OBVIOUS
  <2>1. PICK v \in DOMAIN voxels : /\ b1 = Box(v) /\ v[1] \in 0 .. limit
                                   /\ v[1] = limit \/ voxels[v].type = "leaf"
    BY ListedVoxels
  <2>2. PICK w \in DOMAIN voxels : /\ b2 = Box(w) /\ w[1] \in 0 .. limit
                                   /\ w[1] = limit \/ voxels[w].type = "leaf"
    BY ListedVoxels
  <2>3. Inserted
    BY <1>1 DEF Inserted
  <2>4. PICK o : o = Minus(c, rootOrigin)
    OBVIOUS
  <2>5. /\ NodeOrigin(o, v[1] + 1) = CornerOf(v) /\ NodeOrigin(o, w[1] + 1) = CornerOf(w)
        /\ c \in Coordinates
    BY <1>1, <2>1, <2>2, <2>3, <2>4, BoxFacts
  <2>6. o \in Coordinates /\ ShapeInv /\ TreeOK
    <3>1. rootOrigin \in Coordinates /\ ShapeInv /\ TreeOK
      BY <1>1, <2>3, InsertedFacts
    <3> QED
      BY <2>4, <2>5, <3>1 DEF Minus, Coordinates
  <2>7. CASE v[1] = w[1]
    BY <1>1, <2>1, <2>2, <2>5, <2>6, <2>7, VoxelsAreUnique
  <2>8. CASE v[1] < w[1]
    <3>1. voxels[v].type = "leaf"
      BY <2>1, <2>2, <2>8
    <3> QED
      BY <1>1, <2>3, <2>5, <2>6, <2>8, <3>1, NothingBelowLeaves
  <2>9. CASE w[1] < v[1]
    <3>1. voxels[w].type = "leaf"
      BY <2>1, <2>2, <2>9
    <3> QED
      BY <1>1, <2>3, <2>5, <2>6, <2>9, <3>1, NothingBelowLeaves
  <2> QED
    BY <2>1, <2>2, <2>7, <2>8, <2>9
<1>2. ASSUME CommitInv, Aligned, phase = "committed", FitsRoot, NEW limit \in InnerLevels,
             NEW i \in Leaves
      PROVE  \E b \in InnerNodes(limit) : /\ Cells(i) \subseteq Cube(b.origin, b.res)
                                          /\ {Sample(c) : c \in Cells(i)} \subseteq b.range
  <2>1. Inserted
    BY <1>2 DEF Inserted
  <2>2. /\ leaves \in Inputs /\ rootOrigin = RootOrigin(Lower) /\ ~Invalid(i)
        /\ leaves[i].level \in 1 .. LeafLevel /\ leaves[i].level \in 0 .. NumLevels
        /\ ShapeInv /\ TreeOK /\ Allocated /\ todo = {} /\ Offset(i) \in Coordinates
        /\ LeafLevel \in Nat \ {0}
    BY <1>2, <2>1, InsertedFacts, ResFacts
  <2>3. PICK m \in 0 .. leaves[i].level - 1 : /\ m \in 0 .. limit
                                              /\ m = limit \/ m + 1 = leaves[i].level
    <3>1. limit \in Nat
      BY DEF InnerLevels
    <3>2. CASE limit <= leaves[i].level - 1
      <4>1. limit \in 0 .. leaves[i].level - 1 /\ limit \in 0 .. limit
        BY <2>2, <3>1, <3>2
      <4> QED
        BY <4>1
    <3>3. CASE limit > leaves[i].level - 1
      <4>1. /\ leaves[i].level - 1 \in 0 .. leaves[i].level - 1
            /\ leaves[i].level - 1 \in 0 .. limit
            /\ (leaves[i].level - 1) + 1 = leaves[i].level
        BY <2>2, <3>1, <3>3
      <4> QED
        BY <4>1
    <3> QED
      BY <2>2, <3>1, <3>2, <3>3
  <2>4. PICK v \in DOMAIN voxels :
           /\ v[1] = m /\ CornerOf(v) = NodeOrigin(Offset(i), m + 1)
           /\ IF m + 1 = leaves[i].level THEN voxels[v] = LeafPtr(i)
                                         ELSE voxels[v].type = "child"
    BY <2>2, WayToLeaf
  <2>5. Box(v) \in InnerNodes(limit)
    <3>1. m = limit \/ voxels[v].type = "leaf"
      BY <2>3, <2>4 DEF LeafPtr
    <3> QED
      BY <2>3, <2>4, <3>1, ListedVoxels
  <2>6. ASSUME NEW c \in Cells(i)
        PROVE  /\ c \in Coordinates /\ InLeaf(c, i)
               /\ c \in Cube(Box(v).origin, Box(v).res)
    <3>1. c \in Coordinates /\ InLeaf(c, i)
      BY <2>2, CellsFacts
    <3>2. PICK o : o = Minus(c, rootOrigin)
      OBVIOUS
    <3>3. /\ o \in Coordinates /\ NodeOrigin(o, leaves[i].level) = Offset(i)
          /\ NodeOrigin(Offset(i), leaves[i].level) = Offset(i)
      BY <1>2, <2>2, <3>1, <3>2, CellsOfLeaf, AlignedOffset
    <3>4. m + 1 \in 0 .. leaves[i].level
      BY <2>2
    <3>5. NodeOrigin(o, m + 1) = NodeOrigin(Offset(i), m + 1)
      BY <2>2, <3>3, <3>4, SameNodeAbove
    <3> QED
      BY <1>2, <2>1, <2>4, <3>1, <3>2, <3>5, BoxFacts
  <2>7. NeighbourhoodSamples(i) \subseteq range[v]
    <3>1. v \in Visited(i)
      BY <1>2, <2>1, <2>4, WayIsVisited
    <3> QED
      BY <1>2, <3>1, VisitedRanges
  <2>8. ASSUME NEW c \in Cells(i) PROVE Sample(c) \in NeighbourhoodSamples(i)
    <3>1. c \in Coordinates /\ InLeaf(c, i)
      BY <2>6
    <3>2. /\ leaves[i].format = "TILE" => Sample(c) = <<"tile", i>>
          /\ leaves[i].format # "TILE" => Sample(c) =
               <<"cell", i, [a \in Axes |-> (c[a] - rootOrigin[a]) % Res[LeafLevel]]>>
      BY <1>2, <2>1, <3>1, SampleFacts
    <3>3. PICK d : d = [a \in Axes |-> 0]
      OBVIOUS
    <3>4. Neighbour(i, d) = leaves[i].origin
      <4>1. leaves[i].origin \in Coordinates /\ Res[LeafLevel] \in Nat
        BY <2>2, InputFacts, LeafResFacts
      <4>2. \A a \in Axes : leaves[i].origin[a] \in Int /\ 0 * Res[LeafLevel] = 0
        BY <4>1 DEF Coordinates
      <4>3. \A a \in Axes : leaves[i].origin[a] + d[a] * Res[LeafLevel] = leaves[i].origin[a]
        BY <3>3, <4>2
      <4> QED
        BY <4>1, <4>3 DEF Neighbour, Coordinates
    <3>5. Neighbour(i, d) \in Coordinates /\ InLeaf(Neighbour(i, d), i)
      <4>1. leaves[i].origin \in Coordinates /\ Extent(i) \in Nat \ {0}
        BY <2>2, InputFacts
      <4>2. \A a \in Axes : leaves[i].origin[a] \in Int
        BY <4>1 DEF Coordinates
      <4> QED
        BY <3>4, <4>1, <4>2 DEF InLeaf
    <3>6. d \in [Axes -> {-1, 0, 1}]
      BY <3>3
    <3>7. Sample(c) \in NodeSamples(i, d)
      <4>1. CASE leaves[i].format = "TILE"
        <5>1. NodeSamples(i, d) = {<<"tile", i>>}
          BY <1>2, <2>1, <3>5, <4>1, NodeSamplesFacts
        <5> QED
          BY <3>2, <4>1, <5>1
      <4>2. CASE leaves[i].format # "TILE"
        <5>1. PICK y : y = [a \in Axes |-> (c[a] - rootOrigin[a]) % Res[LeafLevel]]
          OBVIOUS
        <5>2. NodeSamples(i, d) = {<<"cell", i, x>> :
                                     x \in {z \in [Axes -> 0 .. Res[LeafLevel] - 1] :
                                              \A a \in Axes : z[a] \in Reach(d[a])}}
          BY <1>2, <2>1, <3>5, <4>2, NodeSamplesFacts
        <5>3. \A a \in Axes : y[a] \in 0 .. Res[LeafLevel] - 1
          <6> TAKE a \in Axes
          <6>1. /\ c[a] - rootOrigin[a] \in Int /\ Res[LeafLevel] \in Nat \ {0}
            BY <1>2, <2>1, <3>1, InsertedFacts, LeafResFacts DEF Coordinates
          <6> QED
            BY <5>1, <6>1
        <5>4. y \in {z \in [Axes -> 0 .. Res[LeafLevel] - 1] :
                        \A a \in Axes : z[a] \in Reach(d[a])}
          BY <3>3, <5>1, <5>3, ReachFacts
        <5> QED
          BY <3>2, <4>2, <5>1, <5>2, <5>4
      <4> QED
        BY <4>1, <4>2
    <3> QED
      BY <3>6, <3>7 DEF NeighbourhoodSamples
  <2>9. Box(v).range = range[v]
    BY DEF Box
  <2> QED
    BY <2>5, <2>6, <2>7, <2>8, <2>9
<1>3. ASSUME CommitInv, Aligned PROVE InnerNodesCoverLeaves
  BY <1>1, <1>2, <1>3 DEF InnerNodesCoverLeaves
<1> QED
  BY <1>3, CommitInvariance, PTL

-----------------------------------------------------------------------------
(***************************************************************************)
(* The interval iterator.  The rays it is proved for are in general        *)
(* position: none starts on a side of a voxel that it leaves through, and  *)
(* none meets two sides at once.  The sides of voxels are at multiples of  *)
(* VoxelWidth.                                                             *)
(***************************************************************************)
OnPlane(t, a) == ray.dir[a] # 0 /\ Position(t)[a] % VoxelWidth = 0

GeneralPosition ==
    /\ \A a \in Axes :
          ray.dir[a] < 0 /\ ray.org[a] % VoxelWidth = 0 => IntersectBox(ray).lo > 0
    /\ \A t \in 0 .. tMax - 1 : \A a, b \in Axes : OnPlane(t, a) /\ OnPlane(t, b) => a = b

RayOK ==
    /\ ray \in [org : [Axes -> Int], dir : [Axes -> -2 .. 2],
                tRange : [lo : Nat, hi : 0 .. Inf - 1],
                hint : Int, want : SUBSET Leaves]
    /\ \A a \in Axes :
          ray.dir[a] \in {-2, 2} => ray.org[a] % 2 = 0 /\ VoxelWidth % 2 = 0

(* the bounding box of the leaves, in domain space *)
LowerOffset == Minus(Lower, rootOrigin)
UpperOffset == Minus(Upper, rootOrigin)

(* the ray has come into the box at t, and leaves it at tMax *)
Entered(t) ==
    \A a \in Axes :
        /\ ray.dir[a] > 0 => VoxelWidth * LowerOffset[a] <= Position(t)[a]
        /\ ray.dir[a] < 0 => Position(t)[a] <= VoxelWidth * UpperOffset[a]

LeavesAtMax ==
    \A a \in Axes :
        /\ ray.dir[a] > 0 => Position(tMax)[a] <= VoxelWidth * UpperOffset[a]
        /\ ray.dir[a] < 0 => VoxelWidth * LowerOffset[a] <= Position(tMax)[a]
        /\ ray.dir[a] = 0 => /\ VoxelWidth * LowerOffset[a] <= ray.org[a]
                             /\ ray.org[a] < VoxelWidth * UpperOffset[a]

(* the cell contains the ray at t, which may have come to a side *)
InCell(t, c, l) ==
    \A a \in Axes :
        /\ VoxelWidth * c[a] <= Position(t)[a]
        /\ Position(t)[a] <= VoxelWidth * (c[a] + CellRes(l))
        /\ ray.dir[a] = 0 \/ t = 0 => Position(t)[a] < VoxelWidth * (c[a] + CellRes(l))

IsCell(t, c, l) ==
    c \in [Axes -> Nat] /\ NodeOrigin(c, l + 1) = c /\ InCell(t, c, l)

(* the side across axis a that the ray leaves a cell through, and when *)
Exit(c, l, a) == IF ray.dir[a] < 0 THEN c[a] ELSE c[a] + CellRes(l)

Exits(t, c, l, e) ==
    /\ e \in [Axes -> Nat]
    /\ \A a \in Axes :
          IF ray.dir[a] = 0 THEN e[a] = Inf
          ELSE t <= e[a] /\ Position(e[a])[a] = VoxelWidth * Exit(c, l, a)

Within(c, d, l) == \A a \in Axes : d[a] <= c[a] /\ c[a] < d[a] + CellRes(l)

(* The state of the DDA inside the box: the cell of each level contains the *)
(* ray, and the cell of the level below unless that is on level gap.       *)
Nested(d, gap) ==
    /\ \A l \in 0 .. depth : IsCell(d.t, d.idx[l], l) /\ Exits(d.t, d.idx[l], l, d.tNext[l])
    /\ \A l \in 0 .. depth - 1 : l + 1 # gap => Within(d.idx[l + 1], d.idx[l], l)

(* The ray came into the cell of level l across axis a, from the cell before, *)
(* which was in the cell of the level above.                               *)
Before(d, l, a) == [d.idx[l] EXCEPT ![a] = @ - Sign(ray.dir[a]) * CellRes(l)]

Entrance(c, l, a) == IF ray.dir[a] > 0 THEN c[a] ELSE c[a] + CellRes(l)

CameThrough(d, l, a) ==
    /\ ray.dir[a] # 0
    /\ Position(d.t)[a] = VoxelWidth * Entrance(d.idx[l], l, a)
    /\ l > 0 => Within(Before(d, l, a), d.idx[l - 1], l - 1)

(* Behind the box the DDA never comes back. *)
Late(d) ==
    /\ d.t >= tMax
    /\ \A l \in 0 .. depth : d.tNext[l] \in [Axes -> Nat] /\ \A a \in Axes : d.tNext[l][a] >= tMax

IsDda(d) ==
    /\ d = [t |-> d.t, idx |-> d.idx, tNext |-> d.tNext]
    /\ d.t \in Nat
    /\ d.idx \in [0 .. depth -> [Axes -> Int]]
    /\ d.tNext \in [0 .. depth -> [Axes -> Nat]]

(* what is known of a ray that meets the box *)
Course ==
    /\ RayOK /\ depth \in LevelsDown /\ tMax \in 0 .. Inf - 1 /\ LeavesAtMax /\ GeneralPosition
    /\ IntersectBox(ray).lo \in Int
    /\ leaves \in Inputs /\ rootOrigin = RootOrigin(Lower)

(* t is inside the box, or behind it *)
Reached(t) == t \in Nat /\ Entered(t) /\ IntersectBox(ray).lo <= t

-----------------------------------------------------------------------------
(* Where a ray is. *)
LEMMA PositionFacts ==
  ASSUME RayOK, NEW a \in Axes
  PROVE  /\ ray.org[a] \in Int /\ ray.dir[a] \in {-2, -1, 0, 1, 2}
         /\ \A s \in Int : /\ Position(s)[a] = ray.org[a] + s * ray.dir[a]
                           /\ Position(s)[a] \in Int
         /\ VoxelWidth \in Nat \ {0, 1} /\ Inf \in Nat \ {0}
<1>1. ray.org[a] \in Int /\ ray.dir[a] \in -2 .. 2 /\ ray.tRange.hi \in 0 .. Inf - 1
  BY DEF RayOK
<1>2. VoxelWidth \in Nat \ {0, 1} /\ Inf \in Nat
  BY IteratorAssumption
<1>3. \A s : Position(s)[a] = ray.org[a] + s * ray.dir[a]
  BY DEF Position
<1> QED
  BY <1>1, <1>2, <1>3

(* It moves forward along dir. *)
LEMMA PositionOrder ==
  ASSUME RayOK, NEW a \in Axes, NEW s \in Int, NEW u \in Int
  PROVE  /\ ray.dir[a] > 0 => (s <= u <=> Position(s)[a] <= Position(u)[a])
         /\ ray.dir[a] < 0 => (s <= u <=> Position(u)[a] <= Position(s)[a])
         /\ ray.dir[a] = 0 => Position(s)[a] = ray.org[a]
<1> DEFINE o == ray.org[a]
           d == ray.dir[a]
<1>1. o \in Int /\ d \in {-2, -1, 0, 1, 2}
  BY PositionFacts
<1>2. Position(s)[a] = o + s * d /\ Position(u)[a] = o + u * d
  BY PositionFacts
<1> HIDE DEF o, d
<1>3. /\ d > 0 => (s <= u <=> o + s * d <= o + u * d)
      /\ d < 0 => (s <= u <=> o + u * d <= o + s * d)
      /\ d = 0 => o + s * d = o
  <2>1. CASE d = 1 BY <1>1, <2>1
  <2>2. CASE d = 2 BY <1>1, <2>2
  <2>3. CASE d = 0 BY <1>1, <2>3
  <2>4. CASE d = -1 BY <1>1, <2>4
  <2>5. CASE d = -2 BY <1>1, <2>5
  <2> QED BY <1>1, <2>1, <2>2, <2>3, <2>4, <2>5
<1> QED
  BY <1>2, <1>3 DEF o, d

(* Multiples of an even number are even. *)
LEMMA EvenMultiple ==
  ASSUME NEW w \in Nat, w % 2 = 0, NEW p \in Int
  PROVE  (w * p) % 2 = 0
<1>1. PICK k \in Int : w = 2 * k
  BY w = 2 * (w \div 2)
<1>2. w * p = 2 * (k * p) /\ k * p \in Int
  BY <1>1
<1>3. \A n \in Int : (2 * n) % 2 = 0
  OBVIOUS
<1> QED
  BY <1>2, <1>3

(* A ray crosses the sides of voxels at integer t. *)
LEMMA PlaneTime ==
  ASSUME RayOK, NEW a \in Axes, ray.dir[a] # 0, NEW p \in Int,
         NEW s, s = Divide(VoxelWidth * p - ray.org[a], ray.dir[a])
  PROVE  s \in Int /\ Position(s)[a] = VoxelWidth * p
<1> DEFINE o == ray.org[a]
           d == ray.dir[a]
           w == VoxelWidth * p
<1>1. o \in Int /\ d \in {-2, -1, 1, 2} /\ VoxelWidth \in Nat
  BY PositionFacts
<1>2. w \in Int
  BY <1>1
<1>3. d \in {-2, 2} => o % 2 = 0 /\ w % 2 = 0
  BY <1>1, EvenMultiple DEF RayOK
<1>4. s = IF d > 0 THEN (w - o) \div d ELSE (-(w - o)) \div (-d)
  BY DEF Divide
<1> HIDE DEF o, d, w
<1>5. s \in Int /\ o + s * d = w
  <2>1. CASE d = 1 BY <1>1, <1>2, <1>4, <2>1
  <2>2. CASE d = 2
    <3>1. o % 2 = 0 /\ w % 2 = 0 /\ s = (w - o) \div 2
      BY <1>3, <1>4, <2>2
    <3>2. w - o = 2 * s /\ s \in Int
      BY <1>1, <1>2, <3>1
    <3> QED BY <1>1, <1>2, <2>2, <3>2
  <2>3. CASE d = -1
    <3>1. s = (-(w - o)) \div 1
      BY <1>4, <2>3
    <3> QED BY <1>1, <1>2, <2>3, <3>1
  <2>4. CASE d = -2
    <3>1. o % 2 = 0 /\ w % 2 = 0 /\ s = (-(w - o)) \div 2
      BY <1>3, <1>4, <2>4
    <3>2. o - w = 2 * s /\ s \in Int
      BY <1>1, <1>2, <3>1
    <3> QED BY <1>1, <1>2, <2>4, <3>2
  <2> QED BY <1>1, <2>1, <2>2, <2>3, <2>4
<1>6. Position(s)[a] = o + s * d
  BY <1>5, PositionFacts DEF o, d
<1> QED
  BY <1>5, <1>6 DEF w

(* It takes it the same time through all cells of a level. *)
LEMMA TDeltaFacts ==
  ASSUME RayOK, NEW a \in Axes, ray.dir[a] # 0, NEW l \in LevelsDown
  PROVE  /\ TDelta(l, a) \in Nat \ {0}
         /\ \A s \in Int : Position(s + TDelta(l, a))[a] =
               Position(s)[a] + Sign(ray.dir[a]) * (VoxelWidth * CellRes(l))
<1> DEFINE o == ray.org[a]
           d == ray.dir[a]
           w == VoxelWidth * CellRes(l)
           k == TDelta(l, a)
<1>1. o \in Int /\ d \in {-2, -1, 1, 2} /\ VoxelWidth \in Nat \ {0, 1}
  BY PositionFacts
<1>2. w \in Nat \ {0} /\ CellRes(l) \in Nat \ {0}
  BY <1>1, LevelFacts DEF CellRes
<1>3. ASSUME d \in {-2, 2} PROVE w % 2 = 0
  <2>1. VoxelWidth % 2 = 0 /\ VoxelWidth \in Nat /\ CellRes(l) \in Int
    BY <1>1, <1>2, <1>3 DEF RayOK
  <2> QED
    BY <2>1, EvenMultiple
<1>4. k = w \div (Sign(d) * d)
  BY DEF TDelta
<1>5. Sign(d) = (IF d < 0 THEN -1 ELSE 1)
  BY DEF Sign
<1> HIDE DEF o, d, w, k
<1>6. k \in Nat \ {0} /\ k * d = Sign(d) * w /\ Sign(d) \in {-1, 1}
  <2>1. CASE d = 1 BY <1>1, <1>2, <1>4, <1>5, <2>1
  <2>2. CASE d = 2 BY <1>1, <1>2, <1>3, <1>4, <1>5, <2>2
  <2>3. CASE d = -1
    <3>1. Sign(d) = -1 /\ Sign(d) * d = 1
      BY <1>5, <2>3
    <3> QED BY <1>2, <1>4, <2>3, <3>1
  <2>4. CASE d = -2
    <3>1. Sign(d) = -1 /\ Sign(d) * d = 2
      BY <1>5, <2>4
    <3> QED BY <1>2, <1>3, <1>4, <2>4, <3>1
  <2> QED BY <1>1, <2>1, <2>2, <2>3, <2>4
<1>7. ASSUME NEW s \in Int
      PROVE  Position(s + k)[a] = Position(s)[a] + Sign(d) * w
  <2>1. s + k \in Int
    BY <1>6
  <2>2. Position(s + k)[a] = o + (s + k) * d /\ Position(s)[a] = o + s * d
    BY <2>1, PositionFacts DEF o, d
  <2>3. (s + k) * d = s * d + k * d
    BY <1>1, <1>6
  <2>4. s * d \in Int /\ k * d \in Int
    BY <1>1, <1>6
  <2> QED
    BY <1>1, <1>6, <2>2, <2>3, <2>4
<1> QED
  BY <1>6, <1>7 DEF k, w, d

(* Planes are in the order of their numbers. *)
LEMMA PlaneOrder ==
  ASSUME NEW p \in Int, NEW q \in Int
  PROVE  /\ VoxelWidth * p \in Int /\ VoxelWidth * q \in Int
         /\ p <= q <=> VoxelWidth * p <= VoxelWidth * q
         /\ p < q => VoxelWidth * p + VoxelWidth <= VoxelWidth * q
         /\ VoxelWidth * (p + q) = VoxelWidth * p + VoxelWidth * q
         /\ VoxelWidth * (p - q) = VoxelWidth * p - VoxelWidth * q
<1>1. VoxelWidth \in Nat \ {0}
  BY IteratorAssumption
<1>2. p < q => VoxelWidth * p + VoxelWidth <= VoxelWidth * q
  BY <1>1, Multiples
<1>3. q < p => VoxelWidth * q + VoxelWidth <= VoxelWidth * p
  BY <1>1, Multiples
<1>4. VoxelWidth * p \in Int /\ VoxelWidth * q \in Int
  BY <1>1
<1>5. /\ VoxelWidth * (p + q) = VoxelWidth * p + VoxelWidth * q
      /\ VoxelWidth * (p - q) = VoxelWidth * p - VoxelWidth * q
  BY <1>1
<1>6. p = q => VoxelWidth * p = VoxelWidth * q
  OBVIOUS
<1>7. p < q \/ p = q \/ q < p
  OBVIOUS
<1> DEFINE v == VoxelWidth * p
           w == VoxelWidth * q
<1>8. /\ v \in Int /\ w \in Int /\ (p < q => v + VoxelWidth <= w) /\ (q < p => w + VoxelWidth <= v)
      /\ p = q => v = w
  BY <1>2, <1>3, <1>4, <1>6
<1> HIDE DEF v, w
<1>9. p <= q <=> v <= w
  BY <1>1, <1>7, <1>8
<1> QED
  BY <1>2, <1>4, <1>5, <1>9 DEF v, w

LEMMA CellResFacts ==
  ASSUME NEW l \in LevelsDown
  PROVE  CellRes(l) \in Nat \ {0} /\ l + 1 \in 0 .. NumLevels /\ CellRes(l) = Res[l + 1]
BY LevelFacts DEF CellRes

(* the voxel of the lowest level around a position, kept inside the root *)
VoxelOf(pos) == [a \in Axes |-> IF pos[a] < 0 THEN 0 ELSE pos[a] \div VoxelWidth]

LEMMA VoxelOfFacts ==
  ASSUME NEW pos \in Coordinates
  PROVE  /\ VoxelOf(pos) \in [Axes -> Nat] /\ VoxelOf(pos) \in Coordinates
         /\ \A a \in Axes :
               /\ pos[a] < 0 => VoxelOf(pos)[a] = 0
               /\ pos[a] >= 0 => /\ VoxelWidth * VoxelOf(pos)[a] <= pos[a]
                                 /\ pos[a] < VoxelWidth * (VoxelOf(pos)[a] + 1)
<1>1. VoxelWidth \in Nat \ {0}
  BY IteratorAssumption
<1>2. ASSUME NEW a \in Axes
      PROVE  /\ VoxelOf(pos)[a] \in Nat
             /\ pos[a] < 0 => VoxelOf(pos)[a] = 0
             /\ pos[a] >= 0 => /\ VoxelWidth * VoxelOf(pos)[a] <= pos[a]
                               /\ pos[a] < VoxelWidth * (VoxelOf(pos)[a] + 1)
  <2>1. pos[a] \in Int
    BY DEF Coordinates
  <2>2. VoxelOf(pos)[a] = IF pos[a] < 0 THEN 0 ELSE pos[a] \div VoxelWidth
    BY DEF VoxelOf
  <2>3. CASE pos[a] < 0
    BY <2>1, <2>2, <2>3
  <2>4. CASE ~(pos[a] < 0)
    <3> DEFINE n == pos[a]
               q == n \div VoxelWidth
    <3>1. n \in Nat /\ VoxelOf(pos)[a] = q
      BY <2>1, <2>2, <2>4
    <3>0. n \in Int
      BY <3>1
    <3>2. /\ q \in Int /\ n % VoxelWidth \in 0 .. VoxelWidth - 1
          /\ n = VoxelWidth * q + (n % VoxelWidth)
      BY <1>1, <3>0, Division
    <3>3. Floor(n, VoxelWidth) \in Nat /\ Floor(n, VoxelWidth) = VoxelWidth * q
      BY <1>1, <3>0, <3>1, FloorOfNat, FloorFacts
    <3> HIDE DEF n, q
    <3>4. q >= 0
      <4> SUFFICES ASSUME q < 0 PROVE FALSE
        BY <3>2
      <4>1. VoxelWidth * q + VoxelWidth <= VoxelWidth * 0 /\ VoxelWidth * q \in Int
        BY <3>2, PlaneOrder
      <4> QED
        BY <1>1, <3>3, <4>1
    <3>5. VoxelWidth * (q + 1) = VoxelWidth * q + VoxelWidth /\ VoxelWidth * q \in Int
      BY <1>1, <3>2
    <3>6. VoxelWidth * q <= n /\ n < VoxelWidth * (q + 1)
      BY <1>1, <3>1, <3>2, <3>5
    <3> QED
      BY <2>1, <2>4, <3>1, <3>2, <3>4, <3>6 DEF n
  <2> QED
    BY <2>3, <2>4
<1>3. VoxelOf(pos) \in [Axes -> Nat]
  BY <1>2 DEF VoxelOf
<1> QED
  BY <1>2, <1>3 DEF Coordinates

LEMMA ClampFacts ==
  ASSUME NEW pos \in Coordinates, NEW l \in LevelsDown
  PROVE  /\ ClampToCell(pos, l) = NodeOrigin(VoxelOf(pos), l + 1)
         /\ ClampToCell(pos, l) \in [Axes -> Nat]
         /\ NodeOrigin(ClampToCell(pos, l), l + 1) = ClampToCell(pos, l)
         /\ \A a \in Axes : /\ ClampToCell(pos, l)[a] <= VoxelOf(pos)[a]
                            /\ VoxelOf(pos)[a] < ClampToCell(pos, l)[a] + CellRes(l)
<1>1. ClampToCell(pos, l) = NodeOrigin(VoxelOf(pos), l + 1)
  BY DEF ClampToCell, NodeOrigin, VoxelOf, CellRes
<1>2. VoxelOf(pos) \in [Axes -> Nat] /\ VoxelOf(pos) \in Coordinates
  BY VoxelOfFacts
<1>3. l + 1 \in 0 .. NumLevels /\ CellRes(l) = Res[l + 1]
  BY CellResFacts
<1>4. l + 1 \in 0 .. l + 1
  BY <1>3
<1>5. NodeOrigin(NodeOrigin(VoxelOf(pos), l + 1), l + 1) = NodeOrigin(VoxelOf(pos), l + 1)
  BY <1>2, <1>3, <1>4, NodesNest
<1> QED
  BY <1>1, <1>2, <1>3, <1>5, NodeOriginFacts

(* The cells of a position on two levels are one inside the other. *)
LEMMA ClampsNest ==
  ASSUME NEW pos \in Coordinates, NEW l \in LevelsDown, l + 1 \in LevelsDown
  PROVE  Within(ClampToCell(pos, l + 1), ClampToCell(pos, l), l)
<1> DEFINE n == VoxelOf(pos)
           p == ClampToCell(pos, l + 1)
           q == ClampToCell(pos, l)
<1>1. n \in Coordinates /\ p = NodeOrigin(n, l + 1 + 1) /\ q = NodeOrigin(n, l + 1)
  BY VoxelOfFacts, ClampFacts
<1>2. l + 1 \in 0 .. l + 1 + 1 /\ l + 1 + 1 \in 0 .. NumLevels /\ CellRes(l) = Res[l + 1]
      /\ l + 1 \in 0 .. NumLevels
  BY CellResFacts
<1>3. p \in Coordinates
  BY ClampFacts DEF Coordinates
<1> HIDE DEF n, p, q
<1>4. q = NodeOrigin(p, l + 1)
  BY <1>1, <1>2, NodesNest
<1>5. \A a \in Axes : q[a] <= p[a] /\ p[a] < q[a] + CellRes(l)
  BY <1>2, <1>3, <1>4, NodeOriginFacts
<1> QED
  BY <1>5 DEF Within, p, q

-----------------------------------------------------------------------------
(* The box is in the root node, and the ray does not leave it before tMax. *)
LEMMA OffsetsOfBox ==
  ASSUME Course, NEW a \in Axes
  PROVE  /\ LowerOffset[a] \in Nat /\ UpperOffset[a] \in Int
         /\ 0 <= VoxelWidth * LowerOffset[a] /\ VoxelWidth * LowerOffset[a] \in Int
<1>1. Lower[a] \in Int /\ Upper[a] \in Int
  BY BoundsFacts DEF Course
<1>2. rootOrigin[a] \in Int /\ rootOrigin[a] <= Lower[a]
  BY RootFacts DEF Course, Coordinates
<1>3. LowerOffset[a] = Lower[a] - rootOrigin[a] /\ UpperOffset[a] = Upper[a] - rootOrigin[a]
  BY DEF LowerOffset, UpperOffset, Minus
<1>4. LowerOffset[a] \in Nat /\ UpperOffset[a] \in Int
  BY <1>1, <1>2, <1>3
<1>5. PICK p \in Nat : p = LowerOffset[a]
  BY <1>4
<1>6. 0 <= VoxelWidth * p /\ VoxelWidth * p \in Int
  BY IteratorAssumption
<1> QED
  BY <1>4, <1>5, <1>6

LEMMA InsideIsPositive ==
  ASSUME Course, NEW t \in Int, Entered(t), t < tMax, NEW a \in Axes
  PROVE  0 <= Position(t)[a] /\ (ray.dir[a] < 0 => 0 < Position(t)[a])
<1>1. 0 <= VoxelWidth * LowerOffset[a] /\ VoxelWidth * LowerOffset[a] \in Int
  BY OffsetsOfBox
<1>2. RayOK /\ tMax \in Int
  BY DEF Course
<1>3. ray.dir[a] \in {-2, -1, 0, 1, 2} /\ Position(t)[a] \in Int /\ Position(tMax)[a] \in Int
      /\ ray.org[a] \in Int
  BY <1>2, PositionFacts
<1>4. CASE ray.dir[a] > 0
  <2>1. VoxelWidth * LowerOffset[a] <= Position(t)[a]
    BY <1>4 DEF Entered
  <2> QED BY <1>1, <1>3, <1>4, <2>1
<1>5. CASE ray.dir[a] = 0
  <2>1. VoxelWidth * LowerOffset[a] <= ray.org[a] /\ Position(t)[a] = ray.org[a]
    BY <1>2, <1>5, PositionOrder DEF Course, LeavesAtMax
  <2> QED BY <1>1, <1>3, <1>5, <2>1
<1>6. CASE ray.dir[a] < 0
  <2>1. VoxelWidth * LowerOffset[a] <= Position(tMax)[a]
    BY <1>6 DEF Course, LeavesAtMax
  <2>2. ~(tMax <= t)
    BY <1>2
  <2>3. ~(Position(t)[a] <= Position(tMax)[a])
    BY <1>2, <1>6, <2>2, PositionOrder
  <2> QED BY <1>1, <1>3, <2>1, <2>3
<1> QED
  BY <1>3, <1>4, <1>5, <1>6

(* A later t is inside the box as well, or behind it. *)
LEMMA ReachedStays ==
  ASSUME Course, NEW t, Reached(t), NEW u \in Nat, t <= u
  PROVE  Reached(u)
<1>1. RayOK /\ t \in Int /\ u \in Int
  BY DEF Course, Reached
<1>2. ASSUME NEW a \in Axes
      PROVE  /\ ray.dir[a] > 0 => VoxelWidth * LowerOffset[a] <= Position(u)[a]
             /\ ray.dir[a] < 0 => Position(u)[a] <= VoxelWidth * UpperOffset[a]
  <2>1. /\ VoxelWidth * LowerOffset[a] \in Int
        /\ VoxelWidth * UpperOffset[a] \in Int
        /\ Position(t)[a] \in Int /\ Position(u)[a] \in Int
    BY <1>1, OffsetsOfBox, PlaneOrder, PositionFacts
  <2>2. /\ ray.dir[a] > 0 => VoxelWidth * LowerOffset[a] <= Position(t)[a]
        /\ ray.dir[a] < 0 => Position(t)[a] <= VoxelWidth * UpperOffset[a]
    BY DEF Reached, Entered
  <2>3. /\ ray.dir[a] > 0 => Position(t)[a] <= Position(u)[a]
        /\ ray.dir[a] < 0 => Position(u)[a] <= Position(t)[a]
    BY <1>1, PositionOrder
  <2> QED BY <2>1, <2>2, <2>3
<1>3. IntersectBox(ray).lo \in Int
  BY DEF Course
<1>4. IntersectBox(ray).lo <= t
  BY DEF Reached
<1> QED
  BY <1>1, <1>2, <1>3, <1>4 DEF Reached, Entered

-----------------------------------------------------------------------------
(* When a ray meets a plane that it does not start on. *)
LEMMA IntersectionFacts ==
  ASSUME RayOK, NEW a \in Axes, NEW p \in Int
  PROVE  /\ ray.dir[a] = 0 => Intersection(p, a) = Inf
         /\ VoxelWidth * p = ray.org[a] => Intersection(p, a) = Inf
         /\ ray.dir[a] # 0 /\ VoxelWidth * p # ray.org[a] =>
               /\ Intersection(p, a) \in Int
               /\ Position(Intersection(p, a))[a] = VoxelWidth * p
BY PlaneTime DEF Intersection

(* The exits from a cell that contains the ray. *)
LEMMA ExitFacts ==
  ASSUME Course, NEW t, Reached(t), NEW l \in LevelsDown, NEW c \in [Axes -> Nat],
         InCell(t, c, l)
  PROVE  Exits(t, c, l, ExitTimes(c, l))
<1>1. RayOK /\ t \in Nat /\ t \in Int /\ IntersectBox(ray).lo \in Int /\ IntersectBox(ray).lo <= t
  BY DEF Course, Reached
<1>2. CellRes(l) \in Nat \ {0} /\ VoxelWidth \in Nat \ {0, 1}
  BY CellResFacts, IteratorAssumption
<1>3. ASSUME NEW a \in Axes
      PROVE  LET e == ExitTimes(c, l)[a]
             IN  /\ e \in Nat
                 /\ IF ray.dir[a] = 0 THEN e = Inf
                    ELSE t <= e /\ Position(e)[a] = VoxelWidth * Exit(c, l, a)
  <2> DEFINE e == ExitTimes(c, l)[a]
             p == Exit(c, l, a)
  <2>1. e = Intersection(p, a)
    BY DEF ExitTimes, Exit
  <2>2. c[a] \in Nat /\ p = (IF ray.dir[a] < 0 THEN c[a] ELSE c[a] + CellRes(l))
    BY DEF Exit
  <2>3. p \in Int
    BY <1>2, <2>2
  <2>4. /\ ray.org[a] \in Int /\ ray.dir[a] \in {-2, -1, 0, 1, 2}
        /\ Position(t)[a] \in Int /\ Position(0)[a] = ray.org[a] /\ Inf \in Nat
    <3>1. 0 \in Int /\ Position(0)[a] = ray.org[a] + 0 * ray.dir[a]
      BY <1>1, PositionFacts
    <3> QED BY <1>1, <3>1, PositionFacts
  <2>5. VoxelWidth * p \in Int /\ VoxelWidth * c[a] \in Int
    BY <2>2, <2>3, PlaneOrder
  <2> HIDE DEF e
  <2>6. CASE ray.dir[a] = 0
    <3>1. e = Inf
      BY <1>1, <2>1, <2>3, <2>6, IntersectionFacts
    <3> QED BY <2>4, <2>6, <3>1 DEF e
  <2>7. CASE ray.dir[a] > 0
    <3>1. p = c[a] + CellRes(l)
      BY <2>2, <2>4, <2>7
    <3>2. /\ Position(t)[a] <= VoxelWidth * p
          /\ t = 0 => Position(t)[a] < VoxelWidth * p
      BY <3>1 DEF InCell
    <3>3. VoxelWidth * p # ray.org[a]
      <4> SUFFICES ASSUME VoxelWidth * p = Position(0)[a] PROVE FALSE
        BY <2>4
      <4>1. Position(t)[a] <= Position(0)[a]
        BY <3>2
      <4>2. t <= 0
        BY <1>1, <2>7, <4>1, PositionOrder
      <4>3. t = 0
        BY <1>1, <4>2
      <4> QED BY <2>4, <3>2, <4>3
    <3>4. e \in Int /\ Position(e)[a] = VoxelWidth * p
      BY <1>1, <2>1, <2>3, <2>4, <2>7, <3>3, IntersectionFacts
    <3>5. t <= e
      BY <1>1, <2>7, <3>2, <3>4, PositionOrder
    <3> QED BY <1>1, <2>4, <2>7, <3>4, <3>5 DEF e
  <2>8. CASE ray.dir[a] < 0
    <3>1. p = c[a]
      BY <2>2, <2>4, <2>8
    <3>2. VoxelWidth * p <= Position(t)[a]
      BY <3>1 DEF InCell
    <3>3. VoxelWidth * p # ray.org[a]
      <4> SUFFICES ASSUME VoxelWidth * p = Position(0)[a] PROVE FALSE
        BY <2>4
      <4>1. Position(0)[a] <= Position(t)[a]
        BY <3>2
      <4>2. t <= 0
        BY <1>1, <2>8, <4>1, PositionOrder
      <4>3. t = 0
        BY <1>1, <4>2
      <4>4. ray.org[a] % VoxelWidth = 0
        <5>1. PICK q \in Int : q = p
          BY <2>3
        <5>2. VoxelWidth * q + 0 = ray.org[a] /\ 0 \in 0 .. VoxelWidth - 1
          BY <1>2, <2>4, <5>1
        <5>3. (VoxelWidth * q + 0) % VoxelWidth = 0
          BY <1>2, <5>2, DivisionIsUnique
        <5> QED BY <5>2, <5>3
      <4>5. IntersectBox(ray).lo > 0
        BY <2>8, <4>4 DEF Course, GeneralPosition
      <4> QED BY <1>1, <4>3, <4>5
    <3>4. e \in Int /\ Position(e)[a] = VoxelWidth * p
      BY <1>1, <2>1, <2>3, <2>4, <2>8, <3>3, IntersectionFacts
    <3>5. t <= e
      BY <1>1, <2>8, <3>2, <3>4, PositionOrder
    <3> QED BY <1>1, <2>4, <2>8, <3>4, <3>5 DEF e
  <2> QED BY <2>4, <2>6, <2>7, <2>8
<1>4. ExitTimes(c, l) \in [Axes -> Nat]
  BY <1>3 DEF ExitTimes
<1> QED
  BY <1>3, <1>4 DEF Exits

(* A plane that is behind the box. *)
LEMMA LateExit ==
  ASSUME Course, NEW a \in Axes, NEW p \in Int,
         ray.dir[a] > 0 => Position(tMax)[a] <= VoxelWidth * p,
         ray.dir[a] < 0 => VoxelWidth * p <= Position(tMax)[a]
  PROVE  Intersection(p, a) \in Nat /\ Intersection(p, a) >= tMax
<1>1. RayOK /\ tMax \in Nat /\ tMax \in Int
  BY DEF Course
<1>2. Inf \in Nat /\ tMax <= Inf /\ ray.dir[a] \in {-2, -1, 0, 1, 2}
  BY <1>1, PositionFacts, IteratorAssumption DEF Course
<1>3. CASE ray.dir[a] = 0 \/ VoxelWidth * p = ray.org[a]
  BY <1>1, <1>2, <1>3, IntersectionFacts
<1>4. CASE ray.dir[a] # 0 /\ VoxelWidth * p # ray.org[a]
  <2>1. PICK s \in Int : s = Intersection(p, a) /\ Position(s)[a] = VoxelWidth * p
    BY <1>1, <1>4, IntersectionFacts
  <2>2. tMax <= s
    <3>1. CASE ray.dir[a] > 0
      BY <1>1, <2>1, <3>1, PositionOrder
    <3>2. CASE ray.dir[a] < 0
      BY <1>1, <2>1, <3>2, PositionOrder
    <3> QED BY <1>2, <1>4, <3>1, <3>2
  <2> QED BY <1>1, <2>1, <2>2
<1> QED
  BY <1>3, <1>4

(* What is behind the box stays there when the cell is looked up again. *)
LEMMA LateClamp ==
  ASSUME Course, NEW t \in Int, t >= tMax, NEW pos \in Coordinates, NEW l \in LevelsDown,
         \A a \in Axes : /\ ray.dir[a] > 0 => Position(t)[a] <= pos[a]
                         /\ ray.dir[a] < 0 => pos[a] <= Position(t)[a]
  PROVE  LET e == ExitTimes(ClampToCell(pos, l), l)
         IN  e \in [Axes -> Nat] /\ \A a \in Axes : e[a] >= tMax
<1> DEFINE c == ClampToCell(pos, l)
           n == VoxelOf(pos)
<1>1. RayOK /\ tMax \in Nat /\ tMax \in Int /\ CellRes(l) \in Nat \ {0}
  BY CellResFacts DEF Course
<1>2. ASSUME NEW a \in Axes
      PROVE  ExitTimes(c, l)[a] \in Nat /\ ExitTimes(c, l)[a] >= tMax
  <2>1. c[a] \in Nat /\ n[a] \in Nat /\ c[a] <= n[a] /\ n[a] < c[a] + CellRes(l)
    BY ClampFacts, VoxelOfFacts
  <2>2. pos[a] \in Int /\ Position(t)[a] \in Int /\ Position(tMax)[a] \in Int
        /\ ray.dir[a] \in {-2, -1, 0, 1, 2}
    BY <1>1, PositionFacts DEF Coordinates
  <2> DEFINE p == IF ray.dir[a] < 0 THEN c[a] ELSE c[a] + CellRes(l)
  <2>3. ExitTimes(c, l)[a] = Intersection(p, a)
    BY DEF ExitTimes
  <2>4. p \in Int
    BY <1>1, <2>1
  <2>5. /\ pos[a] < 0 => n[a] = 0
        /\ pos[a] >= 0 => VoxelWidth * n[a] <= pos[a] /\ pos[a] < VoxelWidth * (n[a] + 1)
    BY VoxelOfFacts
  <2>6. /\ VoxelWidth * n[a] \in Int /\ VoxelWidth * p \in Int /\ VoxelWidth * (n[a] + 1) \in Int
        /\ n[a] + 1 \in Int
    <3>1. n[a] \in Int /\ n[a] + 1 \in Int /\ VoxelWidth \in Int
      BY <2>1, IteratorAssumption
    <3> HIDE DEF n, p
    <3> QED BY <2>4, <3>1
  <2>7. ASSUME ray.dir[a] > 0 PROVE Position(tMax)[a] <= VoxelWidth * p
    <3>1. Position(tMax)[a] <= Position(t)[a] /\ Position(t)[a] <= pos[a]
      BY <1>1, <2>7, PositionOrder
    <3>2. n[a] + 1 <= p
      BY <1>1, <2>1, <2>2, <2>7
    <3>3. VoxelWidth * (n[a] + 1) <= VoxelWidth * p
      BY <2>4, <2>6, <3>2, PlaneOrder
    <3>4. pos[a] <= VoxelWidth * (n[a] + 1)
      <4>1. CASE pos[a] < 0
        <5>1. VoxelWidth * (n[a] + 1) = VoxelWidth
          BY <2>5, <4>1, IteratorAssumption
        <5> QED BY <2>2, <4>1, <5>1, IteratorAssumption
      <4> QED BY <2>2, <2>5, <2>6, <4>1
    <3> HIDE DEF p, n
    <3> QED BY <2>2, <2>6, <3>1, <3>3, <3>4
  <2>8. ASSUME ray.dir[a] < 0 PROVE VoxelWidth * p <= Position(tMax)[a]
    <3>1. Position(t)[a] <= Position(tMax)[a] /\ pos[a] <= Position(t)[a]
      BY <1>1, <2>8, PositionOrder
    <3>2. p <= n[a] /\ n[a] \in Int
      BY <2>1, <2>8
    <3>3. VoxelWidth * p <= VoxelWidth * n[a]
      BY <2>4, <3>2, PlaneOrder
    <3>4. CASE pos[a] >= 0
      <4> HIDE DEF p, n
      <4> QED BY <2>2, <2>5, <2>6, <3>1, <3>3, <3>4
    <3>5. CASE pos[a] < 0
      <4>1. p = 0 /\ VoxelWidth * p = 0
        BY <2>1, <2>5, <2>8, <3>5, IteratorAssumption
      <4>2. VoxelWidth * LowerOffset[a] <= Position(tMax)[a]
        BY <2>8 DEF Course, LeavesAtMax
      <4> HIDE DEF p, n
      <4> QED BY <2>2, <4>1, <4>2, OffsetsOfBox
    <3> QED BY <2>2, <3>4, <3>5
  <2> HIDE DEF p
  <2> QED
    BY <2>3, <2>4, <2>7, <2>8, LateExit
<1>3. ExitTimes(c, l) \in [Axes -> Nat]
  BY <1>2 DEF ExitTimes
<1> QED
  BY <1>2, <1>3

-----------------------------------------------------------------------------
(* A step goes along an axis that is due first. *)
LEMMA StepAxisFacts ==
  ASSUME NEW d, NEW l, d.tNext[l] \in [Axes -> Nat]
  PROVE  /\ StepAxis(d, l) \in Axes
         /\ \A b \in Axes : d.tNext[l][StepAxis(d, l)] <= d.tNext[l][b]
<1> DEFINE e == d.tNext[l]
           First(a) == \A b \in Axes : e[a] < e[b] \/ (e[a] = e[b] /\ a <= b)
<1>1. IsFiniteSet(Axes) /\ Axes # {} /\ Axes \subseteq Nat
  BY TopologyAssumption, IteratorAssumption
<1>2. PICK m \in Axes : \A b \in Axes : e[m] <= e[b]
  <2>1. e \in [Axes -> Int]
    OBVIOUS
  <2> HIDE DEF e
  <2> QED BY <1>1, <2>1, LeastOfFinite
<1> DEFINE T == {a \in Axes : e[a] = e[m]}
<1>3. T \in SUBSET Nat /\ T # {}
  BY <1>1
<1>4. PICK a \in T : \A b \in T : a <= b
  <2> HIDE DEF T
  <2> QED BY <1>3, LeastNat
<1>5. First(a)
  <2> SUFFICES ASSUME NEW b \in Axes PROVE e[a] < e[b] \/ (e[a] = e[b] /\ a <= b)
    OBVIOUS
  <2>1. e[a] = e[m] /\ e[m] <= e[b] /\ e[m] \in Nat /\ e[b] \in Nat
    BY <1>2
  <2>2. e[b] = e[m] => a <= b
    BY <1>4
  <2> HIDE DEF e
  <2> QED BY <2>1, <2>2
<1>6. a \in Axes
  OBVIOUS
<1>7. StepAxis(d, l) = CHOOSE x \in Axes : First(x)
  BY DEF StepAxis
<1> HIDE DEF First
<1>8. StepAxis(d, l) \in Axes /\ First(StepAxis(d, l))
  BY <1>5, <1>6, <1>7
<1> QED
  BY <1>8 DEF First

(* The record that a step makes. *)
Stepped(d, l, a, x) ==
    /\ IsDda(x) /\ a \in Axes
    /\ x.t = d.tNext[l][a] /\ \A b \in Axes : x.t <= d.tNext[l][b]
    /\ \A k \in 0 .. depth : k # l => x.idx[k] = d.idx[k] /\ x.tNext[k] = d.tNext[k]
    /\ x.idx[l] = [d.idx[l] EXCEPT ![a] = @ + Sign(ray.dir[a]) * CellRes(l)]
    /\ x.tNext[l] = [d.tNext[l] EXCEPT ![a] = @ + TDelta(l, a)]
    /\ TDelta(l, a) \in Nat

LEMMA DdaStepFacts ==
  ASSUME RayOK, depth \in LevelsDown, NEW d, IsDda(d), NEW l \in 0 .. depth
  PROVE  Stepped(d, l, StepAxis(d, l), DdaStep(d, l))
<1>0. PICK a, x : a = StepAxis(d, l) /\ x = DdaStep(d, l)
  OBVIOUS
<1>1. /\ d = [t |-> d.t, idx |-> d.idx, tNext |-> d.tNext]
      /\ d.t \in Nat
      /\ d.idx \in [0 .. depth -> [Axes -> Int]]
      /\ d.tNext \in [0 .. depth -> [Axes -> Nat]]
  BY DEF IsDda
<1>2. d.idx[l] \in [Axes -> Int] /\ d.tNext[l] \in [Axes -> Nat]
  BY <1>1
<1>3. a \in Axes /\ \A b \in Axes : d.tNext[l][a] <= d.tNext[l][b]
  BY <1>0, <1>2, StepAxisFacts
<1>4. l \in LevelsDown /\ CellRes(l) \in Nat \ {0}
  <2>1. l \in LevelsDown
    BY ResFacts DEF LevelsDown
  <2> QED BY <2>1, CellResFacts
<1>5. TDelta(l, a) \in Nat
  <2>1. CASE ray.dir[a] = 0
    BY <2>1, IteratorAssumption DEF TDelta
  <2>2. CASE ray.dir[a] # 0
    BY <1>3, <1>4, <2>2, TDeltaFacts
  <2> QED BY <2>1, <2>2
<1>6. Sign(ray.dir[a]) \in {-1, 0, 1}
  BY <1>3, PositionFacts DEF Sign
<1>7. PICK s \in Int : s = Sign(ray.dir[a]) * CellRes(l)
  BY <1>4, <1>6
<1>8. PICK k \in Nat : k = TDelta(l, a)
  BY <1>5
<1>9. PICK p \in [Axes -> Int] : p = [d.idx[l] EXCEPT ![a] = @ + s]
  <2>1. [d.idx[l] EXCEPT ![a] = @ + s] \in [Axes -> Int]
    BY <1>2, <1>3
  <2> QED BY <2>1
<1>10. PICK q \in [Axes -> Nat] : q = [d.tNext[l] EXCEPT ![a] = @ + k]
  <2>1. [d.tNext[l] EXCEPT ![a] = @ + k] \in [Axes -> Nat]
    BY <1>2, <1>3
  <2> QED BY <2>1
<1>11. PICK i \in [0 .. depth -> [Axes -> Int]] : i = [d.idx EXCEPT ![l] = p]
  <2>1. [d.idx EXCEPT ![l] = p] \in [0 .. depth -> [Axes -> Int]]
    BY <1>1, <1>9
  <2> QED BY <2>1
<1>12. PICK e \in [0 .. depth -> [Axes -> Nat]] : e = [d.tNext EXCEPT ![l] = q]
  <2>1. [d.tNext EXCEPT ![l] = q] \in [0 .. depth -> [Axes -> Nat]]
    BY <1>1, <1>10
  <2> QED BY <2>1
<1>13. x = [t |-> d.tNext[l][a], idx |-> i, tNext |-> e]
  <2>1. x = [d EXCEPT !.t = d.tNext[l][a], !.idx[l][a] = @ + s, !.tNext[l][a] = @ + k]
    BY <1>0, <1>7, <1>8 DEF DdaStep
  <2>2. i = [d.idx EXCEPT ![l][a] = @ + s]
    BY <1>1, <1>9, <1>11
  <2>3. e = [d.tNext EXCEPT ![l][a] = @ + k]
    BY <1>1, <1>10, <1>12
  <2>4. x = [d EXCEPT !.t = d.tNext[l][a], !.idx = i, !.tNext = e]
    BY <1>1, <2>1, <2>2, <2>3
  <2> QED BY <1>1, <2>4
<1>14. x.t = d.tNext[l][a] /\ x.idx = i /\ x.tNext = e /\ i[l] = p /\ e[l] = q
  <2>1. x.t = d.tNext[l][a] /\ x.idx = i /\ x.tNext = e
    BY <1>13
  <2>2. i[l] = p
    BY <1>1, <1>11
  <2>3. e[l] = q
    BY <1>1, <1>12
  <2> QED BY <2>1, <2>2, <2>3
<1>15. \A m \in 0 .. depth : m # l => i[m] = d.idx[m] /\ e[m] = d.tNext[m]
  BY <1>1, <1>11, <1>12
<1>16. IsDda(x)
  <2>1. d.tNext[l][a] \in Nat
    BY <1>2, <1>3
  <2> QED BY <1>11, <1>12, <1>13, <1>14, <2>1 DEF IsDda
<1> QED
  BY <1>0, <1>3, <1>5, <1>7, <1>8, <1>9, <1>10, <1>14, <1>15, <1>16 DEF Stepped

(* A step does not bring the exits of a level forward. *)
LEMMA LateStep ==
  ASSUME tMax \in Nat, NEW d, IsDda(d), NEW l \in 0 .. depth, NEW a, NEW x, Stepped(d, l, a, x),
         NEW k \in 0 .. depth, \A b \in Axes : d.tNext[k][b] >= tMax
  PROVE  \A b \in Axes : x.tNext[k][b] >= tMax
<1>1. /\ a \in Axes
      /\ k # l => x.tNext[k] = d.tNext[k]
      /\ x.tNext[l] = [d.tNext[l] EXCEPT ![a] = @ + TDelta(l, a)]
      /\ TDelta(l, a) \in Nat
  BY DEF Stepped
<1>2. d.tNext[l] \in [Axes -> Nat]
  BY DEF IsDda
<1>3. CASE k # l
  BY <1>1, <1>3
<1>4. CASE k = l
  <2> TAKE b \in Axes
  <2>1. d.tNext[l][b] \in Nat /\ d.tNext[l][b] >= tMax
    BY <1>2, <1>4
  <2>2. x.tNext[l][b] = IF b = a THEN d.tNext[l][b] + TDelta(l, a) ELSE d.tNext[l][b]
    BY <1>1, <1>2
  <2>3. PICK n, m \in Nat : n = d.tNext[l][b] /\ m = TDelta(l, a)
    BY <1>1, <2>1
  <2>4. x.tNext[l][b] >= tMax
    BY <2>1, <2>2, <2>3
  <2> QED BY <1>4, <2>4
<1> QED
  BY <1>3, <1>4

-----------------------------------------------------------------------------
(* Cells on the grid of a level. *)
LEMMA OnGrid ==
  ASSUME NEW c \in Coordinates, NEW m \in 0 .. NumLevels, NodeOrigin(c, m) = c
  PROVE  \A a \in Axes : \E q \in Int : c[a] = Res[m] * q
<1> TAKE a \in Axes
<1>1. Res[m] \in Nat \ {0} /\ c[a] \in Int
  BY ResFacts DEF Coordinates
<1>2. c[a] = Floor(c[a], Res[m])
  BY NodeOriginFacts
<1>3. Floor(c[a], Res[m]) = Res[m] * (c[a] \div Res[m]) /\ c[a] \div Res[m] \in Int
  BY <1>1, FloorFacts
<1> QED
  BY <1>2, <1>3

LEMMA GridIs ==
  ASSUME NEW c \in Coordinates, NEW m \in 0 .. NumLevels,
         \A a \in Axes : \E q \in Int : c[a] = Res[m] * q
  PROVE  NodeOrigin(c, m) = c
<1>1. Res[m] \in Nat \ {0}
  BY ResFacts
<1>2. ASSUME NEW a \in Axes PROVE NodeOrigin(c, m)[a] = c[a]
  <2>1. PICK q \in Int : c[a] = Res[m] * q
    OBVIOUS
  <2>2. Res[m] * q \in Int
    BY <1>1
  <2>3. Floor(Res[m] * q, Res[m]) = Res[m] * q
    BY <1>1, <2>2, FloorIs
  <2> QED BY <2>1, <2>3, NodeOriginFacts
<1> QED
  BY <1>2, NodeOriginFacts DEF Coordinates

(* The sides of a cell inside another one. *)
LEMMA NestedSides ==
  ASSUME NEW l \in LevelsDown, l + 1 \in LevelsDown, NEW c \in Coordinates, NEW f \in Coordinates,
         NodeOrigin(c, l + 1) = c, NodeOrigin(f, l + 1 + 1) = f, NEW a \in Axes
  PROVE  /\ CellRes(l + 1) \in Nat \ {0} /\ CellRes(l) \in Nat \ {0} /\ c[a] \in Int /\ f[a] \in Int
         /\ CellRes(l + 1) <= CellRes(l)
         /\ f[a] < c[a] => f[a] + CellRes(l + 1) <= c[a]
         /\ f[a] < c[a] + CellRes(l) => f[a] + CellRes(l + 1) <= c[a] + CellRes(l)
         /\ c[a] < f[a] + CellRes(l + 1) => c[a] <= f[a]
<1>1. CellRes(l + 1) \in Nat \ {0} /\ CellRes(l) \in Nat \ {0} /\ c[a] \in Int /\ f[a] \in Int
  BY CellResFacts DEF Coordinates
<1>2. /\ Res[l + 1] = StorageRes[l + 1] * Res[l + 1 + 1] /\ StorageRes[l + 1] \in Nat \ {0}
      /\ CellRes(l) = Res[l + 1] /\ CellRes(l + 1) = Res[l + 1 + 1]
      /\ l + 1 \in 0 .. NumLevels /\ l + 1 + 1 \in 0 .. NumLevels
  BY LevelFacts DEF CellRes
<1>3. PICK q \in Int : c[a] = Res[l + 1] * q
  BY <1>2, OnGrid
<1>4. PICK p \in Int : f[a] = Res[l + 1 + 1] * p
  BY <1>2, OnGrid
<1> DEFINE r == CellRes(l + 1)
           k == StorageRes[l + 1]
<1>5. r \in Nat \ {0} /\ k \in Nat \ {0} /\ CellRes(l) = k * r /\ c[a] = (k * r) * q /\ f[a] = r * p
  BY <1>1, <1>2, <1>3, <1>4
<1> HIDE DEF r, k
<1>6. (k * r) * q = r * (k * q) /\ k * r = r * k /\ r * (k * q) + r * k = r * (k * q + k)
      /\ k * q \in Int /\ k * q + k \in Int
  BY <1>5
<1>7. r <= k * r
  BY <1>5
<1>8. f[a] < c[a] => f[a] + r <= c[a]
  <2> SUFFICES ASSUME f[a] < c[a] PROVE f[a] + r <= c[a]
    OBVIOUS
  <2>1. ~(k * q <= p)
    <3> SUFFICES ASSUME k * q <= p PROVE FALSE
      OBVIOUS
    <3>1. CASE k * q = p
      BY <1>1, <1>5, <1>6, <3>1
    <3>2. CASE k * q < p
      <4>1. r * (k * q) + r <= r * p
        BY <1>5, <1>6, <3>2, Multiples
      <4> QED BY <1>1, <1>5, <1>6, <4>1
    <3> QED BY <1>6, <3>1, <3>2
  <2>2. r * p + r <= r * (k * q)
    BY <1>5, <1>6, <2>1, Multiples
  <2> QED BY <1>5, <1>6, <2>2
<1>9. f[a] < c[a] + k * r => f[a] + r <= c[a] + k * r
  <2> SUFFICES ASSUME f[a] < c[a] + k * r PROVE f[a] + r <= c[a] + k * r
    OBVIOUS
  <2>0. c[a] + k * r = r * (k * q + k)
    BY <1>5, <1>6
  <2>1. ~(k * q + k <= p)
    <3> SUFFICES ASSUME k * q + k <= p PROVE FALSE
      OBVIOUS
    <3>1. CASE k * q + k = p
      BY <1>1, <1>5, <1>6, <2>0, <3>1
    <3>2. CASE k * q + k < p
      <4>1. r * (k * q + k) + r <= r * p
        BY <1>5, <1>6, <3>2, Multiples
      <4> QED BY <1>1, <1>5, <1>6, <2>0, <4>1
    <3> QED BY <1>6, <3>1, <3>2
  <2>2. r * p + r <= r * (k * q + k)
    BY <1>5, <1>6, <2>1, Multiples
  <2> QED BY <1>5, <2>0, <2>2
<1>10. c[a] < f[a] + r => c[a] <= f[a]
  <2> SUFFICES ASSUME c[a] < f[a] + r PROVE c[a] <= f[a]
    OBVIOUS
  <2>1. f[a] \in Int /\ c[a] \in Int /\ (f[a] < c[a] => f[a] + r <= c[a])
    BY <1>1, <1>8
  <2> QED BY <1>5, <2>1
<1> QED
  BY <1>1, <1>5, <1>7, <1>8, <1>9, <1>10 DEF r

(* The ray leaves a cell before it leaves the one around it. *)
LEMMA ExitsNest ==
  ASSUME Course, NEW l \in LevelsDown, l + 1 \in LevelsDown, NEW t, NEW c, NEW f, NEW e, NEW g,
         IsCell(t, c, l), Exits(t, c, l, e), IsCell(t, f, l + 1), Exits(t, f, l + 1, g),
         Within(f, c, l), NEW a \in Axes
  PROVE  e[a] \in Nat /\ g[a] \in Nat /\ g[a] <= e[a]
<1>1. RayOK
  BY DEF Course
<1>2. e[a] \in Nat /\ g[a] \in Nat
  BY DEF Exits
<1>3. c \in Coordinates /\ f \in Coordinates /\ NodeOrigin(c, l + 1) = c
      /\ NodeOrigin(f, l + 1 + 1) = f
  BY DEF IsCell, Coordinates
<1>4. c[a] <= f[a] /\ f[a] < c[a] + CellRes(l)
  BY DEF Within
<1>5. /\ CellRes(l + 1) \in Nat \ {0} /\ CellRes(l) \in Nat \ {0} /\ c[a] \in Int /\ f[a] \in Int
      /\ f[a] + CellRes(l + 1) <= c[a] + CellRes(l)
  BY <1>3, <1>4, NestedSides
<1>6. ray.dir[a] \in {-2, -1, 0, 1, 2} /\ e[a] \in Int /\ g[a] \in Int
  BY <1>1, <1>2, PositionFacts
<1>7. CASE ray.dir[a] = 0
  <2>1. e[a] = Inf /\ g[a] = Inf
    BY <1>7 DEF Exits
  <2> QED BY <1>2, <2>1
<1>8. CASE ray.dir[a] # 0
  <2>1. Position(e[a])[a] = VoxelWidth * Exit(c, l, a)
        /\ Position(g[a])[a] = VoxelWidth * Exit(f, l + 1, a)
    BY <1>8 DEF Exits
  <2>2. CASE ray.dir[a] > 0
    <3>1. Exit(c, l, a) = c[a] + CellRes(l) /\ Exit(f, l + 1, a) = f[a] + CellRes(l + 1)
      BY <1>6, <2>2 DEF Exit
    <3>2. VoxelWidth * Exit(f, l + 1, a) <= VoxelWidth * Exit(c, l, a)
      <4>1. Exit(f, l + 1, a) \in Int /\ Exit(c, l, a) \in Int /\ Exit(f, l + 1, a) <= Exit(c, l, a)
        BY <1>5, <3>1
      <4> QED BY <4>1, PlaneOrder
    <3> QED BY <1>1, <1>2, <1>6, <2>1, <2>2, <3>2, PositionOrder
  <2>3. CASE ray.dir[a] < 0
    <3>1. Exit(c, l, a) = c[a] /\ Exit(f, l + 1, a) = f[a]
      BY <2>3 DEF Exit
    <3>2. VoxelWidth * c[a] <= VoxelWidth * f[a]
      BY <1>4, <1>5, PlaneOrder
    <3> QED BY <1>1, <1>2, <1>6, <2>1, <2>3, <3>1, <3>2, PositionOrder
  <2> QED BY <1>6, <1>8, <2>2, <2>3
<1> QED
  BY <1>7, <1>8

(* What is before all exits from a level is before those from the levels above. *)
LEMMA FirstExit ==
  ASSUME Course, NEW d, NEW gap, Nested(d, gap), NEW k \in 0 .. depth,
         gap \notin 1 .. k, NEW u \in Nat, \A a \in Axes : u <= d.tNext[k][a]
  PROVE  \A l \in 0 .. k : \A a \in Axes : u <= d.tNext[l][a]
<1> DEFINE Bad == {l \in 0 .. k : \E a \in Axes : ~(u <= d.tNext[l][a])}
<1>1. depth \in LevelsDown /\ k \in Nat /\ depth \in Nat /\ LevelsDown = 0 .. LeafLevel
      /\ LeafLevel \in Nat
  BY ResFacts DEF Course, LevelsDown
<1>2. ASSUME Bad # {} PROVE FALSE
  <2>1. Bad \subseteq 0 .. k
    OBVIOUS
  <2>2. PICK m \in Bad : \A n \in Bad : n <= m
    <3> HIDE DEF Bad
    <3> QED BY <1>1, <1>2, <2>1, GreatestNat
  <2>3. m \in 0 .. k /\ m # k
    OBVIOUS
  <2>4. m + 1 \in 0 .. k /\ ~(m + 1 <= m) /\ m + 1 # gap /\ m \in 0 .. depth - 1 /\ m \in 0 .. depth
        /\ m + 1 \in 0 .. depth /\ m \in LevelsDown /\ m + 1 \in LevelsDown
    BY <1>1, <2>3
  <2>5. m + 1 \notin Bad
    <3> HIDE DEF Bad
    <3> QED BY <2>2, <2>4
  <2>6. \A a \in Axes : u <= d.tNext[m + 1][a]
    BY <2>4, <2>5
  <2>7. /\ IsCell(d.t, d.idx[m], m) /\ Exits(d.t, d.idx[m], m, d.tNext[m])
        /\ IsCell(d.t, d.idx[m + 1], m + 1) /\ Exits(d.t, d.idx[m + 1], m + 1, d.tNext[m + 1])
        /\ Within(d.idx[m + 1], d.idx[m], m)
    BY <2>4 DEF Nested
  <2>8. ASSUME NEW a \in Axes PROVE u <= d.tNext[m][a]
    <3>1. d.tNext[m][a] \in Nat /\ d.tNext[m + 1][a] \in Nat
          /\ d.tNext[m + 1][a] <= d.tNext[m][a]
      BY <2>4, <2>7, ExitsNest
    <3> QED BY <2>6, <3>1
  <2> QED BY <2>8
<1> QED
  BY <1>2

(* Until it leaves it the ray is in the cell. *)
LEMMA StepKeeps ==
  ASSUME Course, NEW l \in LevelsDown, NEW t \in Nat, NEW u \in Nat, t <= u, NEW c, NEW e,
         IsCell(t, c, l), Exits(t, c, l, e), \A a \in Axes : u <= e[a]
  PROVE  IsCell(u, c, l) /\ Exits(u, c, l, e)
<1>1. RayOK /\ CellRes(l) \in Nat \ {0} /\ c \in [Axes -> Nat] /\ InCell(t, c, l)
  BY CellResFacts DEF Course, IsCell
<1>2. ASSUME NEW a \in Axes
      PROVE  /\ VoxelWidth * c[a] <= Position(u)[a]
             /\ Position(u)[a] <= VoxelWidth * (c[a] + CellRes(l))
             /\ ray.dir[a] = 0 \/ u = 0 => Position(u)[a] < VoxelWidth * (c[a] + CellRes(l))
  <2>1. /\ VoxelWidth * c[a] <= Position(t)[a]
        /\ Position(t)[a] <= VoxelWidth * (c[a] + CellRes(l))
        /\ ray.dir[a] = 0 \/ t = 0 => Position(t)[a] < VoxelWidth * (c[a] + CellRes(l))
    BY <1>1 DEF InCell
  <2>2. /\ ray.dir[a] \in {-2, -1, 0, 1, 2} /\ Position(t)[a] \in Int /\ Position(u)[a] \in Int
        /\ u <= e[a] /\ e[a] \in Nat /\ Position(e[a])[a] \in Int
    BY <1>1, PositionFacts DEF Exits
  <2>3. VoxelWidth * c[a] \in Int /\ VoxelWidth * (c[a] + CellRes(l)) \in Int
    BY <1>1, IteratorAssumption
  <2>4. CASE ray.dir[a] = 0
    <3>1. Position(u)[a] = Position(t)[a]
      BY <1>1, <2>4, PositionOrder
    <3> QED BY <2>1, <2>4, <3>1
  <2>5. CASE u = 0
    <3>1. t = 0
      BY <2>5
    <3> QED BY <2>1, <2>5, <3>1
  <2>6. CASE ray.dir[a] > 0 /\ u # 0
    <3>1. Position(e[a])[a] = VoxelWidth * (c[a] + CellRes(l))
      BY <2>2, <2>6 DEF Exits, Exit
    <3>2. Position(t)[a] <= Position(u)[a] /\ Position(u)[a] <= Position(e[a])[a]
      BY <1>1, <2>2, <2>6, PositionOrder
    <3> QED BY <2>1, <2>2, <2>3, <2>6, <3>1, <3>2
  <2>7. CASE ray.dir[a] < 0 /\ u # 0
    <3>1. Position(e[a])[a] = VoxelWidth * c[a]
      BY <2>2, <2>7 DEF Exits, Exit
    <3>2. Position(u)[a] <= Position(t)[a] /\ Position(e[a])[a] <= Position(u)[a]
      BY <1>1, <2>2, <2>7, PositionOrder
    <3> QED BY <2>1, <2>2, <2>3, <2>7, <3>1, <3>2
  <2> QED BY <2>2, <2>4, <2>5, <2>6, <2>7
<1> QED
  BY <1>2 DEF InCell, IsCell, Exits

-----------------------------------------------------------------------------
(* A multiple of the width is on a plane, and nothing else is. *)
LEMMA PlaneFacts ==
  ASSUME NEW x \in Int
  PROVE  /\ x % VoxelWidth = 0 => \E p \in Int : x = VoxelWidth * p
         /\ \A p \in Int : x = VoxelWidth * p => x % VoxelWidth = 0
<1>1. VoxelWidth \in Nat \ {0, 1}
  BY IteratorAssumption
<1>2. /\ x \div VoxelWidth \in Int /\ x % VoxelWidth \in 0 .. VoxelWidth - 1
      /\ x = VoxelWidth * (x \div VoxelWidth) + (x % VoxelWidth)
  BY <1>1, Division
<1>3. ASSUME NEW p \in Int, x = VoxelWidth * p PROVE x % VoxelWidth = 0
  <2>1. (VoxelWidth * p + 0) % VoxelWidth = 0
    BY <1>1, DivisionIsUnique
  <2>2. VoxelWidth * p + 0 = x
    BY <1>3
  <2> QED BY <2>1, <2>2
<1>4. ASSUME x % VoxelWidth = 0 PROVE \E p \in Int : x = VoxelWidth * p
  <2>1. PICK p \in Int : p = x \div VoxelWidth
    BY <1>2
  <2>2. x = VoxelWidth * p + 0 /\ VoxelWidth * p \in Int
    BY <1>1, <1>2, <1>4, <2>1
  <2>3. x = VoxelWidth * p
    BY <2>2
  <2> QED BY <2>3
<1> QED
  BY <1>3, <1>4

(* The ray goes into the next cell, across the side that is due first. *)
LEMMA StepOnto ==
  ASSUME Course, NEW l \in LevelsDown, NEW t, Reached(t), NEW c, NEW e,
         IsCell(t, c, l), Exits(t, c, l, e), NEW a \in Axes, NEW u, u = e[a],
         \A b \in Axes : u <= e[b], u < tMax,
         NEW f, f = [c EXCEPT ![a] = @ + Sign(ray.dir[a]) * CellRes(l)],
         NEW g, g = [e EXCEPT ![a] = @ + TDelta(l, a)]
  PROVE  /\ u \in Nat /\ t <= u /\ Reached(u) /\ ray.dir[a] # 0 /\ OnPlane(u, a)
         /\ ray.dir[a] < 0 => u > 0
         /\ IsCell(u, f, l) /\ Exits(u, f, l, g)
         /\ Position(u)[a] = VoxelWidth * Exit(c, l, a)
         /\ Position(u)[a] = VoxelWidth * Entrance(f, l, a)
<1>1. RayOK /\ CellRes(l) \in Nat \ {0} /\ t \in Nat /\ tMax \in Nat /\ l + 1 \in 0 .. NumLevels
      /\ CellRes(l) = Res[l + 1] /\ VoxelWidth \in Nat \ {0, 1}
  BY CellResFacts, IteratorAssumption DEF Course, Reached
<1>2. e \in [Axes -> Nat] /\ u \in Nat /\ c \in [Axes -> Nat] /\ NodeOrigin(c, l + 1) = c
  BY DEF Exits, IsCell
<1>3. ray.dir[a] \in {-2, -1, 1, 2} /\ u \in Int
  <2>1. ray.dir[a] # 0
    <3> SUFFICES ASSUME ray.dir[a] = 0 PROVE FALSE
      OBVIOUS
    <3>1. e[a] = Inf
      BY DEF Exits
    <3> QED BY <1>2, <3>1, IteratorAssumption DEF Course
  <2> QED BY <1>1, <1>2, <2>1, PositionFacts
<1>4. t <= u /\ Position(u)[a] = VoxelWidth * Exit(c, l, a)
  BY <1>3 DEF Exits
<1>5. Reached(u)
  BY <1>1, <1>2, <1>4, ReachedStays
<1>6. IsCell(u, c, l) /\ Exits(u, c, l, e)
  BY <1>1, <1>2, <1>4, StepKeeps
<1>7. c[a] \in Nat /\ Exit(c, l, a) = (IF ray.dir[a] < 0 THEN c[a] ELSE c[a] + CellRes(l))
  BY <1>2 DEF Exit
<1>8. Position(u)[a] \in Int /\ Position(0)[a] = ray.org[a]
  <2>1. 0 \in Int /\ Position(0)[a] = ray.org[a] + 0 * ray.dir[a] /\ ray.org[a] \in Int
    BY <1>1, PositionFacts
  <2> QED BY <1>1, <1>3, <2>1, PositionFacts
<1>9. OnPlane(u, a)
  <2>1. Exit(c, l, a) \in Int
    BY <1>1, <1>7
  <2> QED BY <1>3, <1>4, <1>8, <2>1, PlaneFacts DEF OnPlane
<1>10. ray.dir[a] < 0 => u > 0
  <2> SUFFICES ASSUME ray.dir[a] < 0, u = 0 PROVE FALSE
    BY <1>2
  <2>1. ray.org[a] % VoxelWidth = 0
    BY <1>8, <1>9 DEF OnPlane
  <2>2. IntersectBox(ray).lo > 0
    BY <2>1 DEF Course, GeneralPosition
  <2>3. IntersectBox(ray).lo <= 0 /\ IntersectBox(ray).lo \in Int
    BY <1>5 DEF Reached, Course
  <2> QED BY <2>2, <2>3
<1>11. PICK q \in Int : c[a] = Res[l + 1] * q
  <2>1. c \in Coordinates
    BY <1>2 DEF Coordinates
  <2> QED BY <1>1, <1>2, <2>1, OnGrid
<1>12. /\ ray.dir[a] > 0 => f[a] = c[a] + CellRes(l)
       /\ ray.dir[a] < 0 => f[a] = c[a] - CellRes(l)
       /\ \A b \in Axes : b # a => f[b] = c[b]
  <2>1. f[a] = c[a] + Sign(ray.dir[a]) * CellRes(l) /\ \A b \in Axes : b # a => f[b] = c[b]
    BY <1>2
  <2>2. ray.dir[a] > 0 => Sign(ray.dir[a]) = 1
    BY <1>3 DEF Sign
  <2>3. ray.dir[a] < 0 => Sign(ray.dir[a]) = -1
    BY <1>3 DEF Sign
  <2> QED BY <1>1, <1>7, <2>1, <2>2, <2>3
<1>13. ray.dir[a] < 0 => f[a] \in Nat
  <2> SUFFICES ASSUME ray.dir[a] < 0 PROVE f[a] \in Nat
    OBVIOUS
  <2>1. 0 < Position(u)[a]
    BY <1>3, <1>5, InsideIsPositive DEF Reached
  <2>2. 0 < VoxelWidth * c[a]
    BY <1>4, <1>7, <2>1
  <2>3. 0 < c[a]
    BY <1>1, <1>7, <2>2
  <2>4. 0 < Res[l + 1] * q
    BY <1>11, <2>3
  <2>5. 0 < q
    BY <1>1, <2>4, Positive
  <2>6. Res[l + 1] <= Res[l + 1] * q
    BY <1>1, <2>5
  <2> QED BY <1>1, <1>7, <1>11, <1>12, <2>6
<1>14. f \in [Axes -> Nat]
  <2>1. f[a] \in Nat
    BY <1>1, <1>3, <1>7, <1>12, <1>13
  <2>2. f = [b \in Axes |-> IF b = a THEN f[a] ELSE c[b]]
    BY <1>2
  <2> QED BY <1>2, <2>1, <2>2
<1>15. NodeOrigin(f, l + 1) = f
  <2>1. f \in Coordinates /\ c \in Coordinates
    BY <1>2, <1>14 DEF Coordinates
  <2>2. ASSUME NEW b \in Axes PROVE \E p \in Int : f[b] = Res[l + 1] * p
    <3>1. CASE b # a
      BY <1>1, <1>2, <1>12, <2>1, <3>1, OnGrid
    <3>2. CASE b = a /\ ray.dir[a] > 0
      <4>1. f[a] = Res[l + 1] * (q + 1) /\ q + 1 \in Int
        BY <1>1, <1>11, <1>12, <3>2
      <4> QED BY <3>2, <4>1
    <3>3. CASE b = a /\ ray.dir[a] < 0
      <4>1. f[a] = Res[l + 1] * (q - 1) /\ q - 1 \in Int
        BY <1>1, <1>11, <1>12, <3>3
      <4> QED BY <3>3, <4>1
    <3> QED BY <1>3, <3>1, <3>2, <3>3
  <2> QED BY <1>1, <2>1, <2>2, GridIs
<1>16. Position(u)[a] = VoxelWidth * Entrance(f, l, a)
  <2>1. CASE ray.dir[a] > 0
    BY <1>3, <1>4, <1>7, <1>12, <2>1 DEF Entrance
  <2>2. CASE ray.dir[a] < 0
    <3>1. Entrance(f, l, a) = f[a] + CellRes(l) /\ f[a] + CellRes(l) = c[a]
      BY <1>1, <1>3, <1>7, <1>12, <2>2 DEF Entrance
    <3> QED BY <1>4, <1>7, <2>2, <3>1
  <2> QED BY <1>3, <2>1, <2>2
<1>17. ASSUME NEW b \in Axes
       PROVE  /\ VoxelWidth * f[b] <= Position(u)[b]
              /\ Position(u)[b] <= VoxelWidth * (f[b] + CellRes(l))
              /\ ray.dir[b] = 0 \/ u = 0 => Position(u)[b] < VoxelWidth * (f[b] + CellRes(l))
  <2>1. CASE b # a
    BY <1>6, <1>12, <2>1 DEF IsCell, InCell
  <2>2. CASE b = a
    <3>1. f[a] \in Nat /\ f[a] + CellRes(l) \in Int
      BY <1>1, <1>14
    <3>2. VoxelWidth * f[a] + VoxelWidth <= VoxelWidth * (f[a] + CellRes(l))
          /\ VoxelWidth * f[a] \in Int /\ VoxelWidth * (f[a] + CellRes(l)) \in Int
      <4>1. f[a] < f[a] + CellRes(l) /\ f[a] \in Int
        BY <1>1, <3>1
      <4> QED BY <3>1, <4>1, PlaneOrder
    <3>3. ray.dir[a] > 0 => Position(u)[a] = VoxelWidth * f[a]
      BY <1>16 DEF Entrance
    <3>4. ray.dir[a] < 0 => Position(u)[a] = VoxelWidth * (f[a] + CellRes(l))
      BY <1>3, <1>16 DEF Entrance
    <3>5. VoxelWidth * f[a] < VoxelWidth * (f[a] + CellRes(l))
      BY <1>1, <3>2
    <3>6. CASE ray.dir[a] > 0
      BY <2>2, <3>2, <3>3, <3>5, <3>6
    <3>7. CASE ray.dir[a] < 0
      BY <1>10, <2>2, <3>2, <3>4, <3>5, <3>7
    <3> QED BY <1>3, <3>6, <3>7
  <2> QED BY <2>1, <2>2
<1>18. IsCell(u, f, l)
  BY <1>14, <1>15, <1>17 DEF IsCell, InCell
<1>19. Exits(u, f, l, g)
  <2>1. PICK k \in Nat \ {0} : k = TDelta(l, a)
    BY <1>1, <1>3, TDeltaFacts
  <2>2. g[a] = e[a] + k /\ \A b \in Axes : b # a => g[b] = e[b]
    BY <1>2, <2>1
  <2>3. g \in [Axes -> Nat]
    <3>1. g = [b \in Axes |-> IF b = a THEN e[a] + k ELSE e[b]]
      BY <1>2, <2>1
    <3> QED BY <1>2, <2>1, <3>1
  <2>4. ASSUME NEW b \in Axes
        PROVE  IF ray.dir[b] = 0 THEN g[b] = Inf
               ELSE u <= g[b] /\ Position(g[b])[b] = VoxelWidth * Exit(f, l, b)
    <3>1. CASE b # a
      <4>1. g[b] = e[b] /\ Exit(f, l, b) = Exit(c, l, b)
        BY <1>12, <2>2, <3>1 DEF Exit
      <4> QED BY <1>6, <4>1 DEF Exits
    <3>2. CASE b = a
      <4>1. u <= g[a]
        BY <1>2, <2>1, <2>2
      <4>2. Position(u + k)[a] = Position(u)[a] + Sign(ray.dir[a]) * (VoxelWidth * CellRes(l))
        BY <1>1, <1>3, <2>1, TDeltaFacts
      <4>3. VoxelWidth * CellRes(l) \in Int /\ VoxelWidth * c[a] \in Int
        BY <1>1, <1>7
      <4>4. CASE ray.dir[a] > 0
        <5>1. Position(u)[a] = VoxelWidth * (c[a] + CellRes(l)) /\ Sign(ray.dir[a]) = 1
          BY <1>3, <1>4, <1>7, <4>4 DEF Sign
        <5>2. Exit(f, l, a) = (c[a] + CellRes(l)) + CellRes(l)
          BY <1>3, <1>12, <4>4 DEF Exit
        <5>3. VoxelWidth * ((c[a] + CellRes(l)) + CellRes(l)) =
                 VoxelWidth * (c[a] + CellRes(l)) + VoxelWidth * CellRes(l)
          <6>1. c[a] + CellRes(l) \in Int /\ CellRes(l) \in Int
            BY <1>1, <1>7
          <6> QED BY <6>1, PlaneOrder
        <5>4. Position(u + k)[a] = VoxelWidth * Exit(f, l, a)
          BY <1>8, <4>2, <4>3, <5>1, <5>2, <5>3
        <5> QED BY <1>3, <2>2, <3>2, <4>1, <5>4
      <4>5. CASE ray.dir[a] < 0
        <5>1. Position(u)[a] = VoxelWidth * c[a] /\ Sign(ray.dir[a]) = -1
          BY <1>3, <1>4, <1>7, <4>5 DEF Sign
        <5>2. Exit(f, l, a) = c[a] - CellRes(l)
          BY <1>3, <1>12, <4>5 DEF Exit
        <5>3. VoxelWidth * (c[a] - CellRes(l)) = VoxelWidth * c[a] - VoxelWidth * CellRes(l)
          <6>1. c[a] \in Int /\ CellRes(l) \in Int
            BY <1>1, <1>7
          <6> QED BY <6>1, PlaneOrder
        <5>4. Position(u + k)[a] = VoxelWidth * Exit(f, l, a)
          BY <1>8, <4>2, <4>3, <5>1, <5>2, <5>3
        <5> QED BY <1>3, <2>2, <3>2, <4>1, <5>4
      <4> QED BY <1>3, <4>4, <4>5
    <3> QED BY <3>1, <3>2
  <2> QED BY <2>3, <2>4 DEF Exits
<1> QED
  BY <1>2, <1>3, <1>4, <1>5, <1>9, <1>10, <1>16, <1>18, <1>19

-----------------------------------------------------------------------------
(* the position moved off the side that the ray has just come to *)
Moved(u, a) == [Position(u) EXCEPT ![a] = @ + Sign(ray.dir[a])]

LEMMA MovedPosition ==
  ASSUME RayOK, NEW u \in Int, NEW a \in Axes
  PROVE  /\ Moved(u, a) \in Coordinates
         /\ \A b \in Axes : b # a => Moved(u, a)[b] = Position(u)[b]
         /\ ray.dir[a] = 0 => Moved(u, a)[a] = Position(u)[a]
         /\ ray.dir[a] > 0 => Moved(u, a)[a] = Position(u)[a] + 1
         /\ ray.dir[a] < 0 => Moved(u, a)[a] = Position(u)[a] - 1
<1>1. DOMAIN Position(u) = Axes /\ \A b \in Axes : Position(u)[b] \in Int
  <2>1. \A b \in Axes : Position(u)[b] \in Int
    BY PositionFacts
  <2> QED BY <2>1 DEF Position
<1>2. ray.dir[a] \in {-2, -1, 0, 1, 2}
  BY PositionFacts
<1>3. /\ Moved(u, a)[a] = Position(u)[a] + Sign(ray.dir[a])
      /\ \A b \in Axes : b # a => Moved(u, a)[b] = Position(u)[b]
      /\ Moved(u, a) = [b \in Axes |-> Moved(u, a)[b]]
  BY <1>1 DEF Moved
<1>4. /\ ray.dir[a] > 0 => Sign(ray.dir[a]) = 1
      /\ ray.dir[a] < 0 => Sign(ray.dir[a]) = -1
      /\ ray.dir[a] = 0 => Sign(ray.dir[a]) = 0
  BY <1>2 DEF Sign
<1>5. \A b \in Axes : Moved(u, a)[b] \in Int
  BY <1>1, <1>2, <1>3, <1>4
<1>6. Moved(u, a) \in Coordinates
  BY <1>3, <1>5 DEF Coordinates
<1>7. /\ ray.dir[a] = 0 => Moved(u, a)[a] = Position(u)[a]
      /\ ray.dir[a] > 0 => Moved(u, a)[a] = Position(u)[a] + 1
      /\ ray.dir[a] < 0 => Moved(u, a)[a] = Position(u)[a] - 1
  BY <1>1, <1>3, <1>4
<1> QED
  BY <1>3, <1>6, <1>7

(* The voxel of the moved position is on the other side of that side, and   *)
(* of no other one.                                                        *)
LEMMA MovedVoxel ==
  ASSUME Course, NEW u, Reached(u), u < tMax, NEW a \in Axes, OnPlane(u, a),
         NEW n, n = VoxelOf(Moved(u, a)), NEW b \in Axes
  PROVE  /\ n[b] \in Nat
         /\ VoxelWidth * n[b] <= Position(u)[b]
         /\ Position(u)[b] <= VoxelWidth * (n[b] + 1)
         /\ ~(b = a /\ ray.dir[a] < 0) => Position(u)[b] < VoxelWidth * (n[b] + 1)
         /\ b = a /\ ray.dir[a] < 0 => VoxelWidth * n[b] < Position(u)[b]
<1>1. RayOK /\ u \in Int /\ tMax \in Int /\ Entered(u) /\ VoxelWidth \in Nat \ {0, 1}
  BY IteratorAssumption DEF Course, Reached
<1>2. ray.dir[a] # 0 /\ Position(u)[a] % VoxelWidth = 0
  BY DEF OnPlane
<1>3. /\ 0 <= Position(u)[b] /\ Position(u)[b] \in Int
      /\ ray.dir[b] < 0 => 0 < Position(u)[b]
      /\ ray.dir[a] \in {-2, -1, 1, 2}
  BY <1>1, <1>2, InsideIsPositive, PositionFacts
<1> DEFINE m == Moved(u, a)
<1>4. /\ m \in Coordinates
      /\ b # a => m[b] = Position(u)[b]
      /\ ray.dir[a] > 0 => m[a] = Position(u)[a] + 1
      /\ ray.dir[a] < 0 => m[a] = Position(u)[a] - 1
  BY <1>1, <1>2, MovedPosition
<1>5. m[b] \in Int /\ m[b] >= 0
  BY <1>3, <1>4
<1> HIDE DEF m
<1>6. /\ n[b] \in Nat
      /\ VoxelWidth * n[b] <= m[b] /\ m[b] < VoxelWidth * (n[b] + 1)
  BY <1>4, <1>5, VoxelOfFacts DEF m
<1>7. VoxelWidth * n[b] \in Int /\ VoxelWidth * (n[b] + 1) \in Int
  <2>1. n[b] \in Int /\ n[b] + 1 \in Int
    BY <1>6
  <2> QED BY <2>1, PlaneOrder
<1>8. CASE b # a
  <2>1. m[b] = Position(u)[b]
    BY <1>4, <1>8
  <2> QED BY <1>3, <1>6, <1>7, <1>8, <2>1
<1>9. CASE b = a /\ ray.dir[a] > 0
  <2>1. PICK p \in Int : Position(u)[b] = VoxelWidth * p
    BY <1>2, <1>3, <1>9, PlaneFacts
  <2>2. VoxelWidth * p \in Int /\ m[b] = VoxelWidth * p + 1
    BY <1>1, <1>4, <1>9, <2>1
  <2>3. ~(p < n[b])
    <3> SUFFICES ASSUME p < n[b] PROVE FALSE
      OBVIOUS
    <3>1. n[b] \in Int
      BY <1>6
    <3>2. VoxelWidth * p + VoxelWidth <= VoxelWidth * n[b]
      BY <3>1, PlaneOrder
    <3> QED BY <1>1, <1>6, <1>7, <2>2, <3>2
  <2>4. VoxelWidth * n[b] <= VoxelWidth * p
    <3>1. n[b] \in Int /\ n[b] <= p
      BY <1>6, <2>3
    <3> QED BY <3>1, PlaneOrder
  <2> QED BY <1>3, <1>5, <1>6, <1>7, <1>9, <2>1, <2>2, <2>4
<1>10. CASE b = a /\ ray.dir[a] < 0
  <2>1. m[b] = Position(u)[b] - 1
    BY <1>4, <1>10
  <2>2. \A x, y, z \in Int : z <= y - 1 /\ y - 1 < x => z <= y /\ y <= x /\ z < y
    OBVIOUS
  <2> QED BY <1>3, <1>6, <1>7, <1>10, <2>1, <2>2
<1> QED
  BY <1>3, <1>8, <1>9, <1>10

(* The cells that the levels below a step start from. *)
LEMMA ReinitFacts ==
  ASSUME Course, NEW u, Reached(u), u < tMax, NEW a \in Axes, OnPlane(u, a),
         ray.dir[a] < 0 => u > 0, NEW l \in LevelsDown,
         NEW c, c = ClampToCell(Moved(u, a), l)
  PROVE  IsCell(u, c, l) /\ Exits(u, c, l, ExitTimes(c, l))
<1>1. RayOK /\ u \in Int /\ u \in Nat /\ CellRes(l) \in Nat \ {0} /\ ray.dir[a] # 0
  BY CellResFacts DEF Course, Reached, OnPlane
<1> DEFINE m == Moved(u, a)
           n == VoxelOf(m)
<1>2. m \in Coordinates
  BY <1>1, MovedPosition
<1> HIDE DEF m
<1>3. /\ c \in [Axes -> Nat] /\ NodeOrigin(c, l + 1) = c
      /\ \A b \in Axes : c[b] <= n[b] /\ n[b] < c[b] + CellRes(l)
  BY <1>2, ClampFacts DEF m
<1>4. ASSUME NEW b \in Axes
      PROVE  /\ VoxelWidth * c[b] <= Position(u)[b]
             /\ Position(u)[b] <= VoxelWidth * (c[b] + CellRes(l))
             /\ ray.dir[b] = 0 \/ u = 0 => Position(u)[b] < VoxelWidth * (c[b] + CellRes(l))
  <2>1. /\ n[b] \in Nat
        /\ VoxelWidth * n[b] <= Position(u)[b]
        /\ Position(u)[b] <= VoxelWidth * (n[b] + 1)
        /\ ~(b = a /\ ray.dir[a] < 0) => Position(u)[b] < VoxelWidth * (n[b] + 1)
    BY MovedVoxel DEF m
  <2> HIDE DEF n
  <2>2. c[b] \in Int /\ n[b] \in Int /\ n[b] + 1 \in Int /\ c[b] + CellRes(l) \in Int
        /\ c[b] <= n[b] /\ n[b] + 1 <= c[b] + CellRes(l) /\ Position(u)[b] \in Int
    BY <1>1, <1>3, <2>1, PositionFacts
  <2>3. /\ VoxelWidth * c[b] <= VoxelWidth * n[b]
        /\ VoxelWidth * (n[b] + 1) <= VoxelWidth * (c[b] + CellRes(l))
        /\ VoxelWidth * c[b] \in Int /\ VoxelWidth * n[b] \in Int
        /\ VoxelWidth * (n[b] + 1) \in Int /\ VoxelWidth * (c[b] + CellRes(l)) \in Int
    BY <2>2, PlaneOrder
  <2>4. ray.dir[b] = 0 \/ u = 0 => ~(b = a /\ ray.dir[a] < 0)
    BY <1>1
  <2> QED BY <2>1, <2>2, <2>3, <2>4
<1>5. IsCell(u, c, l) /\ InCell(u, c, l)
  BY <1>3, <1>4 DEF IsCell, InCell
<1> QED
  BY <1>3, <1>5, ExitFacts

(* They are in the cell that was stepped to. *)
LEMMA ReinitInside ==
  ASSUME Course, NEW u, Reached(u), u < tMax, NEW a \in Axes, OnPlane(u, a),
         NEW l \in LevelsDown, l + 1 \in LevelsDown, NEW f, IsCell(u, f, l),
         Position(u)[a] = VoxelWidth * Entrance(f, l, a)
  PROVE  Within(ClampToCell(Moved(u, a), l + 1), f, l)
<1>1. RayOK /\ u \in Int /\ tMax \in Nat /\ CellRes(l) \in Nat \ {0} /\ ray.dir[a] # 0 /\ u \in Nat
      /\ l + 1 \in 0 .. NumLevels /\ CellRes(l) = Res[l + 1] /\ VoxelWidth \in Nat \ {0, 1}
  BY CellResFacts, IteratorAssumption DEF Course, Reached, OnPlane
<1>2. f \in [Axes -> Nat] /\ NodeOrigin(f, l + 1) = f /\ InCell(u, f, l) /\ f \in Coordinates
  BY DEF IsCell, Coordinates
<1>3. ray.dir[a] \in {-2, -1, 1, 2}
  BY <1>1, PositionFacts
<1> DEFINE m == Moved(u, a)
           n == VoxelOf(m)
<1>4. m \in Coordinates
  BY <1>1, MovedPosition
<1>5. n \in Coordinates
  BY <1>4, VoxelOfFacts
<1>6. ASSUME NEW b \in Axes PROVE f[b] <= n[b] /\ n[b] < f[b] + Res[l + 1]
  <2>1. /\ n[b] \in Nat
        /\ VoxelWidth * n[b] <= Position(u)[b]
        /\ Position(u)[b] <= VoxelWidth * (n[b] + 1)
        /\ ~(b = a /\ ray.dir[a] < 0) => Position(u)[b] < VoxelWidth * (n[b] + 1)
        /\ b = a /\ ray.dir[a] < 0 => VoxelWidth * n[b] < Position(u)[b]
    BY MovedVoxel
  <2> HIDE DEF n, m
  <2>2. f[b] \in Int /\ n[b] \in Int /\ n[b] + 1 \in Int /\ f[b] + CellRes(l) \in Int
        /\ Position(u)[b] \in Int
    BY <1>1, <1>2, <2>1, PositionFacts
  <2> DEFINE s == f[b] + CellRes(l)
             k == n[b] + 1
  <2>3. /\ VoxelWidth * f[b] \in Int /\ VoxelWidth * n[b] \in Int /\ VoxelWidth * s \in Int
        /\ VoxelWidth * k \in Int /\ s \in Int /\ k \in Int
        /\ k <= f[b] => VoxelWidth * k <= VoxelWidth * f[b]
        /\ f[b] < k => VoxelWidth * f[b] + VoxelWidth <= VoxelWidth * k
        /\ s <= n[b] => VoxelWidth * s <= VoxelWidth * n[b]
        /\ s <= k <=> VoxelWidth * s <= VoxelWidth * k
    <3>1. s \in Int /\ k \in Int
      BY <2>2
    <3> HIDE DEF s, k
    <3>2. /\ VoxelWidth * f[b] \in Int /\ VoxelWidth * k \in Int
          /\ k <= f[b] => VoxelWidth * k <= VoxelWidth * f[b]
          /\ f[b] < k => VoxelWidth * f[b] + VoxelWidth <= VoxelWidth * k
      BY <2>2, <3>1, PlaneOrder
    <3>3. /\ VoxelWidth * n[b] \in Int /\ VoxelWidth * s \in Int
          /\ s <= n[b] => VoxelWidth * s <= VoxelWidth * n[b]
      BY <2>2, <3>1, PlaneOrder
    <3>4. s <= k <=> VoxelWidth * s <= VoxelWidth * k
      BY <3>1, PlaneOrder
    <3> QED BY <3>1, <3>2, <3>3, <3>4
  <2>4. /\ VoxelWidth * f[b] <= Position(u)[b]
        /\ Position(u)[b] <= VoxelWidth * s
        /\ ray.dir[b] = 0 => Position(u)[b] < VoxelWidth * s
    BY <1>2 DEF InCell
  <2>5. CASE b # a
    <3>1. ~(k <= f[b])
      BY <2>1, <2>2, <2>3, <2>4, <2>5
    <3>2. Position(u)[b] # VoxelWidth * s
      <4>1. CASE ray.dir[b] = 0
        BY <2>2, <2>3, <2>4, <4>1
      <4>2. CASE ray.dir[b] # 0
        <5>1. u \in 0 .. tMax - 1
          BY <1>1
        <5>2. ~OnPlane(u, b)
          BY <2>5, <5>1 DEF Course, GeneralPosition
        <5>3. Position(u)[b] % VoxelWidth # 0
          BY <4>2, <5>2 DEF OnPlane
        <5> HIDE DEF s
        <5>4. s \in Int
          BY <2>2 DEF s
        <5> QED BY <2>2, <5>3, <5>4, PlaneFacts
      <4> QED BY <4>1, <4>2
    <3>3. ~(s <= n[b])
      BY <2>1, <2>2, <2>3, <2>4, <3>2
    <3> QED BY <1>1, <2>2, <3>1, <3>3
  <2>6. CASE b = a /\ ray.dir[a] > 0
    <3>1. Position(u)[b] = VoxelWidth * f[b]
      BY <2>6 DEF Entrance
    <3>2. ~(k <= f[b])
      BY <1>3, <2>1, <2>2, <2>3, <2>6, <3>1
    <3>3. ~(f[b] < n[b])
      <4> SUFFICES ASSUME f[b] < n[b] PROVE FALSE
        OBVIOUS
      <4>1. VoxelWidth * f[b] + VoxelWidth <= VoxelWidth * n[b]
        BY <2>2, PlaneOrder
      <4> QED BY <1>1, <2>1, <2>2, <2>3, <3>1, <4>1
    <3> QED BY <1>1, <2>2, <3>2, <3>3
  <2>7. CASE b = a /\ ray.dir[a] < 0
    <3>1. Position(u)[b] = VoxelWidth * s
      BY <1>3, <2>7 DEF Entrance
    <3>2. VoxelWidth * n[b] < Position(u)[b] /\ Position(u)[b] <= VoxelWidth * k
      BY <2>1, <2>7
    <3>3. s <= k
      BY <2>3, <3>1, <3>2
    <3>4. ~(s <= n[b])
      BY <2>2, <2>3, <3>1, <3>2
    <3> QED BY <1>1, <2>2, <3>3, <3>4
  <2> QED BY <1>3, <2>5, <2>6, <2>7
<1>7. NodeOrigin(n, l + 1) = f
  BY <1>1, <1>2, <1>5, <1>6, NodeOriginIs
<1>8. f = ClampToCell(m, l)
  BY <1>4, <1>7, ClampFacts
<1> QED
  BY <1>4, <1>8, ClampsNest

-----------------------------------------------------------------------------
(***************************************************************************)
(* A step on one level, with the levels below brought up to date.          *)
(***************************************************************************)
Below(pos, x, l, y) ==
    /\ y = [t |-> y.t, idx |-> y.idx, tNext |-> y.tNext] /\ y.t = x.t
    /\ y.idx = [k \in 0 .. depth |-> y.idx[k]] /\ y.tNext = [k \in 0 .. depth |-> y.tNext[k]]
    /\ \A k \in 0 .. depth :
          IF k <= l THEN y.idx[k] = x.idx[k] /\ y.tNext[k] = x.tNext[k]
          ELSE y.idx[k] = ClampToCell(pos, k) /\ y.tNext[k] = ExitTimes(ClampToCell(pos, k), k)

LEMMA StepOnLevelFacts ==
  ASSUME RayOK, depth \in LevelsDown, NEW d, IsDda(d), NEW l \in 0 .. depth
  PROVE  \E a, x : Stepped(d, l, a, x) /\ Below(Moved(x.t, a), x, l, StepOnLevel(d, l))
<1>1. PICK a, x, y : a = StepAxis(d, l) /\ x = DdaStep(d, l) /\ y = StepOnLevel(d, l)
  OBVIOUS
<1>2. Stepped(d, l, a, x)
  BY <1>1, DdaStepFacts
<1>3. /\ x = [t |-> x.t, idx |-> x.idx, tNext |-> x.tNext]
      /\ x.idx = [k \in 0 .. depth |-> x.idx[k]] /\ x.tNext = [k \in 0 .. depth |-> x.tNext[k]]
  BY <1>2 DEF Stepped, IsDda
<1>4. l \in Nat /\ depth \in Nat
  BY ResFacts DEF LevelsDown
<1>5. CASE ~(l < depth)
  <2>1. y = x /\ \A k \in 0 .. depth : k <= l
    BY <1>1, <1>4, <1>5 DEF StepOnLevel
  <2>2. Below(Moved(x.t, a), x, l, y)
    BY <1>3, <2>1 DEF Below
  <2> QED BY <1>1, <1>2, <2>2
<1>6. CASE l < depth
  <2>1. y = ReinitAt(Moved(x.t, a), x, l)
    BY <1>1, <1>6 DEF StepOnLevel, DdaReinitBelow, Moved
  <2>2. PICK m : m = Moved(x.t, a)
    OBVIOUS
  <2>3. PICK i : i = [k \in 0 .. depth |-> IF k <= l THEN x.idx[k] ELSE ClampToCell(m, k)]
    OBVIOUS
  <2>4. PICK e : e = [k \in 0 .. depth |-> IF k <= l THEN x.tNext[k] ELSE ExitTimes(i[k], k)]
    OBVIOUS
  <2>5. y = [x EXCEPT !.idx = i, !.tNext = e]
    BY <2>1, <2>2, <2>3, <2>4 DEF ReinitAt
  <2>6. y = [t |-> x.t, idx |-> i, tNext |-> e]
    BY <1>3, <2>5
  <2>7. y.t = x.t /\ y.idx = i /\ y.tNext = e
    BY <2>6
  <2>8. Below(m, x, l, y)
    BY <2>3, <2>4, <2>6, <2>7 DEF Below
  <2> QED BY <1>1, <1>2, <2>2, <2>8
<1> QED
  BY <1>5, <1>6

(* Behind the box. *)
LEMMA StepIsLate ==
  ASSUME Course, NEW d, IsDda(d), NEW l \in 0 .. depth,
         \A k \in 0 .. l : \A a \in Axes : d.tNext[k][a] >= tMax
  PROVE  Late(StepOnLevel(d, l)) /\ IsDda(StepOnLevel(d, l))
<1>1. RayOK /\ depth \in LevelsDown /\ tMax \in Nat /\ l \in Nat /\ depth \in Nat
      /\ \A k \in 0 .. depth : k \in LevelsDown
  BY ResFacts DEF Course, LevelsDown
<1>2. PICK y : y = StepOnLevel(d, l)
  OBVIOUS
<1>3. PICK a, x : Stepped(d, l, a, x) /\ Below(Moved(x.t, a), x, l, y)
  BY <1>1, <1>2, StepOnLevelFacts
<1>4. IsDda(x) /\ a \in Axes /\ x.t = d.tNext[l][a] /\ x.t \in Nat
      /\ \A k \in 0 .. depth : x.tNext[k] \in [Axes -> Nat] /\ x.idx[k] \in [Axes -> Int]
  BY <1>3 DEF Stepped, IsDda
<1>5. x.t >= tMax
  BY <1>1, <1>4
<1>7. ASSUME NEW k \in 0 .. depth
      PROVE  /\ y.tNext[k] \in [Axes -> Nat] /\ y.idx[k] \in [Axes -> Int]
             /\ \A b \in Axes : y.tNext[k][b] >= tMax
  <2>1. CASE k <= l
    <3>1. k \in 0 .. l
      BY <1>1, <2>1
    <3>2. \A b \in Axes : x.tNext[k][b] >= tMax
      BY <1>1, <1>3, <3>1, LateStep
    <3>3. y.tNext[k] = x.tNext[k] /\ y.idx[k] = x.idx[k]
      BY <1>3, <2>1 DEF Below
    <3> QED BY <1>4, <3>2, <3>3
  <2>2. CASE ~(k <= l)
    <3> DEFINE m == Moved(x.t, a)
    <3>1. y.idx[k] = ClampToCell(m, k) /\ y.tNext[k] = ExitTimes(ClampToCell(m, k), k)
      BY <1>3, <2>2 DEF Below
    <3>2. m \in Coordinates /\ \A b \in Axes : /\ ray.dir[b] > 0 => Position(x.t)[b] <= m[b]
                                               /\ ray.dir[b] < 0 => m[b] <= Position(x.t)[b]
      <4>1. x.t \in Int /\ \A b \in Axes : Position(x.t)[b] \in Int
        BY <1>1, <1>4, PositionFacts
      <4>2. /\ m \in Coordinates
            /\ \A b \in Axes : b # a => m[b] = Position(x.t)[b]
            /\ ray.dir[a] > 0 => m[a] = Position(x.t)[a] + 1
            /\ ray.dir[a] < 0 => m[a] = Position(x.t)[a] - 1
        BY <1>1, <1>4, <4>1, MovedPosition
      <4> HIDE DEF m
      <4>3. ASSUME NEW b \in Axes
            PROVE  /\ ray.dir[b] > 0 => Position(x.t)[b] <= m[b]
                   /\ ray.dir[b] < 0 => m[b] <= Position(x.t)[b]
        <5>1. CASE b # a BY <4>1, <4>2, <5>1
        <5>2. CASE b = a BY <1>4, <4>1, <4>2, <5>2
        <5> QED BY <5>1, <5>2
      <4> QED BY <4>2, <4>3
    <3> HIDE DEF m
    <3>3. x.t \in Int /\ k \in LevelsDown
      BY <1>1, <1>4
    <3>4. LET e == ExitTimes(ClampToCell(m, k), k)
          IN  e \in [Axes -> Nat] /\ \A b \in Axes : e[b] >= tMax
      BY <1>5, <3>2, <3>3, LateClamp
    <3>5. ClampToCell(m, k) \in [Axes -> Nat]
      BY <3>2, <3>3, ClampFacts
    <3>6. y.idx[k] \in [Axes -> Int]
      BY <3>1, <3>5
    <3> QED BY <3>1, <3>4, <3>6
  <2> QED BY <2>1, <2>2
<1>8. y.t = x.t /\ y = [t |-> y.t, idx |-> y.idx, tNext |-> y.tNext]
      /\ y.idx = [k \in 0 .. depth |-> y.idx[k]] /\ y.tNext = [k \in 0 .. depth |-> y.tNext[k]]
  BY <1>3 DEF Below
<1>9. Late(y)
  BY <1>5, <1>7, <1>8 DEF Late
<1>10. y.idx \in [0 .. depth -> [Axes -> Int]] /\ y.tNext \in [0 .. depth -> [Axes -> Nat]]
  BY <1>7, <1>8
<1>11. IsDda(y)
  BY <1>4, <1>8, <1>10 DEF IsDda
<1> QED
  BY <1>2, <1>9, <1>11

-----------------------------------------------------------------------------
(* The cell that a step left. *)
LEMMA CellBefore ==
  ASSUME RayOK, NEW l \in LevelsDown, NEW a \in Axes, NEW c \in [Axes -> Int], NEW y,
         y.idx[l] = [c EXCEPT ![a] = @ + Sign(ray.dir[a]) * CellRes(l)]
  PROVE  Before(y, l, a) = c
<1>1. PICK s \in Int : s = Sign(ray.dir[a]) * CellRes(l)
  <2>1. Sign(ray.dir[a]) \in {-1, 0, 1} /\ CellRes(l) \in Nat
    BY PositionFacts, CellResFacts DEF Sign
  <2> QED BY <2>1
<1>2. c[a] \in Int /\ (c[a] + s) - s = c[a]
  BY <1>1
<1>3. [[c EXCEPT ![a] = @ + s] EXCEPT ![a] = @ - s] =
         [b \in Axes |-> IF b = a THEN (c[a] + s) - s ELSE c[b]]
  OBVIOUS
<1>4. [[c EXCEPT ![a] = @ + s] EXCEPT ![a] = @ - s] = c
  BY <1>2, <1>3
<1> QED
  BY <1>1, <1>4 DEF Before

(* Inside the box, the first step of hddaStep: only the level above the one *)
(* that was stepped on may be out of date.                                 *)
LEMMA StepMarches ==
  ASSUME Course, NEW d, IsDda(d), Reached(d.t), d.t < tMax, Nested(d, -1),
         NEW l \in 0 .. depth, NEW y, y = StepOnLevel(d, l)
  PROVE  /\ IsDda(y) /\ d.t <= y.t /\ Reached(y.t)
         /\ \A a \in Axes : y.t <= d.tNext[l][a]
         /\ y.t < tMax => Nested(y, l) /\ \E a \in Axes : CameThrough(y, l, a)
         /\ y.t >= tMax => Late(y)
<1>1. RayOK /\ depth \in LevelsDown /\ tMax \in Nat /\ tMax < Inf /\ l \in Nat /\ depth \in Nat
      /\ (\A k \in 0 .. depth : k \in LevelsDown) /\ Inf \in Nat /\ d.t \in Nat
  BY ResFacts, IteratorAssumption DEF Course, LevelsDown, IsDda
<1>2. PICK a, x : Stepped(d, l, a, x) /\ Below(Moved(x.t, a), x, l, y)
  BY <1>1, StepOnLevelFacts
<1>3. PICK u : u = x.t
  OBVIOUS
<1>4. /\ IsDda(x) /\ a \in Axes /\ u = d.tNext[l][a] /\ \A b \in Axes : u <= d.tNext[l][b]
      /\ u \in Nat /\ y.t = u
      /\ x.idx[l] = [d.idx[l] EXCEPT ![a] = @ + Sign(ray.dir[a]) * CellRes(l)]
      /\ x.tNext[l] = [d.tNext[l] EXCEPT ![a] = @ + TDelta(l, a)]
      /\ \A k \in 0 .. depth : k # l => x.idx[k] = d.idx[k] /\ x.tNext[k] = d.tNext[k]
  BY <1>2, <1>3 DEF Stepped, Below, IsDda
<1>5. IsCell(d.t, d.idx[l], l) /\ Exits(d.t, d.idx[l], l, d.tNext[l])
  BY DEF Nested
<1>6. d.t <= u
  <2>1. CASE ray.dir[a] = 0
    <3>1. d.tNext[l][a] = Inf
      BY <1>4, <1>5, <2>1 DEF Exits
    <3> QED BY <1>1, <1>4, <3>1
  <2>2. CASE ray.dir[a] # 0
    BY <1>4, <1>5, <2>2 DEF Exits
  <2> QED BY <2>1, <2>2
<1>7. Reached(u)
  BY <1>1, <1>4, <1>6, ReachedStays
<1>8. \A k \in 0 .. l : \A b \in Axes : u <= d.tNext[k][b]
  <2>1. -1 \notin 1 .. l
    BY <1>1
  <2> QED BY <1>4, <2>1, FirstExit
<1>9. CASE u >= tMax
  <2>1. ASSUME NEW k \in 0 .. l, NEW b \in Axes PROVE d.tNext[k][b] >= tMax
    <3>1. d.tNext[k] \in [Axes -> Nat] /\ u <= d.tNext[k][b]
      <4>1. k \in 0 .. depth
        BY <1>1
      <4> QED BY <1>8, <4>1 DEF IsDda
    <3> QED BY <1>1, <1>4, <1>9, <3>1
  <2>2. Late(y) /\ IsDda(y)
    BY <2>1, StepIsLate
  <2> QED BY <1>1, <1>4, <1>6, <1>7, <1>9, <2>2
<1>10. CASE u < tMax
  <2>1. l \in LevelsDown
    BY <1>1
  <2>2. /\ ray.dir[a] # 0 /\ OnPlane(u, a)
        /\ ray.dir[a] < 0 => u > 0
        /\ IsCell(u, x.idx[l], l) /\ Exits(u, x.idx[l], l, x.tNext[l])
        /\ Position(u)[a] = VoxelWidth * Entrance(x.idx[l], l, a)
    BY <1>4, <1>5, <1>10, <2>1, StepOnto
  <2>3. ASSUME NEW k \in 0 .. depth
        PROVE  IF k <= l THEN y.idx[k] = x.idx[k] /\ y.tNext[k] = x.tNext[k]
               ELSE /\ y.idx[k] = ClampToCell(Moved(u, a), k)
                    /\ y.tNext[k] = ExitTimes(ClampToCell(Moved(u, a), k), k)
    BY <1>2, <1>3 DEF Below
  <2>4. ASSUME NEW k \in 0 .. depth
        PROVE  IsCell(u, y.idx[k], k) /\ Exits(u, y.idx[k], k, y.tNext[k])
    <3>1. CASE k < l
      <4>1. IsCell(d.t, d.idx[k], k) /\ Exits(d.t, d.idx[k], k, d.tNext[k])
        BY DEF Nested
      <4>2. y.idx[k] = d.idx[k] /\ y.tNext[k] = d.tNext[k]
        BY <1>4, <2>3, <3>1
      <4>3. \A b \in Axes : u <= d.tNext[k][b]
        BY <1>1, <1>8, <3>1
      <4>4. IsCell(u, d.idx[k], k) /\ Exits(u, d.idx[k], k, d.tNext[k])
        BY <1>1, <1>4, <1>6, <4>1, <4>3, StepKeeps
      <4> QED BY <4>2, <4>4
    <3>2. CASE k = l
      <4>1. y.idx[k] = x.idx[l] /\ y.tNext[k] = x.tNext[l]
        BY <1>1, <2>3, <3>2
      <4> QED BY <2>2, <3>2, <4>1
    <3>3. CASE ~(k <= l)
      BY <1>1, <1>4, <1>7, <1>10, <2>2, <2>3, <3>3, ReinitFacts
    <3> QED BY <1>1, <3>1, <3>2, <3>3
  <2>5. ASSUME NEW k \in 0 .. depth - 1, k + 1 # l
        PROVE  Within(y.idx[k + 1], y.idx[k], k)
    <3>1. k \in 0 .. depth /\ k + 1 \in 0 .. depth /\ k \in LevelsDown /\ k + 1 \in LevelsDown
      BY <1>1
    <3>2. CASE k + 1 < l
      <4>1. y.idx[k] = d.idx[k] /\ y.idx[k + 1] = d.idx[k + 1]
        BY <1>1, <1>4, <2>3, <3>1, <3>2
      <4>2. Within(d.idx[k + 1], d.idx[k], k)
        BY <3>1 DEF Nested
      <4> QED BY <4>1, <4>2
    <3>3. CASE k = l
      <4>1. y.idx[k] = x.idx[l] /\ y.idx[k + 1] = ClampToCell(Moved(u, a), k + 1)
        BY <1>1, <2>3, <3>1, <3>3
      <4>2. Within(ClampToCell(Moved(u, a), l + 1), x.idx[l], l)
        BY <1>4, <1>7, <1>10, <2>1, <2>2, <3>1, <3>3, ReinitInside
      <4> QED BY <3>3, <4>1, <4>2
    <3>4. CASE k > l
      <4>1. y.idx[k] = ClampToCell(Moved(u, a), k) /\ y.idx[k + 1] = ClampToCell(Moved(u, a), k + 1)
        BY <1>1, <2>3, <3>1, <3>4
      <4>2. Moved(u, a) \in Coordinates
        BY <1>1, <1>4, MovedPosition
      <4> QED BY <3>1, <4>1, <4>2, ClampsNest
    <3> QED BY <1>1, <2>5, <3>2, <3>3, <3>4
  <2>6. Nested(y, l)
    BY <1>4, <2>4, <2>5 DEF Nested
  <2>7. CameThrough(y, l, a)
    <3>1. y.idx[l] = x.idx[l]
      BY <1>1, <2>3
    <3>2. Before(y, l, a) = d.idx[l]
      <4>1. d.idx[l] \in [Axes -> Int]
        BY DEF IsDda
      <4>2. y.idx[l] = [d.idx[l] EXCEPT ![a] = @ + Sign(ray.dir[a]) * CellRes(l)]
        BY <1>4, <3>1
      <4> QED BY <1>1, <1>4, <2>1, <4>1, <4>2, CellBefore
    <3>3. l > 0 => Within(d.idx[l], y.idx[l - 1], l - 1)
      <4> SUFFICES ASSUME l > 0 PROVE Within(d.idx[l], y.idx[l - 1], l - 1)
        OBVIOUS
      <4>1. PICK k \in 0 .. depth - 1 : k = l - 1 /\ k + 1 = l
        BY <1>1
      <4>2. y.idx[k] = d.idx[k]
        BY <1>1, <1>4, <2>3, <4>1
      <4>3. Within(d.idx[k + 1], d.idx[k], k)
        BY <1>1, <4>1 DEF Nested
      <4> QED BY <4>1, <4>2, <4>3
    <3> QED BY <1>4, <2>2, <3>1, <3>2, <3>3 DEF CameThrough
  <2>8. IsDda(y)
    <3>1. \A k \in 0 .. depth : y.idx[k] \in [Axes -> Int] /\ y.tNext[k] \in [Axes -> Nat]
      BY <2>4 DEF IsCell, Exits
    <3>2. y = [t |-> y.t, idx |-> y.idx, tNext |-> y.tNext]
          /\ y.idx = [k \in 0 .. depth |-> y.idx[k]] /\ y.tNext = [k \in 0 .. depth |-> y.tNext[k]]
      BY <1>2 DEF Below
    <3>3. y.idx \in [0 .. depth -> [Axes -> Int]] /\ y.tNext \in [0 .. depth -> [Axes -> Nat]]
      BY <3>1, <3>2
    <3> QED BY <1>4, <3>2, <3>3 DEF IsDda
  <2> QED BY <1>1, <1>4, <1>6, <1>7, <1>10, <2>6, <2>7, <2>8
<1> QED
  BY <1>1, <1>4, <1>9, <1>10

-----------------------------------------------------------------------------
(***************************************************************************)
(* hddaStep goes on: the levels above follow.                              *)
(***************************************************************************)

(* A child leaves its parent through the side that the ray came through. *)
LEMMA LeftThrough ==
  ASSUME Course, NEW m \in LevelsDown, m + 1 \in LevelsDown, NEW u \in Int, NEW c, NEW f, NEW g,
         IsCell(u, c, m), IsCell(u, f, m + 1), NEW a \in Axes, ray.dir[a] # 0,
         g = [f EXCEPT ![a] = @ - Sign(ray.dir[a]) * CellRes(m + 1)], Within(g, c, m),
         Position(u)[a] = VoxelWidth * Entrance(f, m + 1, a), ~Within(f, c, m)
  PROVE  /\ Position(u)[a] = VoxelWidth * Exit(c, m, a)
         /\ Within(f, [c EXCEPT ![a] = @ + Sign(ray.dir[a]) * CellRes(m)], m)
<1> DEFINE r == CellRes(m)
           q == CellRes(m + 1)
<1>1. RayOK /\ VoxelWidth \in Nat \ {0, 1}
  BY IteratorAssumption DEF Course
<1>2. /\ c \in [Axes -> Nat] /\ f \in [Axes -> Nat] /\ c \in Coordinates /\ f \in Coordinates
      /\ NodeOrigin(c, m + 1) = c /\ NodeOrigin(f, m + 1 + 1) = f
  BY DEF IsCell, Coordinates
<1>3. /\ q \in Nat \ {0} /\ r \in Nat \ {0} /\ q <= r
      /\ f[a] < c[a] => f[a] + q <= c[a]
      /\ c[a] \in Int /\ f[a] \in Int
  BY <1>2, NestedSides
<1>4. ray.dir[a] \in {-2, -1, 1, 2} /\ Position(u)[a] \in Int
  BY <1>1, PositionFacts
<1>5. /\ ray.dir[a] > 0 => Sign(ray.dir[a]) = 1
      /\ ray.dir[a] < 0 => Sign(ray.dir[a]) = -1
  BY <1>4 DEF Sign
<1>6. PICK s \in {-1, 1} : s = Sign(ray.dir[a])
  BY <1>4, <1>5
<1> HIDE DEF r, q
<1>7. PICK x, y \in Int : x = s * q /\ y = s * r /\ (s = 1 => x = q /\ y = r)
                          /\ (s = -1 => x = -q /\ y = -r)
  BY <1>3, <1>6
<1>8. g[a] = f[a] - x /\ \A b \in Axes : b # a => g[b] = f[b]
  <2>1. g = [f EXCEPT ![a] = @ - x]
    BY <1>6, <1>7 DEF q
  <2> QED BY <1>2, <2>1
<1>9. PICK h : h = [c EXCEPT ![a] = @ + y]
  OBVIOUS
<1>10. h[a] = c[a] + y /\ \A b \in Axes : b # a => h[b] = c[b]
  BY <1>2, <1>9
<1>11. \A b \in Axes : c[b] <= g[b] /\ g[b] < c[b] + r
  BY DEF Within, r
<1>12. ~(c[a] <= f[a] /\ f[a] < c[a] + r)
  <2> SUFFICES ASSUME c[a] <= f[a] /\ f[a] < c[a] + r PROVE FALSE
    OBVIOUS
  <2>1. \A b \in Axes : c[b] <= f[b] /\ f[b] < c[b] + r
    BY <1>8, <1>11
  <2> QED BY <2>1 DEF Within, r
<1>13. /\ VoxelWidth * c[a] <= Position(u)[a]
       /\ Position(u)[a] <= VoxelWidth * (c[a] + r)
  BY DEF IsCell, InCell, r
<1>14. Exit(c, m, a) = (IF ray.dir[a] < 0 THEN c[a] ELSE c[a] + r)
       /\ Entrance(f, m + 1, a) = (IF ray.dir[a] > 0 THEN f[a] ELSE f[a] + q)
  BY DEF Exit, Entrance, r, q
<1>15. /\ Exit(c, m, a) = Entrance(f, m + 1, a)
       /\ h[a] <= f[a] /\ f[a] < h[a] + r
  <2>1. CASE ray.dir[a] > 0
    <3>1. x = q /\ y = r /\ c[a] <= f[a] - q
      BY <1>5, <1>6, <1>7, <1>8, <1>11, <2>1
    <3>2. c[a] + r <= f[a]
      BY <1>3, <1>12, <3>1
    <3>3. VoxelWidth * f[a] <= VoxelWidth * (c[a] + r)
      BY <1>13, <1>14, <2>1
    <3>4. f[a] <= c[a] + r
      <4>1. c[a] + r \in Int /\ f[a] \in Int
        BY <1>3
      <4> QED BY <3>3, <4>1, PlaneOrder
    <3> QED BY <1>3, <1>4, <1>10, <1>14, <2>1, <3>1, <3>2, <3>4
  <2>2. CASE ray.dir[a] < 0
    <3>1. x = -q /\ y = -r /\ f[a] + q < c[a] + r
      BY <1>3, <1>5, <1>6, <1>7, <1>8, <1>11, <2>2
    <3>2. f[a] < c[a] /\ f[a] + q <= c[a]
      BY <1>3, <1>12, <3>1
    <3>3. VoxelWidth * c[a] <= VoxelWidth * (f[a] + q)
      BY <1>4, <1>13, <1>14, <2>2
    <3>4. c[a] <= f[a] + q
      <4>1. f[a] + q \in Int /\ c[a] \in Int
        BY <1>3
      <4> QED BY <3>3, <4>1, PlaneOrder
    <3> QED BY <1>3, <1>4, <1>10, <1>14, <2>2, <3>1, <3>2, <3>4
  <2> QED BY <1>4, <2>1, <2>2
<1>16. \A b \in Axes : h[b] <= f[b] /\ f[b] < h[b] + r
  BY <1>8, <1>10, <1>11, <1>15
<1>17. h = [c EXCEPT ![a] = @ + Sign(ray.dir[a]) * CellRes(m)]
  BY <1>6, <1>7, <1>9 DEF r
<1> QED
  BY <1>15, <1>16, <1>17 DEF Within, r

LEMMA FollowKeeps ==
  ASSUME Course, NEW d, IsDda(d), Reached(d.t), d.t < tMax, NEW m \in 0 .. depth - 1,
         Nested(d, m + 1), NEW a \in Axes, CameThrough(d, m + 1, a), ChildHasLeftDomain(d, m),
         NEW y, y = DdaStep(d, m)
  PROVE  IsDda(y) /\ y.t = d.t /\ Nested(y, m) /\ CameThrough(y, m, a)
<1>1. RayOK /\ depth \in LevelsDown /\ tMax \in Nat /\ tMax < Inf /\ m \in Nat /\ depth \in Nat
      /\ (\A k \in 0 .. depth : k \in LevelsDown) /\ Inf \in Nat /\ d.t \in Nat
      /\ m \in 0 .. depth /\ m + 1 \in 0 .. depth /\ m \in LevelsDown /\ m + 1 \in LevelsDown
  BY ResFacts, IteratorAssumption DEF Course, LevelsDown, IsDda
<1>2. PICK u, c, f, e : u = d.t /\ c = d.idx[m] /\ f = d.idx[m + 1] /\ e = d.tNext[m]
  OBVIOUS
<1>3. IsCell(u, c, m) /\ Exits(u, c, m, e) /\ IsCell(u, f, m + 1)
  BY <1>1, <1>2 DEF Nested
<1>4. ~Within(f, c, m)
  <2>1. PICK b \in Axes : f[b] < c[b] \/ f[b] >= c[b] + CellRes(m)
    BY <1>2 DEF ChildHasLeftDomain
  <2>2. f[b] \in Nat /\ c[b] \in Nat /\ CellRes(m) \in Nat
    BY <1>1, <1>3, CellResFacts DEF IsCell
  <2> QED BY <2>1, <2>2 DEF Within
<1>5. /\ ray.dir[a] # 0
      /\ Position(u)[a] = VoxelWidth * Entrance(f, m + 1, a)
      /\ Within([f EXCEPT ![a] = @ - Sign(ray.dir[a]) * CellRes(m + 1)], c, m)
  <2>1. m + 1 > 0 /\ (m + 1) - 1 = m
    BY <1>1
  <2> QED BY <1>2, <2>1 DEF CameThrough, Before
<1>6. u \in Nat /\ u \in Int /\ u \in 0 .. tMax - 1 /\ u < tMax
  BY <1>1, <1>2
<1>7. /\ Position(u)[a] = VoxelWidth * Exit(c, m, a)
      /\ Within(f, [c EXCEPT ![a] = @ + Sign(ray.dir[a]) * CellRes(m)], m)
  BY <1>1, <1>3, <1>4, <1>5, <1>6, LeftThrough
<1>8. /\ e \in [Axes -> Nat]
      /\ \A b \in Axes : IF ray.dir[b] = 0 THEN e[b] = Inf
                         ELSE u <= e[b] /\ Position(e[b])[b] = VoxelWidth * Exit(c, m, b)
  BY <1>3 DEF Exits
<1>9. e[a] = u
  <2>1. e[a] \in Int /\ u <= e[a] /\ Position(e[a])[a] = Position(u)[a]
    BY <1>5, <1>7, <1>8
  <2>2. ray.dir[a] \in {-2, -1, 1, 2} /\ Position(u)[a] \in Int
    BY <1>1, <1>5, <1>6, PositionFacts
  <2>3. e[a] <= u
    <3>1. /\ ray.dir[a] > 0 => (e[a] <= u <=> Position(e[a])[a] <= Position(u)[a])
          /\ ray.dir[a] < 0 => (e[a] <= u <=> Position(u)[a] <= Position(e[a])[a])
      BY <1>1, <1>6, <2>1, PositionOrder
    <3> QED BY <2>1, <2>2, <3>1
  <2> QED BY <1>6, <2>1, <2>3
<1>10. \A b \in Axes : u <= e[b]
  BY <1>1, <1>6, <1>8
<1>11. c \in [Axes -> Nat] /\ VoxelWidth \in Nat \ {0, 1} /\ CellRes(m) \in Nat
  BY <1>1, <1>3, CellResFacts, IteratorAssumption DEF IsCell
<1>12. ASSUME NEW b \in Axes, e[b] = u PROVE OnPlane(u, b)
  <2>1. ray.dir[b] # 0
    BY <1>1, <1>6, <1>8, <1>12
  <2>2. Position(u)[b] = VoxelWidth * Exit(c, m, b)
    BY <1>8, <1>12, <2>1
  <2>3. Exit(c, m, b) \in Int /\ Position(u)[b] \in Int
    BY <1>1, <1>6, <1>11, PositionFacts DEF Exit
  <2> QED BY <2>1, <2>2, <2>3, PlaneFacts DEF OnPlane
<1>13. PICK x : x = StepAxis(d, m)
  OBVIOUS
<1>14. Stepped(d, m, x, y)
  BY <1>1, <1>13, DdaStepFacts
<1>15. x = a
  <2>1. x \in Axes /\ y.t = e[x] /\ \A b \in Axes : y.t <= e[b]
    BY <1>2, <1>14 DEF Stepped
  <2>2. e[x] = u
    BY <1>6, <1>8, <1>9, <1>10, <2>1
  <2>3. OnPlane(u, x) /\ OnPlane(u, a)
    BY <1>9, <1>12, <2>1, <2>2
  <2> QED BY <1>6, <2>1, <2>3 DEF Course, GeneralPosition
<1>16. /\ IsDda(y) /\ y.t = u
       /\ \A k \in 0 .. depth : k # m => y.idx[k] = d.idx[k] /\ y.tNext[k] = d.tNext[k]
       /\ y.idx[m] = [c EXCEPT ![a] = @ + Sign(ray.dir[a]) * CellRes(m)]
       /\ y.tNext[m] = [e EXCEPT ![a] = @ + TDelta(m, a)]
  BY <1>2, <1>9, <1>14, <1>15 DEF Stepped
<1>17. /\ IsCell(u, y.idx[m], m) /\ Exits(u, y.idx[m], m, y.tNext[m])
       /\ Position(u)[a] = VoxelWidth * Entrance(y.idx[m], m, a)
  <2>1. Reached(u)
    BY <1>2
  <2> QED BY <1>1, <1>3, <1>6, <1>9, <1>10, <1>16, <2>1, StepOnto
<1>18. Nested(y, m)
  <2>1. ASSUME NEW k \in 0 .. depth
        PROVE  IsCell(y.t, y.idx[k], k) /\ Exits(y.t, y.idx[k], k, y.tNext[k])
    <3>1. CASE k = m
      BY <1>16, <1>17, <3>1
    <3>2. CASE k # m
      BY <1>2, <1>16, <3>2 DEF Nested
    <3> QED BY <3>1, <3>2
  <2>2. ASSUME NEW k \in 0 .. depth - 1, k + 1 # m
        PROVE  Within(y.idx[k + 1], y.idx[k], k)
    <3>1. k \in 0 .. depth /\ k + 1 \in 0 .. depth
      BY <1>1
    <3>2. CASE k = m
      BY <1>1, <1>2, <1>7, <1>16, <3>1, <3>2
    <3>3. CASE k # m
      <4>1. k + 1 # m + 1
        BY <1>1, <3>3
      <4> QED BY <1>16, <2>2, <3>1, <3>3, <4>1 DEF Nested
    <3> QED BY <3>2, <3>3
  <2> QED BY <2>1, <2>2 DEF Nested
<1>19. CameThrough(y, m, a)
  <2>1. Before(y, m, a) = c
    <3>1. c \in [Axes -> Int]
      BY <1>11
    <3>2. RayOK /\ m \in LevelsDown
          /\ y.idx[m] = [c EXCEPT ![a] = @ + Sign(ray.dir[a]) * CellRes(m)]
      BY <1>1, <1>16
    <3> QED BY <3>1, <3>2, CellBefore
  <2>2. m > 0 => Within(c, y.idx[m - 1], m - 1)
    <3> SUFFICES ASSUME m > 0 PROVE Within(c, y.idx[m - 1], m - 1)
      OBVIOUS
    <3>1. PICK k \in 0 .. depth - 1 : k = m - 1 /\ k + 1 = m /\ k # m /\ k + 1 # m + 1
      BY <1>1
    <3>2. Within(d.idx[k + 1], d.idx[k], k)
      BY <3>1 DEF Nested
    <3> QED BY <1>1, <1>2, <1>16, <3>1, <3>2
  <2> QED BY <1>5, <1>16, <1>17, <2>1, <2>2 DEF CameThrough
<1> QED
  BY <1>2, <1>16, <1>18, <1>19

LEMMA FollowLate ==
  ASSUME Course, NEW d, IsDda(d), Late(d), NEW m \in 0 .. depth, NEW y, y = DdaStep(d, m)
  PROVE  IsDda(y) /\ Late(y)
<1>1. RayOK /\ depth \in LevelsDown /\ tMax \in Nat
  BY DEF Course
<1>2. PICK a : Stepped(d, m, a, y)
  BY <1>1, DdaStepFacts
<1>3. IsDda(y) /\ a \in Axes /\ y.t = d.tNext[m][a]
  BY <1>2 DEF Stepped
<1>4. y.t >= tMax
  BY <1>3 DEF Late
<1>5. ASSUME NEW k \in 0 .. depth
      PROVE  y.tNext[k] \in [Axes -> Nat] /\ \A b \in Axes : y.tNext[k][b] >= tMax
  <2>1. \A b \in Axes : d.tNext[k][b] >= tMax
    BY DEF Late
  <2>2. y.tNext[k] \in [Axes -> Nat]
    BY <1>3 DEF IsDda
  <2> QED BY <1>1, <1>2, <2>1, <2>2, LateStep
<1> QED
  BY <1>3, <1>4, <1>5 DEF Late

-----------------------------------------------------------------------------
(***************************************************************************)
(* The voxel of a query is on a level of the iterator, wherever the DDA is: *)
(* behind the box it may be outside of the tree.                           *)
(***************************************************************************)
Shallow(d, m, k) ==
    /\ d = [visited |-> d.visited, voxel |-> d.voxel, done |-> d.done, node |-> d.node]
    /\ d.visited \in Seq(DOMAIN voxels) /\ Len(d.visited) \in 0 .. k
    /\ Len(d.visited) <= m + 1
    /\ Len(d.visited) = 0 => d.voxel = Empty
    /\ ~d.done => Len(d.visited) = k /\ k <= m

LEMMA ShallowStep ==
  ASSUME NEW d, NEW o, NEW m \in Nat, NEW k \in Nat, Shallow(d, m, k),
         NEW e, e = DescendOnLevel(voxels, d, k, o, m)
  PROVE  Shallow(e, m, k + 1)
<1> DEFINE v == <<k, d.node, VoxelIndex(o, k)>>
<1>1. PICK s \in Seq(DOMAIN voxels) : s = d.visited
  BY DEF Shallow
<1>2. /\ Len(s) \in 0 .. k /\ Len(s) <= m + 1 /\ Len(s) \in Nat
      /\ Len(s) = 0 => d.voxel = Empty
      /\ ~d.done => Len(s) = k /\ k <= m
      /\ d = [visited |-> d.visited, voxel |-> d.voxel, done |-> d.done, node |-> d.node]
  BY <1>1 DEF Shallow
<1>3. CASE d.done
  <2>1. e = d
    BY <1>3 DEF DescendOnLevel
  <2> QED BY <1>1, <1>2, <1>3, <2>1 DEF Shallow
<1>4. CASE ~d.done /\ v \notin DOMAIN voxels
  <2>1. e = [d EXCEPT !.done = TRUE]
    BY <1>4 DEF DescendOnLevel
  <2>2. e = [visited |-> s, voxel |-> d.voxel, done |-> TRUE, node |-> d.node]
    BY <1>1, <1>2, <2>1
  <2>3. e.visited = s /\ e.voxel = d.voxel /\ e.done = TRUE
        /\ e = [visited |-> e.visited, voxel |-> e.voxel, done |-> e.done, node |-> e.node]
    BY <2>2
  <2> QED BY <1>1, <1>2, <2>3 DEF Shallow
<1>5. CASE ~d.done /\ v \in DOMAIN voxels
  <2>1. PICK b \in BOOLEAN : b <=> voxels[v].type = "leaf" \/ k + 1 > m
    OBVIOUS
  <2>2. e = [visited |-> Append(s, v), voxel |-> voxels[v], done |-> b, node |-> voxels[v].index]
    <3>1. b = (voxels[v].type = "leaf" \/ k + 1 > m)
      BY <2>1
    <3> QED BY <1>1, <1>5, <3>1 DEF DescendOnLevel
  <2>3. Append(s, v) \in Seq(DOMAIN voxels) /\ Len(Append(s, v)) = Len(s) + 1
    BY <1>5, AppendFacts
  <2>4. e.visited = Append(s, v) /\ e.done = b
        /\ e = [visited |-> e.visited, voxel |-> e.voxel, done |-> e.done, node |-> e.node]
    BY <2>2
  <2>5. ~e.done => k + 1 <= m
    BY <2>1, <2>4
  <2> QED BY <1>2, <1>5, <2>3, <2>4, <2>5 DEF Shallow
<1> QED
  BY <1>3, <1>4, <1>5

LEMMA VisitedLength ==
  ASSUME NEW o, NEW m \in Nat
  PROVE  Shallow(Descend(o, m), m, LeafLevel)
<1> DEFINE Bad == {k \in 0 .. LeafLevel : ~Shallow(Descent(o, m)[k], m, k)}
<1>1. LeafLevel \in Nat \ {0}
  BY ResFacts
<1>2. 0 \notin Bad
  <2>1. Descent(o, m)[0] = StartOfDescent
    BY DescentIsDefined
  <2>2. Shallow(StartOfDescent, m, 0)
    BY DEF Shallow, StartOfDescent
  <2> QED BY <2>1, <2>2
<1>3. ASSUME Bad # {} PROVE FALSE
  <2>1. Bad \in SUBSET Nat
    BY <1>1
  <2>2. PICK k \in Bad : \A n \in Bad : k <= n
    <3> HIDE DEF Bad
    <3> QED
      BY <1>3, <2>1, LeastNat
  <2>3. k \in 1 .. LeafLevel /\ ~Shallow(Descent(o, m)[k], m, k)
    BY <1>1, <1>2, <2>2
  <2>4. Shallow(Descent(o, m)[k - 1], m, k - 1)
    <3>1. ~(k <= k - 1)
      BY <1>1, <2>3
    <3>2. k - 1 \notin Bad
      <4> HIDE DEF Bad
      <4> QED
        BY <2>2, <3>1
    <3> QED
      BY <1>1, <2>3, <3>2
  <2>5. PICK j \in Nat : j = k - 1 /\ j + 1 = k
    BY <1>1, <2>3
  <2>6. Descent(o, m)[k] = DescendOnLevel(voxels, Descent(o, m)[k - 1], k - 1, o, m)
    BY <2>3, DescentIsDefined
  <2>7. Shallow(Descent(o, m)[k], m, j + 1)
    BY <2>4, <2>5, <2>6, ShallowStep
  <2> QED
    BY <2>3, <2>5, <2>7
<1>4. Shallow(Descent(o, m)[LeafLevel], m, LeafLevel)
  BY <1>1, <1>3
<1> QED
  BY <1>4, DescendIsDescent

(* The three answers of a query. *)
Pruned(s) == {k \in 1 .. Len(s) : ~ValueRangesOverlap(range[s[k]])}

Answer(s, leaf, v) ==
    /\ v = [level |-> v.level, isEmpty |-> v.isEmpty, range |-> v.range]
    /\ v.isEmpty \in BOOLEAN
    /\ Pruned(s) # {} =>
          v.isEmpty /\ v.level + 1 \in Pruned(s) /\ \A k \in Pruned(s) : v.level + 1 <= k
    /\ Pruned(s) = {} /\ ~leaf /\ Len(s) <= depth => v.isEmpty /\ v.level = Len(s)
    /\ Pruned(s) = {} /\ (leaf \/ Len(s) > depth) =>
          /\ ~v.isEmpty /\ v.range = range[s[Len(s)]]
          /\ v.level = IF leaf /\ Len(s) <= depth THEN Len(s) ELSE Len(s) - 1

LEMMA QueryFacts ==
  ASSUME depth \in LevelsDown, NEW o, NEW v, v = QueryVoxel(o)
  PROVE  /\ v.level \in 0 .. depth
         /\ Answer(Descend(o, depth).visited, Descend(o, depth).voxel.type = "leaf", v)
<1>1. depth \in Nat
  BY ResFacts DEF LevelsDown
<1>2. PICK d : d = Descend(o, depth)
  OBVIOUS
<1>3. PICK s \in Seq(DOMAIN voxels) : s = d.visited
  BY <1>1, <1>2, VisitedLength DEF Shallow
<1>4. PICK n \in Nat : n = Len(s)
  OBVIOUS
<1>5. n <= depth + 1 /\ (n = 0 => d.voxel = Empty)
  BY <1>1, <1>2, <1>3, <1>4, VisitedLength DEF Shallow
<1>6. PICK leaf \in BOOLEAN : leaf = (d.voxel.type = "leaf")
  OBVIOUS
<1>7. n = 0 => ~leaf
  <2> SUFFICES ASSUME n = 0 PROVE ~leaf
    OBVIOUS
  <2>1. d.voxel = [type |-> "empty"]
    BY <1>5 DEF Empty
  <2>2. d.voxel.type = "empty"
    BY <2>1
  <2> QED BY <1>6, <2>2
<1>8. v = IF Pruned(s) # {} THEN [level |-> SmallestOf(Pruned(s)) - 1, isEmpty |-> TRUE, range |-> {}]
          ELSE IF ~leaf /\ n <= depth THEN [level |-> n, isEmpty |-> TRUE, range |-> {}]
          ELSE [level |-> IF leaf /\ n <= depth THEN n ELSE n - 1,
                isEmpty |-> FALSE, range |-> range[s[n]]]
  BY <1>2, <1>3, <1>4, <1>6 DEF QueryVoxel, Pruned, Last
<1>9. Pruned(s) \subseteq 1 .. n
  BY <1>4 DEF Pruned
<1>10. CASE Pruned(s) # {}
  <2>1. Pruned(s) \in SUBSET Nat /\ Pruned(s) \in SUBSET Int
    BY <1>9
  <2>2. PICK m \in Pruned(s) : \A k \in Pruned(s) : m <= k
    BY <1>10, <2>1, LeastNat
  <2>3. SmallestOf(Pruned(s)) \in Pruned(s) /\ \A k \in Pruned(s) : SmallestOf(Pruned(s)) <= k
    BY <2>2 DEF SmallestOf
  <2>4. PICK p \in 1 .. n : p = SmallestOf(Pruned(s))
    BY <1>9, <2>3
  <2>5. v = [level |-> p - 1, isEmpty |-> TRUE, range |-> {}]
    BY <1>8, <1>10, <2>4
  <2>6. v.level = p - 1 /\ v.isEmpty = TRUE /\ v.level + 1 = p /\ v.level \in 0 .. depth
        /\ v = [level |-> v.level, isEmpty |-> v.isEmpty, range |-> v.range]
    BY <1>1, <1>5, <2>4, <2>5
  <2> QED BY <1>2, <1>3, <1>6, <1>10, <2>3, <2>4, <2>6 DEF Answer
<1>11. CASE Pruned(s) = {} /\ ~leaf /\ n <= depth
  <2>1. v = [level |-> n, isEmpty |-> TRUE, range |-> {}]
    BY <1>8, <1>11
  <2>2. v.level = n /\ v.isEmpty = TRUE /\ v.level \in 0 .. depth
        /\ v = [level |-> v.level, isEmpty |-> v.isEmpty, range |-> v.range]
    BY <1>1, <1>11, <2>1
  <2>3. ~(Len(s) > depth)
    BY <1>1, <1>4, <1>11
  <2> QED BY <1>2, <1>3, <1>4, <1>6, <1>11, <2>2, <2>3 DEF Answer
<1>12. CASE Pruned(s) = {} /\ (leaf \/ ~(n <= depth))
  <2> DEFINE q == IF leaf /\ n <= depth THEN n ELSE n - 1
  <2>1. v = [level |-> q, isEmpty |-> FALSE, range |-> range[s[n]]]
    BY <1>8, <1>12
  <2>2. q \in 0 .. depth
    BY <1>1, <1>5, <1>7, <1>12
  <2>3. v.level = q /\ v.isEmpty = FALSE /\ v.range = range[s[n]]
        /\ v = [level |-> v.level, isEmpty |-> v.isEmpty, range |-> v.range]
    BY <2>1
  <2>4. ~(~leaf /\ Len(s) <= depth)
    BY <1>4, <1>12
  <2> QED BY <1>2, <1>3, <1>4, <1>6, <1>12, <2>2, <2>3, <2>4 DEF Answer
<1> QED
  BY <1>6, <1>10, <1>11, <1>12

-----------------------------------------------------------------------------
(***************************************************************************)
(* Where a ray enters and leaves the box.                                  *)
(***************************************************************************)
LEMMA SlabFacts ==
  ASSUME RayOK, leaves \in Inputs, rootOrigin = RootOrigin(Lower), NEW a \in Axes,
         NEW s, s = Slab(ray, a)
  PROVE  /\ s.lo \in Int /\ s.hi \in Int
         /\ ray.dir[a] > 0 => /\ Position(s.lo)[a] = VoxelWidth * LowerOffset[a]
                              /\ Position(s.hi)[a] = VoxelWidth * UpperOffset[a]
         /\ ray.dir[a] < 0 => /\ Position(s.lo)[a] = VoxelWidth * UpperOffset[a]
                              /\ Position(s.hi)[a] = VoxelWidth * LowerOffset[a]
         /\ ray.dir[a] = 0 => \/ s.lo = Inf /\ s.hi = -Inf
                              \/ /\ VoxelWidth * LowerOffset[a] <= ray.org[a]
                                 /\ ray.org[a] < VoxelWidth * UpperOffset[a]
<1>1. /\ Lower[a] \in Int /\ Upper[a] \in Int /\ rootOrigin[a] \in Int
      /\ LowerOffset[a] = Lower[a] - rootOrigin[a] /\ UpperOffset[a] = Upper[a] - rootOrigin[a]
  BY BoundsFacts, RootFacts DEF Coordinates, LowerOffset, UpperOffset, Minus
<1>2. PICK p, q \in Int : p = LowerOffset[a] /\ q = UpperOffset[a]
  BY <1>1
<1>3. ray.dir[a] \in {-2, -1, 0, 1, 2} /\ ray.org[a] \in Int /\ VoxelWidth \in Nat /\ Inf \in Nat
  BY PositionFacts
<1>4. PICK x, y : x = VoxelWidth * p - ray.org[a] /\ y = VoxelWidth * q - ray.org[a]
  OBVIOUS
<1>5. VoxelWidth * p \in Int /\ VoxelWidth * q \in Int
  BY PlaneOrder
<1>6. s = CASE ray.dir[a] > 0 -> [lo |-> Divide(x, ray.dir[a]), hi |-> Divide(y, ray.dir[a])]
            [] ray.dir[a] < 0 -> [lo |-> Divide(y, ray.dir[a]), hi |-> Divide(x, ray.dir[a])]
            [] ray.dir[a] = 0 -> IF x <= 0 /\ 0 < y THEN [lo |-> -Inf, hi |-> Inf]
                                                    ELSE [lo |-> Inf, hi |-> -Inf]
  BY <1>1, <1>2, <1>4 DEF Slab
<1>7. CASE ray.dir[a] > 0
  <2>1. s = [lo |-> Divide(x, ray.dir[a]), hi |-> Divide(y, ray.dir[a])]
    BY <1>3, <1>6, <1>7
  <2>2. /\ s.lo = Divide(VoxelWidth * p - ray.org[a], ray.dir[a])
        /\ s.hi = Divide(VoxelWidth * q - ray.org[a], ray.dir[a])
        /\ ray.dir[a] # 0
    BY <1>3, <1>4, <1>7, <2>1
  <2>3. s.lo \in Int /\ Position(s.lo)[a] = VoxelWidth * p
    BY <2>2, PlaneTime
  <2>4. s.hi \in Int /\ Position(s.hi)[a] = VoxelWidth * q
    BY <2>2, PlaneTime
  <2> QED BY <1>2, <1>3, <1>7, <2>3, <2>4
<1>8. CASE ray.dir[a] < 0
  <2>1. s = [lo |-> Divide(y, ray.dir[a]), hi |-> Divide(x, ray.dir[a])]
    BY <1>3, <1>6, <1>8
  <2>2. /\ s.lo = Divide(VoxelWidth * q - ray.org[a], ray.dir[a])
        /\ s.hi = Divide(VoxelWidth * p - ray.org[a], ray.dir[a])
        /\ ray.dir[a] # 0
    BY <1>3, <1>4, <1>8, <2>1
  <2>3. s.lo \in Int /\ Position(s.lo)[a] = VoxelWidth * q
    BY <2>2, PlaneTime
  <2>4. s.hi \in Int /\ Position(s.hi)[a] = VoxelWidth * p
    BY <2>2, PlaneTime
  <2> QED BY <1>2, <1>3, <1>8, <2>3, <2>4
<1>9. CASE ray.dir[a] = 0
  <2>1. s = IF x <= 0 /\ 0 < y THEN [lo |-> -Inf, hi |-> Inf] ELSE [lo |-> Inf, hi |-> -Inf]
    BY <1>6, <1>9
  <2>2. CASE x <= 0 /\ 0 < y
    <3>1. s.lo = -Inf /\ s.hi = Inf
      BY <2>1, <2>2
    <3>2. VoxelWidth * p <= ray.org[a] /\ ray.org[a] < VoxelWidth * q
      BY <1>3, <1>4, <1>5, <2>2
    <3> QED BY <1>2, <1>3, <1>9, <3>1, <3>2
  <2>3. CASE ~(x <= 0 /\ 0 < y)
    <3>1. s.lo = Inf /\ s.hi = -Inf
      BY <2>1, <2>3
    <3> QED BY <1>3, <1>9, <3>1
  <2> QED BY <2>2, <2>3
<1> QED
  BY <1>3, <1>7, <1>8, <1>9

LEMMA BoxTimes ==
  ASSUME RayOK, leaves \in Inputs, rootOrigin = RootOrigin(Lower), NEW b, b = IntersectBox(ray)
  PROVE  /\ b.lo \in Int /\ b.hi \in Int
         /\ b.lo < b.hi =>
               /\ b.lo \in Nat /\ b.hi \in 0 .. Inf - 1
               /\ Entered(b.lo)
               /\ tMax = b.hi => LeavesAtMax
<1>1. /\ ray.tRange.lo \in Nat /\ ray.tRange.hi \in 0 .. Inf - 1 /\ Inf \in Nat
  BY IteratorAssumption DEF RayOK
<1> DEFINE S == {Slab(ray, a) : a \in Axes} \cup {ray.tRange}
           L == {s.lo : s \in S}
           H == {s.hi : s \in S}
<1>2. b = [lo |-> LargestOf(L), hi |-> SmallestOf(H)]
  BY DEF IntersectBox
<1>3. b.lo = LargestOf(L) /\ b.hi = SmallestOf(H)
  BY <1>2
<1>4. L \in SUBSET Int /\ H \in SUBSET Int
  <2>1. \A a \in Axes : Slab(ray, a).lo \in Int /\ Slab(ray, a).hi \in Int
    BY SlabFacts
  <2> QED BY <1>1, <2>1
<1>5. IsFiniteSet(L) /\ IsFiniteSet(H) /\ L # {} /\ H # {}
  <2> DEFINE f == [a \in Axes |-> Slab(ray, a)]
  <2>1. {Slab(ray, a) : a \in Axes} = {f[a] : a \in Axes}
    OBVIOUS
  <2>2. IsFiniteSet({f[a] : a \in Axes})
    <3> HIDE DEF f
    <3> QED BY TopologyAssumption, FiniteImage
  <2>3. IsFiniteSet({ray.tRange})
    BY FS_Singleton
  <2>4. IsFiniteSet(S)
    BY <2>1, <2>2, <2>3, FS_Union
  <2> DEFINE g == [s \in S |-> s.lo]
             h == [s \in S |-> s.hi]
  <2>5. L = {g[s] : s \in S} /\ H = {h[s] : s \in S} /\ S # {}
    OBVIOUS
  <2> HIDE DEF S, g, h
  <2>6. IsFiniteSet({g[s] : s \in S}) /\ IsFiniteSet({h[s] : s \in S})
    BY <2>4, FiniteImage
  <2> QED BY <2>5, <2>6
<1>6. /\ ray.tRange.lo \in L /\ ray.tRange.hi \in H
      /\ \A a \in Axes : Slab(ray, a).lo \in L /\ Slab(ray, a).hi \in H
  OBVIOUS
<1> HIDE DEF L, H
<1>7. /\ b.lo \in Int /\ \A m \in L : m <= b.lo
      /\ b.hi \in Int /\ \A m \in H : b.hi <= m
  <2>1. LargestOf(L) \in L /\ \A m \in L : m <= LargestOf(L)
    BY <1>4, <1>5, SmallestAndLargest
  <2>2. SmallestOf(H) \in H /\ \A m \in H : SmallestOf(H) <= m
    BY <1>4, <1>5, SmallestAndLargest
  <2> QED BY <1>3, <1>4, <2>1, <2>2
<1>8. ray.tRange.lo <= b.lo /\ b.hi <= ray.tRange.hi
  BY <1>6, <1>7
<1>9. ASSUME b.lo < b.hi, NEW a \in Axes
      PROVE  /\ ray.dir[a] > 0 => /\ VoxelWidth * LowerOffset[a] <= Position(b.lo)[a]
                                  /\ Position(b.hi)[a] <= VoxelWidth * UpperOffset[a]
             /\ ray.dir[a] < 0 => /\ Position(b.lo)[a] <= VoxelWidth * UpperOffset[a]
                                  /\ VoxelWidth * LowerOffset[a] <= Position(b.hi)[a]
             /\ ray.dir[a] = 0 => /\ VoxelWidth * LowerOffset[a] <= ray.org[a]
                                  /\ ray.org[a] < VoxelWidth * UpperOffset[a]
  <2>1. PICK s : s = Slab(ray, a)
    OBVIOUS
  <2>2. s.lo <= b.lo /\ b.hi <= s.hi
    BY <1>6, <1>7, <2>1
  <2>3. /\ s.lo \in Int /\ s.hi \in Int
        /\ ray.dir[a] > 0 => /\ Position(s.lo)[a] = VoxelWidth * LowerOffset[a]
                             /\ Position(s.hi)[a] = VoxelWidth * UpperOffset[a]
        /\ ray.dir[a] < 0 => /\ Position(s.lo)[a] = VoxelWidth * UpperOffset[a]
                             /\ Position(s.hi)[a] = VoxelWidth * LowerOffset[a]
        /\ ray.dir[a] = 0 => \/ s.lo = Inf /\ s.hi = -Inf
                             \/ /\ VoxelWidth * LowerOffset[a] <= ray.org[a]
                                /\ ray.org[a] < VoxelWidth * UpperOffset[a]
    BY <2>1, SlabFacts
  <2>4. /\ ray.dir[a] > 0 => /\ Position(s.lo)[a] <= Position(b.lo)[a]
                             /\ Position(b.hi)[a] <= Position(s.hi)[a]
        /\ ray.dir[a] < 0 => /\ Position(b.lo)[a] <= Position(s.lo)[a]
                             /\ Position(s.hi)[a] <= Position(b.hi)[a]
    BY <1>7, <2>2, <2>3, PositionOrder
  <2>5. ~(s.lo = Inf /\ s.hi = -Inf)
    BY <1>1, <1>7, <1>9, <2>2
  <2> QED BY <2>3, <2>4, <2>5
<1>10. ASSUME b.lo < b.hi
       PROVE  /\ b.lo \in Nat /\ b.hi \in 0 .. Inf - 1
              /\ Entered(b.lo)
              /\ tMax = b.hi => LeavesAtMax
  <2>1. b.lo \in Nat /\ b.hi \in 0 .. Inf - 1
    BY <1>1, <1>7, <1>8, <1>10
  <2>2. Entered(b.lo)
    BY <1>9, <1>10 DEF Entered
  <2>3. tMax = b.hi => LeavesAtMax
    BY <1>9, <1>10 DEF LeavesAtMax
  <2> QED BY <2>1, <2>2, <2>3
<1> QED
  BY <1>7, <1>10

-----------------------------------------------------------------------------
(* The DDA as it is initialised. *)
LEMMA InitialFacts ==
  ASSUME Course, NEW t, Reached(t), t < tMax, NEW d, d = InitialDda(t)
  PROVE  IsDda(d) /\ d.t = t /\ Nested(d, -1)
<1>1. RayOK /\ t \in Nat /\ t \in Int /\ Entered(t) /\ depth \in Nat
      /\ \A l \in 0 .. depth : l \in LevelsDown
  BY ResFacts DEF Course, Reached, LevelsDown
<1>2. PICK p : p = Position(t)
  OBVIOUS
<1>3. p \in Coordinates /\ \A a \in Axes : p[a] = Position(t)[a]
  <2>1. \A a \in Axes : Position(t)[a] \in Int
    BY <1>1, PositionFacts
  <2> QED BY <1>2, <2>1 DEF Position, Coordinates
<1>4. PICK x : x = [l \in 0 .. depth |-> ClampToCell(p, l)]
  OBVIOUS
<1>5. PICK e : e = [l \in 0 .. depth |-> ExitTimes(x[l], l)]
  OBVIOUS
<1>6. d = [t |-> t, idx |-> x, tNext |-> e]
  BY <1>2, <1>4, <1>5 DEF InitialDda
<1>7. d.t = t /\ d.idx = x /\ d.tNext = e
  BY <1>6
<1>8. ASSUME NEW l \in 0 .. depth
      PROVE  IsCell(t, x[l], l) /\ Exits(t, x[l], l, e[l])
  <2>1. PICK c : c = ClampToCell(p, l)
    OBVIOUS
  <2>2. PICK n : n = VoxelOf(p)
    OBVIOUS
  <2>3. x[l] = c /\ e[l] = ExitTimes(c, l) /\ l \in LevelsDown
    BY <1>1, <1>4, <1>5, <2>1
  <2>4. /\ c \in [Axes -> Nat] /\ NodeOrigin(c, l + 1) = c
        /\ \A a \in Axes : c[a] <= n[a] /\ n[a] < c[a] + CellRes(l)
    BY <1>3, <2>1, <2>2, <2>3, ClampFacts
  <2>5. CellRes(l) \in Nat
    BY <2>3, CellResFacts
  <2>6. ASSUME NEW a \in Axes
        PROVE  VoxelWidth * c[a] <= p[a] /\ p[a] < VoxelWidth * (c[a] + CellRes(l))
    <3>1. 0 <= p[a] /\ p[a] \in Int
      BY <1>1, <1>3, InsideIsPositive DEF Coordinates
    <3>2. n[a] \in Nat /\ VoxelWidth * n[a] <= p[a] /\ p[a] < VoxelWidth * (n[a] + 1)
      BY <1>3, <2>2, <3>1, VoxelOfFacts
    <3>3. c[a] \in Int /\ n[a] \in Int /\ n[a] + 1 \in Int /\ c[a] + CellRes(l) \in Int
          /\ c[a] <= n[a] /\ n[a] + 1 <= c[a] + CellRes(l)
      BY <2>4, <2>5, <3>2
    <3>4. /\ VoxelWidth * c[a] <= VoxelWidth * n[a]
          /\ VoxelWidth * (n[a] + 1) <= VoxelWidth * (c[a] + CellRes(l))
          /\ VoxelWidth * c[a] \in Int /\ VoxelWidth * n[a] \in Int
          /\ VoxelWidth * (n[a] + 1) \in Int /\ VoxelWidth * (c[a] + CellRes(l)) \in Int
      BY <3>3, PlaneOrder
    <3> QED BY <3>1, <3>2, <3>4
  <2>7. ASSUME NEW a \in Axes
        PROVE  /\ VoxelWidth * c[a] <= Position(t)[a]
               /\ Position(t)[a] <= VoxelWidth * (c[a] + CellRes(l))
               /\ Position(t)[a] < VoxelWidth * (c[a] + CellRes(l))
    <3>1. VoxelWidth * (c[a] + CellRes(l)) \in Int /\ p[a] \in Int
      <4>1. c[a] + CellRes(l) \in Int
        BY <2>4, <2>5
      <4> QED BY <1>3, <4>1, PlaneOrder DEF Coordinates
    <3> QED BY <1>3, <2>6, <3>1
  <2>8. InCell(t, c, l)
    BY <2>7 DEF InCell
  <2>9. IsCell(t, c, l) /\ Exits(t, c, l, ExitTimes(c, l))
    BY <2>3, <2>4, <2>8, ExitFacts DEF IsCell
  <2> QED BY <2>3, <2>9
<1>9. ASSUME NEW l \in 0 .. depth - 1 PROVE Within(x[l + 1], x[l], l)
  <2>1. l \in 0 .. depth /\ l + 1 \in 0 .. depth
    BY <1>1
  <2> QED BY <1>1, <1>3, <1>4, <2>1, ClampsNest
<1>10. Nested(d, -1)
  BY <1>7, <1>8, <1>9 DEF Nested
<1>11. IsDda(d)
  <2>1. x \in [0 .. depth -> [Axes -> Int]] /\ e \in [0 .. depth -> [Axes -> Nat]]
    BY <1>4, <1>5, <1>8 DEF IsCell, Exits
  <2> QED BY <1>1, <1>6, <1>7, <2>1 DEF IsDda
<1> QED
  BY <1>7, <1>10, <1>11

-----------------------------------------------------------------------------
(***************************************************************************)
(* The inductive invariant of the march.                                   *)
(***************************************************************************)
Begun == pc # "none" /\ tMax # -Inf

Path ==
    /\ RayOK /\ depth \in LevelsDown /\ tMax \in 0 .. Inf - 1 /\ LeavesAtMax
    /\ IntersectBox(ray).lo \in Int /\ IntersectBox(ray).hi = tMax

(* the level whose cell may have left the one above *)
Gap == IF pc = "follow" THEN entry.above ELSE -1

PlaceOK ==
    /\ pc \in {"none", "query", "step", "follow", "done"}
    /\ pc = "none" => /\ dda = [t |-> 0, idx |-> <<>>, tNext |-> <<>>]
                      /\ interval = [lo |-> 0, hi |-> 0, range |-> {}]
    /\ pc # "none" => /\ phase = "committed" /\ FitsRoot /\ RayOK
                      /\ leaves \in Inputs /\ rootOrigin = RootOrigin(Lower)
    /\ pc # "none" /\ tMax = -Inf => pc \in {"query", "done"} /\ dda.t = 0
    /\ Begun /\ pc \in {"step", "follow"} => voxel.level \in 0 .. depth
    /\ Begun /\ pc = "step" => dda.t <= tMax
    /\ Begun /\ pc = "follow" =>
          /\ entry.above \in 0 .. voxel.level
          /\ Reached(entry.t) /\ entry.t <= dda.t /\ entry.t <= tMax

DdaOK ==
    Begun =>
        /\ Path /\ IsDda(dda) /\ Reached(dda.t)
        /\ dda.t < tMax => /\ Nested(dda, Gap)
                           /\ pc = "follow" => \E a \in Axes : CameThrough(dda, entry.above, a)
        /\ dda.t >= tMax => Late(dda)

DdaInv == PlaceOK /\ DdaOK

LEMMA MarchStays ==
  ASSUME UNCHANGED vars, UNCHANGED <<ray, depth, tMax>>
  PROVE  /\ Path' <=> Path
         /\ \A t : Reached(t)' <=> Reached(t)
         /\ \A d : IsDda(d)' <=> IsDda(d)
         /\ \A d, g : Nested(d, g)' <=> Nested(d, g)
         /\ \A d, l, a : CameThrough(d, l, a)' <=> CameThrough(d, l, a)
         /\ \A d : Late(d)' <=> Late(d)
<1>1. leaves' = leaves /\ rootOrigin' = rootOrigin /\ ray' = ray /\ depth' = depth /\ tMax' = tMax
  BY DEF vars
<1>2. Lower' = Lower /\ Upper' = Upper /\ LowerOffset' = LowerOffset /\ UpperOffset' = UpperOffset
  BY <1>1 DEF Lower, Upper, Leaves, Extent, LowerOffset, UpperOffset, Minus
<1>3. \A t : Position(t)' = Position(t)
  BY <1>1 DEF Position
<1>4. IntersectBox(ray)' = IntersectBox(ray)
  BY <1>1, <1>2 DEF IntersectBox, Slab, Divide
<1>5. RayOK' <=> RayOK
  BY <1>1 DEF RayOK, Leaves
<1>6. LeavesAtMax' <=> LeavesAtMax
  BY <1>1, <1>2, <1>3 DEF LeavesAtMax, Position
<1>7. Path' <=> Path
  BY <1>1, <1>4, <1>5, <1>6 DEF Path
<1>8. \A t : Reached(t)' <=> Reached(t)
  BY <1>1, <1>2, <1>3, <1>4 DEF Reached, Entered
<1>9. \A d : IsDda(d)' <=> IsDda(d)
  BY <1>1 DEF IsDda
<1>10. \A d, g : Nested(d, g)' <=> Nested(d, g)
  BY <1>1, <1>3 DEF Nested, IsCell, InCell, Exits, Exit, Position
<1>11. \A d, l, a : CameThrough(d, l, a)' <=> CameThrough(d, l, a)
  BY <1>1, <1>3 DEF CameThrough, Before, Entrance
<1>12. \A d : Late(d)' <=> Late(d)
  BY <1>1 DEF Late
<1> QED
  BY <1>7, <1>8, <1>9, <1>10, <1>11, <1>12

(* The rays that the proofs are about. *)
RayIsGeneral == pc # "none" => GeneralPosition

LEMMA OnCourse ==
  ASSUME DdaInv, RayIsGeneral, Begun
  PROVE  /\ Course /\ IsDda(dda) /\ Reached(dda.t) /\ tMax \in Nat /\ dda.t \in Nat
         /\ depth \in Nat /\ depth \in LevelsDown
<1>1. Course /\ IsDda(dda) /\ Reached(dda.t)
  BY DEF DdaInv, PlaceOK, DdaOK, Path, Course, Begun, RayIsGeneral
<1> QED
  BY <1>1, ResFacts DEF Course, IsDda, LevelsDown

(* A ray that misses the box is at its end. *)
LEMMA MissedRay ==
  ASSUME DdaInv, pc # "none", ~Begun
  PROVE  pc \in {"query", "done"} /\ ~(dda.t <= tMax)
<1>1. Inf \in Nat \ {0}
  <2>1. RayOK
    BY DEF DdaInv, PlaceOK
  <2>2. PICK a \in Axes : TRUE
    BY TopologyAssumption
  <2> QED BY <2>1, <2>2, PositionFacts
<1> QED
  BY <1>1 DEF DdaInv, PlaceOK, Begun

LEMMA DdaAfterQuery ==
  ASSUME DdaInv, RayIsGeneral, Query
  PROVE  DdaInv'
<1>1. /\ pc = "query" /\ dda.t <= tMax /\ voxel' = QueryVoxel(dda.idx[depth])
      /\ pc' \in {"step", "done"}
      /\ UNCHANGED vars /\ UNCHANGED <<ray, depth, tMax, dda, entry, interval, required>>
  BY DEF Query
<1>2. Begun
  BY <1>1, MissedRay
<1>3. Course /\ IsDda(dda) /\ Reached(dda.t)
      /\ tMax \in Nat /\ dda.t \in Nat /\ depth \in LevelsDown
  BY <1>2, OnCourse
<1>4. voxel'.level \in 0 .. depth
  BY <1>1, <1>3, QueryFacts
<1>5. /\ Path' <=> Path
      /\ \A t : Reached(t)' <=> Reached(t)
      /\ \A d : IsDda(d)' <=> IsDda(d)
      /\ \A d, g : Nested(d, g)' <=> Nested(d, g)
      /\ \A d : Late(d)' <=> Late(d)
  BY <1>1, MarchStays
<1>6. /\ phase' = phase /\ (FitsRoot' <=> FitsRoot) /\ (RayOK' <=> RayOK)
      /\ leaves' = leaves /\ (rootOrigin = RootOrigin(Lower) => (rootOrigin = RootOrigin(Lower))')
  BY <1>1 DEF vars, FitsRoot, RayOK, Leaves, RootOrigin, Lower, Extent
<1>7. PlaceOK'
  BY <1>1, <1>2, <1>4, <1>6 DEF DdaInv, PlaceOK, Begun
<1>8. DdaOK'
  <2>1. /\ Path /\ IsDda(dda) /\ Reached(dda.t)
        /\ dda.t < tMax => Nested(dda, -1)
        /\ dda.t >= tMax => Late(dda)
    BY <1>1, <1>2 DEF DdaInv, DdaOK, Gap
  <2>2. dda' = dda /\ tMax' = tMax /\ Gap' = -1 /\ pc' # "follow"
    BY <1>1 DEF Gap
  <2> QED BY <1>5, <2>1, <2>2 DEF DdaOK
<1> QED
  BY <1>7, <1>8 DEF DdaInv

LEMMA DdaAfterNoInterval ==
  ASSUME DdaInv, RayIsGeneral, NoInterval
  PROVE  DdaInv'
<1>1. /\ pc = "query" /\ pc' = "done"
      /\ UNCHANGED vars
      /\ UNCHANGED <<ray, depth, tMax, dda, voxel, entry, interval, required>>
  BY DEF NoInterval
<1>5. /\ Path' <=> Path
      /\ \A t : Reached(t)' <=> Reached(t)
      /\ \A d : IsDda(d)' <=> IsDda(d)
      /\ \A d, g : Nested(d, g)' <=> Nested(d, g)
      /\ \A d : Late(d)' <=> Late(d)
  BY <1>1, MarchStays
<1>6. /\ phase' = phase /\ (FitsRoot' <=> FitsRoot) /\ (RayOK' <=> RayOK)
      /\ leaves' = leaves /\ (rootOrigin = RootOrigin(Lower) => (rootOrigin = RootOrigin(Lower))')
  BY <1>1 DEF vars, FitsRoot, RayOK, Leaves, RootOrigin, Lower, Extent
<1>7. PlaceOK'
  BY <1>1, <1>6 DEF DdaInv, PlaceOK, Begun
<1>8. DdaOK'
  <2>1. Begun => /\ Path /\ IsDda(dda) /\ Reached(dda.t)
                 /\ dda.t < tMax => Nested(dda, -1)
                 /\ dda.t >= tMax => Late(dda)
    BY <1>1 DEF DdaInv, DdaOK, Gap
  <2>2. dda' = dda /\ tMax' = tMax /\ Gap' = -1 /\ pc' # "follow" /\ (Begun' <=> Begun)
    BY <1>1 DEF Gap, Begun
  <2> QED BY <1>5, <2>1, <2>2 DEF DdaOK
<1> QED
  BY <1>7, <1>8 DEF DdaInv

LEMMA DdaAfterStep ==
  ASSUME DdaInv, RayIsGeneral, Step
  PROVE  DdaInv'
<1>1. /\ pc = "step" /\ dda' = StepOnLevel(dda, voxel.level)
      /\ entry' = [t |-> dda.t, above |-> voxel.level] /\ pc' = "follow"
      /\ UNCHANGED vars /\ UNCHANGED <<ray, depth, tMax, voxel, interval, required>>
  BY DEF Step
<1>2. Begun
  BY <1>1, MissedRay
<1>3. Course /\ IsDda(dda) /\ Reached(dda.t)
      /\ tMax \in Nat /\ dda.t \in Nat /\ depth \in LevelsDown
      /\ depth \in Nat
  BY <1>2, OnCourse
<1>4. PICK d, y, l : d = dda /\ y = dda' /\ l = voxel.level
  OBVIOUS
<1>5. /\ l \in 0 .. depth /\ l \in Nat /\ dda.t <= tMax /\ Path
      /\ d.t < tMax => Nested(d, -1)
      /\ d.t >= tMax => Late(d)
  BY <1>1, <1>2, <1>3, <1>4 DEF DdaInv, PlaceOK, DdaOK, Gap
<1>6. /\ IsDda(y) /\ d.t <= y.t /\ Reached(y.t)
      /\ y.t < tMax => Nested(y, l) /\ \E a \in Axes : CameThrough(y, l, a)
      /\ y.t >= tMax => Late(y)
  <2>1. CASE d.t < tMax
    BY <1>1, <1>3, <1>4, <1>5, <2>1, StepMarches
  <2>2. CASE ~(d.t < tMax)
    <3>1. Late(d)
      BY <1>3, <1>4, <1>5, <2>2
    <3>2. \A k \in 0 .. l : \A a \in Axes : d.tNext[k][a] >= tMax
      BY <1>3, <1>5, <3>1 DEF Late
    <3>3. Late(y) /\ IsDda(y)
      BY <1>1, <1>3, <1>4, <1>5, <3>2, StepIsLate
    <3>4. y.t \in Nat /\ y.t >= tMax /\ d.t <= y.t
      BY <1>3, <1>4, <1>5, <3>3 DEF Late, IsDda
    <3>5. Reached(y.t)
      BY <1>3, <1>4, <3>4, ReachedStays
    <3> QED BY <1>3, <3>3, <3>4, <3>5
  <2> QED BY <2>1, <2>2
<1>7. /\ Path' <=> Path
      /\ \A t : Reached(t)' <=> Reached(t)
      /\ \A x : IsDda(x)' <=> IsDda(x)
      /\ \A x, g : Nested(x, g)' <=> Nested(x, g)
      /\ \A x, k, a : CameThrough(x, k, a)' <=> CameThrough(x, k, a)
      /\ \A x : Late(x)' <=> Late(x)
  BY <1>1, MarchStays
<1>8. /\ phase' = phase /\ (FitsRoot' <=> FitsRoot) /\ (RayOK' <=> RayOK)
      /\ leaves' = leaves /\ (rootOrigin = RootOrigin(Lower) => (rootOrigin = RootOrigin(Lower))')
  BY <1>1 DEF vars, FitsRoot, RayOK, Leaves, RootOrigin, Lower, Extent
<1>9. entry'.t = d.t /\ entry'.above = l /\ Gap' = l
  BY <1>1, <1>4 DEF Gap
<1>10. PlaceOK'
  <2>1. entry'.above \in 0 .. voxel'.level /\ Reached(entry.t)' /\ entry'.t <= dda'.t
        /\ entry'.t <= tMax'
    <3>1. Reached(d.t)' /\ l \in 0 .. l
      BY <1>3, <1>4, <1>5, <1>7
    <3> QED BY <1>1, <1>4, <1>5, <1>6, <1>9, <3>1
  <2> QED BY <1>1, <1>2, <1>4, <1>5, <1>8, <2>1 DEF DdaInv, PlaceOK, Begun
<1>11. DdaOK'
  <2>1. IsDda(y)' /\ Reached(y.t)' /\ Path'
    BY <1>5, <1>6, <1>7
  <2>2. y.t < tMax => Nested(y, l)' /\ \E a \in Axes : CameThrough(y, l, a)'
    BY <1>6, <1>7
  <2>3. y.t >= tMax => Late(y)'
    BY <1>6, <1>7
  <2>4. tMax' = tMax /\ dda' = y /\ pc' = "follow"
    BY <1>1, <1>4
  <2> QED BY <1>9, <2>1, <2>2, <2>3, <2>4 DEF DdaOK
<1> QED
  BY <1>10, <1>11 DEF DdaInv

LEMMA DdaAfterFollow ==
  ASSUME DdaInv, RayIsGeneral, Follow
  PROVE  DdaInv'
<1>1. /\ pc = "follow" /\ entry.above > 0 /\ ChildHasLeftDomain(dda, entry.above - 1)
      /\ dda' = DdaStep(dda, entry.above - 1)
      /\ entry' = [entry EXCEPT !.above = @ - 1]
      /\ UNCHANGED vars /\ UNCHANGED <<pc, ray, depth, tMax, voxel, interval, required>>
  BY DEF Follow, Follows
<1>2. Begun
  BY <1>1, MissedRay
<1>3. Course /\ IsDda(dda) /\ Reached(dda.t)
      /\ tMax \in Nat /\ dda.t \in Nat /\ depth \in LevelsDown
      /\ depth \in Nat
  BY <1>2, OnCourse
<1>4. /\ voxel.level \in 0 .. depth /\ entry.above \in 0 .. voxel.level
      /\ Reached(entry.t) /\ entry.t <= dda.t /\ entry.t <= tMax /\ Path
  BY <1>1, <1>2 DEF DdaInv, PlaceOK, DdaOK
<1>5. PICK m \in 0 .. depth - 1 : m = entry.above - 1 /\ m + 1 = entry.above
  BY <1>1, <1>3, <1>4
<1>6. PICK d, y : d = dda /\ y = dda'
  OBVIOUS
<1>7. /\ d.t < tMax => Nested(d, m + 1) /\ \E a \in Axes : CameThrough(d, m + 1, a)
      /\ d.t >= tMax => Late(d)
  BY <1>1, <1>2, <1>5, <1>6 DEF DdaInv, DdaOK, Gap
<1>8. /\ IsDda(y) /\ entry.t <= y.t /\ Reached(y.t)
      /\ y.t < tMax => Nested(y, m) /\ \E a \in Axes : CameThrough(y, m, a)
      /\ y.t >= tMax => Late(y)
  <2>1. CASE d.t < tMax
    <3>1. PICK a \in Axes : CameThrough(d, m + 1, a)
      BY <1>7, <2>1
    <3>2. IsDda(y) /\ y.t = d.t /\ Nested(y, m) /\ CameThrough(y, m, a)
      BY <1>1, <1>3, <1>5, <1>6, <1>7, <2>1, <3>1, FollowKeeps
    <3> QED BY <1>3, <1>4, <1>6, <2>1, <3>2
  <2>2. CASE ~(d.t < tMax)
    <3>1. Late(d) /\ m \in 0 .. depth
      BY <1>3, <1>6, <1>7, <2>2
    <3>2. IsDda(y) /\ Late(y)
      BY <1>1, <1>3, <1>5, <1>6, <3>1, FollowLate
    <3>3. y.t \in Nat /\ y.t >= tMax /\ entry.t \in Nat
      BY <1>4, <3>2 DEF Late, IsDda, Reached
    <3>4. Reached(y.t) /\ entry.t <= y.t
      BY <1>3, <1>4, <3>3, ReachedStays
    <3> QED BY <1>3, <3>2, <3>3, <3>4
  <2> QED BY <2>1, <2>2
<1>9. /\ Path' <=> Path
      /\ \A t : Reached(t)' <=> Reached(t)
      /\ \A x : IsDda(x)' <=> IsDda(x)
      /\ \A x, g : Nested(x, g)' <=> Nested(x, g)
      /\ \A x, k, a : CameThrough(x, k, a)' <=> CameThrough(x, k, a)
      /\ \A x : Late(x)' <=> Late(x)
  BY <1>1, MarchStays
<1>10. /\ phase' = phase /\ (FitsRoot' <=> FitsRoot) /\ (RayOK' <=> RayOK)
       /\ leaves' = leaves /\ (rootOrigin = RootOrigin(Lower) => (rootOrigin = RootOrigin(Lower))')
  BY <1>1 DEF vars, FitsRoot, RayOK, Leaves, RootOrigin, Lower, Extent
<1>11. entry'.t = entry.t /\ entry'.above = m /\ Gap' = m
  BY <1>1, <1>5 DEF Gap
<1>12. PlaceOK'
  <2>1. entry'.above \in 0 .. voxel'.level /\ Reached(entry.t)' /\ entry'.t <= dda'.t
        /\ entry'.t <= tMax'
    <3>1. m \in 0 .. voxel.level
      BY <1>3, <1>4, <1>5
    <3>2. PICK t : t = entry.t
      OBVIOUS
    <3>3. Reached(t)' /\ entry'.t = t
      BY <1>4, <1>9, <1>11, <3>2
    <3> QED BY <1>1, <1>4, <1>6, <1>8, <1>11, <3>1, <3>3
  <2> QED BY <1>1, <1>2, <1>4, <1>10, <2>1 DEF DdaInv, PlaceOK, Begun
<1>13. DdaOK'
  <2>1. IsDda(y)' /\ Reached(y.t)' /\ Path'
    BY <1>4, <1>8, <1>9
  <2>2. y.t < tMax => Nested(y, m)' /\ \E a \in Axes : CameThrough(y, m, a)'
    BY <1>8, <1>9
  <2>3. y.t >= tMax => Late(y)'
    BY <1>8, <1>9
  <2>4. tMax' = tMax /\ dda' = y /\ pc' = "follow"
    BY <1>1, <1>6
  <2> QED BY <1>11, <2>1, <2>2, <2>3, <2>4 DEF DdaOK
<1> QED
  BY <1>12, <1>13 DEF DdaInv

(* When the levels above need not follow any more, no cell is out of date. *)
LEMMA NoGap ==
  ASSUME Course, NEW d, NEW l \in 0 .. depth, Nested(d, l),
         ~(l > 0 /\ ChildHasLeftDomain(d, l - 1))
  PROVE  Nested(d, -1)
<1>1. depth \in Nat /\ (\A k \in 0 .. depth : k \in LevelsDown) /\ l \in Nat
  BY ResFacts DEF Course, LevelsDown
<1>2. ASSUME NEW k \in 0 .. depth - 1 PROVE Within(d.idx[k + 1], d.idx[k], k)
  <2>0. k \in 0 .. depth /\ k + 1 \in 0 .. depth /\ k \in Nat
    BY <1>1
  <2>1. CASE k + 1 # l
    BY <2>1 DEF Nested
  <2>2. CASE k + 1 = l
    <3>1. ~ChildHasLeftDomain(d, k)
      BY <1>1, <2>0, <2>2
    <3>2. CellRes(k) \in Nat /\ d.idx[k] \in [Axes -> Nat] /\ d.idx[k + 1] \in [Axes -> Nat]
      BY <1>1, <2>0, CellResFacts DEF Nested, IsCell
    <3> QED BY <3>1, <3>2 DEF ChildHasLeftDomain, Within
  <2> QED BY <2>1, <2>2
<1> QED
  BY <1>2 DEF Nested

LEMMA DdaAfterArrive ==
  ASSUME DdaInv, RayIsGeneral, Arrive
  PROVE  DdaInv'
<1>1. /\ pc = "follow" /\ ~(entry.above > 0 /\ ChildHasLeftDomain(dda, entry.above - 1))
      /\ pc' = "query"
      /\ UNCHANGED vars /\ UNCHANGED <<ray, depth, tMax, dda, voxel, entry, required>>
  BY DEF Arrive, Follows
<1>2. Begun
  BY <1>1, MissedRay
<1>3. Course /\ IsDda(dda) /\ Reached(dda.t)
      /\ tMax \in Nat /\ dda.t \in Nat /\ depth \in LevelsDown
      /\ depth \in Nat
  BY <1>2, OnCourse
<1>4. /\ voxel.level \in 0 .. depth /\ entry.above \in 0 .. voxel.level
  BY <1>1, <1>2 DEF DdaInv, PlaceOK
<1>5. /\ Path /\ IsDda(dda) /\ Reached(dda.t)
      /\ dda.t < tMax => Nested(dda, -1)
      /\ dda.t >= tMax => Late(dda)
  <2>1. dda.t < tMax => Nested(dda, entry.above)
    BY <1>1, <1>2 DEF DdaInv, DdaOK, Gap
  <2>2. entry.above \in 0 .. depth
    BY <1>3, <1>4
  <2>3. dda.t < tMax => Nested(dda, -1)
    BY <1>1, <1>3, <2>1, <2>2, NoGap
  <2> QED BY <1>2, <2>3 DEF DdaInv, DdaOK
<1>6. /\ Path' <=> Path
      /\ \A t : Reached(t)' <=> Reached(t)
      /\ \A d : IsDda(d)' <=> IsDda(d)
      /\ \A d, g : Nested(d, g)' <=> Nested(d, g)
      /\ \A d : Late(d)' <=> Late(d)
  BY <1>1, MarchStays
<1>7. /\ phase' = phase /\ (FitsRoot' <=> FitsRoot) /\ (RayOK' <=> RayOK)
      /\ leaves' = leaves /\ (rootOrigin = RootOrigin(Lower) => (rootOrigin = RootOrigin(Lower))')
  BY <1>1 DEF vars, FitsRoot, RayOK, Leaves, RootOrigin, Lower, Extent
<1>8. PlaceOK'
  BY <1>1, <1>2, <1>7 DEF DdaInv, PlaceOK, Begun
<1>9. DdaOK'
  <2>1. dda' = dda /\ tMax' = tMax /\ Gap' = -1 /\ pc' # "follow"
    BY <1>1 DEF Gap
  <2> QED BY <1>5, <1>6, <2>1 DEF DdaOK
<1> QED
  BY <1>8, <1>9 DEF DdaInv

-----------------------------------------------------------------------------
(* The state that VdbIterator_Initialize leaves. *)
Starting ==
    /\ pc = "query" /\ phase = "committed" /\ FitsRoot /\ RayOK
    /\ leaves \in Inputs /\ rootOrigin = RootOrigin(Lower) /\ depth \in LevelsDown
    /\ required = Required(ray, IntersectBox(ray))
    /\ LET b == IntersectBox(ray)
       IN  IF b.hi <= b.lo
           THEN /\ tMax = -Inf /\ dda.t = 0
                /\ interval = [lo |-> 0, hi |-> 0, range |-> {}]
           ELSE /\ tMax = b.hi /\ dda = InitialDda(b.lo)
                /\ interval = [lo |-> b.lo, hi |-> b.lo, range |-> {}]

LEMMA DepthIsALevel ==
  ASSUME NEW h \in Int
  PROVE  Smaller(VdbMaxIteratorDepth(h), LeafLevel) \in LevelsDown
<1> DEFINE S == VdbDepths(ClampHint(h))
<1>1. S \subseteq 0 .. 3 /\ S # {}
  BY DEF VdbDepths
<1>2. PICK m \in S : \A n \in S : n <= m
  <2> HIDE DEF S
  <2> QED BY <1>1, GreatestNat
<1>3. VdbMaxIteratorDepth(h) \in S
  <2> HIDE DEF S
  <2>1. Deepest(S) \in S
    BY <1>2 DEF Deepest
  <2> QED BY <2>1 DEF VdbMaxIteratorDepth, S
<1>4. LeafLevel \in Nat /\ VdbMaxIteratorDepth(h) \in 0 .. 3
  BY <1>1, <1>3, ResFacts
<1> HIDE DEF S
<1> QED
  BY <1>4 DEF Smaller, LevelsDown

LEMMA InitializeStarts ==
  ASSUME CommitInv, PlaceOK, Initialize
  PROVE  Starting'
<1>1. PICK r \in Rays[leaves] :
         LET inDomain == [r EXCEPT !.org = Minus(@, [a \in Axes |-> VoxelWidth * rootOrigin[a]])]
             tRange   == IntersectBox(inDomain)
         IN  /\ ray' = inDomain
             /\ depth' = Smaller(VdbMaxIteratorDepth(r.hint), LeafLevel)
             /\ required' = Required(inDomain, tRange)
             /\ IF tRange.hi <= tRange.lo
                THEN tMax' = -Inf /\ dda' = [dda EXCEPT !.t = 0] /\ UNCHANGED interval
                ELSE /\ tMax' = tRange.hi
                     /\ dda' = InitialDda(tRange.lo)'
                     /\ interval' = [lo |-> tRange.lo, hi |-> tRange.lo, range |-> {}]
  BY DEF Initialize
<1>2. phase = "committed" /\ FitsRoot /\ UNCHANGED vars /\ pc' = "query"
  BY DEF Initialize
<1>3. leaves \in Inputs /\ rootOrigin = RootOrigin(Lower) /\ rootOrigin \in Coordinates
  <2>1. leaves \in Inputs /\ rootOrigin = RootOrigin(Lower)
    BY <1>2 DEF CommitInv, ShapeInv, InputOK, ExtentOK, Verified, Allocated
  <2> QED BY <2>1, RootFacts
<1>4. /\ r \in [org : [Axes -> Int], dir : [Axes -> -2 .. 2],
                tRange : [lo : Nat, hi : 0 .. Inf - 1],
                hint : Int, want : SUBSET Leaves]
      /\ \A a \in Axes : r.dir[a] \in {-2, 2} => r.org[a] % 2 = 0 /\ VoxelWidth % 2 = 0
  BY <1>3, IteratorAssumption DEF Leaves
<1>5. PICK x : x = [r EXCEPT !.org = Minus(@, [a \in Axes |-> VoxelWidth * rootOrigin[a]])]
  OBVIOUS
<1>6. PICK b : b = IntersectBox(x)
  OBVIOUS
<1>7. leaves' = leaves /\ rootOrigin' = rootOrigin /\ phase' = phase /\ capacity' = capacity
  BY <1>2 DEF vars
<1>8. /\ ray' = x
      /\ depth' = Smaller(VdbMaxIteratorDepth(r.hint), LeafLevel)
      /\ required' = Required(x, b)
      /\ b.hi <= b.lo => tMax' = -Inf /\ dda' = [dda EXCEPT !.t = 0] /\ interval' = interval
      /\ ~(b.hi <= b.lo) => /\ tMax' = b.hi
                            /\ interval' = [lo |-> b.lo, hi |-> b.lo, range |-> {}]
  BY <1>1, <1>5, <1>6
<1>9. Lower' = Lower /\ Upper' = Upper
  BY <1>7 DEF Lower, Upper, Leaves, Extent
<1>10. \A y : IntersectBox(y)' = IntersectBox(y)
  BY <1>7, <1>9 DEF IntersectBox, Slab
<1>11. \A y, s : Required(y, s)' = Required(y, s)
  BY <1>7 DEF Required, CellAt, InLeaf, Extent
<1>12. ~(b.hi <= b.lo) => dda' = InitialDda(b.lo)'
  BY <1>1, <1>5, <1>6, <1>7, <1>10
<1>13. IntersectBox(ray)' = b
  BY <1>6, <1>8, <1>10
<1>14. RayOK'
  <2>1. x \in [org : [Axes -> Int], dir : [Axes -> -2 .. 2],
               tRange : [lo : Nat, hi : 0 .. Inf - 1], hint : Int, want : SUBSET Leaves]
        /\ x.dir = r.dir
        /\ \A a \in Axes : x.org[a] = r.org[a] - VoxelWidth * rootOrigin[a]
    <3>1. PICK o : o = Minus(r.org, [a \in Axes |-> VoxelWidth * rootOrigin[a]])
      OBVIOUS
    <3>2. VoxelWidth \in Nat /\ r.org \in [Axes -> Int] /\ rootOrigin \in [Axes -> Int]
      BY <1>3, <1>4, IteratorAssumption DEF Coordinates
    <3>3. o = [a \in Axes |-> r.org[a] - VoxelWidth * rootOrigin[a]]
      BY <3>1 DEF Minus
    <3>4. o \in [Axes -> Int]
      BY <3>2, <3>3
    <3>5. x = [r EXCEPT !.org = o]
      BY <1>5, <3>1
    <3>6. x.org = o /\ x.dir = r.dir
      BY <1>4, <3>5
    <3>7. x \in [org : [Axes -> Int], dir : [Axes -> -2 .. 2],
                 tRange : [lo : Nat, hi : 0 .. Inf - 1], hint : Int, want : SUBSET Leaves]
      BY <1>4, <3>4, <3>5
    <3> QED BY <3>3, <3>6, <3>7
  <2>2. ASSUME NEW a \in Axes, x.dir[a] \in {-2, 2} PROVE x.org[a] % 2 = 0 /\ VoxelWidth % 2 = 0
    <3>1. r.org[a] % 2 = 0 /\ VoxelWidth % 2 = 0 /\ r.org[a] \in Int /\ rootOrigin[a] \in Int
          /\ VoxelWidth \in Nat
      BY <1>3, <1>4, <2>1, <2>2, IteratorAssumption DEF Coordinates
    <3>2. (VoxelWidth * rootOrigin[a]) % 2 = 0 /\ VoxelWidth * rootOrigin[a] \in Int
      <4>1. PICK q \in Int : q = rootOrigin[a]
        BY <3>1
      <4>2. PICK w \in Nat : w = VoxelWidth
        BY <3>1
      <4>3. (w * q) % 2 = 0
        BY <3>1, <4>2, EvenMultiple
      <4>4. w * q \in Int
        OBVIOUS
      <4> QED BY <4>1, <4>2, <4>3, <4>4
    <3>3. \A m, n \in Int : m % 2 = 0 /\ n % 2 = 0 => (m - n) % 2 = 0
      OBVIOUS
    <3> QED BY <2>1, <3>1, <3>2, <3>3
  <2>3. Leaves' = Leaves
    BY <1>7 DEF Leaves
  <2> QED BY <1>8, <2>1, <2>2, <2>3 DEF RayOK
<1>15. depth' \in LevelsDown
  BY <1>4, <1>8, DepthIsALevel
<1>16. FitsRoot' /\ phase' = "committed" /\ (leaves \in Inputs)' /\ (rootOrigin = RootOrigin(Lower))'
  BY <1>2, <1>3, <1>7, <1>9 DEF FitsRoot, RootOrigin
<1>17. required' = Required(ray, IntersectBox(ray))'
  BY <1>8, <1>11, <1>13
<1>18. b.hi <= b.lo => /\ tMax' = -Inf /\ dda'.t = 0
                       /\ interval' = [lo |-> 0, hi |-> 0, range |-> {}]
  <2>1. pc = "none"
    BY DEF Initialize
  <2>2. dda = [t |-> 0, idx |-> <<>>, tNext |-> <<>>]
        /\ interval = [lo |-> 0, hi |-> 0, range |-> {}]
    BY <2>1 DEF PlaceOK
  <2> QED BY <1>8, <2>2
<1> QED
  BY <1>2, <1>8, <1>12, <1>13, <1>14, <1>15, <1>16, <1>17, <1>18 DEF Starting

LEMMA StartingIsOnCourse == Starting /\ RayIsGeneral => DdaInv
<1> SUFFICES ASSUME Starting, RayIsGeneral PROVE DdaInv
  OBVIOUS
<1>1. PICK b : b = IntersectBox(ray)
  OBVIOUS
<1>2. /\ pc = "query" /\ phase = "committed" /\ FitsRoot /\ RayOK
      /\ leaves \in Inputs /\ rootOrigin = RootOrigin(Lower) /\ depth \in LevelsDown
      /\ b.hi <= b.lo => tMax = -Inf /\ dda.t = 0
      /\ ~(b.hi <= b.lo) => tMax = b.hi /\ dda = InitialDda(b.lo)
  BY <1>1 DEF Starting
<1>3. /\ b.lo \in Int /\ b.hi \in Int
      /\ b.lo < b.hi => /\ b.lo \in Nat /\ b.hi \in 0 .. Inf - 1
                        /\ Entered(b.lo)
                        /\ tMax = b.hi => LeavesAtMax
  BY <1>1, <1>2, BoxTimes
<1>4. Inf \in Nat
  BY IteratorAssumption
<1>5. CASE b.hi <= b.lo
  <2>1. tMax = -Inf /\ dda.t = 0 /\ ~Begun
    BY <1>2, <1>5 DEF Begun
  <2> QED BY <1>2, <2>1 DEF DdaInv, PlaceOK, DdaOK
<1>6. CASE ~(b.hi <= b.lo)
  <2>1. b.lo < b.hi /\ tMax = b.hi /\ tMax # -Inf
    BY <1>2, <1>3, <1>4, <1>6
  <2>2. Path
    BY <1>1, <1>2, <1>3, <2>1 DEF Path
  <2>3. Course
    BY <1>2, <2>2 DEF Course, Path, RayIsGeneral
  <2>4. Reached(b.lo)
    BY <1>1, <1>3, <2>1 DEF Reached
  <2>5. IsDda(dda) /\ dda.t = b.lo /\ Nested(dda, -1)
    BY <1>2, <1>6, <2>1, <2>3, <2>4, InitialFacts
  <2>6. Gap = -1
    BY <1>2 DEF Gap
  <2>7. ~(dda.t >= tMax)
    BY <1>3, <2>1, <2>5
  <2> QED BY <1>2, <2>1, <2>2, <2>4, <2>5, <2>6, <2>7 DEF DdaInv, PlaceOK, DdaOK
<1> QED
  BY <1>5, <1>6

-----------------------------------------------------------------------------
(* The tree is built before the iterator is initialised, and then left alone. *)
LEMMA IteratorStaysInTree == IteratorSpec => Spec
<1>1. IteratorInit => Init
  BY DEF IteratorInit
<1>2. [IteratorNext]_allVars => [Next]_vars
  BY DEF IteratorNext, allVars, CommitStep, Initialize, March, Query, NoInterval, Step, Follow,
         Arrive, IteratorDone, Next, vars
<1> QED
  BY <1>1, <1>2, PTL DEF IteratorSpec, Spec

LEMMA CommitIsOver ==
  ASSUME Commit
  PROVE  phase # "committed"
BY DEF Commit, ComputeRoot, VerifyLeaves, AllocateInnerLevel, StartRanges, ExtendRanges, Insert,
       ComputeRange

LEMMA DdaNext ==
  ASSUME CommitInv, DdaInv, RayIsGeneral, RayIsGeneral', [IteratorNext]_allVars,
         Starting' /\ RayIsGeneral' => DdaInv'
  PROVE  DdaInv'
<1>1. CASE Initialize
  BY <1>1, InitializeStarts DEF DdaInv
<1>2. CASE Query
  BY <1>2, DdaAfterQuery
<1>3. CASE NoInterval
  BY <1>3, DdaAfterNoInterval
<1>4. CASE Step
  BY <1>4, DdaAfterStep
<1>5. CASE Follow
  BY <1>5, DdaAfterFollow
<1>6. CASE Arrive
  BY <1>6, DdaAfterArrive
<1>7. CASE CommitStep
  <2>1. pc = "none" /\ pc' = pc /\ dda' = dda /\ interval' = interval
    BY <1>7, CommitIsOver DEF DdaInv, PlaceOK, CommitStep, march
  <2> QED BY <2>1 DEF DdaInv, PlaceOK, DdaOK, Begun
<1>8. CASE UNCHANGED allVars
  <2>1. UNCHANGED vars /\ UNCHANGED <<pc, ray, depth, tMax, dda, voxel, entry, interval, required>>
    BY <1>8 DEF allVars, march
  <2>2. PICK d, g, l, t : d = dda /\ g = Gap /\ l = entry.above /\ t = entry.t
    OBVIOUS
  <2>3. /\ Path' <=> Path
        /\ \A x : Reached(x)' <=> Reached(x)
        /\ \A x : IsDda(x)' <=> IsDda(x)
        /\ \A x, k : Nested(x, k)' <=> Nested(x, k)
        /\ \A x, k, a : CameThrough(x, k, a)' <=> CameThrough(x, k, a)
        /\ \A x : Late(x)' <=> Late(x)
    BY <2>1, MarchStays
  <2>4. /\ phase' = phase /\ (FitsRoot' <=> FitsRoot) /\ (RayOK' <=> RayOK)
        /\ leaves' = leaves /\ (rootOrigin = RootOrigin(Lower) => (rootOrigin = RootOrigin(Lower))')
    BY <2>1 DEF vars, FitsRoot, RayOK, Leaves, RootOrigin, Lower, Extent
  <2>5. dda' = d /\ Gap' = g /\ entry'.above = l /\ entry'.t = t /\ (Begun' <=> Begun)
        /\ pc' = pc /\ tMax' = tMax /\ voxel' = voxel /\ depth' = depth
        /\ interval' = interval
    BY <2>1, <2>2 DEF Gap, Begun
  <2>6. PlaceOK'
    BY <2>2, <2>3, <2>4, <2>5 DEF DdaInv, PlaceOK
  <2>7. DdaOK'
    BY <2>2, <2>3, <2>5 DEF DdaInv, DdaOK
  <2> QED BY <2>6, <2>7 DEF DdaInv
<1> QED
  BY <1>1, <1>2, <1>3, <1>4, <1>5, <1>6, <1>7, <1>8
     DEF IteratorNext, March, IteratorDone

LEMMA DdaInvariance == IteratorSpec /\ []RayIsGeneral => []DdaInv
<1>1. IteratorInit => DdaInv
  BY DEF IteratorInit, DdaInv, PlaceOK, DdaOK, Begun
<1>2. CommitInv /\ DdaInv /\ RayIsGeneral /\ RayIsGeneral' /\ [IteratorNext]_allVars
        /\ (Starting' /\ RayIsGeneral' => DdaInv') => DdaInv'
  BY DdaNext
<1>3. Starting' /\ RayIsGeneral' => DdaInv'
  BY StartingIsOnCourse, PTL
<1>4. CommitInv /\ DdaInv /\ RayIsGeneral /\ RayIsGeneral' /\ [IteratorNext]_allVars => DdaInv'
  BY <1>2, <1>3
<1> QED
  BY <1>1, <1>4, IteratorStaysInTree, CommitInvariance, PTL DEF IteratorSpec

(***************************************************************************)
(* "This keeps the dda state consistent": a ray in general position is, at *)
(* every call, in cells that are each in the cell of the level above.      *)
(* Without the levels above following, a step on a coarse level would      *)
(* start from a cell that the ray left long ago.                           *)
(***************************************************************************)
THEOREM DdaStaysConsistent == IteratorSpec /\ []RayIsGeneral => []DdaIsConsistent
<1>1. DdaInv => DdaIsConsistent
  <2> SUFFICES ASSUME DdaInv, pc = "query", dda.t < tMax,
                      NEW l \in 0 .. depth - 1, NEW a \in Axes
               PROVE  /\ dda.idx[l][a] <= dda.idx[l + 1][a]
                      /\ dda.idx[l + 1][a] < dda.idx[l][a] + CellRes(l)
    BY DEF DdaIsConsistent
  <2>1. Begun
    <3> SUFFICES ASSUME tMax = -Inf PROVE FALSE
      BY DEF Begun
    <3>1. dda.t = 0 /\ Inf \in Nat
      BY IteratorAssumption DEF DdaInv, PlaceOK
    <3> QED BY <3>1
  <2>2. Nested(dda, -1)
    BY <2>1 DEF DdaInv, DdaOK, Gap
  <2>3. depth \in Nat
    BY <2>1, ResFacts DEF DdaInv, DdaOK, Path, LevelsDown
  <2> QED BY <2>2, <2>3 DEF Nested, Within
<1> QED
  BY <1>1, DdaInvariance, PTL

-----------------------------------------------------------------------------
(***************************************************************************)
(* What a query says of the units of t that a step passes over.            *)
(***************************************************************************)
Middle(u) == [a \in Axes |-> (2 * ray.org[a] + (2 * u + 1) * ray.dir[a]) \div (2 * VoxelWidth)]

(* the middle of a unit is between its ends *)
LEMMA MiddleFacts ==
  ASSUME RayOK, NEW u \in Nat, NEW a \in Axes, NEW p \in Int, NEW q \in Int,
         VoxelWidth * p <= Position(u)[a], VoxelWidth * p <= Position(u + 1)[a],
         Position(u)[a] <= VoxelWidth * q, Position(u + 1)[a] <= VoxelWidth * q,
         ray.dir[a] = 0 => Position(u)[a] < VoxelWidth * q
  PROVE  p <= Middle(u)[a] /\ Middle(u)[a] < q /\ Middle(u)[a] \in Int
<1>1. PICK o \in Int : o = ray.org[a]
  BY PositionFacts
<1>2. PICK d \in {-2, -1, 0, 1, 2} : d = ray.dir[a]
  BY PositionFacts
<1>3. PICK w \in Nat \ {0, 1} : w = VoxelWidth
  BY PositionFacts
<1>4. u \in Int /\ u + 1 \in Int
  OBVIOUS
<1>5. PICK x \in Int : x = Position(u)[a] /\ x = o + u * d
  BY <1>1, <1>2, <1>4, PositionFacts
<1>6. PICK y \in Int : y = Position(u + 1)[a] /\ y = o + (u + 1) * d
  BY <1>1, <1>2, <1>4, PositionFacts
<1>7. 2 * o + (2 * u + 1) * d = x + y /\ y = x + d
  <2>1. CASE d = 0 BY <1>5, <1>6, <2>1
  <2>2. CASE d = 1 BY <1>5, <1>6, <2>2
  <2>3. CASE d = 2 BY <1>5, <1>6, <2>3
  <2>4. CASE d = -1 BY <1>5, <1>6, <2>4
  <2>5. CASE d = -2 BY <1>5, <1>6, <2>5
  <2> QED BY <1>2, <2>1, <2>2, <2>3, <2>4, <2>5
<1>8. Middle(u)[a] = (x + y) \div (2 * w)
  BY <1>1, <1>2, <1>3, <1>7 DEF Middle
<1>9. PICK m \in Int : m = w * p
  OBVIOUS
<1>10. PICK n \in Int : n = w * q
  OBVIOUS
<1>11. 2 * m <= x + y /\ x + y < 2 * n
  <2>1. m <= x /\ m <= y /\ x <= n /\ y <= n /\ (d = 0 => x < n)
    BY <1>2, <1>3, <1>5, <1>6, <1>9, <1>10
  <2>2. y = x + d
    BY <1>7
  <2> QED BY <2>1, <2>2
<1>12. PICK v \in Nat \ {0} : v = 2 * w
  OBVIOUS
<1>13. PICK z \in Int : z = x + y
  OBVIOUS
<1>14. v * p = 2 * m /\ v * q = 2 * n
  BY <1>9, <1>10, <1>12
<1>15. PICK k \in Int : k = z \div v
  BY <1>12, Division
<1>16. v * k <= z /\ z < v * k + v
  <2>1. z = v * (z \div v) + (z % v) /\ z % v \in 0 .. v - 1
    BY <1>12, <1>13, Division
  <2>2. PICK r \in 0 .. v - 1 : r = z % v
    BY <2>1
  <2>3. PICK h \in Int : h = v * k
    OBVIOUS
  <2>4. z = h + r
    BY <1>15, <2>1, <2>2, <2>3
  <2>5. h <= z /\ z < h + v
    BY <1>12, <2>2, <2>3, <2>4
  <2> QED BY <2>3, <2>5
<1>17. p <= k
  <2> SUFFICES ASSUME k < p PROVE FALSE
    OBVIOUS
  <2>1. v * k + v <= v * p
    BY Multiples
  <2>2. v * k \in Int /\ v * p \in Int
    OBVIOUS
  <2> QED BY <1>11, <1>13, <1>14, <1>16, <2>1, <2>2
<1>18. k < q
  <2> SUFFICES ASSUME ~(k < q) PROVE FALSE
    OBVIOUS
  <2>1. v * q <= v * k
    <3>1. CASE q = k BY <3>1
    <3>2. CASE q < k
      <4>1. v * q + v <= v * k
        BY <3>2, Multiples
      <4>2. v * k \in Int /\ v * q \in Int
        OBVIOUS
      <4> QED BY <4>1, <4>2
    <3> QED BY <3>1, <3>2
  <2>2. v * k \in Int /\ v * q \in Int
    OBVIOUS
  <2> QED BY <1>11, <1>13, <1>14, <1>16, <2>1, <2>2
<1> QED
  BY <1>8, <1>12, <1>13, <1>15, <1>17, <1>18

(* Until the ray leaves a cell, its units are in the cell, and in the box. *)
LEMMA UnitInCell ==
  ASSUME Course, NEW t, Reached(t), NEW l \in LevelsDown, NEW c, NEW e,
         IsCell(t, c, l), Exits(t, c, l, e), NEW u \in Nat, t <= u, u < tMax,
         \A b \in Axes : u < e[b], NEW a \in Axes
  PROVE  /\ Middle(u)[a] \in Int
         /\ c[a] <= Middle(u)[a] /\ Middle(u)[a] < c[a] + CellRes(l)
         /\ Middle(u)[a] < UpperOffset[a]
<1>1. RayOK /\ t \in Nat /\ t \in Int /\ u \in Int /\ u + 1 \in Int /\ tMax \in Int
      /\ Entered(t) /\ LeavesAtMax /\ u + 1 <= tMax
  BY DEF Course, Reached
<1>2. c \in [Axes -> Nat] /\ CellRes(l) \in Nat /\ c[a] \in Int /\ c[a] + CellRes(l) \in Int
      /\ e[a] \in Nat /\ u + 1 <= e[a]
  BY CellResFacts DEF IsCell, Exits
<1>3. UpperOffset[a] \in Int /\ Reached(u)
  BY OffsetsOfBox, ReachedStays
<1>4. PICK d \in {-2, -1, 0, 1, 2} : d = ray.dir[a]
  BY <1>1, PositionFacts
<1>5. /\ Position(t)[a] \in Int /\ Position(u)[a] \in Int /\ Position(u + 1)[a] \in Int
      /\ Position(e[a])[a] \in Int /\ Position(tMax)[a] \in Int
  BY <1>1, <1>2, PositionFacts
<1>6. /\ VoxelWidth * c[a] \in Int /\ VoxelWidth * (c[a] + CellRes(l)) \in Int
      /\ VoxelWidth * UpperOffset[a] \in Int
  BY <1>2, <1>3, PlaneOrder
<1>7. /\ VoxelWidth * c[a] <= Position(t)[a]
      /\ Position(t)[a] <= VoxelWidth * (c[a] + CellRes(l))
      /\ d = 0 => Position(t)[a] < VoxelWidth * (c[a] + CellRes(l))
  BY <1>4 DEF IsCell, InCell
<1>8. d # 0 => Position(e[a])[a] = VoxelWidth * (IF d < 0 THEN c[a] ELSE c[a] + CellRes(l))
  BY <1>4 DEF Exits, Exit
<1>9. /\ d > 0 => /\ Position(t)[a] <= Position(u)[a]
                  /\ Position(u)[a] <= Position(u + 1)[a]
                  /\ Position(u + 1)[a] <= Position(e[a])[a]
                  /\ Position(u + 1)[a] <= Position(tMax)[a]
      /\ d < 0 => /\ Position(u)[a] <= Position(t)[a]
                  /\ Position(u + 1)[a] <= Position(u)[a]
                  /\ Position(e[a])[a] <= Position(u + 1)[a]
      /\ d = 0 => Position(u)[a] = ray.org[a] /\ Position(u + 1)[a] = ray.org[a]
                  /\ Position(t)[a] = ray.org[a]
  <2>1. u <= u + 1 /\ e[a] \in Int
    BY <1>1, <1>2
  <2> QED BY <1>1, <1>2, <1>4, <2>1, PositionOrder
<1>10. /\ VoxelWidth * c[a] <= Position(u)[a] /\ VoxelWidth * c[a] <= Position(u + 1)[a]
       /\ Position(u)[a] <= VoxelWidth * (c[a] + CellRes(l))
       /\ Position(u + 1)[a] <= VoxelWidth * (c[a] + CellRes(l))
       /\ d = 0 => Position(u)[a] < VoxelWidth * (c[a] + CellRes(l))
  <2> HIDE DEF CellRes
  <2>1. CASE d > 0
    <3>1. Position(e[a])[a] = VoxelWidth * (c[a] + CellRes(l))
      BY <1>8, <2>1
    <3> QED BY <1>5, <1>6, <1>7, <1>9, <2>1, <3>1
  <2>2. CASE d < 0
    <3>1. Position(e[a])[a] = VoxelWidth * c[a]
      BY <1>8, <2>2
    <3> QED BY <1>5, <1>6, <1>7, <1>9, <2>2, <3>1
  <2>3. CASE d = 0
    BY <1>5, <1>6, <1>7, <1>9, <2>3
  <2> QED BY <1>4, <2>1, <2>2, <2>3
<1>11. c[a] <= Middle(u)[a] /\ Middle(u)[a] < c[a] + CellRes(l) /\ Middle(u)[a] \in Int
  BY <1>1, <1>2, <1>4, <1>10, MiddleFacts
<1>12. /\ Position(u)[a] <= VoxelWidth * UpperOffset[a]
       /\ Position(u + 1)[a] <= VoxelWidth * UpperOffset[a]
       /\ d = 0 => Position(u)[a] < VoxelWidth * UpperOffset[a]
  <2>1. CASE d > 0
    <3>1. Position(tMax)[a] <= VoxelWidth * UpperOffset[a]
      BY <1>1, <1>4, <2>1 DEF LeavesAtMax
    <3> QED BY <1>5, <1>6, <1>9, <2>1, <3>1
  <2>2. CASE d < 0
    <3>1. Position(u)[a] <= VoxelWidth * UpperOffset[a]
      BY <1>3, <1>4, <2>2 DEF Reached, Entered
    <3> QED BY <1>5, <1>6, <1>9, <2>2, <3>1
  <2>3. CASE d = 0
    <3>1. ray.org[a] < VoxelWidth * UpperOffset[a]
      BY <1>1, <1>4, <2>3 DEF LeavesAtMax
    <3> QED BY <1>5, <1>6, <1>9, <2>3, <3>1
  <2> QED BY <1>4, <2>1, <2>2, <2>3
<1>13. Middle(u)[a] < UpperOffset[a]
  BY <1>1, <1>2, <1>3, <1>4, <1>10, <1>12, MiddleFacts
<1> QED
  BY <1>11, <1>13

(* The cells of the levels below are in the cell. *)
LEMMA CellsChain ==
  ASSUME Course, NEW d, Nested(d, -1), NEW l \in 0 .. depth
  PROVE  d.idx[depth] \in Coordinates /\ NodeOrigin(d.idx[depth], l + 1) = d.idx[l]
<1>1. depth \in Nat /\ (\A k \in 0 .. depth : k \in LevelsDown) /\ depth \in 0 .. depth
  BY ResFacts DEF Course, LevelsDown
<1>2. \A k \in 0 .. depth : /\ d.idx[k] \in Coordinates /\ NodeOrigin(d.idx[k], k + 1) = d.idx[k]
                            /\ k + 1 \in 0 .. NumLevels
  BY <1>1, CellResFacts DEF Nested, IsCell, Coordinates
<1> DEFINE Bad == {k \in l .. depth : NodeOrigin(d.idx[k], l + 1) # d.idx[l]}
<1>3. ASSUME Bad # {} PROVE FALSE
  <2>1. Bad \in SUBSET Nat
    BY <1>1
  <2>2. PICK k \in Bad : \A n \in Bad : k <= n
    <3> HIDE DEF Bad
    <3> QED BY <1>3, <2>1, LeastNat
  <2>3. k \in l .. depth /\ NodeOrigin(d.idx[k], l + 1) # d.idx[l] /\ k # l
    BY <1>2, <2>2
  <2>4. PICK j \in l .. depth : j + 1 = k /\ j \in 0 .. depth - 1 /\ k \in 0 .. depth /\ j \in 0 .. depth
    BY <1>1, <2>3
  <2>5. NodeOrigin(d.idx[j], l + 1) = d.idx[l]
    <3>1. ~(k <= j)
      BY <1>1, <2>4
    <3>2. j \notin Bad
      <4> HIDE DEF Bad
      <4> QED BY <2>2, <3>1
    <3> QED BY <2>4, <3>2
  <2>6. NodeOrigin(d.idx[k], j + 1) = d.idx[j]
    <3>1. Within(d.idx[k], d.idx[j], j)
      BY <1>1, <2>4 DEF Nested
    <3>2. CellRes(j) = Res[j + 1]
      BY <1>1, <2>4, CellResFacts
    <3>3. \A a \in Axes : d.idx[j][a] <= d.idx[k][a] /\ d.idx[k][a] < d.idx[j][a] + Res[j + 1]
      BY <3>1, <3>2 DEF Within
    <3> QED BY <1>2, <2>4, <3>3, NodeOriginIs
  <2>7. NodeOrigin(NodeOrigin(d.idx[k], j + 1), l + 1) = NodeOrigin(d.idx[k], l + 1)
    <3>1. d.idx[k] \in Coordinates /\ j + 1 \in 0 .. NumLevels /\ l + 1 \in 0 .. j + 1
      BY <1>1, <1>2, <2>4
    <3> QED BY <3>1, NodesNest
  <2> QED BY <2>3, <2>5, <2>6, <2>7
<1> QED
  BY <1>1, <1>2, <1>3

-----------------------------------------------------------------------------
(* Where the samples of the units lie. *)
LEMMA UnitInVoxel ==
  ASSUME CommitInv, Course, phase = "committed", NEW d, Reached(d.t), Nested(d, -1),
         NEW l \in 0 .. depth, NEW u \in Nat, d.t <= u, u < tMax,
         \A a \in Axes : u < d.tNext[l][a],
         NEW c, c = CellAt(ray, u)
  PROVE  /\ c \in Coordinates /\ Minus(c, rootOrigin) \in Coordinates
         /\ NodeOrigin(Minus(c, rootOrigin), l + 1) = d.idx[l]
         /\ InDomain(c)
<1>1. l \in LevelsDown /\ CellRes(l) = Res[l + 1] /\ l + 1 \in 0 .. NumLevels
  <2>1. l \in LevelsDown
    BY ResFacts DEF Course, LevelsDown
  <2> QED BY <2>1, CellResFacts
<1>2. IsCell(d.t, d.idx[l], l) /\ Exits(d.t, d.idx[l], l, d.tNext[l])
  BY DEF Nested
<1>3. ASSUME NEW a \in Axes
      PROVE  /\ Middle(u)[a] \in Int
             /\ d.idx[l][a] <= Middle(u)[a] /\ Middle(u)[a] < d.idx[l][a] + CellRes(l)
             /\ Middle(u)[a] < UpperOffset[a]
  BY <1>1, <1>2, UnitInCell
<1>4. rootOrigin \in Coordinates /\ activeSize = UpperOffset
      /\ \A a \in Axes : rootOrigin[a] \in Int
  BY RootFacts DEF Course, CommitInv, ShapeInv, ExtentOK, Verified, Allocated, UpperOffset,
                   Coordinates
<1>5. PICK m : m = Middle(u)
  OBVIOUS
<1>6. m \in Coordinates /\ \A a \in Axes : m[a] \in Int
  BY <1>3, <1>5 DEF Middle, Coordinates
<1>7. c = [a \in Axes |-> rootOrigin[a] + m[a]]
  BY <1>5 DEF CellAt, Middle
<1>8. c \in Coordinates /\ Minus(c, rootOrigin) = m
  <2>1. \A a \in Axes : c[a] = rootOrigin[a] + m[a] /\ c[a] \in Int
    BY <1>4, <1>6, <1>7
  <2>2. c \in Coordinates
    BY <1>7, <2>1 DEF Coordinates
  <2>3. \A a \in Axes : c[a] - rootOrigin[a] = m[a]
    BY <1>4, <1>6, <2>1
  <2>4. m = [a \in Axes |-> m[a]]
    BY <1>6 DEF Coordinates
  <2>5. Minus(c, rootOrigin) = m
    BY <2>3, <2>4 DEF Minus
  <2> QED BY <2>2, <2>5
<1>9. NodeOrigin(m, l + 1) = d.idx[l]
  <2>1. d.idx[l] \in Coordinates /\ NodeOrigin(d.idx[l], l + 1) = d.idx[l]
    BY <1>2 DEF IsCell, Coordinates
  <2>2. \A a \in Axes : d.idx[l][a] <= m[a] /\ m[a] < d.idx[l][a] + Res[l + 1]
    BY <1>1, <1>3, <1>5
  <2> QED BY <1>1, <1>6, <2>1, <2>2, NodeOriginIs
<1>10. InDomain(c)
  <2>1. ASSUME NEW a \in Axes PROVE c[a] >= rootOrigin[a] /\ c[a] - rootOrigin[a] < activeSize[a]
    <3>1. d.idx[l][a] \in Nat
      BY <1>2 DEF IsCell
    <3>2. c[a] = rootOrigin[a] + m[a] /\ m[a] < UpperOffset[a] /\ d.idx[l][a] <= m[a]
      BY <1>3, <1>5, <1>7
    <3> QED BY <1>4, <1>6, <3>1, <3>2
  <2> QED BY <2>1 DEF InDomain
<1> QED
  BY <1>6, <1>8, <1>9, <1>10

(* The voxels of a descent to the cell of a leaf lead to the leaf. *)
LEMMA VisitedLead ==
  ASSUME CommitInv, phase = "committed", FitsRoot, NEW i \in Leaves,
         NEW o \in Coordinates, NodeOrigin(o, leaves[i].level) = Offset(i),
         NEW p \in Coordinates, NEW j \in Nat \ {0}, j \in 0 .. leaves[i].level,
         NodeOrigin(o, j) = NodeOrigin(p, j),
         NEW v \in DOMAIN voxels, v[1] = j - 1, CornerOf(v) = NodeOrigin(p, j)
  PROVE  /\ NeighbourhoodSamples(i) \subseteq range[v]
         /\ j = leaves[i].level => voxels[v] = LeafPtr(i)
<1>1. PICK k : k = leaves[i].level
  OBVIOUS
<1>2. /\ Allocated /\ ShapeInv /\ TreeOK /\ todo = {} /\ Inserted
      /\ k \in 1 .. LeafLevel /\ k \in 0 .. NumLevels /\ Offset(i) \in Coordinates
  BY <1>1, InsertedFacts DEF Inserted
<1>3. NodeOrigin(Offset(i), j) = NodeOrigin(o, j)
  <2>1. NodeOrigin(NodeOrigin(o, k), j) = NodeOrigin(o, j)
    BY <1>1, <1>2, NodesNest
  <2> QED BY <1>1, <2>1
<1>4. j - 1 \in 0 .. k - 1 /\ (j - 1) + 1 = j /\ j - 1 \in 0 .. leaves[i].level - 1
  BY <1>1, <1>2
<1>5. CornerOf(v) = NodeOrigin(Offset(i), v[1] + 1)
  BY <1>3, <1>4
<1>6. v \in Visited(i)
  BY <1>2, <1>4, <1>5, WayIsVisited
<1>7. NeighbourhoodSamples(i) \subseteq range[v]
  BY <1>6, VisitedRanges
<1>8. ASSUME j = k PROVE voxels[v] = LeafPtr(i)
  <2>1. i \notin todo
    BY <1>2
  <2>2. PICK w \in DOMAIN voxels : /\ w[1] = j - 1 /\ CornerOf(w) = NodeOrigin(Offset(i), j)
                                   /\ voxels[w] = LeafPtr(i)
    BY <1>1, <1>2, <1>4, <1>8, <2>1, WayToLeaf
  <2>3. v = w
    BY <1>2, <1>4, <1>5, <2>2, VoxelsAreUnique
  <2> QED BY <2>2, <2>3
<1> QED
  BY <1>1, <1>7, <1>8

(* A leaf's own value is among the samples of its neighbourhood. *)
LEMMA OwnSample ==
  ASSUME CommitInv, phase = "committed", FitsRoot, Aligned, NEW i \in Leaves
  PROVE  \E x \in NeighbourhoodSamples(i) : x[1] \in {"tile", "cell"} /\ x[2] = i
<1>1. /\ Inserted /\ leaves \in Inputs /\ leaves[i].origin \in Coordinates
      /\ Extent(i) \in Nat \ {0} /\ leaves[i].level \in 1 .. LeafLevel
  BY InsertedFacts, InputFacts DEF Inserted
<1>2. PICK z \in [Axes -> {-1, 0, 1}] : \A a \in Axes : z[a] = 0
  <2>1. Zero \in [Axes -> {-1, 0, 1}] /\ \A a \in Axes : Zero[a] = 0
    BY DEF Zero
  <2> QED BY <2>1
<1>3. Res[LeafLevel] \in Nat \ {0, 1}
  BY LeafResFacts
<1>4. Neighbour(i, z) = leaves[i].origin
  <2>1. \A a \in Axes : leaves[i].origin[a] + z[a] * Res[LeafLevel] = leaves[i].origin[a]
    <3>1. ASSUME NEW a \in Axes PROVE leaves[i].origin[a] + z[a] * Res[LeafLevel] = leaves[i].origin[a]
      <4>1. leaves[i].origin[a] \in Int /\ 0 * Res[LeafLevel] = 0
        BY <1>1, <1>3 DEF Coordinates
      <4> QED BY <1>2, <4>1
    <3> QED BY <3>1
  <2>2. leaves[i].origin = [a \in Axes |-> leaves[i].origin[a]]
    BY <1>1 DEF Coordinates
  <2> QED BY <2>1, <2>2 DEF Neighbour
<1>5. InLeaf(Neighbour(i, z), i)
  <2>1. ASSUME NEW a \in Axes PROVE leaves[i].origin[a] < leaves[i].origin[a] + Extent(i)
                                    /\ leaves[i].origin[a] <= leaves[i].origin[a]
    BY <1>1 DEF Coordinates
  <2> QED BY <1>4, <2>1 DEF InLeaf
<1>6. NodeSamples(i, z) = IF leaves[i].format = "TILE" THEN {<<"tile", i>>}
                          ELSE {<<"cell", i, x>> :
                                  x \in {y \in [Axes -> 0 .. Res[LeafLevel] - 1] :
                                           \A a \in Axes : y[a] \in Reach(z[a])}}
  BY <1>1, <1>4, <1>5, NodeSamplesFacts
<1>7. NodeSamples(i, z) \subseteq NeighbourhoodSamples(i)
  BY DEF NeighbourhoodSamples
<1>8. CASE leaves[i].format = "TILE"
  <2>1. <<"tile", i>> \in NeighbourhoodSamples(i)
    BY <1>6, <1>7, <1>8
  <2> QED BY <2>1
<1>9. CASE leaves[i].format # "TILE"
  <2>1. PICK y : y = [a \in Axes |-> 0]
    OBVIOUS
  <2>2. y \in [Axes -> 0 .. Res[LeafLevel] - 1] /\ \A a \in Axes : y[a] = 0
    BY <1>3, <2>1
  <2>3. \A a \in Axes : y[a] \in Reach(z[a])
    BY <1>2, <1>3, <2>2, ReachFacts
  <2>4. <<"cell", i, y>> \in NeighbourhoodSamples(i)
    BY <1>6, <1>7, <1>9, <2>2, <2>3
  <2> QED BY <2>4
<1> QED
  BY <1>8, <1>9

-----------------------------------------------------------------------------
(* A voxel answers for a unit of t. *)
Fits(v, u) ==
    IF v.isEmpty THEN \A i \in ray.want : ~InLeaf(CellAt(ray, u), i)
    ELSE \A i \in Leaves :
            InLeaf(CellAt(ray, u), i) /\ leaves[i].level = LeafLevel =>
                \A d \in [Axes -> -1 .. 2] : Sample(Plus(CellAt(ray, u), d)) \in v.range

LEMMA QueryFits ==
  ASSUME CommitInv, Course, phase = "committed", FitsRoot, Aligned,
         NEW d, Reached(d.t), Nested(d, -1), NEW v, v = QueryVoxel(d.idx[depth]),
         NEW u \in Nat, d.t <= u, u < tMax, \A a \in Axes : u < d.tNext[v.level][a]
  PROVE  Fits(v, u)
<1>1. PICK l, p, c : l = v.level /\ p = d.idx[depth] /\ c = CellAt(ray, u)
  OBVIOUS
<1>2. PICK o : o = Minus(c, rootOrigin)
  OBVIOUS
<1>3. depth \in LevelsDown /\ depth \in Nat
  BY ResFacts DEF Course, LevelsDown
<1>0. PICK s : s = Descend(p, depth).visited
  OBVIOUS
<1>4. PICK leaf \in BOOLEAN : /\ s = Descend(p, depth).visited
                              /\ leaf = (Descend(p, depth).voxel.type = "leaf")
  BY <1>0
<1>5. l \in 0 .. depth /\ Answer(s, leaf, v)
  BY <1>1, <1>3, <1>4, QueryFacts
<1>6. c \in Coordinates /\ o \in Coordinates /\ NodeOrigin(o, l + 1) = d.idx[l] /\ InDomain(c)
  BY <1>1, <1>2, <1>5, UnitInVoxel
<1>7. p \in Coordinates /\ NodeOrigin(p, l + 1) = NodeOrigin(o, l + 1)
  BY <1>1, <1>5, <1>6, CellsChain
<1>8. /\ Allocated /\ ShapeInv /\ TreeOK /\ todo = {} /\ Inserted
      /\ leaves \in Inputs /\ rootOrigin = RootOrigin(Lower)
      /\ \A i \in Leaves : ~Invalid(i) /\ leaves[i].level \in 1 .. LeafLevel
                           /\ leaves[i].level \in 0 .. NumLevels
  BY InsertedFacts DEF Inserted
<1>9. l + 1 \in 0 .. NumLevels /\ l \in Nat
  BY <1>3, <1>5, ResFacts DEF LevelsDown
<1>10. \A j \in 0 .. l + 1 : NodeOrigin(o, j) = NodeOrigin(p, j)
  BY <1>6, <1>7, <1>9, SameNodeAbove
<1>11. NodeOrigin(p, 0) = Zero
  <2>1. NodeOrigin(o, 0) = Zero
    BY <1>2, <1>6, <1>8, DomainFitsRoot
  <2>2. 0 \in 0 .. l + 1
    BY <1>9
  <2> QED BY <1>10, <2>1, <2>2
<1>12. PICK n, x : n = Len(s) /\ x = Descend(p, depth).voxel
  OBVIOUS
<1>13. /\ n \in 0 .. LeafLevel /\ n \in Nat
       /\ \A j \in 1 .. n : /\ j - 1 <= depth /\ s[j] \in DOMAIN voxels /\ s[j][1] = j - 1
                            /\ CornerOf(s[j]) = NodeOrigin(p, j)
                            /\ j < n => voxels[s[j]].type = "child"
       /\ n = 0 => x = Empty
       /\ n > 0 => x = voxels[s[n]]
       /\ \/ n > 0 /\ x.type = "leaf"
          \/ n = depth + 1 /\ x.type = "child"
          \/ /\ n > 0 => x.type = "child"
             /\ \A w \in DOMAIN voxels : w[1] = n => CornerOf(w) # NodeOrigin(p, n + 1)
  BY <1>3, <1>4, <1>7, <1>8, <1>11, <1>12, DescendFacts, ResFacts
<1>14. ASSUME NEW i \in Leaves, InLeaf(c, i)
       PROVE  NodeOrigin(o, leaves[i].level) = Offset(i)
  BY <1>2, <1>6, <1>8, <1>14, CellsOfLeaf
<1>15. ASSUME NEW i \in Leaves, InLeaf(c, i), NEW j \in 1 .. n, j <= l + 1, j <= leaves[i].level
       PROVE  /\ NeighbourhoodSamples(i) \subseteq range[s[j]]
              /\ j = leaves[i].level => voxels[s[j]] = LeafPtr(i)
  <2>1. j \in Nat \ {0} /\ j \in 0 .. leaves[i].level /\ j \in 0 .. l + 1
    BY <1>8, <1>9, <1>13, <1>15
  <2>2. s[j] \in DOMAIN voxels /\ s[j][1] = j - 1 /\ CornerOf(s[j]) = NodeOrigin(p, j)
    BY <1>13
  <2>3. NodeOrigin(o, j) = NodeOrigin(p, j)
    BY <1>10, <2>1
  <2>4. NodeOrigin(o, leaves[i].level) = Offset(i)
    BY <1>14, <1>15
  <2> QED BY <1>6, <1>7, <2>1, <2>2, <2>3, <2>4, VisitedLead
<1>16. \A i \in Leaves : LeafPtr(i).type = "leaf"
  BY DEF LeafPtr
(* no leaf ends above a voxel that the descent came to *)
<1>17. ASSUME NEW i \in Leaves, InLeaf(c, i), leaves[i].level < n, leaves[i].level <= l + 1
       PROVE  FALSE
  <2>1. PICK k \in 1 .. n : k = leaves[i].level /\ k < n
    BY <1>8, <1>13, <1>17
  <2>2. voxels[s[k]] = LeafPtr(i) /\ voxels[s[k]].type = "child"
    <3>1. k <= l + 1 /\ k <= leaves[i].level
      BY <1>17, <2>1
    <3> QED BY <1>13, <1>15, <1>17, <2>1, <3>1
  <2> QED BY <1>16, <2>2
<1>18. ray.want \subseteq Leaves
  BY DEF Course, RayOK
<1>19. CASE Pruned(s) # {}
  <2>1. v.isEmpty /\ l + 1 \in Pruned(s)
    BY <1>1, <1>5, <1>19 DEF Answer
  <2>2. l + 1 \in 1 .. n /\ ~ValueRangesOverlap(range[s[l + 1]])
    BY <1>12, <2>1 DEF Pruned
  <2>3. ASSUME NEW i \in ray.want, InLeaf(c, i) PROVE FALSE
    <3>1. i \in Leaves /\ leaves[i].level \in Nat
      BY <1>8, <1>18, <2>3
    <3>2. CASE l + 1 <= leaves[i].level
      <4>1. NeighbourhoodSamples(i) \subseteq range[s[l + 1]]
        <5>1. l + 1 <= l + 1
          BY <1>9
        <5> QED BY <1>15, <2>2, <2>3, <3>1, <3>2, <5>1
      <4>2. PICK y \in NeighbourhoodSamples(i) : y[1] \in {"tile", "cell"} /\ y[2] = i
        BY <3>1, OwnSample
      <4> QED BY <2>2, <2>3, <4>1, <4>2 DEF ValueRangesOverlap
    <3>3. CASE ~(l + 1 <= leaves[i].level)
      <4>1. leaves[i].level < n /\ leaves[i].level <= l + 1
        BY <1>9, <1>13, <2>2, <3>1, <3>3
      <4> QED BY <1>17, <2>3, <3>1, <4>1
    <3> QED BY <3>2, <3>3
  <2> QED BY <1>1, <2>1, <2>3 DEF Fits
<1>20. CASE Pruned(s) = {} /\ ~leaf /\ n <= depth
  <2>1. v.isEmpty /\ l = n
    BY <1>1, <1>5, <1>12, <1>20 DEF Answer
  <2>2. ~(x.type = "leaf")
    BY <1>4, <1>12, <1>20
  <2>3. \A w \in DOMAIN voxels : w[1] = n => CornerOf(w) # NodeOrigin(p, n + 1)
    <3>1. n # depth + 1
      BY <1>3, <1>13, <1>20
    <3> QED BY <1>13, <2>2, <3>1
  <2>4. ASSUME NEW i \in ray.want, InLeaf(c, i) PROVE FALSE
    <3>1. PICK k \in Nat : k = leaves[i].level
      BY <1>8, <1>18, <2>4
    <3>2. i \in Leaves /\ k \in 1 .. LeafLevel /\ k \in 0 .. NumLevels /\ i \notin todo
      BY <1>8, <1>18, <2>4, <3>1
    <3>3. CASE k < n
      <4>1. leaves[i].level <= l + 1
        BY <1>9, <2>1, <3>1, <3>3
      <4> QED BY <1>17, <2>4, <3>1, <3>2, <3>3, <4>1
    <3>4. CASE k = n
      <4>1. n \in 1 .. n /\ n <= l + 1 /\ n <= leaves[i].level /\ n > 0
        BY <1>9, <1>13, <2>1, <3>1, <3>2, <3>4
      <4>2. voxels[s[n]] = LeafPtr(i)
        BY <1>15, <2>4, <3>1, <3>2, <3>4, <4>1
      <4> QED BY <1>13, <1>16, <2>2, <3>2, <4>1, <4>2
    <3>5. CASE k > n
      <4>1. n \in 0 .. leaves[i].level - 1 /\ n + 1 \in 0 .. k /\ n + 1 \in 0 .. l + 1
        BY <1>9, <1>13, <2>1, <3>1, <3>5
      <4>2. PICK w \in DOMAIN voxels : w[1] = n /\ CornerOf(w) = NodeOrigin(Offset(i), n + 1)
        BY <1>8, <3>2, <4>1, WayToLeaf
      <4>3. NodeOrigin(o, k) = Offset(i)
        BY <1>14, <2>4, <3>1, <3>2
      <4>4. NodeOrigin(NodeOrigin(o, k), n + 1) = NodeOrigin(o, n + 1)
        BY <1>6, <3>2, <4>1, NodesNest
      <4>5. NodeOrigin(o, n + 1) = NodeOrigin(p, n + 1)
        BY <1>10, <4>1
      <4> QED BY <2>3, <4>2, <4>3, <4>4, <4>5
    <3> QED BY <1>13, <3>1, <3>3, <3>4, <3>5
  <2> QED BY <1>1, <2>1, <2>4 DEF Fits
<1>21. CASE Pruned(s) = {} /\ (leaf \/ n > depth)
  <2>1. /\ ~v.isEmpty /\ v.range = range[s[n]]
        /\ l = IF leaf /\ n <= depth THEN n ELSE n - 1
    BY <1>1, <1>5, <1>12, <1>21 DEF Answer
  <2>2. n > 0
    <3>1. CASE n > depth BY <1>3, <1>13, <3>1
    <3>2. CASE leaf
      <4>1. x.type = "leaf"
        BY <1>4, <1>12, <3>2
      <4>2. Empty.type = "empty"
        BY DEF Empty
      <4> QED BY <1>13, <4>1, <4>2
    <3> QED BY <1>21, <3>1, <3>2
  <2>3. n \in 1 .. n /\ n <= l + 1
    BY <1>9, <1>13, <2>1, <2>2
  <2>4. ASSUME NEW i \in Leaves, InLeaf(c, i), leaves[i].level = LeafLevel,
               NEW f \in [Axes -> -1 .. 2]
        PROVE  Sample(Plus(c, f)) \in v.range
    <3>1. NeighbourhoodSamples(i) \subseteq range[s[n]]
      <4>1. n <= leaves[i].level
        BY <1>13, <2>4
      <4> QED BY <1>15, <2>3, <2>4, <4>1
    <3>2. Sample(Plus(c, f)) \in NeighbourhoodSamples(i)
      BY <1>6, <1>8, <2>4, SamplesOfFilter
    <3> QED BY <2>1, <3>1, <3>2
  <2> QED BY <1>1, <2>1, <2>4 DEF Fits
<1> QED
  BY <1>3, <1>13, <1>19, <1>20, <1>21

-----------------------------------------------------------------------------
(***************************************************************************)
(* What the iterator has seen: no unit that is required lies between the   *)
(* interval returned last and the voxel the ray is in, and that interval   *)
(* has the samples of its units in its range.                              *)
(***************************************************************************)
NothingLeft(lo, hi) == \A u \in required : ~(lo <= u /\ u < hi)

Reported(i) ==
    /\ i.lo \in Int /\ i.hi \in Int /\ i.lo <= i.hi
    /\ \A u \in i.lo .. i.hi - 1 : Fits([isEmpty |-> FALSE, range |-> i.range], u)

SeenOK ==
    Begun =>
        /\ interval.hi <= tMax
        /\ pc \in {"query", "step"} => interval.hi <= dda.t /\ NothingLeft(interval.hi, dda.t)
        /\ pc = "step" => IF dda.t < tMax THEN voxel = QueryVoxel(dda.idx[depth])
                          ELSE voxel.isEmpty
        /\ pc = "follow" =>
              /\ interval.hi <= entry.t /\ NothingLeft(interval.hi, entry.t)
              /\ dda.t < tMax \/ ~voxel.isEmpty => entry.t < tMax
              /\ \A u \in Nat : entry.t <= u /\ u < dda.t /\ u < tMax => Fits(voxel, u)

ReturnedOK ==
    pc # "none" =>
        /\ Reported(interval)
        /\ required = Required(ray, IntersectBox(ray))
        /\ tMax = -Inf => required = {}

SeenInv == SeenOK /\ ReturnedOK

LEMMA AnswersStay ==
  ASSUME UNCHANGED vars, UNCHANGED <<ray, depth>>
  PROVE  /\ \A v, u : Fits(v, u)' <=> Fits(v, u)
         /\ \A o : QueryVoxel(o)' = QueryVoxel(o)
         /\ Required(ray, IntersectBox(ray))' = Required(ray, IntersectBox(ray))
<1>1. /\ leaves' = leaves /\ packed' = packed /\ rootOrigin' = rootOrigin
      /\ activeSize' = activeSize /\ voxels' = voxels /\ range' = range
      /\ ray' = ray /\ depth' = depth
  BY DEF vars
<1>2. \A o, m : Descend(o, m)' = Descend(o, m)
  BY <1>1 DEF Descend
<1>3. Leaves' = Leaves /\ (\A i : Extent(i)' = Extent(i)) /\ \A c, i : InLeaf(c, i)' <=> InLeaf(c, i)
  BY <1>1 DEF Leaves, Extent, InLeaf
<1>4. \A r, u : CellAt(r, u)' = CellAt(r, u)
  BY <1>1 DEF CellAt
<1>5. \A c : Sample(c)' = Sample(c)
  <2>1. \A c : InDomain(c)' <=> InDomain(c)
    BY <1>1 DEF InDomain
  <2>2. \A c : Traverse(c)' = Traverse(c) /\ Outside(c)' = Outside(c)
    BY <1>1, <1>2, <2>1 DEF Traverse, Outside
  <2>3. \A v : DataOf(v)' = DataOf(v)
    BY <1>1, <1>3 DEF DataOf, PackedIndex
  <2> QED BY <1>1, <2>2, <2>3 DEF Sample
<1>6. \A v, u : Fits(v, u)' <=> Fits(v, u)
  BY <1>1, <1>3, <1>4, <1>5 DEF Fits
<1>7. \A o : QueryVoxel(o)' = QueryVoxel(o)
  <2>1. \A r : ValueRangesOverlap(r)' <=> ValueRangesOverlap(r)
    BY <1>1 DEF ValueRangesOverlap
  <2> QED BY <1>1, <1>2, <2>1 DEF QueryVoxel
<1>8. \A a : Lower'[a] = Lower[a] /\ Upper'[a] = Upper[a]
  BY <1>1, <1>3 DEF Lower, Upper
<1>9. Lower' = Lower /\ Upper' = Upper
  BY <1>1, <1>3 DEF Lower, Upper
<1>10. IntersectBox(ray)' = IntersectBox(ray)
  BY <1>1, <1>9 DEF IntersectBox, Slab
<1>11. Required(ray, IntersectBox(ray))' = Required(ray, IntersectBox(ray))
  BY <1>1, <1>3, <1>4, <1>10 DEF Required
<1> QED
  BY <1>6, <1>7, <1>11

(* What is required is on the ray, before tMax. *)
LEMMA RequiredFacts ==
  ASSUME DdaInv, SeenInv, Begun, NEW u \in required
  PROVE  u \in Int /\ u < tMax /\ \E i \in ray.want : InLeaf(CellAt(ray, u), i)
<1>1. required = Required(ray, IntersectBox(ray)) /\ IntersectBox(ray).hi = tMax
      /\ IntersectBox(ray).lo \in Int /\ tMax \in Int
  BY DEF DdaInv, DdaOK, Path, SeenInv, ReturnedOK, Begun
<1> QED
  BY <1>1 DEF Required

LEMMA StartingHasSeen == Starting => SeenInv
<1> SUFFICES ASSUME Starting PROVE SeenInv
  OBVIOUS
<1>1. PICK b : b = IntersectBox(ray)
  OBVIOUS
<1>2. /\ pc = "query" /\ RayOK /\ leaves \in Inputs /\ rootOrigin = RootOrigin(Lower)
      /\ required = Required(ray, b)
      /\ b.hi <= b.lo => tMax = -Inf /\ interval = [lo |-> 0, hi |-> 0, range |-> {}]
      /\ ~(b.hi <= b.lo) => /\ tMax = b.hi /\ dda = InitialDda(b.lo)
                            /\ interval = [lo |-> b.lo, hi |-> b.lo, range |-> {}]
  BY <1>1 DEF Starting
<1>3. /\ b.lo \in Int /\ b.hi \in Int
      /\ b.lo < b.hi => b.lo \in Nat /\ b.hi \in 0 .. Inf - 1
  BY <1>1, <1>2, BoxTimes
<1>4. required \subseteq b.lo .. b.hi - 1
  BY <1>2 DEF Required
<1>5. CASE b.hi <= b.lo
  <2>1. tMax = -Inf /\ interval.lo = 0 /\ interval.hi = 0
    BY <1>2, <1>5
  <2>2. required = {}
    BY <1>3, <1>4, <1>5
  <2>3. ~Begun
    BY <2>1 DEF Begun
  <2>4. Reported(interval)
    BY <2>1 DEF Reported
  <2> QED BY <1>1, <1>2, <2>2, <2>3, <2>4 DEF SeenInv, SeenOK, ReturnedOK
<1>6. CASE ~(b.hi <= b.lo)
  <2>1. b.lo < b.hi /\ tMax = b.hi /\ interval.lo = b.lo /\ interval.hi = b.lo /\ Inf \in Nat
    BY <1>2, <1>3, <1>6, IteratorAssumption
  <2>2. dda.t = b.lo
    BY <1>2, <1>6 DEF InitialDda
  <2>3. tMax # -Inf
    BY <1>3, <2>1
  <2>4. Reported(interval)
    BY <1>3, <2>1 DEF Reported
  <2>5. NothingLeft(interval.hi, dda.t) /\ interval.hi <= dda.t /\ interval.hi <= tMax
    BY <1>3, <1>4, <2>1, <2>2 DEF NothingLeft
  <2> QED BY <1>1, <1>2, <2>3, <2>4, <2>5 DEF SeenInv, SeenOK, ReturnedOK
<1> QED
  BY <1>5, <1>6

LEMMA SeenAfterQuery ==
  ASSUME DdaInv, SeenInv, RayIsGeneral, Query
  PROVE  SeenInv'
<1>1. /\ pc = "query" /\ dda.t <= tMax /\ voxel' = QueryVoxel(dda.idx[depth])
      /\ pc' = (IF voxel'.isEmpty \/ dda.t < tMax THEN "step" ELSE "done")
      /\ UNCHANGED vars /\ UNCHANGED <<ray, depth, tMax, dda, entry, interval, required>>
  BY DEF Query
<1>2. Begun
  BY <1>1, MissedRay
<1>3. dda.t \in Nat /\ tMax \in Nat
  BY <1>2, OnCourse
<1>4. /\ \A v, u : Fits(v, u)' <=> Fits(v, u)
      /\ \A o : QueryVoxel(o)' = QueryVoxel(o)
      /\ Required(ray, IntersectBox(ray))' = Required(ray, IntersectBox(ray))
  BY <1>1, AnswersStay
<1>5. ReturnedOK'
  <2>1. Reported(interval)' <=> Reported(interval)
    BY <1>1, <1>4 DEF Reported
  <2> QED BY <1>1, <1>4, <2>1 DEF SeenInv, ReturnedOK
<1>6. SeenOK'
  <2>1. interval.hi <= tMax /\ interval.hi <= dda.t /\ NothingLeft(interval.hi, dda.t)
    BY <1>1, <1>2 DEF SeenInv, SeenOK
  <2>2. PICK o : o = dda.idx[depth]
    OBVIOUS
  <2>3. voxel' = QueryVoxel(o)' /\ o = (dda.idx[depth])'
    BY <1>1, <1>4, <2>2
  <2>4. (NothingLeft(interval.hi, dda.t))'
    BY <1>1, <2>1 DEF NothingLeft
  <2>5. pc' \in {"step", "done"} /\ (pc' = "step" => dda.t < tMax \/ voxel'.isEmpty)
    BY <1>1
  <2>6. voxel' = QueryVoxel(dda.idx[depth])'
    BY <2>3
  <2> QED BY <1>1, <1>3, <2>1, <2>4, <2>5, <2>6 DEF SeenOK
<1> QED
  BY <1>5, <1>6 DEF SeenInv

LEMMA SeenAfterNoInterval ==
  ASSUME SeenInv, NoInterval
  PROVE  SeenInv'
<1>1. /\ pc = "query" /\ pc' = "done"
      /\ UNCHANGED vars
      /\ UNCHANGED <<ray, depth, tMax, dda, voxel, entry, interval, required>>
  BY DEF NoInterval
<1>4. /\ \A v, u : Fits(v, u)' <=> Fits(v, u)
      /\ Required(ray, IntersectBox(ray))' = Required(ray, IntersectBox(ray))
  BY <1>1, AnswersStay
<1>5. Reported(interval)' <=> Reported(interval)
  BY <1>1, <1>4 DEF Reported
<1>6. ReturnedOK'
  BY <1>1, <1>4, <1>5 DEF SeenInv, ReturnedOK
<1>7. SeenOK'
  <2>1. Begun => interval.hi <= tMax
    BY DEF SeenInv, SeenOK
  <2> QED BY <1>1, <2>1 DEF SeenOK, Begun
<1> QED
  BY <1>6, <1>7 DEF SeenInv

LEMMA SeenAfterStep ==
  ASSUME CommitInv, DdaInv, SeenInv, RayIsGeneral, Aligned, Step
  PROVE  SeenInv'
<1>1. /\ pc = "step" /\ dda' = StepOnLevel(dda, voxel.level)
      /\ entry' = [t |-> dda.t, above |-> voxel.level] /\ pc' = "follow"
      /\ UNCHANGED vars /\ UNCHANGED <<ray, depth, tMax, voxel, interval, required>>
  BY DEF Step
<1>2. Begun
  BY <1>1, MissedRay
<1>3. Course /\ IsDda(dda) /\ Reached(dda.t)
      /\ tMax \in Nat /\ dda.t \in Nat /\ depth \in LevelsDown
      /\ depth \in Nat
  BY <1>2, OnCourse
<1>4. PICK d, y, v, l : d = dda /\ y = dda' /\ v = voxel /\ l = voxel.level
  OBVIOUS
<1>5. /\ l \in 0 .. depth /\ phase = "committed" /\ FitsRoot
      /\ d.t < tMax => Nested(d, -1)
  BY <1>1, <1>2, <1>4 DEF DdaInv, PlaceOK, DdaOK, Gap, Begun
<1>6. /\ interval.hi <= tMax /\ interval.hi <= d.t /\ NothingLeft(interval.hi, d.t)
      /\ d.t < tMax => v = QueryVoxel(d.idx[depth])
      /\ ~(d.t < tMax) => v.isEmpty
  BY <1>1, <1>2, <1>4 DEF SeenInv, SeenOK
<1>7. ASSUME NEW u \in Nat, d.t <= u, u < y.t, u < tMax PROVE Fits(v, u)
  <2>1. d.t < tMax
    BY <1>3, <1>4, <1>7
  <2>2. /\ IsDda(y) /\ \A a \in Axes : y.t <= d.tNext[l][a]
    BY <1>1, <1>3, <1>4, <1>5, <2>1, StepMarches
  <2>3. \A a \in Axes : u < d.tNext[l][a]
    <3>1. y.t \in Nat /\ d.tNext[l] \in [Axes -> Nat]
      BY <1>3, <1>4, <1>5, <2>2 DEF IsDda
    <3> QED BY <1>7, <2>2, <3>1
  <2>4. Reached(d.t) /\ Nested(d, -1) /\ v = QueryVoxel(d.idx[depth]) /\ l = v.level
    BY <1>3, <1>4, <1>5, <1>6, <2>1
  <2> QED BY <1>3, <1>5, <1>7, <2>3, <2>4, QueryFits
<1>8. /\ \A x, u : Fits(x, u)' <=> Fits(x, u)
      /\ Required(ray, IntersectBox(ray))' = Required(ray, IntersectBox(ray))
  BY <1>1, AnswersStay
<1>9. ReturnedOK'
  <2>1. Reported(interval)' <=> Reported(interval)
    BY <1>1, <1>8 DEF Reported
  <2> QED BY <1>1, <1>8, <2>1 DEF SeenInv, ReturnedOK
<1>10. entry'.t = d.t
  BY <1>1, <1>4
<1>11. SeenOK'
  <2>1. (NothingLeft(interval.hi, entry.t))'
    BY <1>1, <1>6, <1>10 DEF NothingLeft
  <2>2. \A u \in Nat : d.t <= u /\ u < y.t /\ u < tMax => Fits(v, u)'
    BY <1>7, <1>8
  <2>3. voxel' = v /\ dda' = y /\ tMax' = tMax /\ interval' = interval
    BY <1>1, <1>4
  <2>4. \A u \in Nat : entry'.t <= u /\ u < dda'.t /\ u < tMax' => Fits(voxel, u)'
    BY <1>10, <2>2, <2>3
  <2>5. dda'.t < tMax' \/ ~voxel'.isEmpty => entry'.t < tMax'
    <3>1. CASE d.t < tMax
      BY <1>10, <2>3, <3>1
    <3>2. CASE ~(d.t < tMax)
      <4>1. v.isEmpty
        BY <1>6, <3>2
      <4>2. Late(d)
        BY <1>1, <1>2, <1>3, <1>4, <3>2 DEF DdaInv, DdaOK
      <4>3. \A k \in 0 .. l : \A a \in Axes : d.tNext[k][a] >= tMax
        BY <1>3, <1>5, <4>2 DEF Late
      <4>4. Late(y)
        BY <1>1, <1>3, <1>4, <1>5, <4>3, StepIsLate
      <4>5. y.t \in Nat /\ y.t >= tMax
        <5>1. IsDda(y)
          BY <1>1, <1>3, <1>4, <1>5, <4>3, StepIsLate
        <5> QED BY <4>4, <5>1 DEF Late, IsDda
      <4>6. ~(dda'.t < tMax') /\ voxel'.isEmpty
        BY <1>3, <2>3, <4>1, <4>5
      <4> QED BY <4>6
    <3> QED BY <3>1, <3>2
  <2>6. interval'.hi <= tMax' /\ interval'.hi <= entry'.t
    BY <1>6, <1>10, <2>3
  <2> QED BY <1>1, <2>1, <2>4, <2>5, <2>6 DEF SeenOK
<1> QED
  BY <1>9, <1>11 DEF SeenInv

LEMMA SeenAfterFollow ==
  ASSUME DdaInv, SeenInv, RayIsGeneral, Follow
  PROVE  SeenInv'
<1>1. /\ pc = "follow" /\ entry.above > 0 /\ ChildHasLeftDomain(dda, entry.above - 1)
      /\ dda' = DdaStep(dda, entry.above - 1)
      /\ entry' = [entry EXCEPT !.above = @ - 1]
      /\ UNCHANGED vars /\ UNCHANGED <<pc, ray, depth, tMax, voxel, interval, required>>
  BY DEF Follow, Follows
<1>2. Begun
  BY <1>1, MissedRay
<1>3. Course /\ IsDda(dda) /\ Reached(dda.t)
      /\ tMax \in Nat /\ dda.t \in Nat /\ depth \in LevelsDown
      /\ depth \in Nat
  BY <1>2, OnCourse
<1>4. voxel.level \in 0 .. depth /\ entry.above \in 0 .. voxel.level
  BY <1>1, <1>2 DEF DdaInv, PlaceOK
<1>5. PICK m \in 0 .. depth - 1 : m = entry.above - 1 /\ m + 1 = entry.above
  BY <1>1, <1>3, <1>4
<1>6. PICK d, y, v, s : d = dda /\ y = dda' /\ v = voxel /\ s = entry.t
  OBVIOUS
<1>7. y.t \in Nat /\ (d.t < tMax => y.t = d.t) /\ (~(d.t < tMax) => y.t >= tMax)
  <2>1. CASE d.t < tMax
    <3>1. Nested(d, m + 1)
      BY <1>1, <1>2, <1>5, <1>6, <2>1 DEF DdaInv, DdaOK, Gap
    <3>2. PICK a \in Axes : CameThrough(d, m + 1, a)
      BY <1>1, <1>2, <1>5, <1>6, <2>1 DEF DdaInv, DdaOK
    <3>3. y.t = d.t
      BY <1>1, <1>3, <1>5, <1>6, <2>1, <3>1, <3>2, FollowKeeps
    <3> QED BY <1>3, <1>6, <2>1, <3>3
  <2>2. CASE ~(d.t < tMax)
    <3>1. Late(d) /\ m \in 0 .. depth
      BY <1>2, <1>3, <1>6, <2>2 DEF DdaInv, DdaOK
    <3>2. IsDda(y) /\ Late(y)
      BY <1>1, <1>3, <1>5, <1>6, <3>1, FollowLate
    <3> QED BY <2>2, <3>2 DEF IsDda, Late
  <2> QED BY <2>1, <2>2
<1>8. /\ \A x, u : Fits(x, u)' <=> Fits(x, u)
      /\ Required(ray, IntersectBox(ray))' = Required(ray, IntersectBox(ray))
  BY <1>1, AnswersStay
<1>9. ReturnedOK'
  <2>1. Reported(interval)' <=> Reported(interval)
    BY <1>1, <1>8 DEF Reported
  <2> QED BY <1>1, <1>8, <2>1 DEF SeenInv, ReturnedOK
<1>10. entry'.t = s /\ voxel' = v /\ dda' = y /\ tMax' = tMax /\ interval' = interval
  BY <1>1, <1>6
<1>11. /\ interval.hi <= tMax /\ interval.hi <= s /\ NothingLeft(interval.hi, s)
       /\ d.t < tMax \/ ~v.isEmpty => s < tMax
       /\ \A u \in Nat : s <= u /\ u < d.t /\ u < tMax => Fits(v, u)
  BY <1>1, <1>2, <1>6 DEF SeenInv, SeenOK
<1>12. SeenOK'
  <2>1. (NothingLeft(interval.hi, entry.t))'
    BY <1>1, <1>10, <1>11 DEF NothingLeft
  <2>2. \A u \in Nat : s <= u /\ u < y.t /\ u < tMax => Fits(v, u)'
    <3>1. \A u \in Nat : u < y.t /\ u < tMax => u < d.t
      BY <1>3, <1>6, <1>7
    <3> QED BY <1>8, <1>11, <3>1
  <2>3. \A u \in Nat : entry'.t <= u /\ u < dda'.t /\ u < tMax' => Fits(voxel, u)'
    BY <1>10, <2>2
  <2>4. dda'.t < tMax' \/ ~voxel'.isEmpty => entry'.t < tMax'
    <3>1. y.t < tMax => d.t < tMax
      BY <1>3, <1>6, <1>7
    <3> QED BY <1>10, <1>11, <3>1
  <2>5. interval'.hi <= tMax' /\ interval'.hi <= entry'.t
    BY <1>10, <1>11
  <2> QED BY <1>1, <2>1, <2>3, <2>4, <2>5 DEF SeenOK
<1> QED
  BY <1>9, <1>12 DEF SeenInv

-----------------------------------------------------------------------------
(* A voxel that is arrived at: nothing is left behind. *)
LEMMA ArriveFacts ==
  ASSUME DdaInv, SeenInv, RayIsGeneral, Arrive
  PROVE  /\ entry.t \in Nat /\ dda.t \in Nat /\ tMax \in Nat
         /\ interval.lo <= interval.hi /\ interval.hi <= entry.t /\ interval.hi \in Int
         /\ interval.hi <= tMax
         /\ NothingLeft(interval.hi, entry.t)
         /\ entry.t <= Smaller(dda.t, tMax) /\ Smaller(dda.t, tMax) \in Nat
         /\ Smaller(dda.t, tMax) <= dda.t /\ Smaller(dda.t, tMax) <= tMax
         /\ \A u \in Nat : entry.t <= u /\ u < Smaller(dda.t, tMax) => Fits(voxel, u)
         /\ voxel.isEmpty => NothingLeft(interval.hi, dda.t)
         /\ NothingLeft(Smaller(dda.t, tMax), dda.t)
<1>1. pc = "follow"
  BY DEF Arrive
<1>2. Begun
  BY <1>1, MissedRay
<1>3. tMax \in Nat /\ dda.t \in Nat
  BY <1>2, OnCourse
<1>4. entry.t \in Nat /\ entry.t <= dda.t /\ entry.t <= tMax
  BY <1>1, <1>2 DEF DdaInv, PlaceOK, Reached
<1>5. PICK m \in Nat : m = Smaller(dda.t, tMax) /\ entry.t <= m /\ m <= dda.t /\ m <= tMax
                       /\ (m = dda.t \/ m = tMax)
  BY <1>3, <1>4 DEF Smaller
<1>6. /\ interval.hi <= tMax /\ interval.hi <= entry.t /\ NothingLeft(interval.hi, entry.t)
      /\ \A u \in Nat : entry.t <= u /\ u < dda.t /\ u < tMax => Fits(voxel, u)
  BY <1>1, <1>2 DEF SeenInv, SeenOK
<1>7. interval.lo <= interval.hi /\ interval.hi \in Int
  BY <1>1 DEF SeenInv, ReturnedOK, Reported
<1>8. \A u \in Nat : entry.t <= u /\ u < m => Fits(voxel, u)
  BY <1>3, <1>5, <1>6
<1>9. NothingLeft(m, dda.t)
  <2> SUFFICES ASSUME NEW u \in required, m <= u, u < dda.t PROVE FALSE
    BY DEF NothingLeft
  <2>1. u \in Int /\ u < tMax
    BY <1>2, RequiredFacts
  <2> QED BY <1>3, <1>5, <2>1
<1>10. ASSUME voxel.isEmpty PROVE NothingLeft(interval.hi, dda.t)
  <2> SUFFICES ASSUME NEW u \in required, interval.hi <= u, u < dda.t PROVE FALSE
    BY DEF NothingLeft
  <2>1. u \in Int /\ u < tMax /\ \E i \in ray.want : InLeaf(CellAt(ray, u), i)
    BY <1>2, RequiredFacts
  <2>2. ~(u < entry.t)
    BY <1>6 DEF NothingLeft
  <2>3. u \in Nat /\ entry.t <= u
    BY <1>4, <2>1, <2>2
  <2>4. Fits(voxel, u)
    BY <1>6, <2>1, <2>3
  <2> QED BY <1>10, <2>1, <2>4 DEF Fits
<1> QED
  BY <1>3, <1>4, <1>5, <1>6, <1>7, <1>8, <1>9, <1>10

LEMMA SeenAfterArrive ==
  ASSUME DdaInv, SeenInv, RayIsGeneral, Arrive
  PROVE  SeenInv'
<1>1. /\ pc = "follow" /\ pc' = "query"
      /\ interval' = (IF voxel.isEmpty THEN interval
                      ELSE [lo |-> entry.t, hi |-> Smaller(dda.t, tMax), range |-> voxel.range])
      /\ UNCHANGED vars /\ UNCHANGED <<ray, depth, tMax, dda, voxel, entry, required>>
  BY DEF Arrive
<1>2. Begun
  BY <1>1, MissedRay
<1>3. PICK m : m = Smaller(dda.t, tMax)
  OBVIOUS
<1>4. /\ entry.t \in Nat /\ dda.t \in Nat /\ tMax \in Nat
      /\ interval.lo <= interval.hi /\ interval.hi <= entry.t /\ interval.hi \in Int
      /\ interval.hi <= tMax
      /\ entry.t <= m /\ m \in Nat /\ m <= dda.t /\ m <= tMax
      /\ \A u \in Nat : entry.t <= u /\ u < m => Fits(voxel, u)
      /\ voxel.isEmpty => NothingLeft(interval.hi, dda.t)
      /\ NothingLeft(m, dda.t)
  BY <1>3, ArriveFacts
<1>5. /\ \A x, u : Fits(x, u)' <=> Fits(x, u)
      /\ Required(ray, IntersectBox(ray))' = Required(ray, IntersectBox(ray))
  BY <1>1, AnswersStay
<1>6. dda'.t = dda.t /\ tMax' = tMax /\ required' = required
  BY <1>1
<1>7. Reported(interval)' /\ interval'.hi <= tMax' /\ interval'.hi <= dda'.t
      /\ NothingLeft(interval.hi, dda.t)'
  <2>1. CASE voxel.isEmpty
    <3>1. interval' = interval
      BY <1>1, <2>1
    <3>2. Reported(interval)
      BY <1>1 DEF SeenInv, ReturnedOK
    <3>3. Reported(interval)'
      BY <1>5, <3>1, <3>2 DEF Reported
    <3>4. NothingLeft(interval.hi, dda.t) /\ interval.hi <= dda.t
      <4>1. entry.t <= dda.t
        BY <1>4
      <4> QED BY <1>4, <2>1, <4>1
    <3>5. NothingLeft(interval.hi, dda.t)'
      BY <1>6, <3>1, <3>4 DEF NothingLeft
    <3> QED BY <1>4, <1>6, <3>1, <3>3, <3>4, <3>5
  <2>2. CASE ~voxel.isEmpty
    <3>1. PICK e, r : e = entry.t /\ r = voxel.range
      OBVIOUS
    <3>2. interval' = [lo |-> e, hi |-> m, range |-> r]
      BY <1>1, <1>3, <2>2, <3>1
    <3>3. interval'.lo = e /\ interval'.hi = m /\ interval'.range = r
      BY <3>2
    <3>4. ASSUME NEW u \in e .. m - 1 PROVE Fits([isEmpty |-> FALSE, range |-> r], u)
      <4>1. u \in Nat /\ entry.t <= u /\ u < m
        BY <1>4, <3>1
      <4>2. Fits(voxel, u)
        BY <1>4, <4>1
      <4>3. /\ [isEmpty |-> FALSE, range |-> r].isEmpty = FALSE
            /\ [isEmpty |-> FALSE, range |-> r].range = voxel.range
        BY <3>1
      <4> QED BY <2>2, <4>2, <4>3 DEF Fits
    <3>5. \A u \in e .. m - 1 : Fits([isEmpty |-> FALSE, range |-> r], u)'
      BY <1>5, <3>4
    <3>6. Reported(interval)'
      <4>1. PICK w : w = [isEmpty |-> FALSE, range |-> r]
        OBVIOUS
      <4>2. w = [isEmpty |-> FALSE, range |-> interval.range]'
        BY <3>3, <4>1
      <4>3. \A u \in e .. m - 1 : Fits(w, u)'
        BY <3>5, <4>1
      <4>4. \A u \in e .. m - 1 : Fits([isEmpty |-> FALSE, range |-> interval.range], u)'
        BY <4>2, <4>3
      <4>5. \A u \in (interval.lo .. interval.hi - 1)' :
                Fits([isEmpty |-> FALSE, range |-> interval.range], u)'
        BY <3>3, <4>4
      <4>6. interval'.lo \in Int /\ interval'.hi \in Int /\ interval'.lo <= interval'.hi
        BY <1>4, <3>1, <3>3
      <4> QED BY <4>5, <4>6 DEF Reported
    <3>7. NothingLeft(interval.hi, dda.t)'
      BY <1>4, <1>6, <3>3 DEF NothingLeft
    <3> QED BY <1>4, <1>6, <3>3, <3>6, <3>7
  <2> QED BY <2>1, <2>2
<1>8. ReturnedOK'
  <2>1. required = Required(ray, IntersectBox(ray)) /\ (tMax = -Inf => required = {})
    BY <1>1 DEF SeenInv, ReturnedOK
  <2> QED BY <1>1, <1>5, <1>7, <2>1 DEF ReturnedOK
<1>9. SeenOK'
  BY <1>1, <1>7 DEF SeenOK
<1> QED
  BY <1>8, <1>9 DEF SeenInv

LEMMA SeenStutters ==
  ASSUME SeenInv, UNCHANGED allVars
  PROVE  SeenInv'
<1>1. UNCHANGED vars /\ UNCHANGED <<pc, ray, depth, tMax, dda, voxel, entry, interval, required>>
  BY DEF allVars, march
<1>2. /\ \A x, u : Fits(x, u)' <=> Fits(x, u)
      /\ \A o : QueryVoxel(o)' = QueryVoxel(o)
      /\ Required(ray, IntersectBox(ray))' = Required(ray, IntersectBox(ray))
  BY <1>1, AnswersStay
<1>3. ReturnedOK'
  <2>1. Reported(interval)' <=> Reported(interval)
    BY <1>1, <1>2 DEF Reported
  <2> QED BY <1>1, <1>2, <2>1 DEF SeenInv, ReturnedOK
<1>4. SeenOK'
  <2>1. PICK o, v, t : o = dda.idx[depth] /\ v = voxel /\ t = entry.t
    OBVIOUS
  <2>2. o = (dda.idx[depth])' /\ v = voxel' /\ t = entry'.t
    BY <1>1, <2>1
  <2>3. QueryVoxel(dda.idx[depth])' = QueryVoxel(dda.idx[depth])
    BY <1>2, <2>1, <2>2
  <2>4. \A u : Fits(voxel, u)' <=> Fits(voxel, u)
    BY <1>2, <2>1, <2>2
  <2>5. \A x, y : NothingLeft(x, y)' <=> NothingLeft(x, y)
    BY <1>1 DEF NothingLeft
  <2>6. /\ NothingLeft(interval.hi, dda.t)' <=> NothingLeft(interval.hi, dda.t)
        /\ NothingLeft(interval.hi, entry.t)' <=> NothingLeft(interval.hi, entry.t)
    BY <1>1 DEF NothingLeft
  <2>7. Begun' <=> Begun
    BY <1>1 DEF Begun
  <2> QED BY <1>1, <2>3, <2>4, <2>6, <2>7 DEF SeenInv, SeenOK
<1> QED
  BY <1>3, <1>4 DEF SeenInv

LEMMA SeenNext ==
  ASSUME CommitInv, DdaInv, SeenInv, RayIsGeneral, Aligned, [IteratorNext]_allVars,
         Starting' => SeenInv'
  PROVE  SeenInv'
<1>1. CASE Initialize
  BY <1>1, InitializeStarts DEF DdaInv
<1>2. CASE Query
  BY <1>2, SeenAfterQuery
<1>3. CASE NoInterval
  BY <1>3, SeenAfterNoInterval
<1>4. CASE Step
  BY <1>4, SeenAfterStep
<1>5. CASE Follow
  BY <1>5, SeenAfterFollow
<1>6. CASE Arrive
  BY <1>6, SeenAfterArrive
<1>7. CASE CommitStep
  <2>1. pc = "none" /\ pc' = pc
    BY <1>7, CommitIsOver DEF DdaInv, PlaceOK, CommitStep, march
  <2> QED BY <2>1 DEF SeenInv, SeenOK, ReturnedOK, Begun
<1>8. CASE UNCHANGED allVars
  BY <1>8, SeenStutters
<1> QED
  BY <1>1, <1>2, <1>3, <1>4, <1>5, <1>6, <1>7, <1>8
     DEF IteratorNext, March, IteratorDone

LEMMA SeenInvariance == IteratorSpec /\ [](RayIsGeneral /\ Aligned) => []SeenInv
<1>1. IteratorInit => SeenInv
  BY DEF IteratorInit, SeenInv, SeenOK, ReturnedOK, Begun
<1>2. CommitInv /\ DdaInv /\ SeenInv /\ RayIsGeneral /\ Aligned /\ [IteratorNext]_allVars
        /\ (Starting' => SeenInv') => SeenInv'
  BY SeenNext
<1>3. Starting' => SeenInv'
  BY StartingHasSeen, PTL
<1>4. CommitInv /\ DdaInv /\ SeenInv /\ RayIsGeneral /\ Aligned /\ [IteratorNext]_allVars => SeenInv'
  BY <1>2, <1>3
<1> QED
  BY <1>1, <1>4, IteratorStaysInTree, CommitInvariance, DdaInvariance, PTL DEF IteratorSpec

(***************************************************************************)
(* "the sampled value range should be completely within the returned       *)
(* interval value range": whatever a filter reads along an interval that   *)
(* was returned, in a leaf of the lowest level, is in the interval's range. *)
(***************************************************************************)
THEOREM ReportedCovers ==
  IteratorSpec /\ [](RayIsGeneral /\ Aligned) => []ReportedRangeCoversInterval
<1>1. SeenInv => ReportedRangeCoversInterval
  <2> SUFFICES ASSUME SeenInv, pc = "query", NEW u \in interval.lo .. interval.hi - 1,
                      NEW i \in Leaves, InLeaf(CellAt(ray, u), i), leaves[i].level = LeafLevel,
                      NEW d \in [Axes -> -1 .. 2]
               PROVE  Sample(Plus(CellAt(ray, u), d)) \in interval.range
    BY DEF ReportedRangeCoversInterval
  <2>1. Fits([isEmpty |-> FALSE, range |-> interval.range], u)
    BY DEF SeenInv, ReturnedOK, Reported
  <2>2. /\ [isEmpty |-> FALSE, range |-> interval.range].isEmpty = FALSE
        /\ [isEmpty |-> FALSE, range |-> interval.range].range = interval.range
    OBVIOUS
  <2> QED BY <2>1, <2>2 DEF Fits
<1> QED
  BY <1>1, SeenInvariance, PTL

-----------------------------------------------------------------------------
(* The iterator implements the promise of the interval iterators. *)
LEMMA InitIsPromised == IteratorInit => Promise!Init
BY DEF IteratorInit, Promise!Init

BeginsBefore == interval.lo = interval.hi /\ required \subseteq interval.hi .. tMax - 1

LEMMA StartingIsPromised == Starting => BeginsBefore
<1> SUFFICES ASSUME Starting
             PROVE  interval.lo = interval.hi /\ required \subseteq interval.hi .. tMax - 1
  BY DEF BeginsBefore
<1>1. PICK b : b = IntersectBox(ray)
  OBVIOUS
<1>2. /\ RayOK /\ leaves \in Inputs /\ rootOrigin = RootOrigin(Lower)
      /\ required = Required(ray, b)
      /\ b.hi <= b.lo => interval = [lo |-> 0, hi |-> 0, range |-> {}]
      /\ ~(b.hi <= b.lo) => tMax = b.hi /\ interval = [lo |-> b.lo, hi |-> b.lo, range |-> {}]
  BY <1>1 DEF Starting
<1>3. b.lo \in Int /\ b.hi \in Int
  BY <1>1, <1>2, BoxTimes
<1>4. required \subseteq b.lo .. b.hi - 1
  BY <1>2 DEF Required
<1>5. CASE b.hi <= b.lo
  BY <1>2, <1>3, <1>4, <1>5
<1>6. CASE ~(b.hi <= b.lo)
  <2>1. tMax = b.hi /\ interval.lo = b.lo /\ interval.hi = b.lo
    BY <1>2, <1>6
  <2> QED BY <1>4, <2>1
<1> QED
  BY <1>5, <1>6

LEMMA ArriveIsPromised ==
  ASSUME DdaInv, SeenInv, RayIsGeneral, Arrive
  PROVE  Promise!Return \/ UNCHANGED Promise!vars
<1>1. /\ pc = "follow" /\ pc' = "query"
      /\ interval' = (IF voxel.isEmpty THEN interval
                      ELSE [lo |-> entry.t, hi |-> Smaller(dda.t, tMax), range |-> voxel.range])
      /\ tMax' = tMax /\ required' = required
  BY DEF Arrive
<1>2. PICK m : m = Smaller(dda.t, tMax)
  OBVIOUS
<1>3. /\ entry.t \in Nat /\ interval.hi <= entry.t /\ interval.hi \in Int
      /\ NothingLeft(interval.hi, entry.t)
      /\ entry.t <= m /\ m <= tMax
  BY <1>2, ArriveFacts
<1>4. CASE voxel.isEmpty
  BY <1>1, <1>4 DEF Promise!vars
<1>5. CASE ~voxel.isEmpty
  <2>1. interval'.lo = entry.t /\ interval'.hi = m
    BY <1>1, <1>2, <1>5
  <2>2. required \cap interval.hi .. entry.t - 1 = {}
    BY <1>3 DEF NothingLeft
  <2> QED BY <1>1, <1>3, <2>1, <2>2 DEF Promise!Return, Promise!NothingRequired
<1> QED
  BY <1>4, <1>5

LEMMA EndIsPromised ==
  ASSUME DdaInv, SeenInv, RayIsGeneral, Query \/ NoInterval
  PROVE  Promise!End \/ UNCHANGED Promise!vars
<1>1. /\ pc = "query" /\ pc' \in {"step", "done"}
      /\ pc' = "done" => ~(dda.t < tMax)
      /\ UNCHANGED <<tMax, required, interval>>
  <2>1. CASE Query
    BY <2>1 DEF Query
  <2>2. CASE NoInterval
    <3>1. dda.t > tMax /\ pc = "query" /\ pc' = "done" /\ UNCHANGED <<tMax, required, interval>>
      BY <2>2 DEF NoInterval
    <3>2. dda.t \in Int /\ tMax \in Int
      <4>1. CASE Begun
        BY <4>1, OnCourse
      <4>2. CASE ~Begun
        BY <3>1, <4>2, IteratorAssumption DEF Begun, DdaInv, PlaceOK
      <4> QED BY <4>1, <4>2
    <3> QED BY <3>1, <3>2
  <2> QED BY <2>1, <2>2
<1>2. CASE pc' = "step"
  BY <1>1, <1>2 DEF Promise!vars
<1>3. CASE pc' = "done"
  <2>1. required \cap interval.hi .. tMax - 1 = {}
    <3>1. CASE Begun
      <4>1. NothingLeft(interval.hi, dda.t)
        BY <1>1, <3>1 DEF SeenInv, SeenOK
      <4>2. dda.t \in Nat /\ tMax \in Nat /\ dda.t >= tMax
        BY <1>1, <1>3, <3>1, OnCourse
      <4> QED BY <4>1, <4>2 DEF NothingLeft, SeenInv, ReturnedOK, Reported
    <3>2. CASE ~Begun
      BY <1>1, <3>2 DEF Begun, SeenInv, ReturnedOK
    <3> QED BY <3>1, <3>2
  <2> QED BY <1>1, <1>3, <2>1 DEF Promise!End, Promise!NothingRequired
<1> QED
  BY <1>1, <1>2, <1>3

LEMMA StepIsPromised ==
  ASSUME CommitInv, DdaInv, SeenInv, RayIsGeneral, [IteratorNext]_allVars,
         Starting' => BeginsBefore'
  PROVE  Promise!Next \/ UNCHANGED Promise!vars
<1>1. CASE Initialize
  <2>1. pc = "none" /\ pc' = "query" /\ Starting'
    BY <1>1, InitializeStarts DEF Initialize, DdaInv
  <2>2. Promise!Begin
    BY <2>1 DEF Promise!Begin, BeginsBefore
  <2> QED BY <2>2 DEF Promise!Next
<1>2. CASE Query \/ NoInterval
  BY <1>2, EndIsPromised DEF Promise!Next
<1>3. CASE Step \/ Follow
  <2>1. pc \in {"step", "follow"} /\ pc' \in {"step", "follow"}
        /\ UNCHANGED <<required, tMax, interval>>
    BY <1>3 DEF Step, Follow
  <2> QED BY <2>1 DEF Promise!vars
<1>4. CASE Arrive
  BY <1>4, ArriveIsPromised DEF Promise!Next
<1>5. CASE CommitStep \/ UNCHANGED allVars
  <2>1. UNCHANGED <<pc, required, tMax, interval>>
    BY <1>5 DEF CommitStep, march, allVars
  <2> QED BY <2>1 DEF Promise!vars
<1> QED
  BY <1>1, <1>2, <1>3, <1>4, <1>5 DEF IteratorNext, March, IteratorDone

(***************************************************************************)
(* On a ray in general position through a tree of aligned leaves, the      *)
(* intervals come in order and miss no voxel of a leaf that the context    *)
(* asks for, whatever was pruned on whatever level.                        *)
(***************************************************************************)
THEOREM KeepsThePromise == IteratorSpec /\ [](RayIsGeneral /\ Aligned) => Promise!Spec
<1>1. CommitInv /\ DdaInv /\ SeenInv /\ RayIsGeneral /\ [IteratorNext]_allVars
        /\ (Starting' => BeginsBefore')
        => [Promise!Next]_(Promise!vars)
  BY StepIsPromised
<1>2. Starting' => BeginsBefore'
  BY StartingIsPromised, PTL
<1>3. CommitInv /\ DdaInv /\ SeenInv /\ RayIsGeneral /\ [IteratorNext]_allVars
        => [Promise!Next]_(Promise!vars)
  BY <1>1, <1>2
<1> QED
  BY <1>3, InitIsPromised, IteratorStaysInTree, CommitInvariance, DdaInvariance, SeenInvariance,
     PTL DEF IteratorSpec, Promise!Spec
=============================================================================
