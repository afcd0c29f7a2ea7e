----------------------- MODULE ObserverRegistryProofs -----------------------
(***************************************************************************)
(* Proofs about the observer registry.  Types hold in whatever order the   *)
(* observers are released.  That the registry lists the observers is       *)
(* proved for an application that releases the newest first: its entry is  *)
(* the last one, so the word remove() copies over it lies outside the      *)
(* list, and the loop finds nothing more to remove.                        *)
(***************************************************************************)
EXTENDS ObserverRegistry, NumberLemmas, SequenceTheorems, TLAPS

Words == Buffers \cup {Garbage}

(* the registries whose array has n elements *)
Registries(n) == [data : [1 .. n -> Words], size : 0 .. n]

-----------------------------------------------------------------------------
(* The body of the loop keeps the array's length and an entry count that   *)
(* fits it.                                                                *)
LEMMA RemoveEntryType ==
  ASSUME NEW n \in Nat, NEW r \in Registries(n), NEW b, NEW i \in 1 .. n
  PROVE  RemoveEntry(r, b, i) \in Registries(n)
<1>1. /\ r.data \in [1 .. n -> Words] /\ r.size \in 0 .. n
      /\ Len(r.data) = n
  <2>1. r.data \in [1 .. n -> Words] /\ r.size \in 0 .. n
    BY DEF Registries
  <2> QED
    BY <2>1
<1>2. CASE i <= r.size /\ r.data[i] = b
  <2> DEFINE w == IF r.size < Len(r.data) THEN r.data[r.size + 1] ELSE Garbage
  <2>1. w \in Words
    BY <1>1 DEF Words
  <2>2. [r.data EXCEPT ![i] = w] \in [1 .. n -> Words] /\ r.size - 1 \in 0 .. n
    BY <1>1, <1>2, <2>1
  <2> QED
    BY <1>2, <2>2 DEF RemoveEntry, Registries
<1>3. CASE ~(i <= r.size /\ r.data[i] = b)
  BY <1>3 DEF RemoveEntry
<1> QED
  BY <1>2, <1>3

(* after is the run of the loop over the first m entries *)
Runs(after, r, b, m) ==
    after = [i \in 0 .. m |->
                IF i = 0 THEN r ELSE RemoveEntry(after[i - 1], b, i)]

(* The loop can be run over any number of entries. *)
LEMMA LoopExists ==
  ASSUME NEW n \in Nat, NEW r, NEW b
  PROVE  \E after : Runs(after, r, b, n)
<1> DEFINE Stuck == {m \in Nat : ~\E f : Runs(f, r, b, m)}
<1>1. SUFFICES ASSUME Stuck # {} PROVE FALSE
  OBVIOUS
<1>2. PICK m \in Stuck : \A k \in Stuck : m <= k
  BY <1>1, LeastNat
<1>3. CASE m = 0
  <2> DEFINE f == [i \in 0 .. m |-> r]
  <2>1. \A i \in 0 .. m : i = 0
    BY <1>3
  <2>2. Runs(f, r, b, m)
    BY <2>1 DEF Runs
  <2> QED
    BY <2>2, <1>2
<1>4. CASE m # 0
  <2>1. m - 1 \in Nat /\ m - 1 \notin Stuck
    BY <1>2, <1>4
  <2>2. \E f : Runs(f, r, b, m - 1)
    BY <2>1
  <2>3. PICK f : Runs(f, r, b, m - 1)
    BY <2>2
  <2> DEFINE g == [i \in 0 .. m |-> IF i < m THEN f[i] ELSE RemoveEntry(f[m - 1], b, m)]
  <2>4. \A i \in 0 .. m : g[i] = IF i = 0 THEN r ELSE RemoveEntry(g[i - 1], b, i)
    <3> TAKE i \in 0 .. m
    <3>1. CASE i = 0
      BY <1>2, <1>4, <2>3, <3>1 DEF Runs
    <3>2. CASE i # 0 /\ i < m
      BY <1>2, <2>3, <3>2 DEF Runs
    <3>3. CASE i = m
      BY <1>2, <1>4, <3>3
    <3> QED
      BY <1>2, <3>1, <3>2, <3>3
  <2>5. Runs(g, r, b, m)
    BY <2>4 DEF Runs
  <2> QED
    BY <2>5, <1>2
<1> QED
  BY <1>3, <1>4

(* the registries that remove() goes through, entry by entry *)
Removal(after, r, b, n) ==
    /\ after \in [0 .. n -> Registries(n)]
    /\ after[0] = r
    /\ \A i \in 1 .. n : after[i] = RemoveEntry(after[i - 1], b, i)
    /\ Unlist(r, b) = after[n]

(* remove() is its loop. *)
LEMMA UnlistRuns ==
  ASSUME NEW n \in Nat, NEW r \in Registries(n), NEW b
  PROVE  \E after : Removal(after, r, b, n)
<1> DEFINE after == CHOOSE f : Runs(f, r, b, n)
<1>1. Len(r.data) = n
  <2>1. r.data \in [1 .. n -> Words]
    BY DEF Registries
  <2> QED
    BY <2>1
<1>2. Unlist(r, b) = after[n]
  BY <1>1 DEF Unlist, Runs
<1>3. Runs(after, r, b, n)
  BY LoopExists
<1> HIDE DEF after
<1>4. after[0] = r /\ \A i \in 1 .. n : after[i] = RemoveEntry(after[i - 1], b, i)
  BY <1>3 DEF Runs
<1> DEFINE Ill == {i \in 0 .. n : after[i] \notin Registries(n)}
<1>5. Ill = {}
  <2>1. SUFFICES ASSUME Ill # {} PROVE FALSE
    OBVIOUS
  <2>2. Ill \in SUBSET Nat
    OBVIOUS
  <2>3. PICK m \in Ill : \A k \in Ill : m <= k
    <3> HIDE DEF Ill
    <3> QED
      BY <2>1, <2>2, LeastNat
  <2>4. m # 0
    BY <1>4, <2>3
  <2>5. m - 1 \in 0 .. n /\ after[m - 1] \in Registries(n) /\ m \in 1 .. n
    BY <2>3, <2>4
  <2> QED
    BY <1>4, <2>3, <2>5, RemoveEntryType
<1>6. after \in [0 .. n -> Registries(n)]
  BY <1>3, <1>5 DEF Runs
<1> QED
  BY <1>2, <1>4, <1>6 DEF Removal

LEMMA UnlistType ==
  ASSUME NEW n \in Nat, NEW r \in Registries(n), NEW b
  PROVE  Unlist(r, b) \in Registries(n)
<1>1. PICK after : Removal(after, r, b, n)
  BY UnlistRuns
<1> QED
  BY <1>1 DEF Removal

(* Removing the last entry, when it is listed once, leaves the others and  *)
(* their order alone.                                                      *)
LEMMA UnlistLast ==
  ASSUME NEW n \in Nat, NEW r \in Registries(n), NEW b,
         r.size > 0, r.data[r.size] = b,
         \A i \in 1 .. r.size - 1 : r.data[i] # b
  PROVE  /\ Unlist(r, b).size = r.size - 1
         /\ \A i \in 1 .. r.size - 1 : Unlist(r, b).data[i] = r.data[i]
<1>0. PICK after : Removal(after, r, b, n)
  BY UnlistRuns
<1>1. /\ after \in [0 .. n -> Registries(n)]
      /\ after[0] = r
      /\ \A i \in 1 .. n : after[i] = RemoveEntry(after[i - 1], b, i)
      /\ Unlist(r, b) = after[n]
  BY <1>0 DEF Removal
<1>2. r.size \in 1 .. n /\ r.data \in [1 .. n -> Words]
  <2>1. r.size \in 0 .. n /\ r.data \in [1 .. n -> Words]
    BY DEF Registries
  <2> QED
    BY <2>1
<1> DEFINE q == RemoveEntry(r, b, r.size)
<1>3. /\ q.size = r.size - 1
      /\ \A i \in 1 .. r.size - 1 : q.data[i] = r.data[i]
  BY <1>2 DEF RemoveEntry
<1> DEFINE Off == {i \in 0 .. n : after[i] # IF i < r.size THEN r ELSE q}
<1>4. Off = {}
  <2>1. SUFFICES ASSUME Off # {} PROVE FALSE
    OBVIOUS
  <2>0. Off \in SUBSET Nat
    OBVIOUS
  <2>2. PICK m \in Off : \A k \in Off : m <= k
    <3> HIDE DEF Off
    <3> QED
      BY <2>0, <2>1, LeastNat
  <2>3. m # 0
    BY <1>1, <1>2, <2>2
  <2>4. m \in 1 .. n /\ after[m - 1] = (IF m - 1 < r.size THEN r ELSE q)
    <3>1. m \in 1 .. n /\ m - 1 \in 0 .. n /\ m - 1 \notin Off
      BY <2>2, <2>3
    <3> QED
      BY <3>1
  <2>5. CASE m < r.size
    <3>1. RemoveEntry(r, b, m) = r
      BY <2>4, <2>5, <1>2 DEF RemoveEntry
    <3> QED
      BY <3>1, <1>1, <1>2, <2>2, <2>4, <2>5
  <2>6. CASE m = r.size
    BY <1>1, <1>2, <2>2, <2>4, <2>6
  <2>7. CASE m > r.size
    <3>1. RemoveEntry(q, b, m) = q
      <4> HIDE DEF q
      <4> QED
        BY <2>7, <1>2, <1>3, <2>4 DEF RemoveEntry
    <3> QED
      BY <3>1, <1>1, <1>2, <2>2, <2>4, <2>7
  <2> QED
    BY <1>2, <2>4, <2>5, <2>6, <2>7
<1> QED
  BY <1>1, <1>2, <1>3, <1>4

-----------------------------------------------------------------------------
(* RemoveAt keeps the other elements, in their order.                      *)
LEMMA RemoveAtProperties ==
  ASSUME NEW S, NEW s \in Seq(S), NEW k \in 1 .. Len(s)
  PROVE  /\ RemoveAt(s, k) \in Seq(S)
         /\ Len(RemoveAt(s, k)) = Len(s) - 1
         /\ \A j \in 1 .. Len(s) - 1 :
                RemoveAt(s, k)[j] = IF j < k THEN s[j] ELSE s[j + 1]
<1> DEFINE h == SubSeq(s, 1, k - 1)
           t == SubSeq(s, k + 1, Len(s))
<1>1. Len(s) \in Nat /\ \A i \in 1 .. Len(s) : s[i] \in S
  OBVIOUS
<1>2. /\ h \in Seq(S) /\ Len(h) = k - 1
      /\ \A i \in 1 .. k - 1 : h[i] = s[i]
  BY <1>1, SubSeqProperties
<1>3. /\ t \in Seq(S) /\ Len(t) = Len(s) - k
      /\ \A i \in 1 .. Len(s) - k : t[i] = s[k + i]
  BY <1>1, SubSeqProperties
<1>4. RemoveAt(s, k) = h \o t
  BY DEF RemoveAt
<1> HIDE DEF h, t
<1>5. /\ h \o t \in Seq(S) /\ Len(h \o t) = Len(h) + Len(t)
      /\ \A i \in 1 .. Len(h) + Len(t) :
            (h \o t)[i] = IF i <= Len(h) THEN h[i] ELSE t[i - Len(h)]
  BY <1>2, <1>3, ConcatProperties
<1>6. Len(h \o t) = Len(s) - 1
  BY <1>1, <1>2, <1>3, <1>5
<1>7. ASSUME NEW j \in 1 .. Len(s) - 1
      PROVE  (h \o t)[j] = IF j < k THEN s[j] ELSE s[j + 1]
  <2>1. /\ j \in 1 .. Len(h) + Len(t) /\ k \in Int /\ Len(h) = k - 1
        /\ (h \o t)[j] = IF j <= Len(h) THEN h[j] ELSE t[j - Len(h)]
    BY <1>1, <1>2, <1>3, <1>5
  <2>2. CASE j < k
    <3>1. j \in 1 .. k - 1 /\ j <= Len(h)
      BY <1>1, <2>1, <2>2
    <3> QED
      BY <1>2, <2>1, <2>2, <3>1
  <2>3. CASE ~(j < k)
    <3>1. /\ j - Len(h) = j - (k - 1) /\ ~(j <= Len(h))
          /\ j - (k - 1) \in 1 .. Len(s) - k /\ k + (j - (k - 1)) = j + 1
      BY <1>1, <2>1, <2>3
    <3> QED
      BY <1>3, <2>1, <2>3, <3>1
  <2> QED
    BY <2>2, <2>3
<1> QED
  BY <1>4, <1>5, <1>6, <1>7

(* Every observer has its buffer, and no two observers have the same.      *)
BuffersAreHeld ==
    /\ allocated = ToSet(observers)
    /\ \A j, k \in 1 .. Len(observers) : observers[j] = observers[k] => j = k

(* The list is the observers' buffers, in the order of their creation.     *)
ListIsInOrder ==
    /\ size = Len(observers)
    /\ \A i \in 1 .. size : data[i] = observers[i]

IInv == TypeOK /\ BuffersAreHeld /\ (LastFirst => ListIsInOrder)

LEMMA RegistryTyped ==
  ASSUME TypeOK
  PROVE  /\ Len(data) \in Nat /\ Registry \in Registries(Len(data))
         /\ Registry.data = data /\ Registry.size = size
  BY DEF TypeOK, Registry, Registries, Words

(* A registry of the right shape is what the type invariant asks for. *)
LEMMA BecomeTyped ==
  ASSUME NEW n \in Nat, NEW r \in Registries(n), Become(r)
  PROVE  /\ data' \in Seq(Buffers \cup {Garbage})
         /\ Len(data') = n /\ size' \in 0 .. Len(data')
<1>1. /\ r.data \in [1 .. n -> Words] /\ r.size \in 0 .. n
  BY DEF Registries
<1>2. data' = r.data /\ size' = r.size
  BY DEF Become
<1> QED
  BY <1>1, <1>2 DEF Words

(* add() of a buffer that is not listed appends it. *)
LEMMA ListAppends ==
  ASSUME NEW n \in Nat, NEW r \in Registries(n), NEW b \in Buffers,
         \A i \in 1 .. r.size : r.data[i] # b
  PROVE  /\ \E m \in Nat : List(r, b) \in Registries(m)
         /\ List(r, b).size = r.size + 1
         /\ List(r, b).data[r.size + 1] = b
         /\ \A i \in 1 .. r.size : List(r, b).data[i] = r.data[i]
<1>1. /\ r.data \in [1 .. n -> Words] /\ r.size \in 0 .. n
  BY DEF Registries
<1>2. r.data \in Seq(Words) /\ Len(r.data) = n /\ b \in Words
  BY <1>1 DEF Words
<1>3. CASE r.size = n
  <2>1. List(r, b) = [data |-> Append(r.data, b), size |-> r.size + 1]
    BY <1>2, <1>3 DEF List
  <2>2. Append(r.data, b) \in [1 .. n + 1 -> Words]
    <3>1. Append(r.data, b) \in Seq(Words) /\ Len(Append(r.data, b)) = n + 1
      BY <1>2, AppendProperties
    <3> QED
      BY <3>1, LenProperties
  <2>3. List(r, b) \in Registries(n + 1)
    BY <2>1, <2>2, <1>1 DEF Registries
  <2> QED
    BY <2>1, <2>3, <1>2, <1>3, AppendProperties
<1>4. CASE r.size # n
  <2>1. List(r, b) = [data |-> [r.data EXCEPT ![r.size + 1] = b], size |-> r.size + 1]
    BY <1>2, <1>4 DEF List
  <2>2. [r.data EXCEPT ![r.size + 1] = b] \in [1 .. n -> Words]
    BY <1>1, <1>2
  <2>3. List(r, b) \in Registries(n)
    BY <2>1, <2>2, <1>1, <1>4 DEF Registries
  <2> QED
    BY <2>1, <2>3, <1>1, <1>4
<1> QED
  BY <1>3, <1>4

(* add() of a buffer keeps the registry's shape. *)
LEMMA ListType ==
  ASSUME NEW n \in Nat, NEW r \in Registries(n), NEW b \in Buffers
  PROVE  \E m \in Nat : List(r, b) \in Registries(m)
<1>1. CASE \E i \in 1 .. r.size : r.data[i] = b
  BY <1>1 DEF List
<1>2. CASE ~\E i \in 1 .. r.size : r.data[i] = b
  BY <1>2, ListAppends
<1> QED
  BY <1>1, <1>2

-----------------------------------------------------------------------------
LEMMA InitInvariant == Init => IInv
  BY DEF Init, IInv, TypeOK, BuffersAreHeld, ListIsInOrder, ToSet

(* A new observer: its buffer is not allocated, so no observer has it, and *)
(* it is appended to the list.                                             *)
LEMMA NewObserverInvariant ==
  ASSUME IInv, NEW b \in Buffers, NewObserver(b)
  PROVE  IInv'
<1> USE DEF IInv
<1>1. /\ observers \in Seq(Buffers) /\ observers' = Append(observers, b)
      /\ Become(List(Registry, b)) /\ UNCHANGED marked
      /\ allocated' = allocated \cup {b} /\ b \notin allocated
  BY DEF NewObserver, TypeOK
<1>2. /\ observers' \in Seq(Buffers) /\ Len(observers') = Len(observers) + 1
      /\ \A k \in 1 .. Len(observers) : observers'[k] = observers[k]
      /\ observers'[Len(observers) + 1] = b
      /\ Len(observers) \in Nat
  BY <1>1, AppendProperties
<1>3. \A k \in 1 .. Len(observers) : observers[k] # b
  BY <1>1 DEF BuffersAreHeld, ToSet
<1>4. TypeOK'
  <2>1. PICK m \in Nat : List(Registry, b) \in Registries(m)
    BY RegistryTyped, ListType
  <2>2. data' \in Seq(Buffers \cup {Garbage}) /\ size' \in 0 .. Len(data')
    BY <1>1, <2>1, BecomeTyped
  <2> QED
    BY <1>1, <1>2, <2>2 DEF TypeOK
<1>5. BuffersAreHeld'
  <2>1. ToSet(observers') = ToSet(observers) \cup {b}
    BY <1>1, <1>2 DEF ToSet
  <2>2. \A j, k \in 1 .. Len(observers') : observers'[j] = observers'[k] => j = k
    BY <1>2, <1>3 DEF BuffersAreHeld
  <2> QED
    BY <1>1, <2>1, <2>2 DEF BuffersAreHeld
<1>6. LastFirst => ListIsInOrder'
  <2> SUFFICES ASSUME LastFirst PROVE ListIsInOrder'
    OBVIOUS
  <2>1. size = Len(observers) /\ \A i \in 1 .. size : data[i] = observers[i]
    BY DEF ListIsInOrder
  <2>2. /\ data' = List(Registry, b).data /\ size' = List(Registry, b).size
        /\ Registry.data = data /\ Registry.size = size
    BY <1>1, RegistryTyped DEF Become
  <2>3. \A i \in 1 .. Registry.size : Registry.data[i] # b
    BY <1>3, <2>1, <2>2
  <2>4. /\ size' = size + 1 /\ data'[size + 1] = b
        /\ \A i \in 1 .. size : data'[i] = data[i]
    BY <2>2, <2>3, RegistryTyped, ListAppends
  <2> QED
    BY <1>2, <2>1, <2>4 DEF ListIsInOrder
<1> QED
  BY <1>4, <1>5, <1>6

(* A released observer: its buffer is no other observer's, and, when it is *)
(* the newest, the last of the list.                                       *)
LEMMA ReleaseObserverInvariant ==
  ASSUME IInv, NEW b \in Buffers, ReleaseObserver(b)
  PROVE  IInv'
<1> USE DEF IInv
<1>1. PICK k \in 1 .. Len(observers) :
         /\ observers[k] = b
         /\ LastFirst => k = Len(observers)
         /\ observers' = RemoveAt(observers, k)
  BY DEF ReleaseObserver
<1>2. /\ observers \in Seq(Buffers) /\ Len(observers) \in Nat
      /\ Become(Unlist(Registry, b)) /\ UNCHANGED marked
      /\ allocated' = allocated \ {b}
  BY DEF ReleaseObserver, TypeOK
<1>3. /\ observers' \in Seq(Buffers) /\ Len(observers') = Len(observers) - 1
      /\ \A j \in 1 .. Len(observers) - 1 :
            observers'[j] = IF j < k THEN observers[j] ELSE observers[j + 1]
  BY <1>1, <1>2, RemoveAtProperties
<1>4. TypeOK'
  <2>1. Unlist(Registry, b) \in Registries(Len(data)) /\ Len(data) \in Nat
    BY RegistryTyped, UnlistType
  <2>2. data' \in Seq(Buffers \cup {Garbage}) /\ size' \in 0 .. Len(data')
    BY <1>2, <2>1, BecomeTyped
  <2> QED
    BY <1>2, <1>3, <2>2 DEF TypeOK
<1>5. BuffersAreHeld'
  <2>1. \A a : a \in ToSet(observers') <=> a \in ToSet(observers) /\ a # b
    <3>0. /\ DOMAIN observers = 1 .. Len(observers)
          /\ DOMAIN observers' = 1 .. Len(observers) - 1
      BY <1>2, <1>3
    <3>1. ASSUME NEW a \in ToSet(observers') PROVE a \in ToSet(observers) /\ a # b
      <4>1. PICK j \in 1 .. Len(observers) - 1 : observers'[j] = a
        BY <3>0, <3>1 DEF ToSet
      <4>2. PICK i \in 1 .. Len(observers) : i # k /\ observers[i] = a
        BY <1>1, <1>2, <1>3, <4>1
      <4> QED
        BY <1>1, <3>0, <4>2 DEF ToSet, BuffersAreHeld
    <3>2. ASSUME NEW a \in ToSet(observers), a # b PROVE a \in ToSet(observers')
      <4>1. PICK i \in 1 .. Len(observers) : observers[i] = a /\ i # k
        BY <1>1, <3>0, <3>2 DEF ToSet
      <4>2. CASE i < k
        BY <1>2, <1>3, <3>0, <4>1, <4>2, SMTT(30) DEF ToSet
      <4>3. CASE i > k
        <5>1. i - 1 \in 1 .. Len(observers) - 1 /\ observers'[i - 1] = a
          BY <1>1, <1>2, <1>3, <4>1, <4>3
        <5> QED
          BY <3>0, <5>1 DEF ToSet
      <4> QED
        BY <1>2, <4>1, <4>2, <4>3
    <3> QED
      BY <3>1, <3>2
  <2>2. \A i, j \in 1 .. Len(observers') : observers'[i] = observers'[j] => i = j
    BY <1>1, <1>2, <1>3 DEF BuffersAreHeld
  <2> QED
    BY <1>2, <2>1, <2>2 DEF BuffersAreHeld
<1>6. LastFirst => ListIsInOrder'
  <2> SUFFICES ASSUME LastFirst PROVE ListIsInOrder'
    OBVIOUS
  <2>1. /\ size = Len(observers) /\ k = size /\ size > 0
        /\ \A i \in 1 .. size : data[i] = observers[i]
    BY <1>1, <1>2 DEF ListIsInOrder
  <2>2. /\ data' = Unlist(Registry, b).data /\ size' = Unlist(Registry, b).size
        /\ Registry.data = data /\ Registry.size = size
    BY <1>2, RegistryTyped DEF Become
  <2>3. \A i \in 1 .. size - 1 : data[i] # b
    BY <1>1, <1>2, <2>1 DEF BuffersAreHeld
  <2>4. data[size] = b
    BY <1>1, <2>1
  <2>5. /\ size' = size - 1
        /\ \A i \in 1 .. size - 1 : data'[i] = data[i]
    BY <2>1, <2>2, <2>3, <2>4, RegistryTyped, UnlistLast, SMTT(30)
  <2> QED
    BY <1>2, <1>3, <2>1, <2>5 DEF ListIsInOrder
<1> QED
  BY <1>4, <1>5, <1>6

LEMMA NextInvariant == IInv /\ [Next]_vars => IInv'
<1> SUFFICES ASSUME IInv, [Next]_vars PROVE IInv'
  OBVIOUS
<1>1. ASSUME NEW b \in Buffers, NewObserver(b) PROVE IInv'
  BY <1>1, NewObserverInvariant
<1>2. ASSUME NEW b \in Buffers, ReleaseObserver(b) PROVE IInv'
  BY <1>2, ReleaseObserverInvariant
<1>3. CASE Observe
  <2>1. Listed \subseteq Buffers \cup {Garbage}
    BY DEF Listed, IInv, TypeOK
  <2> QED
    BY <1>3, <2>1 DEF Observe, IInv, TypeOK, BuffersAreHeld, ListIsInOrder
<1>4. CASE UNCHANGED vars
  BY <1>4 DEF vars, IInv, TypeOK, BuffersAreHeld, ListIsInOrder
<1> QED
  BY <1>1, <1>2, <1>3, <1>4 DEF Next

-----------------------------------------------------------------------------
(* The registry and the observers are typed in every behaviour, every      *)
(* observer's buffer is allocated and is its own, and with newest-first    *)
(* releases the list is the observers' buffers in their order.             *)
THEOREM Invariance == Spec => []IInv
<1> QED
  BY InitInvariant, NextInvariant, PTL DEF Spec

(* In whatever order observers are released, the entries in use stay       *)
(* within the array (ObserverRegistry.ispc).                               *)
THEOREM TypeCorrect == Spec => []TypeOK
<1>1. IInv => TypeOK
  BY DEF IInv
<1> QED
  BY <1>1, Invariance, PTL

(* Released newest first, observers are listed by the registry exactly     *)
(* while they exist, each once, for any number of buffers                  *)
(* (ObserverRegistry_add and _remove).                                     *)
THEOREM ObserversAreListed ==
  ASSUME LastFirst
  PROVE  Spec => []ListsTheObservers
<1>1. IInv => ListsTheObservers
  <2> SUFFICES ASSUME IInv PROVE ListsTheObservers
    OBVIOUS
  <2>1. /\ size = Len(observers) /\ \A i \in 1 .. size : data[i] = observers[i]
        /\ DOMAIN observers = 1 .. Len(observers)
    BY DEF IInv, TypeOK, ListIsInOrder
  <2> QED
    BY <2>1 DEF ListsTheObservers, Listed, ToSet
<1> QED
  BY <1>1, Invariance, PTL

(* Released newest first, observers' buffers, all of them and no freed     *)
(* one, are what sampling writes to (the loop over the registry's entries  *)
(* in VdbSampler.ispc).                                                    *)
THEOREM LiveBuffersAreObserved ==
  ASSUME LastFirst
  PROVE  Spec => ObservesLiveBuffersOnly
<1>1. IInv /\ ListsTheObservers /\ Observe
        => marked' = ToSet(observers) /\ marked' \subseteq allocated
  BY DEF IInv, BuffersAreHeld, ListsTheObservers, Observe
<1> QED
  BY <1>1, Invariance, ObserversAreListed, PTL DEF ObservesLiveBuffersOnly
=============================================================================
