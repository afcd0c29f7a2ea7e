------------------------ MODULE ManagedObjectsProofs ------------------------
(***************************************************************************)
(* Proofs about ManagedObjects, for every set of objects.                  *)
(*                                                                         *)
(* The argument: at every moment of a step the count of an object is the   *)
(* number of slots that point to it, plus the references in hand, counted  *)
(* but not yet (or no longer) in a slot.  Five elementary facts say how a  *)
(* birth, refInc, refDec, and filling and clearing a slot move references  *)
(* between these places; an action is a sequence of them that starts and   *)
(* ends with no reference in hand but the lost ones.                       *)
(***************************************************************************)
EXTENDS ManagedObjects, FiniteSetTheorems, TLAPS

Objs0 == Objects \cup {NoObj}

HeapType == [Objects -> [rc : Nat, st : {"unborn", "live", "dead"}]]

Exact(h, H, l) ==
    \A o \in Objects : h[o].rc = Cardinality(Holders(H, o)) + l[o]

LiveIffCounted(h) == \A o \in Objects : h[o].st = "live" <=> h[o].rc > 0

(* h the objects, H the slots, l the references in hand *)
Consistent(h, H, l) ==
    /\ h \in HeapType
    /\ H \in [Slots -> Objs0]
    /\ l \in [Objects -> Nat]
    /\ Exact(h, H, l)
    /\ LiveIffCounted(h)

(* one reference more, or less, in hand *)
Take(l, x) == IF x = NoObj THEN l ELSE [l EXCEPT ![x] = @ + 1]
Give(l, x) == IF x = NoObj THEN l ELSE [l EXCEPT ![x] = @ - 1]

-----------------------------------------------------------------------------
(* A pair of values is a finite set. *)
LEMMA PairFinite ==
  ASSUME NEW x, NEW y
  PROVE  IsFiniteSet({x, y})
<1>1. IsFiniteSet({x}) /\ IsFiniteSet({y})
  BY FS_Singleton
<1>2. {x, y} = {x} \cup {y}
  OBVIOUS
<1> QED BY <1>1, <1>2, FS_Union

(* There are finitely many slots, whatever the finite sets of objects and names are. *)
LEMMA SlotsFinite == IsFiniteSet(Slots)
<1> DEFINE Roles  == ({"handle", "device"} \cup {"target", "param"})
                      \cup ({"item", "attribute"} \cup {"background", "background"})
           Labels == ({"app", "ptr"} \cup {"ref", "ref"}) \cup (ParamNames \cup Items)
<1>1. IsFiniteSet(Roles)
  <2>1. /\ IsFiniteSet({"handle", "device"}) /\ IsFiniteSet({"target", "param"})
        /\ IsFiniteSet({"item", "attribute"})
        /\ IsFiniteSet({"background", "background"})
    BY PairFinite, Zenon
  <2>2. /\ IsFiniteSet({"handle", "device"} \cup {"target", "param"})
        /\ IsFiniteSet({"item", "attribute"} \cup {"background", "background"})
    BY <2>1, FS_Union, Zenon
  <2> QED BY <2>2, FS_Union, Zenon
<1>2. IsFiniteSet(Labels)
  <2>1. IsFiniteSet({"app", "ptr"}) /\ IsFiniteSet({"ref", "ref"})
    BY PairFinite, Zenon
  <2>2. IsFiniteSet(Items) /\ IsFiniteSet(ParamNames)
    BY FS_Interval, ConstantAssumption DEF Items
  <2>3. IsFiniteSet({"app", "ptr"} \cup {"ref", "ref"}) /\ IsFiniteSet(ParamNames \cup Items)
    BY <2>1, <2>2, FS_Union, Zenon
  <2> QED BY <2>3, FS_Union, Zenon
<1>3. IsFiniteSet(Objects \X (Roles \X Labels))
  BY <1>1, <1>2, FS_Product, ConstantAssumption
<1>4. Slots \subseteq Objects \X (Roles \X Labels)
  BY DEF Slots, Handle, DevicePtr, Target, Param, Item, Attr, Backgr, Objects
<1> QED BY <1>3, <1>4, FS_Subset

(* So the holders of an object can be counted. *)
LEMMA HoldersFinite ==
  ASSUME NEW H, NEW o
  PROVE  IsFiniteSet(Holders(H, o)) /\ Cardinality(Holders(H, o)) \in Nat
<1>1. Holders(H, o) \subseteq Slots
  BY DEF Holders
<1> QED BY <1>1, SlotsFinite, FS_Subset, FS_CardinalityType

(* A reference in hand goes into an empty slot. *)
LEMMA Fill ==
  ASSUME NEW h, NEW H, NEW l, Consistent(h, H, l),
         NEW s \in Slots, H[s] = NoObj,
         NEW x \in Objs0, x # NoObj => l[x] > 0
  PROVE  Consistent(h, [H EXCEPT ![s] = x], Give(l, x))
<1> DEFINE H2 == [H EXCEPT ![s] = x]
<1>1. CASE x = NoObj
  <2>1. H2 = H
    BY <1>1 DEF Consistent
  <2> QED BY <1>1, <2>1 DEF Give
<1>2. CASE x # NoObj
  <2>0. x \in Objects
    BY <1>2 DEF Objs0
  <2>1. H2 \in [Slots -> Objs0] /\ Give(l, x) \in [Objects -> Nat]
    BY <1>2, <2>0 DEF Consistent, Give
  <2>2. ASSUME NEW o \in Objects
        PROVE  h[o].rc = Cardinality(Holders(H2, o)) + Give(l, x)[o]
    <3>1. h[o].rc = Cardinality(Holders(H, o)) + l[o]
      BY DEF Consistent, Exact
    <3>2. NoObj # o
      BY ConstantAssumption
    <3>3. CASE o = x
      <4>1. Holders(H2, o) = Holders(H, o) \cup {s} /\ s \notin Holders(H, o)
        BY <3>2, <3>3, <2>1 DEF Holders, Consistent
      <4>2. Cardinality(Holders(H2, o)) = Cardinality(Holders(H, o)) + 1
        BY <4>1, HoldersFinite, FS_AddElement
      <4>3. Give(l, x)[o] = l[o] - 1 /\ l[o] \in Nat
        BY <1>2, <3>3 DEF Give, Consistent
      <4> HIDE DEF H2
      <4> QED BY <3>1, <4>2, <4>3, HoldersFinite
    <3>4. CASE o # x
      <4>1. Holders(H2, o) = Holders(H, o)
        BY <3>2, <3>4, <2>1 DEF Holders, Consistent
      <4>2. Give(l, x)[o] = l[o]
        BY <1>2, <3>4 DEF Give, Consistent
      <4> QED BY <3>1, <4>1, <4>2
    <3> QED BY <3>3, <3>4
  <2> QED BY <2>1, <2>2 DEF Consistent, Exact
<1> QED BY <1>1, <1>2

(* A slot is cleared, and its reference is in hand. *)
LEMMA Clear ==
  ASSUME NEW h, NEW H, NEW l, Consistent(h, H, l), NEW s \in Slots
  PROVE  Consistent(h, [H EXCEPT ![s] = NoObj], Take(l, H[s]))
<1> DEFINE H2 == [H EXCEPT ![s] = NoObj]
           x  == H[s]
<1>0. x \in Objs0
  BY DEF Consistent
<1>1. CASE x = NoObj
  <2>1. H2 = H
    BY <1>1 DEF Consistent
  <2> QED BY <1>1, <2>1 DEF Take
<1>2. CASE x # NoObj
  <2>0. x \in Objects
    BY <1>0, <1>2 DEF Objs0
  <2>1. H2 \in [Slots -> Objs0] /\ Take(l, x) \in [Objects -> Nat]
    BY <1>2, <2>0 DEF Consistent, Take, Objs0
  <2>2. ASSUME NEW o \in Objects
        PROVE  h[o].rc = Cardinality(Holders(H2, o)) + Take(l, x)[o]
    <3>1. h[o].rc = Cardinality(Holders(H, o)) + l[o]
      BY DEF Consistent, Exact
    <3>2. NoObj # o
      BY ConstantAssumption
    <3>3. CASE o = x
      <4>1. Holders(H2, o) = Holders(H, o) \ {s} /\ s \in Holders(H, o)
        BY <3>2, <3>3, <2>1 DEF Holders, Consistent
      <4>2. Cardinality(Holders(H2, o)) = Cardinality(Holders(H, o)) - 1
        BY <4>1, HoldersFinite, FS_RemoveElement
      <4>3. Take(l, x)[o] = l[o] + 1 /\ l[o] \in Nat
        BY <1>2, <3>3 DEF Take, Consistent
      <4> HIDE DEF H2
      <4> QED BY <3>1, <4>2, <4>3, HoldersFinite
    <3>4. CASE o # x
      <4>1. Holders(H2, o) = Holders(H, o)
        BY <3>2, <3>4, <2>1 DEF Holders, Consistent
      <4>2. Take(l, x)[o] = l[o]
        BY <1>2, <3>4 DEF Take, Consistent
      <4> QED BY <3>1, <4>1, <4>2
    <3> QED BY <3>3, <3>4
  <2> QED BY <2>1, <2>2 DEF Consistent, Exact
<1> QED BY <1>1, <1>2

(* refInc() of a live object, or of the null pointer *)
LEMMA Inc ==
  ASSUME NEW h, NEW H, NEW l, Consistent(h, H, l),
         NEW x \in Objs0, x # NoObj => h[x].st = "live"
  PROVE  Consistent(RefInc(h, x), H, Take(l, x))
<1>1. CASE x = NoObj
  BY <1>1 DEF RefInc, Take
<1>2. CASE x # NoObj
  <2>0. x \in Objects
    BY <1>2 DEF Objs0
  <2>1. RefInc(h, x) \in HeapType /\ Take(l, x) \in [Objects -> Nat]
    BY <1>2, <2>0 DEF Consistent, HeapType, RefInc, Take
  <2>2. ASSUME NEW o \in Objects
        PROVE  RefInc(h, x)[o].rc = Cardinality(Holders(H, o)) + Take(l, x)[o]
    BY <1>2, <2>0, HoldersFinite DEF Consistent, Exact, HeapType, RefInc, Take
  <2>3. LiveIffCounted(RefInc(h, x))
    BY <1>2, <2>0 DEF Consistent, LiveIffCounted, HeapType, RefInc
  <2> QED BY <2>1, <2>2, <2>3 DEF Consistent, Exact
<1> QED BY <1>1, <1>2

(* refDec() of a reference in hand: the object dies with its last one. *)
LEMMA Dec ==
  ASSUME NEW h, NEW H, NEW l, Consistent(h, H, l),
         NEW x \in Objs0, x # NoObj => l[x] > 0
  PROVE  Consistent(RefDec(h, x), H, Give(l, x))
<1>1. CASE x = NoObj
  BY <1>1 DEF RefDec, Give
<1>2. CASE x # NoObj
  <2>0. x \in Objects
    BY <1>2 DEF Objs0
  <2>1. h[x].rc > 0 /\ h[x].rc \in Nat /\ h[x].st = "live"
    BY <1>2, <2>0, HoldersFinite DEF Consistent, Exact, HeapType, LiveIffCounted
  <2>2. RefDec(h, x) \in HeapType /\ Give(l, x) \in [Objects -> Nat]
    BY <1>2, <2>0, <2>1 DEF Consistent, HeapType, RefDec, Give
  <2>3. ASSUME NEW o \in Objects
        PROVE  RefDec(h, x)[o].rc = Cardinality(Holders(H, o)) + Give(l, x)[o]
    BY <1>2, <2>0, <2>1, HoldersFinite DEF Consistent, Exact, HeapType, RefDec, Give
  <2>4. LiveIffCounted(RefDec(h, x))
    BY <1>2, <2>0, <2>1 DEF Consistent, LiveIffCounted, HeapType, RefDec
  <2> QED BY <2>2, <2>3, <2>4 DEF Consistent, Exact
<1> QED BY <1>1, <1>2

(* A new object has one reference, and it is in hand. *)
LEMMA Birth ==
  ASSUME NEW h, NEW H, NEW l, Consistent(h, H, l),
         NEW x \in Objects, h[x].st = "unborn"
  PROVE  Consistent(Born(h, x), H, Take(l, x))
<1>0. x # NoObj
  BY ConstantAssumption
<1>1. h[x].rc = 0
  BY DEF Consistent, LiveIffCounted, HeapType
<1>2. Born(h, x) \in HeapType /\ Take(l, x) \in [Objects -> Nat]
  BY <1>0 DEF Consistent, HeapType, Born, Take
<1>3. ASSUME NEW o \in Objects
      PROVE  Born(h, x)[o].rc = Cardinality(Holders(H, o)) + Take(l, x)[o]
  BY <1>0, <1>1, HoldersFinite DEF Consistent, Exact, HeapType, Born, Take
<1>4. LiveIffCounted(Born(h, x))
  BY DEF Consistent, LiveIffCounted, HeapType, Born
<1> QED BY <1>2, <1>3, <1>4 DEF Consistent, Exact

(* Taking a reference in hand and giving it up again leaves the balance as it was. *)
LEMMA InHand ==
  ASSUME NEW l \in [Objects -> Nat], NEW x \in Objs0
  PROVE  /\ Take(l, x) \in [Objects -> Nat]
         /\ Give(Take(l, x), x) = l
         /\ x # NoObj => Take(l, x)[x] > 0
<1>1. CASE x = NoObj
  BY <1>1 DEF Give, Take
<1>2. CASE x # NoObj
  <2>1. ASSUME NEW o \in Objects
        PROVE  Give(Take(l, x), x)[o] = l[o]
    BY <1>2 DEF Give, Take, Objs0
  <2>2. x \in Objects /\ Take(l, x) \in [Objects -> Nat] /\ Take(l, x)[x] > 0
    BY <1>2 DEF Take, Objs0
  <2>3. Give(Take(l, x), x) \in [Objects -> Nat]
    BY <1>2, <2>2 DEF Give
  <2>4. Give(Take(l, x), x) = l
    BY <2>1, <2>3
  <2> QED BY <2>2, <2>4
<1> QED BY <1>1, <1>2

(* A reference taken for an empty slot is stored in it. *)
LEMMA Store ==
  ASSUME NEW h, NEW H, NEW l \in [Objects -> Nat], NEW x \in Objs0,
         Consistent(h, H, Take(l, x)), NEW s \in Slots, H[s] = NoObj
  PROVE  Consistent(h, [H EXCEPT ![s] = x], l)
BY InHand, Fill

(* A slot is cleared and its reference released. *)
LEMMA Drop ==
  ASSUME NEW h, NEW H, NEW l \in [Objects -> Nat], Consistent(h, H, l), NEW s \in Slots
  PROVE  Consistent(RefDec(h, H[s]), [H EXCEPT ![s] = NoObj], l)
<1>1. H[s] \in Objs0
  BY DEF Consistent
<1>2. Consistent(h, [H EXCEPT ![s] = NoObj], Take(l, H[s]))
  BY Clear
<1> QED BY <1>1, <1>2, InHand, Dec

(* Param::set and Ref<>::operator=: the new object is counted first. *)
LEMMA Assign ==
  ASSUME NEW h, NEW H, NEW l \in [Objects -> Nat], Consistent(h, H, l),
         NEW s \in Slots, NEW x \in Objs0, x # NoObj => h[x].st = "live"
  PROVE  Consistent(Reassign(h, H[s], x), [H EXCEPT ![s] = x], l)
<1> DEFINE old == H[s]
           H1  == [H EXCEPT ![s] = NoObj]
<1>1. old \in Objs0 /\ H \in [Slots -> Objs0]
  BY DEF Consistent
<1>2. Consistent(RefInc(h, x), H, Take(l, x)) /\ Take(l, x) \in [Objects -> Nat]
  BY Inc, InHand
<1>3. Consistent(RefDec(RefInc(h, x), old), H1, Take(l, x))
  BY <1>2, Drop
<1>4. H1[s] = NoObj /\ [H1 EXCEPT ![s] = x] = [H EXCEPT ![s] = x]
  BY <1>1
<1>5. Consistent(RefDec(RefInc(h, x), old), [H1 EXCEPT ![s] = x], l)
  BY <1>3, <1>4, Store
<1> QED BY <1>4, <1>5 DEF Reassign

(* Whoever a slot points to, or who is in hand, is alive. *)
LEMMA HeldIsLive ==
  ASSUME NEW h, NEW H, NEW l, Consistent(h, H, l), NEW s \in Slots, H[s] # NoObj
  PROVE  H[s] \in Objects /\ h[H[s]].st = "live"
<1>1. H[s] \in Objects
  BY DEF Consistent, Objs0
<1>2. s \in Holders(H, H[s])
  BY DEF Holders
<1>3. Cardinality(Holders(H, H[s])) # 0
  BY <1>2, HoldersFinite, FS_EmptySet
<1> DEFINE x == H[s]
           n == Cardinality(Holders(H, x))
<1>4. x \in Objects /\ n \in Nat /\ n # 0 /\ h[x].rc = n + l[x] /\ l[x] \in Nat
  BY <1>1, <1>3, HoldersFinite DEF Consistent, Exact
<1>5. h[x].st = "live" <=> h[x].rc > 0
  BY <1>4 DEF Consistent, LiveIffCounted
<1> HIDE DEF n
<1> QED BY <1>4, <1>5

-----------------------------------------------------------------------------
(***************************************************************************)
(* The inductive invariant: the counts are exact, and what the code knows  *)
(* about the slots it fills without releasing what was in them, namely     *)
(* that nothing was.                                                       *)
(***************************************************************************)
PlainTypeOK ==
    /\ items \in [Datas -> Seq(Datas)]
    /\ flags \in [Datas -> Flags]
    /\ pc \in [Objects -> Loops]
    /\ idx \in [Objects -> Items]
    /\ committed \in [Devices -> BOOLEAN]
    /\ useAfterFree \in BOOLEAN

UnbornOwnNothing ==
    \A s \in Slots : obj[Owner(s)].st = "unborn" => held[s] = NoObj

HandlesAreOwn == \A o \in Objects : held[Handle(o)] \in {o, NoObj}

ParamsAreData ==
    \A v \in Volumes, p \in ParamNames : held[Param(v, p)] \in Datas \cup {NoObj}

CallersHoldHandles ==
    \A o \in Objects : pc[o] # "idle" => held[Handle(o)] = o

ArraysAreShort == \A d \in Datas : Len(items[d]) <= MaxItems

(* the Data constructor's loop *)
AdoptsIntoEmptySlots ==
    \A d \in Datas : pc[d] = "adoptChildren" =>
        /\ idx[d] <= Len(items[d])
        /\ \A i \in Items : i >= idx[d] => held[Item(d, i)] = NoObj
        /\ \A i \in 1 .. Len(items[d]) : held[Handle(items[d][i])] = items[d][i]

(* the loops of StructuredVolume::commit *)
ClearsFromTheFront ==
    \A v \in Volumes : pc[v] = "clearAttributes" =>
        \A i \in Items : i < idx[v] => held[Attr(v, i)] = NoObj

LoadsIntoEmptySlots ==
    \A v \in Volumes : pc[v] = "loadAttributes" =>
        /\ \A i \in Items : i >= idx[v] => held[Attr(v, i)] = NoObj
        /\ held[Param(v, "data")] # NoObj =>
              idx[v] <= Len(Attributes(held[Param(v, "data")]))

DevicesAreSet ==
    /\ \A o \in Objects \ Devices : Live(o) => held[DevicePtr(o)] \in Devices
    /\ \A s \in Slots : Owner(s) \notin Devices /\ held[s] # NoObj =>
          held[DevicePtr(Owner(s))] \in Devices

IInv ==
    /\ Consistent(obj, held, lost)
    /\ PlainTypeOK
    /\ UnbornOwnNothing
    /\ HandlesAreOwn
    /\ ParamsAreData
    /\ CallersHoldHandles
    /\ ArraysAreShort
    /\ AdoptsIntoEmptySlots
    /\ ClearsFromTheFront
    /\ LoadsIntoEmptySlots
    /\ DevicesAreSet

-----------------------------------------------------------------------------
(* Every slot an action names is a slot of the object model. *)
LEMMA SlotsOfTheClasses ==
  /\ \A o \in Objects : Handle(o) \in Slots /\ DevicePtr(o) \in Slots
  /\ \A o \in Samplers \cup Contexts \cup Observers : Target(o) \in Slots
  /\ \A v \in Volumes, p \in ParamNames : Param(v, p) \in Slots
  /\ \A d \in Datas, i \in Items : Item(d, i) \in Slots
  /\ \A v \in Volumes, i \in Items : Attr(v, i) \in Slots
  /\ \A v \in Volumes : Backgr(v) \in Slots
BY DEF Slots

(* A slot belongs to an object. *)
LEMMA Owners ==
  ASSUME NEW s \in Slots
  PROVE  Owner(s) \in Objects
BY DEF Slots, Owner, Handle, DevicePtr, Target, Param, Item, Attr, Backgr, Objects

Kind(s) == s[2][1]

(* A slot's owner and kind can be read off it. *)
LEMMA Kinds ==
  /\ \A o : Owner(Handle(o)) = o /\ Kind(Handle(o)) = "handle"
  /\ \A o : Owner(DevicePtr(o)) = o /\ Kind(DevicePtr(o)) = "device"
  /\ \A o : Owner(Target(o)) = o /\ Kind(Target(o)) = "target"
  /\ \A o, p : Owner(Param(o, p)) = o /\ Kind(Param(o, p)) = "param"
  /\ \A o, i : Owner(Item(o, i)) = o /\ Kind(Item(o, i)) = "item"
  /\ \A o, i : Owner(Attr(o, i)) = o /\ Kind(Attr(o, i)) = "attribute"
  /\ \A o : Owner(Backgr(o)) = o /\ Kind(Backgr(o)) = "background"
BY DEF Handle, DevicePtr, Target, Param, Item, Attr, Backgr, Owner, Kind

(* What a step that changes slots of some kinds only leaves alone. *)
SameBut(kinds) == \A s \in Slots : Kind(s) \notin kinds => held'[s] = held[s]

(* A step that only touches slots of some kinds leaves the slots of the others alone. *)
LEMMA Frame ==
  ASSUME NEW kinds, SameBut(kinds)
  PROVE  /\ "handle" \notin kinds =>
              \A o \in Objects : held'[Handle(o)] = held[Handle(o)]
         /\ "device" \notin kinds =>
              \A o \in Objects : held'[DevicePtr(o)] = held[DevicePtr(o)]
         /\ "param" \notin kinds =>
              \A v \in Volumes, p \in ParamNames : held'[Param(v, p)] = held[Param(v, p)]
         /\ "item" \notin kinds =>
              \A d \in Datas, i \in Items : held'[Item(d, i)] = held[Item(d, i)]
         /\ "attribute" \notin kinds =>
              \A v \in Volumes, i \in Items : held'[Attr(v, i)] = held[Attr(v, i)]
BY SlotsOfTheClasses, Kinds DEF SameBut

(***************************************************************************)
(* A step that leaves the loops of calls alone: it fills no element and no *)
(* attribute, sets no parameter of a volume that is being committed, and   *)
(* releases no handle a call in progress uses.                             *)
(***************************************************************************)
LeavesLoopsAlone ==
    /\ \A d \in Datas, i \in Items :
          held'[Item(d, i)] \in {held[Item(d, i)], NoObj}
    /\ \A v \in Volumes, i \in Items :
          held'[Attr(v, i)] \in {held[Attr(v, i)], NoObj}
    /\ \A v \in Volumes : pc[v] # "idle" =>
          held'[Param(v, "data")] \in {held[Param(v, "data")], NoObj}
    /\ \A o \in Objects : held[Handle(o)] = o =>
          held'[Handle(o)] = o \/ (pc[o] = "idle" /\ ~InUseByConstructor(o))

(* A step that neither moves a loop nor writes a slot a loop works on keeps
   what the invariant says of the loops. *)
LEMMA LoopsLeftAlone ==
  ASSUME IInv, LeavesLoopsAlone, UNCHANGED <<items, pc, idx>>
  PROVE  /\ CallersHoldHandles' /\ ArraysAreShort'
         /\ AdoptsIntoEmptySlots' /\ ClearsFromTheFront' /\ LoadsIntoEmptySlots'
<1>1. CallersHoldHandles' /\ ArraysAreShort'
  BY DEF IInv, LeavesLoopsAlone, CallersHoldHandles, ArraysAreShort
<1>2. AdoptsIntoEmptySlots'
  <2> SUFFICES ASSUME NEW d \in Datas, pc[d] = "adoptChildren"
               PROVE  /\ idx[d] <= Len(items[d])
                      /\ \A i \in Items : i >= idx[d] => held'[Item(d, i)] = NoObj
                      /\ \A i \in 1 .. Len(items[d]) :
                            held'[Handle(items[d][i])] = items[d][i]
    BY DEF AdoptsIntoEmptySlots
  <2>1. ASSUME NEW i \in 1 .. Len(items[d])
        PROVE  held'[Handle(items[d][i])] = items[d][i]
    <3>1. items[d][i] \in Objects /\ InUseByConstructor(items[d][i])
      <4>1. items[d] \in Seq(Datas)
        BY DEF IInv, PlainTypeOK
      <4>2. items[d][i] \in Datas
        BY <4>1
      <4> QED BY <4>2 DEF InUseByConstructor, Objects
    <3>2. held[Handle(items[d][i])] = items[d][i]
      BY DEF IInv, AdoptsIntoEmptySlots
    <3> QED BY <3>1, <3>2 DEF LeavesLoopsAlone
  <2> QED BY <2>1 DEF IInv, AdoptsIntoEmptySlots, LeavesLoopsAlone
<1>3. ClearsFromTheFront'
  BY DEF IInv, ClearsFromTheFront, LeavesLoopsAlone
<1>4. LoadsIntoEmptySlots'
  BY DEF IInv, LoadsIntoEmptySlots, LeavesLoopsAlone, Attributes, IsArray
<1> QED BY <1>1, <1>2, <1>3, <1>4

-----------------------------------------------------------------------------
(* refInc() and refDec() give life to nothing. *)
LEMMA StatusKept ==
  ASSUME NEW h \in HeapType, NEW x \in Objs0, NEW o \in Objects
  PROVE  /\ RefInc(h, x)[o].st = h[o].st
         /\ RefDec(h, x)[o].st = "live" => h[o].st = "live"
         /\ RefDec(h, x)[o].st = "unborn" => h[o].st = "unborn"
         /\ RefInc(h, x) \in HeapType
<1>1. CASE x = NoObj
  BY <1>1 DEF RefInc, RefDec
<1>2. CASE x # NoObj
  BY <1>2 DEF RefInc, RefDec, HeapType, Objs0
<1> QED BY <1>1, <1>2

NothingBorn ==
    \A o \in Objects : /\ obj'[o].st = "live" => obj[o].st = "live"
                       /\ obj'[o].st = "unborn" => obj[o].st = "unborn"

(* The slots of a live object change, but not its handle and its device. *)
LEMMA LiveOwner ==
  ASSUME IInv, NothingBorn, NEW s \in Slots, Live(Owner(s)),
         Kind(s) \notin {"handle", "device"},
         \A t \in Slots \ {s} : held'[t] = held[t],
         Kind(s) = "param" => held'[s] \in Datas \cup {NoObj}
  PROVE  UnbornOwnNothing' /\ HandlesAreOwn' /\ ParamsAreData' /\ DevicesAreSet'
<1>1. SameBut({Kind(s)})
  BY DEF SameBut
<1>2. UnbornOwnNothing'
  BY Owners DEF UnbornOwnNothing, IInv, NothingBorn, Live
<1>3. HandlesAreOwn'
  BY <1>1, Frame DEF HandlesAreOwn, IInv
<1>4. ParamsAreData'
  BY SlotsOfTheClasses, Kinds DEF ParamsAreData, IInv
<1>5. DevicesAreSet'
  <2>1. \A o \in Objects : held'[DevicePtr(o)] = held[DevicePtr(o)]
    BY <1>1, Frame
  <2>2. \A o \in Objects \ Devices : Live(o)' => held'[DevicePtr(o)] \in Devices
    BY <2>1 DEF DevicesAreSet, IInv, NothingBorn, Live
  <2>3. ASSUME NEW t \in Slots, Owner(t) \notin Devices, held'[t] # NoObj
        PROVE  held'[DevicePtr(Owner(t))] \in Devices
    BY <2>1, <2>3, Owners DEF DevicesAreSet, IInv
  <2> QED BY <2>2, <2>3 DEF DevicesAreSet
<1> QED BY <1>2, <1>3, <1>4, <1>5

(* A slot is cleared; the device goes last, and from a dead object only. *)
LEMMA SlotCleared ==
  ASSUME IInv, NothingBorn, NEW s \in Slots,
         \A t \in Slots \ {s} : held'[t] = held[t],
         held'[s] = NoObj,
         Kind(s) = "device" =>
            /\ s = DevicePtr(Owner(s)) /\ ~Live(Owner(s))
            /\ \A t \in SlotsOf(Owner(s)) \ {s} : held[t] = NoObj
  PROVE  UnbornOwnNothing' /\ HandlesAreOwn' /\ ParamsAreData' /\ DevicesAreSet'
<1>1. UnbornOwnNothing'
  BY Owners DEF UnbornOwnNothing, IInv, NothingBorn, Live
<1>2. HandlesAreOwn'
  BY SlotsOfTheClasses DEF HandlesAreOwn, IInv
<1>3. ParamsAreData'
  BY SlotsOfTheClasses DEF ParamsAreData, IInv
<1>4. DevicesAreSet'
  <2>1. ASSUME NEW o \in Objects \ Devices, Live(o)'
        PROVE  held'[DevicePtr(o)] \in Devices
    <3>1. Live(o) /\ held[DevicePtr(o)] \in Devices
      BY <2>1 DEF NothingBorn, Live, IInv, DevicesAreSet
    <3>2. DevicePtr(o) # s
      BY <3>1, Kinds
    <3> QED BY <3>1, <3>2, SlotsOfTheClasses
  <2>2. ASSUME NEW t \in Slots, Owner(t) \notin Devices, held'[t] # NoObj
        PROVE  held'[DevicePtr(Owner(t))] \in Devices
    <3>1. held[t] # NoObj /\ held[DevicePtr(Owner(t))] \in Devices /\ t # s
      BY <2>2 DEF IInv, DevicesAreSet
    <3>2. DevicePtr(Owner(t)) # s
      BY <3>1, Kinds DEF SlotsOf
    <3> QED BY <3>1, <3>2, SlotsOfTheClasses, Owners
  <2> QED BY <2>1, <2>2 DEF DevicesAreSet
<1> QED BY <1>1, <1>2, <1>3, <1>4

(* An object is born on a device. *)
LEMMA NewObject ==
  ASSUME IInv, NEW x \in Objects \ Devices, obj[x].st = "unborn",
         obj'[x].st = "live",
         \A o \in Objects \ {x} : /\ obj'[o].st = "live" => obj[o].st = "live"
                                  /\ obj'[o].st = "unborn" => obj[o].st = "unborn",
         held'[DevicePtr(x)] \in Devices, held'[Handle(x)] \in {x, NoObj},
         \A s \in Slots :
            IF Owner(s) = x
            THEN Kind(s) \in {"handle", "device", "target"} \/ held'[s] = held[s]
            ELSE held'[s] = held[s] \/ (Kind(s) = "background" /\ Live(Owner(s)))
  PROVE  /\ UnbornOwnNothing' /\ HandlesAreOwn' /\ ParamsAreData' /\ DevicesAreSet'
         /\ LeavesLoopsAlone
<1>0. SameBut({"handle", "device", "target", "background"})
  BY DEF SameBut
<1>1. UnbornOwnNothing'
  BY Owners DEF UnbornOwnNothing, IInv, Live
<1>2. \A o \in Objects \ {x} : /\ held'[Handle(o)] = held[Handle(o)]
                               /\ held'[DevicePtr(o)] = held[DevicePtr(o)]
  BY SlotsOfTheClasses, Kinds
<1>3. HandlesAreOwn'
  BY <1>2 DEF HandlesAreOwn, IInv
<1>4. ParamsAreData'
  BY <1>0, Frame DEF ParamsAreData, IInv
<1>5. DevicesAreSet'
  <2>1. \A o \in Objects \ Devices : Live(o)' => held'[DevicePtr(o)] \in Devices
    BY <1>2 DEF DevicesAreSet, IInv, Live
  <2>2. ASSUME NEW t \in Slots, Owner(t) \notin Devices, held'[t] # NoObj
        PROVE  held'[DevicePtr(Owner(t))] \in Devices
    <3>1. CASE Owner(t) = x
      BY <3>1
    <3>2. CASE Owner(t) # x
      BY <1>2, <2>2, <3>2, Owners DEF DevicesAreSet, IInv
    <3> QED BY <3>1, <3>2
  <2> QED BY <2>1, <2>2 DEF DevicesAreSet
<1>6. LeavesLoopsAlone
  <2>1. ASSUME NEW o \in Objects, held[Handle(o)] = o
        PROVE  held'[Handle(o)] = o
    <3>1. o # x
      BY <2>1, SlotsOfTheClasses, Kinds, ConstantAssumption DEF IInv, UnbornOwnNothing
    <3> QED BY <2>1, <3>1, <1>2
  <2>2. /\ \A d \in Datas, i \in Items : held'[Item(d, i)] = held[Item(d, i)]
        /\ \A v \in Volumes, i \in Items : held'[Attr(v, i)] = held[Attr(v, i)]
        /\ \A v \in Volumes, p \in ParamNames : held'[Param(v, p)] = held[Param(v, p)]
    BY <1>0, Frame
  <2>3. "data" \in ParamNames
    BY ConstantAssumption
  <2> QED BY <2>1, <2>2, <2>3 DEF LeavesLoopsAlone
<1> QED BY <1>1, <1>3, <1>4, <1>5, <1>6

-----------------------------------------------------------------------------
(* vklNewDevice keeps the invariant. *)
LEMMA NewDeviceStep ==
  ASSUME IInv, NEW d \in Devices, NewDevice(d)
  PROVE  IInv'
<1>0. /\ d \in Objects /\ d \in Objs0 /\ d # NoObj
      /\ Handle(d) \in Slots /\ held[Handle(d)] = NoObj
      /\ lost \in [Objects -> Nat] /\ held \in [Slots -> Objs0] /\ obj \in HeapType
  BY SlotsOfTheClasses, Kinds, ConstantAssumption
     DEF NewDevice, IInv, UnbornOwnNothing, Consistent, Objects, Objs0
<1>1. Consistent(obj, held, lost)'
  <2>1. Consistent(Born(obj, d), held, Take(lost, d))
    BY <1>0, Birth DEF NewDevice, IInv
  <2>2. Consistent(Born(obj, d), [held EXCEPT ![Handle(d)] = d], lost)
    BY <1>0, <2>1, Store
  <2> QED BY <2>2 DEF NewDevice
<1>2. PlainTypeOK'
  BY DEF PlainTypeOK, NewDevice, IInv
<1>3. /\ obj'[d].st = "live" /\ \A o \in Objects \ {d} : obj'[o] = obj[o]
      /\ held'[Handle(d)] = d /\ \A s \in Slots \ {Handle(d)} : held'[s] = held[s]
  BY <1>0 DEF NewDevice, Born, HeapType
<1>4. /\ \A o \in Objects \ {d} : held'[Handle(o)] = held[Handle(o)]
      /\ SameBut({"handle"})
  <2>1. ASSUME NEW o \in Objects \ {d}
        PROVE  held'[Handle(o)] = held[Handle(o)]
    <3>1. Handle(o) # Handle(d)
      BY Kinds
    <3> QED BY <3>1, <1>3, SlotsOfTheClasses
  <2>2. SameBut({"handle"})
    BY <1>3, Kinds DEF SameBut
  <2> QED BY <2>1, <2>2
<1>5. LeavesLoopsAlone
  BY <1>3, <1>4, Frame, ConstantAssumption DEF LeavesLoopsAlone
<1>6. UnbornOwnNothing'
  BY <1>0, <1>3, Owners, Kinds DEF UnbornOwnNothing, IInv
<1>7. HandlesAreOwn' /\ ParamsAreData'
  BY <1>3, <1>4, Frame DEF HandlesAreOwn, ParamsAreData, IInv
<1>8. DevicesAreSet'
  <2>1. \A o \in Objects : held'[DevicePtr(o)] = held[DevicePtr(o)]
    BY <1>4, Frame
  <2>2. \A s \in Slots : Owner(s) \notin Devices => held'[s] = held[s]
    BY <1>3, Kinds
  <2> QED BY <1>3, <2>1, <2>2, Owners DEF DevicesAreSet, IInv, Live
<1>9. UNCHANGED <<items, pc, idx>>
  BY DEF NewDevice
<1> QED BY <1>1, <1>2, <1>5, <1>6, <1>7, <1>8, <1>9, LoopsLeftAlone DEF IInv

-----------------------------------------------------------------------------
(* The types of the variables and of the null pointer, in the form the steps use. *)
LEMMA Plain ==
  ASSUME IInv
  PROVE  /\ held \in [Slots -> Objs0] /\ obj \in HeapType /\ lost \in [Objects -> Nat]
         /\ NoObj \notin Objects /\ Objects \subseteq Objs0 /\ NoObj \in Objs0
BY ConstantAssumption DEF IInv, Consistent, Objs0

(* The application's and a caller's objects are alive. *)
LEMMA UsedIsLive ==
  ASSUME IInv, NEW o \in Objects, held[Handle(o)] = o
  PROVE  Live(o)
BY Plain, SlotsOfTheClasses, HeldIsLive DEF IInv, Live

(* vklCommitDevice keeps the invariant. *)
LEMMA CommitDeviceStep ==
  ASSUME IInv, NEW d \in Devices, CommitDevice(d)
  PROVE  IInv'
<1>1. PlainTypeOK'
  BY DEF IInv, PlainTypeOK, CommitDevice
<1>2. LeavesLoopsAlone
  BY DEF LeavesLoopsAlone, CommitDevice
<1>3. UNCHANGED <<obj, held, lost, items, pc, idx>>
  BY DEF CommitDevice
<1>4. UnbornOwnNothing' /\ HandlesAreOwn' /\ ParamsAreData' /\ DevicesAreSet'
  BY <1>3 DEF IInv, UnbornOwnNothing, HandlesAreOwn, ParamsAreData, DevicesAreSet, Live
<1> QED BY <1>1, <1>2, <1>3, <1>4, LoopsLeftAlone DEF IInv

(***************************************************************************)
(* The objects created on a device: what NewData, NewVolume and            *)
(* NewDataArray share.                                                     *)
(***************************************************************************)
LEMMA NewOnDeviceStep ==
  ASSUME IInv, NEW x \in Datas \cup Volumes, NEW d \in Devices, NewOnDevice(x, d),
         UNCHANGED lost
  PROVE  /\ Consistent(obj, held, lost)'
         /\ UnbornOwnNothing' /\ HandlesAreOwn' /\ ParamsAreData' /\ DevicesAreSet'
         /\ LeavesLoopsAlone
         /\ held'[Handle(x)] = x
<1>0. /\ x \in Objects \ Devices /\ x # d /\ d \in Objects /\ Live(d)
      /\ Handle(x) \in Slots /\ held[Handle(x)] = NoObj
      /\ DevicePtr(x) \in Slots /\ held[DevicePtr(x)] = NoObj
      /\ Handle(x) # DevicePtr(x)
  <2>1. x \in Objects /\ d \in Objects
    BY DEF Objects
  <2>2. Live(d)
    BY <2>1, UsedIsLive DEF NewOnDevice, AppMayUse
  <2>3. x \notin Devices
    BY <2>1, ConstantAssumption DEF Objects
  <2> QED BY <2>1, <2>2, <2>3, SlotsOfTheClasses, Kinds
          DEF NewOnDevice, Live, IInv, UnbornOwnNothing
<1>1. Consistent(obj, held, lost)'
  <2> DEFINE h1 == Born(obj, x)  h2 == RefInc(h1, d)
             H1 == [held EXCEPT ![Handle(x)] = x]
             H2 == [H1 EXCEPT ![DevicePtr(x)] = d]
  <2>1. Consistent(h1, held, Take(lost, x))
    BY <1>0, Birth DEF NewOnDevice, IInv
  <2>2. Consistent(h1, H1, lost)
    BY <1>0, <2>1, Store, Plain
  <2>3. h1[d].st = "live"
    BY <1>0, Plain DEF Born, Live, HeapType
  <2>4. H1[DevicePtr(x)] = NoObj
    BY <1>0, Plain
  <2>5. obj' = h2 /\ held' = H2
    BY <1>0, Plain DEF NewOnDevice, BornOn
  <2> HIDE DEF h1, H1
  <2>6. Consistent(h2, H1, Take(lost, d))
    BY <1>0, <2>2, <2>3, Inc, Plain
  <2>7. Consistent(h2, H2, lost)
    BY <1>0, <2>4, <2>6, Store, Plain
  <2> QED BY <2>5, <2>7
<1>2. obj'[x].st = "live" /\ \A o \in Objects \ {x} : obj'[o].st = obj[o].st
  <2>1. Born(obj, x) \in HeapType /\ Born(obj, x)[x].st = "live"
        /\ \A o \in Objects \ {x} : Born(obj, x)[o].st = obj[o].st
    BY <1>0, Plain DEF Born, HeapType
  <2> QED BY <1>0, <2>1, StatusKept, Plain DEF NewOnDevice, BornOn
<1>3. held'[Handle(x)] = x /\ held'[DevicePtr(x)] = d
  BY <1>0, Plain DEF NewOnDevice
<1>4. \A s \in Slots \ {Handle(x), DevicePtr(x)} : held'[s] = held[s]
  BY <1>0, Plain DEF NewOnDevice
<1>5. obj[x].st = "unborn"
  BY DEF NewOnDevice
<1>6. \A s \in Slots : IF Owner(s) = x
                     THEN Kind(s) \in {"handle", "device", "target"} \/ held'[s] = held[s]
                     ELSE held'[s] = held[s]
  BY <1>4, Kinds
<1>7. /\ UnbornOwnNothing' /\ HandlesAreOwn' /\ ParamsAreData' /\ DevicesAreSet'
      /\ LeavesLoopsAlone
  BY <1>0, <1>2, <1>3, <1>5, <1>6, NewObject
<1> QED BY <1>1, <1>3, <1>7

(* vklNewData of scalars keeps the invariant. *)
LEMMA NewDataStep ==
  ASSUME IInv, NEW x \in Datas, NEW d \in Devices, NewData(x, d)
  PROVE  IInv'
<1>1. UNCHANGED <<items, flags, pc, idx, committed, lost, useAfterFree>>
  BY DEF NewData
<1>2. PlainTypeOK'
  BY <1>1 DEF IInv, PlainTypeOK
<1> QED BY <1>1, <1>2, NewOnDeviceStep, LoopsLeftAlone DEF IInv, NewData

(* vklNewVolume keeps the invariant. *)
LEMMA NewVolumeStep ==
  ASSUME IInv, NEW x \in Volumes, NEW d \in Devices, NewVolume(x, d)
  PROVE  IInv'
<1>1. UNCHANGED <<items, flags, pc, idx, committed, lost, useAfterFree>>
  BY DEF NewVolume
<1>2. PlainTypeOK'
  BY <1>1 DEF IInv, PlainTypeOK
<1> QED BY <1>1, <1>2, NewOnDeviceStep, LoopsLeftAlone DEF IInv, NewVolume

(* vklNewData of handles keeps the invariant: the array starts with empty slots. *)
LEMMA NewDataArrayStep ==
  ASSUME IInv, NEW x \in Datas, NEW d \in Devices, NEW src \in HandleSeqs,
         NEW f \in HandleArrayFlags, NewDataArray(x, d, src, f)
  PROVE  IInv'
<1>0. /\ items' = [items EXCEPT ![x] = src]
      /\ pc' = [pc EXCEPT ![x] = "adoptChildren"]
      /\ idx' = [idx EXCEPT ![x] = 1]
      /\ NewOnDevice(x, d) /\ UNCHANGED lost
      /\ obj[x].st = "unborn" /\ x \in Objects
  BY DEF NewDataArray, NewOnDevice, Objects
<1>1. /\ Consistent(obj, held, lost)'
      /\ UnbornOwnNothing' /\ HandlesAreOwn' /\ ParamsAreData' /\ DevicesAreSet'
      /\ LeavesLoopsAlone
      /\ held'[Handle(x)] = x
  BY <1>0, NewOnDeviceStep
<1>2. src \in Seq(Datas) /\ Len(src) \in Items
  BY ConstantAssumption DEF HandleSeqs, Items
<1>3. PlainTypeOK'
  BY <1>0, <1>2, ConstantAssumption
     DEF IInv, PlainTypeOK, NewDataArray, Loops, Items
<1>4. items \in [Datas -> Seq(Datas)] /\ pc \in [Objects -> Loops] /\ idx \in [Objects -> Items]
  BY DEF IInv, PlainTypeOK
<1>5. \A o \in Objects : held[Handle(o)] = o /\ o # x => held'[Handle(o)] = o
  <2> SUFFICES ASSUME NEW o \in Objects, held[Handle(o)] = o, o # x
               PROVE  held'[Handle(o)] = o
    OBVIOUS
  <2>1. Handle(o) # Handle(x) /\ Handle(o) # DevicePtr(x)
    BY Kinds
  <2> QED BY <1>0, <2>1, Plain, SlotsOfTheClasses DEF NewOnDevice
<1>6. CallersHoldHandles'
  BY <1>0, <1>1, <1>4, <1>5 DEF CallersHoldHandles, IInv
<1>7. ArraysAreShort'
  BY <1>0, <1>2, <1>4 DEF ArraysAreShort, IInv, Items
<1>8. AdoptsIntoEmptySlots'
  <2> SUFFICES ASSUME NEW e \in Datas, pc'[e] = "adoptChildren"
               PROVE  /\ idx'[e] <= Len(items'[e])
                      /\ \A i \in Items : i >= idx'[e] => held'[Item(e, i)] = NoObj
                      /\ \A i \in 1 .. Len(items'[e]) :
                            held'[Handle(items'[e][i])] = items'[e][i]
    BY DEF AdoptsIntoEmptySlots
  <2>1. CASE e = x
    <3>1. items'[e] = src /\ idx'[e] = 1
      BY <1>0, <1>4, <2>1
    <3>2. \A i \in Items : held'[Item(e, i)] = NoObj
      <4>1. \A i \in Items : held[Item(e, i)] = NoObj
        BY <1>0, <2>1, SlotsOfTheClasses, Kinds DEF IInv, UnbornOwnNothing
      <4> QED BY <1>1, <4>1 DEF LeavesLoopsAlone
    <3>3. ASSUME NEW i \in 1 .. Len(src)
          PROVE  held'[Handle(src[i])] = src[i]
      <4>1. src[i] \in Objects /\ held[Handle(src[i])] = src[i]
        BY <1>2 DEF NewDataArray, AppMayUse, Objects
      <4>2. Live(src[i])
        BY <4>1, UsedIsLive
      <4> QED BY <1>0, <1>5, <4>1, <4>2 DEF Live
    <3> QED BY <1>2, <3>1, <3>2, <3>3 DEF Items
  <2>2. CASE e # x
    <3>1. pc[e] = "adoptChildren" /\ items'[e] = items[e] /\ idx'[e] = idx[e]
      BY <1>0, <1>4, <2>2 DEF Objects
    <3>2. \A i \in Items : i >= idx[e] => held'[Item(e, i)] = NoObj
      BY <1>1, <3>1 DEF LeavesLoopsAlone, IInv, AdoptsIntoEmptySlots
    <3>3. ASSUME NEW i \in 1 .. Len(items[e])
          PROVE  held'[Handle(items[e][i])] = items[e][i]
      <4>1. items[e][i] \in Objects /\ held[Handle(items[e][i])] = items[e][i]
        BY <1>4, <3>1 DEF IInv, AdoptsIntoEmptySlots, Objects
      <4>2. Live(items[e][i])
        BY <4>1, UsedIsLive
      <4> QED BY <1>0, <1>5, <4>1, <4>2 DEF Live
    <3> QED BY <3>1, <3>2, <3>3 DEF IInv, AdoptsIntoEmptySlots
  <2> QED BY <2>1, <2>2
<1>9. ClearsFromTheFront'
  <2>1. \A v \in Volumes : pc'[v] = pc[v] /\ idx'[v] = idx[v]
    BY <1>0, <1>4, ConstantAssumption DEF Objects
  <2> QED BY <1>1, <2>1 DEF ClearsFromTheFront, LeavesLoopsAlone, IInv
<1>10. LoadsIntoEmptySlots'
  <2> SUFFICES ASSUME NEW v \in Volumes, pc'[v] = "loadAttributes"
               PROVE  /\ \A i \in Items : i >= idx'[v] => held'[Attr(v, i)] = NoObj
                      /\ held'[Param(v, "data")] # NoObj =>
                            idx'[v] <= Len(Attributes(held[Param(v, "data")])')
    BY DEF LoadsIntoEmptySlots
  <2>1. pc[v] = "loadAttributes" /\ idx'[v] = idx[v]
    BY <1>0, <1>4, ConstantAssumption DEF Objects
  <2>2. ASSUME held'[Param(v, "data")] # NoObj
        PROVE  idx[v] <= Len(Attributes(held[Param(v, "data")])')
    <3> DEFINE y == held[Param(v, "data")]
    <3>1. held'[Param(v, "data")] = y /\ y # NoObj
      BY <1>1, <2>1, <2>2 DEF LeavesLoopsAlone
    <3>2. Param(v, "data") \in Slots /\ y \in Datas
      BY <3>1, SlotsOfTheClasses, ConstantAssumption DEF IInv, ParamsAreData
    <3>3. obj[y].st = "live"
      BY <3>1, <3>2, HeldIsLive, Plain DEF IInv
    <3>4. items'[y] = items[y]
      BY <1>0, <1>4, <3>2, <3>3
    <3>5. idx[v] <= Len(Attributes(y))
      BY <2>1, <3>1 DEF IInv, LoadsIntoEmptySlots
    <3> QED BY <3>1, <3>4, <3>5 DEF Attributes, IsArray
  <2> QED BY <1>1, <2>1, <2>2 DEF LeavesLoopsAlone, IInv, LoadsIntoEmptySlots
<1> QED BY <1>1, <1>3, <1>6, <1>7, <1>8, <1>9, <1>10 DEF IInv

(* A step that fills no slot, and one that only changes reference counts. *)
LEMMA NothingBornByDec ==
  ASSUME IInv, NEW x \in Objs0, obj' = RefDec(obj, x)
  PROVE  NothingBorn
BY StatusKept, Plain DEF NothingBorn

(* vklRelease keeps the invariant: the count drops with the handle. *)
LEMMA ReleaseStep ==
  ASSUME IInv, NEW o \in Objects, Release(o)
  PROVE  IInv'
<1>0. /\ Handle(o) \in Slots /\ held[Handle(o)] = o /\ pc[o] = "idle"
      /\ ~InUseByConstructor(o)
      /\ obj' = RefDec(obj, o) /\ held' = [held EXCEPT ![Handle(o)] = NoObj]
      /\ UNCHANGED <<items, flags, pc, idx, committed, lost, useAfterFree>>
  BY SlotsOfTheClasses DEF Release, AppMayUse
<1>1. Consistent(obj, held, lost)'
  BY <1>0, Drop, Plain DEF IInv
<1>2. PlainTypeOK'
  BY <1>0 DEF IInv, PlainTypeOK
<1>3. NothingBorn
  BY <1>0, NothingBornByDec, Plain
<1>4. held'[Handle(o)] = NoObj /\ \A t \in Slots \ {Handle(o)} : held'[t] = held[t]
  BY <1>0, Plain
<1>5. UnbornOwnNothing' /\ HandlesAreOwn' /\ ParamsAreData' /\ DevicesAreSet'
  BY <1>0, <1>3, <1>4, Kinds, SlotCleared
<1>6. LeavesLoopsAlone
  <2>1. SameBut({"handle"})
    BY <1>4, Kinds DEF SameBut
  <2>2. ASSUME NEW q \in Objects, q # o
        PROVE  held'[Handle(q)] = held[Handle(q)]
    <3>1. Handle(q) # Handle(o)
      BY <2>2, Kinds
    <3> QED BY <1>4, <3>1, SlotsOfTheClasses
  <2>3. "data" \in ParamNames
    BY ConstantAssumption
  <2> QED BY <1>0, <2>1, <2>2, <2>3, Frame DEF LeavesLoopsAlone
<1> QED BY <1>0, <1>1, <1>2, <1>5, <1>6, LoopsLeftAlone DEF IInv

(* vklSetData keeps the invariant: the old value is released after the new one
   is counted. *)
LEMMA SetObjectParamStep ==
  ASSUME IInv, NEW v \in Volumes, NEW p \in ParamNames, NEW x \in Datas \cup {NoObj},
         SetObjectParam(v, p, x)
  PROVE  IInv'
<1> DEFINE s == Param(v, p)
<1>0. /\ s \in Slots /\ v \in Objects /\ x \in Objs0
      /\ obj' = Reassign(obj, held[s], x) /\ held' = [held EXCEPT ![s] = x]
      /\ pc[v] = "idle" /\ held[Handle(v)] = v
      /\ UNCHANGED <<items, flags, pc, idx, committed, lost, useAfterFree>>
  BY SlotsOfTheClasses DEF SetObjectParam, AppMayUse, Objs0, Objects
<1>1. x # NoObj => obj[x].st = "live"
  BY UsedIsLive DEF SetObjectParam, AppMayUse, Live, Objects
<1>2. Consistent(obj, held, lost)'
  BY <1>0, <1>1, Assign, Plain DEF IInv
<1>3. PlainTypeOK'
  BY <1>0 DEF IInv, PlainTypeOK
<1>4. NothingBorn
  <2>1. held[s] \in Objs0
    BY <1>0, Plain
  <2>2. RefInc(obj, x) \in HeapType
        /\ \A o \in Objects : RefInc(obj, x)[o].st = obj[o].st
    BY <1>0, StatusKept, Plain
  <2>3. obj' = RefDec(RefInc(obj, x), held[s])
    BY <1>0 DEF Reassign
  <2> HIDE DEF s
  <2> QED BY <2>1, <2>2, <2>3, StatusKept DEF NothingBorn
<1>5. held'[s] = x /\ \A t \in Slots \ {s} : held'[t] = held[t]
  BY <1>0, Plain
<1>6. Kind(s) = "param" /\ Owner(s) = v /\ Live(Owner(s))
  BY <1>0, Kinds, UsedIsLive
<1>7. UnbornOwnNothing' /\ HandlesAreOwn' /\ ParamsAreData' /\ DevicesAreSet'
  BY <1>0, <1>4, <1>5, <1>6, LiveOwner
<1>8. LeavesLoopsAlone
  <2>1. SameBut({"param"})
    BY <1>5, <1>6 DEF SameBut
  <2>2. ASSUME NEW w \in Volumes, pc[w] # "idle"
        PROVE  held'[Param(w, "data")] = held[Param(w, "data")]
    <3>1. w # v
      BY <1>0, <2>2
    <3>2. Param(w, "data") # s
      BY <1>6, <3>1, Kinds
    <3> QED BY <1>5, <3>2, SlotsOfTheClasses, ConstantAssumption
  <2> QED BY <2>1, <2>2, Frame DEF LeavesLoopsAlone
<1> QED BY <1>0, <1>2, <1>3, <1>7, <1>8, LoopsLeftAlone DEF IInv

(* The lost reference stays in hand, for ever. *)
LEMMA SetScalarParamStep ==
  ASSUME IInv, NEW v \in Volumes, NEW p \in ParamNames, SetScalarParam(v, p)
  PROVE  IInv'
<1> DEFINE s == Param(v, p)
<1>0. /\ s \in Slots /\ v \in Objects /\ held[s] # NoObj
      /\ obj' = obj /\ held' = [held EXCEPT ![s] = NoObj]
      /\ lost' = [lost EXCEPT ![held[s]] = @ + 1]
      /\ pc[v] = "idle" /\ held[Handle(v)] = v
      /\ UNCHANGED <<items, flags, pc, idx, committed, useAfterFree>>
  BY SlotsOfTheClasses DEF SetScalarParam, AppMayUse, Objects
<1>1. lost' = Take(lost, held[s])
  BY <1>0 DEF Take
<1>2. Consistent(obj, held, lost)'
  <2>1. Consistent(obj, [held EXCEPT ![s] = NoObj], Take(lost, held[s]))
    BY <1>0, Clear DEF IInv
  <2> QED BY <1>0, <1>1, <2>1
<1>3. PlainTypeOK'
  BY <1>0 DEF IInv, PlainTypeOK
<1>4. NothingBorn
  BY <1>0 DEF NothingBorn
<1>5. held'[s] = NoObj /\ \A t \in Slots \ {s} : held'[t] = held[t]
  BY <1>0, Plain
<1>6. Kind(s) = "param"
  BY Kinds
<1>7. UnbornOwnNothing' /\ HandlesAreOwn' /\ ParamsAreData' /\ DevicesAreSet'
  BY <1>0, <1>4, <1>5, <1>6, SlotCleared
<1>8. LeavesLoopsAlone
  <2>1. SameBut({"param"})
    BY <1>5, <1>6 DEF SameBut
  <2>2. \A w \in Volumes : held'[Param(w, "data")] \in {held[Param(w, "data")], NoObj}
    BY <1>5, SlotsOfTheClasses, ConstantAssumption
  <2> QED BY <2>1, <2>2, Frame DEF LeavesLoopsAlone
<1> QED BY <1>0, <1>2, <1>3, <1>7, <1>8, LoopsLeftAlone DEF IInv

(* One release of a destructor keeps the invariant. *)
LEMMA DestructorDropsStep ==
  ASSUME IInv, NEW s \in Slots, DestructorDrops(s)
  PROVE  IInv'
<1>0. /\ obj[Owner(s)].st = "dead" /\ held[s] # NoObj /\ Owner(s) \in Objects
      /\ obj' = RefDec(obj, held[s]) /\ held' = [held EXCEPT ![s] = NoObj]
      /\ UNCHANGED <<items, flags, pc, idx, committed, lost, useAfterFree>>
  BY Owners DEF DestructorDrops
<1>1. Consistent(obj, held, lost)'
  BY <1>0, Drop, Plain DEF IInv
<1>2. PlainTypeOK'
  BY <1>0 DEF IInv, PlainTypeOK
<1>3. NothingBorn
  <2>1. held[s] \in Objs0
    BY Plain
  <2> QED BY <1>0, <2>1, NothingBornByDec
<1>4. held'[s] = NoObj /\ \A t \in Slots \ {s} : held'[t] = held[t]
  BY <1>0, Plain
<1>5. UnbornOwnNothing' /\ HandlesAreOwn' /\ ParamsAreData' /\ DevicesAreSet'
  <2>1. Kind(s) = "device" => s = DevicePtr(Owner(s))
    BY DEF Slots, Kind, Owner, Handle, DevicePtr, Target, Param, Item, Attr, Backgr
  <2>2. Kind(s) = "device" => \A t \in SlotsOf(Owner(s)) \ {s} : held[t] = NoObj
    BY <2>1 DEF DestructorDrops, InDestructionOrder
  <2>3. ~Live(Owner(s))
    BY <1>0 DEF Live
  <2> QED BY <1>3, <1>4, <2>1, <2>2, <2>3, SlotCleared
<1>6. LeavesLoopsAlone
  <2>1. \A t \in Slots : held'[t] \in {held[t], NoObj}
    BY <1>4
  <2>2. ASSUME NEW o \in Objects, held[Handle(o)] = o
        PROVE  held'[Handle(o)] = o
    <3>1. Live(o)
      BY <2>2, UsedIsLive
    <3>2. Handle(o) # s
      BY <1>0, <3>1, Kinds DEF Live
    <3> QED BY <1>4, <2>2, <3>2, SlotsOfTheClasses
  <2> QED BY <2>1, <2>2, SlotsOfTheClasses, ConstantAssumption DEF LeavesLoopsAlone
<1> QED BY <1>0, <1>1, <1>2, <1>5, <1>6, LoopsLeftAlone DEF IInv

(* Creating a sampler, a context or an observer keeps the invariant. *)
LEMMA NewDependentStep ==
  ASSUME IInv, NEW x \in Samplers \cup Contexts \cup Observers,
         NEW t \in Volumes \cup Samplers, NewDependent(x, t)
  PROVE  IInv'
<1> DEFINE dev == held[DevicePtr(t)]
           H1  == [held EXCEPT ![Handle(x)] = x]
           H2  == [H1 EXCEPT ![Target(x)] = t]
           H3  == [H2 EXCEPT ![DevicePtr(x)] = dev]
           h1  == Born(obj, x)
           h2  == RefInc(h1, dev)
           h3  == RefInc(h2, t)
<1>0. /\ x \in Objects \ Devices /\ t \in Objects \ Devices
      /\ obj[x].st = "unborn" /\ held[Handle(t)] = t
      /\ obj' = h3
      /\ held' = [held EXCEPT ![Handle(x)] = x, ![Target(x)] = t, ![DevicePtr(x)] = dev]
      /\ UNCHANGED <<items, flags, pc, idx, committed, lost, useAfterFree>>
  BY ConstantAssumption
     DEF NewDependent, AppMayUse, BornFrom, BornOn, Objects
<1>1. /\ Live(t) /\ x # t /\ dev \in Devices /\ dev \in Objects /\ dev # x
      /\ obj[dev].st = "live"
  <2>1. Live(t)
    BY <1>0, UsedIsLive
  <2>2. dev \in Devices
    BY <1>0, <2>1 DEF IInv, DevicesAreSet
  <2>3. dev \in Objects /\ dev # NoObj
    BY <2>2, ConstantAssumption DEF Objects
  <2>4. obj[dev].st = "live"
    BY <1>0, <2>3, HeldIsLive, SlotsOfTheClasses DEF IInv
  <2> QED BY <1>0, <2>1, <2>2, <2>3, <2>4 DEF Live
<1>2. /\ Handle(x) \in Slots /\ Target(x) \in Slots /\ DevicePtr(x) \in Slots
      /\ held[Handle(x)] = NoObj /\ held[Target(x)] = NoObj /\ held[DevicePtr(x)] = NoObj
      /\ Handle(x) # Target(x) /\ Handle(x) # DevicePtr(x) /\ Target(x) # DevicePtr(x)
  BY <1>0, SlotsOfTheClasses, Kinds DEF IInv, UnbornOwnNothing
<1>3. /\ H1 \in [Slots -> Objs0] /\ H1[Target(x)] = NoObj
      /\ H2[DevicePtr(x)] = NoObj /\ held' = H3
  BY <1>0, <1>1, <1>2, Plain
<1>4. h1 \in HeapType /\ h1[x].st = "live" /\ \A o \in Objects \ {x} : h1[o].st = obj[o].st
  BY <1>0, Plain DEF Born, HeapType
<1>5. h2 \in HeapType /\ \A o \in Objects : h2[o].st = h1[o].st
  <2>1. dev \in Objs0 /\ dev \in Objects
    BY <1>1, Plain
  <2> HIDE DEF h1, dev
  <2> QED BY <1>4, <2>1, StatusKept
<1>6. \A o \in Objects : h3[o].st = h1[o].st
  <2>1. t \in Objs0
    BY <1>0, Plain
  <2> HIDE DEF h1, h2
  <2> QED BY <1>5, <2>1, StatusKept
<1>7. Consistent(obj, held, lost)'
  <2>1. Consistent(h1, held, Take(lost, x))
    BY <1>0, Birth DEF IInv
  <2>2. Consistent(h1, H1, lost)
    BY <1>0, <1>2, <2>1, Store, Plain
  <2> HIDE DEF h1, h2, h3, H1, H2, H3, dev
  <2>3. Consistent(h2, H1, Take(lost, dev))
    BY <1>1, <1>4, <2>2, Inc, Plain DEF h2
  <2>4. Consistent(h3, H1, Take(Take(lost, dev), t))
    <3>1. h2[t].st = "live" /\ t \in Objs0
      BY <1>0, <1>1, <1>4, <1>5, Plain DEF Live
    <3> QED BY <2>3, <3>1, Inc DEF h3
  <2>5. Take(lost, dev) \in [Objects -> Nat] /\ t \in Objs0 /\ dev \in Objs0
    BY <1>0, <1>1, InHand, Plain
  <2>6. Consistent(h3, H2, Take(lost, dev))
    BY <1>2, <1>3, <2>4, <2>5, Store DEF H2
  <2>7. Consistent(h3, H3, lost)
    BY <1>2, <1>3, <2>5, <2>6, Store, Plain DEF H3
  <2> QED BY <1>0, <1>3, <2>7
<1>8. PlainTypeOK'
  BY <1>0 DEF IInv, PlainTypeOK
<1>9. held'[Handle(x)] = x /\ held'[DevicePtr(x)] = dev
      /\ \A s \in Slots \ {Handle(x), Target(x), DevicePtr(x)} : held'[s] = held[s]
  BY <1>0, <1>2, Plain
<1>10. \A s \in Slots : IF Owner(s) = x
                      THEN Kind(s) \in {"handle", "device", "target"} \/ held'[s] = held[s]
                      ELSE held'[s] = held[s]
  BY <1>9, Kinds
<1> HIDE DEF h1, h2, h3, H1, H2, H3, dev
<1>11. /\ UnbornOwnNothing' /\ HandlesAreOwn' /\ ParamsAreData' /\ DevicesAreSet'
       /\ LeavesLoopsAlone
  <2>1. obj'[x].st = "live" /\ \A o \in Objects \ {x} : obj'[o].st = obj[o].st
    BY <1>0, <1>4, <1>6
  <2>2. held'[DevicePtr(x)] \in Devices /\ held'[Handle(x)] \in {x, NoObj}
    BY <1>1, <1>9
  <2> QED BY <1>0, <1>10, <2>1, <2>2, NewObject
<1> QED BY <1>0, <1>7, <1>8, <1>11, LoopsLeftAlone DEF IInv

(* One turn of the loop over the children of an array keeps the invariant. *)
LEMMA AdoptChildStep ==
  ASSUME IInv, NEW d \in Datas, AdoptChild(d)
  PROVE  IInv'
<1> DEFINE k == idx[d]
           x == Child(d, k)
           s == Item(d, k)
<1>0. /\ pc[d] = "adoptChildren"
      /\ obj' = RefInc(obj, x) /\ held' = [held EXCEPT ![s] = x]
      /\ IF k = Len(items[d])
         THEN pc' = [pc EXCEPT ![d] = "idle"] /\ idx' = [idx EXCEPT ![d] = 1]
         ELSE idx' = [idx EXCEPT ![d] = k + 1] /\ pc' = pc
      /\ UNCHANGED <<items, flags, committed, lost, useAfterFree>>
  BY DEF AdoptChild
<1>1. /\ d \in Objects /\ k \in Items /\ s \in Slots /\ held[s] = NoObj
      /\ k <= Len(items[d]) /\ items[d] \in Seq(Datas) /\ Len(items[d]) <= MaxItems
      /\ Len(items[d]) \in Nat /\ MaxItems \in Nat
      /\ pc \in [Objects -> Loops] /\ idx \in [Objects -> Items]
  BY <1>0, SlotsOfTheClasses, ConstantAssumption
     DEF IInv, PlainTypeOK, AdoptsIntoEmptySlots, ArraysAreShort, Objects, Items
<1>2. x = NoObj \/ \E i \in 1 .. Len(items[d]) : x = items[d][i]
  <2> DEFINE m == (k + 1) \div 2
  <2>1. k \in 1 .. Len(items[d])
    BY <1>1 DEF Items
  <2>2. m \in 1 .. Len(items[d])
    BY <1>1, <2>1
  <2>3. x \in {NoObj, items[d][m], items[d][k]}
    BY DEF Child
  <2> QED BY <2>1, <2>2, <2>3
<1>3. x \in Objs0 /\ (x # NoObj => obj[x].st = "live")
  <2>1. ASSUME NEW i \in 1 .. Len(items[d])
        PROVE  items[d][i] \in Objects /\ obj[items[d][i]].st = "live"
    <3>1. items[d][i] \in Objects /\ held[Handle(items[d][i])] = items[d][i]
      BY <1>0, <1>1 DEF IInv, AdoptsIntoEmptySlots, Objects
    <3> QED BY <3>1, UsedIsLive DEF Live
  <2> QED BY <1>2, <2>1, Plain
<1> HIDE DEF x
<1>4. Consistent(obj, held, lost)'
  BY <1>0, <1>1, <1>3, Inc, Store, Plain DEF IInv
<1>5. PlainTypeOK'
  <2>1. k # Len(items[d]) => k + 1 \in Items
    BY <1>1 DEF Items
  <2>2. pc' \in [Objects -> Loops] /\ idx' \in [Objects -> Items]
    <3>1. CASE k = Len(items[d])
      BY <1>0, <1>1, <3>1, ConstantAssumption DEF Loops, Items
    <3>2. CASE k # Len(items[d])
      BY <1>0, <1>1, <2>1, <3>2
    <3> QED BY <3>1, <3>2
  <2> QED BY <1>0, <2>2 DEF IInv, PlainTypeOK
<1>6. NothingBorn
  BY <1>0, <1>3, StatusKept, Plain DEF NothingBorn
<1>7. held'[s] = x /\ \A t \in Slots \ {s} : held'[t] = held[t]
  BY <1>0, <1>1, Plain
<1>8. Owner(s) = d /\ Kind(s) = "item" /\ held[Handle(d)] = d
  BY <1>0, <1>1, Kinds DEF IInv, CallersHoldHandles
<1>9. UnbornOwnNothing' /\ HandlesAreOwn' /\ ParamsAreData' /\ DevicesAreSet'
  BY <1>1, <1>6, <1>7, <1>8, UsedIsLive, LiveOwner
<1>10. SameBut({"item"})
  BY <1>7, <1>8 DEF SameBut
<1>11. CallersHoldHandles' /\ ArraysAreShort'
  BY <1>0, <1>1, <1>10, Frame DEF IInv, CallersHoldHandles, ArraysAreShort
<1>12. AdoptsIntoEmptySlots'
  <2> SUFFICES ASSUME NEW e \in Datas, pc'[e] = "adoptChildren"
               PROVE  /\ idx'[e] <= Len(items[e])
                      /\ \A i \in Items : i >= idx'[e] => held'[Item(e, i)] = NoObj
                      /\ \A i \in 1 .. Len(items[e]) :
                            held'[Handle(items[e][i])] = items[e][i]
    BY <1>0 DEF AdoptsIntoEmptySlots
  <2>1. pc[e] = "adoptChildren" /\ e \in Objects
    BY <1>0, <1>1 DEF Objects
  <2>2. ASSUME NEW i \in 1 .. Len(items[e])
        PROVE  held'[Handle(items[e][i])] = items[e][i]
    <3>1. items[e][i] \in Objects
      BY <2>1 DEF IInv, PlainTypeOK, Objects
    <3> QED BY <1>10, <2>1, <3>1, Frame DEF IInv, AdoptsIntoEmptySlots
  <2>3. CASE e = d
    <3>1. k # Len(items[d]) /\ idx'[e] = k + 1
      BY <1>0, <1>1, <2>3
    <3>2. ASSUME NEW i \in Items, i >= k + 1
          PROVE  held'[Item(e, i)] = NoObj
      <4>1. held[Item(e, i)] = NoObj
        BY <1>1, <2>1, <2>3, <3>2 DEF IInv, AdoptsIntoEmptySlots, Items
      <4>2. Item(e, i) # s
        BY <1>1, <3>2 DEF Item, Items
      <4> QED BY <1>7, <4>1, <4>2, SlotsOfTheClasses
    <3>3. k + 1 <= Len(items[e])
      BY <1>1, <2>3, <3>1 DEF Items
    <3> QED BY <2>2, <3>1, <3>2, <3>3
  <2>4. CASE e # d
    <3>1. idx'[e] = idx[e]
      BY <1>0, <1>1, <2>1, <2>4
    <3>2. ASSUME NEW i \in Items, i >= idx[e]
          PROVE  held'[Item(e, i)] = NoObj
      <4>1. Item(e, i) # s
        BY <1>8, <2>4, Kinds
      <4> QED BY <1>7, <2>1, <3>2, <4>1, SlotsOfTheClasses DEF IInv, AdoptsIntoEmptySlots
    <3>3. idx[e] <= Len(items[e])
      BY <2>1 DEF IInv, AdoptsIntoEmptySlots
    <3> QED BY <2>2, <3>1, <3>2, <3>3
  <2> QED BY <2>3, <2>4
<1>13. \A v \in Volumes : pc'[v] = pc[v] /\ idx'[v] = idx[v]
  BY <1>0, <1>1, ConstantAssumption DEF Objects
<1>14. ClearsFromTheFront'
  BY <1>10, <1>13, Frame DEF IInv, ClearsFromTheFront
<1>15. LoadsIntoEmptySlots'
  BY <1>0, <1>10, <1>13, Frame, ConstantAssumption
     DEF IInv, LoadsIntoEmptySlots, Attributes, IsArray
<1> QED BY <1>4, <1>5, <1>9, <1>11, <1>12, <1>14, <1>15 DEF IInv

(* The steps of a commit: v is live, and only its slots and its loop change. *)
LEMMA CommitVolumeStep ==
  ASSUME IInv, NEW v \in Volumes, CommitVolume(v) \/ CommitThrows(v)
  PROVE  IInv'
<1>0. /\ pc' = [pc EXCEPT ![v] = "clearAttributes"] \/ pc' = [pc EXCEPT ![v] = "idle"]
      /\ idx' = [idx EXCEPT ![v] = 1]
      /\ UNCHANGED <<obj, held, items, flags, committed, lost, useAfterFree>>
      /\ held[Handle(v)] = v /\ v \in Objects
  BY DEF CommitVolume, CommitThrows, AppMayUse, IInv, CallersHoldHandles, Objects
<1>1. pc \in [Objects -> Loops] /\ idx \in [Objects -> Items] /\ 1 \in Items
  BY ConstantAssumption DEF IInv, PlainTypeOK, Items
<1>2. /\ pc'[v] \in {"clearAttributes", "idle"} /\ idx'[v] = 1
      /\ \A o \in Objects \ {v} : pc'[o] = pc[o] /\ idx'[o] = idx[o]
  BY <1>0, <1>1
<1>3. PlainTypeOK'
  BY <1>0, <1>1 DEF IInv, PlainTypeOK, Loops
<1>4. CallersHoldHandles' /\ ArraysAreShort'
  BY <1>0, <1>2 DEF IInv, CallersHoldHandles, ArraysAreShort
<1>5. AdoptsIntoEmptySlots'
  BY <1>0, <1>2, ConstantAssumption DEF IInv, AdoptsIntoEmptySlots, Objects
<1>6. ClearsFromTheFront'
  BY <1>0, <1>2 DEF IInv, ClearsFromTheFront, Objects, Items
<1>7. LoadsIntoEmptySlots'
  BY <1>0, <1>2 DEF IInv, LoadsIntoEmptySlots, Attributes, IsArray, Objects
<1>8. UnbornOwnNothing' /\ HandlesAreOwn' /\ ParamsAreData' /\ DevicesAreSet'
  BY <1>0 DEF IInv, UnbornOwnNothing, HandlesAreOwn, ParamsAreData, DevicesAreSet, Live
<1> QED BY <1>0, <1>3, <1>4, <1>5, <1>6, <1>7, <1>8 DEF IInv

(* One release of an old attribute keeps the invariant. *)
LEMMA ClearAttributeStep ==
  ASSUME IInv, NEW v \in Volumes, ClearAttribute(v)
  PROVE  IInv'
<1> DEFINE k == idx[v]
           s == Attr(v, k)
<1>0. /\ pc[v] = "clearAttributes"
      /\ obj' = RefDec(obj, held[s]) /\ held' = [held EXCEPT ![s] = NoObj]
      /\ IF k = MaxItems
         THEN pc' = [pc EXCEPT ![v] = "loadAttributes"] /\ idx' = [idx EXCEPT ![v] = 1]
         ELSE idx' = [idx EXCEPT ![v] = k + 1] /\ pc' = pc
      /\ UNCHANGED <<items, flags, committed, lost, useAfterFree>>
  BY DEF ClearAttribute
<1>1. /\ v \in Objects /\ k \in Items /\ s \in Slots /\ MaxItems \in Nat \ {0}
      /\ pc \in [Objects -> Loops] /\ idx \in [Objects -> Items]
      /\ Owner(s) = v /\ Kind(s) = "attribute"
  BY SlotsOfTheClasses, Kinds, ConstantAssumption DEF IInv, PlainTypeOK, Objects
<1>2. Consistent(obj, held, lost)'
  BY <1>0, <1>1, Drop, Plain DEF IInv
<1>3. NothingBorn
  <2>1. held[s] \in Objs0
    BY <1>1, Plain
  <2> QED BY <1>0, <2>1, NothingBornByDec
<1>4. held'[s] = NoObj /\ \A t \in Slots \ {s} : held'[t] = held[t]
  BY <1>0, <1>1, Plain
<1>5. UnbornOwnNothing' /\ HandlesAreOwn' /\ ParamsAreData' /\ DevicesAreSet'
  BY <1>1, <1>3, <1>4, SlotCleared
<1>6. /\ pc'[v] \in {"clearAttributes", "loadAttributes"}
      /\ pc'[v] = "clearAttributes" => k < MaxItems /\ idx'[v] = k + 1
      /\ pc'[v] = "loadAttributes" => k = MaxItems /\ idx'[v] = 1
      /\ idx' \in [Objects -> Items] /\ pc' \in [Objects -> Loops]
      /\ \A o \in Objects \ {v} : pc'[o] = pc[o] /\ idx'[o] = idx[o]
  <2>1. CASE k = MaxItems
    BY <1>0, <1>1, <2>1 DEF Loops, Items
  <2>2. CASE k # MaxItems
    <3>1. k < MaxItems /\ k + 1 \in Items
      BY <1>1, <2>2 DEF Items
    <3> QED BY <1>0, <1>1, <2>2, <3>1
  <2> QED BY <2>1, <2>2
<1>7. PlainTypeOK'
  BY <1>0, <1>6 DEF IInv, PlainTypeOK
<1>8. SameBut({"attribute"})
  BY <1>1, <1>4 DEF SameBut
<1>9. CallersHoldHandles' /\ ArraysAreShort'
  BY <1>0, <1>1, <1>6, <1>8, Frame DEF IInv, CallersHoldHandles, ArraysAreShort
<1>10. AdoptsIntoEmptySlots'
  <2>1. \A d \in Datas : pc'[d] = pc[d] /\ idx'[d] = idx[d]
    BY <1>6, ConstantAssumption DEF Objects
  <2>2. \A d \in Datas : items'[d] = items[d] /\ items[d] \in Seq(Objects)
    BY <1>0 DEF IInv, PlainTypeOK, Objects
  <2>3. \A o \in Objects : held'[Handle(o)] = held[Handle(o)]
    BY <1>8, Frame
  <2>4. \A d \in Datas, i \in Items : held'[Item(d, i)] = held[Item(d, i)]
    BY <1>8, Frame
  <2> QED BY <2>1, <2>2, <2>3, <2>4 DEF IInv, AdoptsIntoEmptySlots
<1>11. \A w \in Volumes, i \in Items :
           held'[Attr(w, i)] = IF w = v /\ i = k THEN NoObj ELSE held[Attr(w, i)]
  BY <1>1, <1>4, SlotsOfTheClasses DEF Attr
<1>12. ASSUME NEW i \in Items, i <= k
       PROVE  held'[Attr(v, i)] = NoObj
  <2>1. i < k => held[Attr(v, i)] = NoObj
    BY <1>0 DEF IInv, ClearsFromTheFront
  <2> QED BY <1>1, <1>11, <1>12, <2>1 DEF Items
<1>13. ClearsFromTheFront'
  <2> SUFFICES ASSUME NEW w \in Volumes, pc'[w] = "clearAttributes",
                      NEW i \in Items, i < idx'[w]
               PROVE  held'[Attr(w, i)] = NoObj
    BY DEF ClearsFromTheFront
  <2>1. CASE w = v
    BY <1>1, <1>6, <1>12, <2>1 DEF Items
  <2>2. CASE w # v
    BY <1>6, <1>11, <2>2 DEF IInv, ClearsFromTheFront, Objects
  <2> QED BY <2>1, <2>2
<1>14. LoadsIntoEmptySlots'
  <2> SUFFICES ASSUME NEW w \in Volumes, pc'[w] = "loadAttributes"
               PROVE  /\ \A i \in Items : i >= idx'[w] => held'[Attr(w, i)] = NoObj
                      /\ held'[Param(w, "data")] # NoObj =>
                            idx'[w] <= Len(Attributes(held[Param(w, "data")])')
    BY DEF LoadsIntoEmptySlots
  <2>1. held'[Param(w, "data")] = held[Param(w, "data")]
    BY <1>8, Frame, ConstantAssumption
  <2>2. CASE w = v
    <3>1. \A i \in Items : held'[Attr(w, i)] = NoObj
      BY <1>1, <1>6, <1>12, <2>2 DEF Items
    <3>2. ASSUME held'[Param(w, "data")] # NoObj
          PROVE  Len(Attributes(held[Param(w, "data")])') >= 1
      <4> DEFINE y == held[Param(w, "data")]
      <4>1. y \in Datas
        BY <2>1, <3>2, ConstantAssumption DEF IInv, ParamsAreData
      <4>2. items[y] \in Seq(Datas)
        BY <4>1 DEF IInv, PlainTypeOK
      <4>3. items[y] # <<>> => Len(items[y]) >= 1
        BY <4>2
      <4> QED BY <1>0, <2>1, <4>3 DEF Attributes, IsArray
    <3> QED BY <1>6, <2>2, <3>1, <3>2
  <2>3. CASE w # v
    <3>1. w \in Objects /\ pc[w] = "loadAttributes" /\ idx'[w] = idx[w]
      BY <1>6, <2>3 DEF Objects
    <3> QED BY <1>0, <1>11, <2>1, <2>3, <3>1
            DEF IInv, LoadsIntoEmptySlots, Attributes, IsArray
  <2> QED BY <2>2, <2>3
<1> QED BY <1>2, <1>5, <1>7, <1>9, <1>10, <1>13, <1>14 DEF IInv

(* The data an attribute is loaded from: "data" itself, or one of its elements. *)
LEMMA AttributeIsData ==
  ASSUME IInv, NEW v \in Volumes, pc[v] = "loadAttributes",
         NEW y \in Datas, held[Param(v, "data")] = y
  PROVE  /\ Attributes(y) \in Seq(Datas)
         /\ Len(Attributes(y)) \in Items /\ idx[v] \in 1 .. Len(Attributes(y))
         /\ Attributes(y)[idx[v]] \in Datas
<1>1. y # NoObj
  BY ConstantAssumption DEF Objects
<1>2. /\ items[y] \in Seq(Datas) /\ Len(items[y]) <= MaxItems
      /\ idx[v] \in Items /\ MaxItems \in Nat \ {0}
  BY ConstantAssumption DEF IInv, PlainTypeOK, ArraysAreShort, Objects
<1>3. Attributes(y) \in Seq(Datas) /\ Len(Attributes(y)) \in Items
  <2>1. CASE items[y] = <<>>
    BY <1>2, <2>1 DEF Attributes, IsArray, Items
  <2>2. CASE items[y] # <<>>
    BY <1>2, <2>2 DEF Attributes, IsArray, Items
  <2> QED BY <2>1, <2>2
<1>4. idx[v] <= Len(Attributes(y))
  BY <1>1 DEF IInv, LoadsIntoEmptySlots
<1>5. idx[v] \in 1 .. Len(Attributes(y))
  BY <1>2, <1>3, <1>4 DEF Items
<1> QED BY <1>3, <1>5

(* Loading one attribute keeps the invariant. *)
LEMMA LoadAttributeStep ==
  ASSUME IInv, NEW v \in Volumes, LoadAttribute(v)
  PROVE  IInv'
<1> DEFINE k == idx[v]
           s == Attr(v, k)
           y == held[Param(v, "data")]
           x == Attributes(y)[k]
<1>0. /\ pc[v] = "loadAttributes" /\ y # NoObj
      /\ IF Live(x)
         THEN obj' = RefInc(obj, x) /\ held' = [held EXCEPT ![s] = x]
                /\ useAfterFree' = useAfterFree
         ELSE useAfterFree' = TRUE /\ obj' = obj /\ held' = held
      /\ IF k = Len(Attributes(y))
         THEN pc' = [pc EXCEPT ![v] = "loadBackground"] /\ idx' = [idx EXCEPT ![v] = 1]
         ELSE idx' = [idx EXCEPT ![v] = k + 1] /\ pc' = pc
      /\ UNCHANGED <<items, flags, committed, lost>>
  BY DEF LoadAttribute
<1>1. /\ v \in Objects /\ k \in Items /\ s \in Slots /\ MaxItems \in Nat \ {0}
      /\ pc \in [Objects -> Loops] /\ idx \in [Objects -> Items]
      /\ Owner(s) = v /\ Kind(s) = "attribute" /\ held[Handle(v)] = v
      /\ useAfterFree \in BOOLEAN
  BY <1>0, SlotsOfTheClasses, Kinds, ConstantAssumption
     DEF IInv, PlainTypeOK, CallersHoldHandles, Objects
<1>2. /\ x \in Datas /\ x \in Objects /\ k <= Len(Attributes(y))
      /\ Len(Attributes(y)) \in Nat /\ Len(Attributes(y)) <= MaxItems
  <2>1. y \in Datas
    BY <1>0, ConstantAssumption DEF IInv, ParamsAreData
  <2> QED BY <1>0, <1>1, <2>1, AttributeIsData DEF Items, Objects
<1>3. held[s] = NoObj
  BY <1>0, <1>1 DEF IInv, LoadsIntoEmptySlots, Items
<1>4. Consistent(obj, held, lost)'
  <2>1. CASE Live(x)
    <3>1. Consistent(RefInc(obj, x), held, Take(lost, x))
      BY <1>2, <2>1, Inc, Plain DEF IInv, Live
    <3>2. obj' = RefInc(obj, x) /\ held' = [held EXCEPT ![s] = x] /\ lost' = lost
      BY <1>0, <2>1
    <3>3. x \in Objs0
      BY <1>2, Plain
    <3> HIDE DEF x, s
    <3>4. Consistent(RefInc(obj, x), [held EXCEPT ![s] = x], lost)
      BY <1>1, <1>3, <3>1, <3>3, Store, Plain
    <3> QED BY <3>2, <3>4
  <2>2. CASE ~Live(x)
    BY <1>0, <2>2 DEF IInv
  <2> QED BY <2>1, <2>2
<1>5. held'[s] \in {NoObj, x} /\ \A t \in Slots \ {s} : held'[t] = held[t]
  BY <1>0, <1>1, <1>3, Plain
<1>6. NothingBorn
  <2>1. \A o \in Objects : RefInc(obj, x)[o].st = obj[o].st
    BY <1>2, StatusKept, Plain
  <2> QED BY <1>0, <2>1 DEF NothingBorn
<1>7. UnbornOwnNothing' /\ HandlesAreOwn' /\ ParamsAreData' /\ DevicesAreSet'
  BY <1>1, <1>5, <1>6, UsedIsLive, LiveOwner
<1>8. /\ pc'[v] \in {"loadAttributes", "loadBackground"}
      /\ pc'[v] = "loadAttributes" => k + 1 <= Len(Attributes(y)) /\ idx'[v] = k + 1
      /\ idx' \in [Objects -> Items] /\ pc' \in [Objects -> Loops]
      /\ \A o \in Objects \ {v} : pc'[o] = pc[o] /\ idx'[o] = idx[o]
  <2>1. CASE k = Len(Attributes(y))
    BY <1>0, <1>1, <2>1 DEF Loops, Items
  <2>2. CASE k # Len(Attributes(y))
    <3>1. k + 1 <= Len(Attributes(y)) /\ k + 1 \in Items
      BY <1>1, <1>2, <2>2 DEF Items
    <3> QED BY <1>0, <1>1, <2>2, <3>1
  <2> QED BY <2>1, <2>2
<1> HIDE DEF x
<1>9. PlainTypeOK'
  BY <1>0, <1>1, <1>8 DEF IInv, PlainTypeOK
<1>10. SameBut({"attribute"})
  BY <1>1, <1>5 DEF SameBut
<1>11. CallersHoldHandles' /\ ArraysAreShort'
  BY <1>0, <1>1, <1>8, <1>10, Frame DEF IInv, CallersHoldHandles, ArraysAreShort
<1>12. AdoptsIntoEmptySlots'
  <2>1. \A d \in Datas : pc'[d] = pc[d] /\ idx'[d] = idx[d]
    BY <1>8, ConstantAssumption DEF Objects
  <2>2. \A d \in Datas : items'[d] = items[d] /\ items[d] \in Seq(Objects)
    BY <1>0 DEF IInv, PlainTypeOK, Objects
  <2>3. \A o \in Objects : held'[Handle(o)] = held[Handle(o)]
    BY <1>10, Frame
  <2>4. \A d \in Datas, i \in Items : held'[Item(d, i)] = held[Item(d, i)]
    BY <1>10, Frame
  <2> QED BY <2>1, <2>2, <2>3, <2>4 DEF IInv, AdoptsIntoEmptySlots
<1>13. \A w \in Volumes, i \in Items :
           w # v \/ i # k => held'[Attr(w, i)] = held[Attr(w, i)]
  BY <1>1, <1>5, SlotsOfTheClasses DEF Attr
<1>14. ClearsFromTheFront'
  BY <1>0, <1>8, <1>13 DEF IInv, ClearsFromTheFront, Objects
<1>15. LoadsIntoEmptySlots'
  <2> SUFFICES ASSUME NEW w \in Volumes, pc'[w] = "loadAttributes"
               PROVE  /\ \A i \in Items : i >= idx'[w] => held'[Attr(w, i)] = NoObj
                      /\ held'[Param(w, "data")] # NoObj =>
                            idx'[w] <= Len(Attributes(held[Param(w, "data")])')
    BY DEF LoadsIntoEmptySlots
  <2>1. /\ held'[Param(w, "data")] = held[Param(w, "data")]
        /\ Attributes(held[Param(w, "data")])' = Attributes(held[Param(w, "data")])
    BY <1>0, <1>10, Frame, ConstantAssumption DEF Attributes, IsArray
  <2>2. w \in Objects
    BY DEF Objects
  <2>3. CASE w = v
    <3>1. ASSUME NEW i \in Items, i >= k + 1
          PROVE  held'[Attr(w, i)] = NoObj
      BY <1>0, <1>1, <1>13, <2>3, <3>1 DEF IInv, LoadsIntoEmptySlots, Items
    <3> QED BY <1>8, <2>1, <2>3, <3>1
  <2>4. CASE w # v
    BY <1>8, <1>13, <2>1, <2>2, <2>4 DEF IInv, LoadsIntoEmptySlots
  <2> QED BY <2>3, <2>4
<1> QED BY <1>4, <1>7, <1>9, <1>11, <1>12, <1>14, <1>15 DEF IInv

(* Loading the background parameter keeps the invariant. *)
LEMMA LoadBackgroundParamStep ==
  ASSUME IInv, NEW v \in Volumes, LoadBackgroundParam(v)
  PROVE  IInv'
<1> DEFINE s == Backgr(v)
           x == held[Param(v, "background")]
<1>0. /\ pc[v] = "loadBackground" /\ x # NoObj
      /\ obj' = Reassign(obj, held[s], x) /\ held' = [held EXCEPT ![s] = x]
      /\ pc' = [pc EXCEPT ![v] = "idle"]
      /\ UNCHANGED <<items, flags, idx, committed, lost, useAfterFree>>
  BY DEF LoadBackgroundParam
<1>1. /\ v \in Objects /\ s \in Slots /\ pc \in [Objects -> Loops]
      /\ Owner(s) = v /\ Kind(s) = "background" /\ held[Handle(v)] = v
      /\ Param(v, "background") \in Slots
  BY <1>0, SlotsOfTheClasses, Kinds, ConstantAssumption
     DEF IInv, PlainTypeOK, CallersHoldHandles, Objects
<1>2. x \in Objects /\ obj[x].st = "live"
  BY <1>0, <1>1, HeldIsLive DEF IInv
<1>3. Consistent(obj, held, lost)'
  <2> HIDE DEF x, s
  <2> QED BY <1>0, <1>1, <1>2, Assign, Plain DEF IInv
<1>4. NothingBorn
  <2>1. RefInc(obj, x) \in HeapType
        /\ \A o \in Objects : RefInc(obj, x)[o].st = obj[o].st
    BY <1>2, StatusKept, Plain
  <2>2. obj' = RefDec(RefInc(obj, x), held[s]) /\ held[s] \in Objs0
    BY <1>0, <1>1, Plain DEF Reassign
  <2> HIDE DEF s, x
  <2> QED BY <2>1, <2>2, StatusKept DEF NothingBorn
<1>5. \A t \in Slots \ {s} : held'[t] = held[t]
  BY <1>0, <1>1, Plain
<1>6. UnbornOwnNothing' /\ HandlesAreOwn' /\ ParamsAreData' /\ DevicesAreSet'
  BY <1>1, <1>4, <1>5, UsedIsLive, LiveOwner
<1>7. SameBut({"background"})
  BY <1>1, <1>5 DEF SameBut
<1>8. pc' \in [Objects -> Loops]
      /\ \A o \in Objects : pc'[o] \in {pc[o], "idle"}
  BY <1>0, <1>1 DEF Loops
<1> HIDE DEF x, s
<1>9. PlainTypeOK'
  BY <1>0, <1>8 DEF IInv, PlainTypeOK
<1>10. CallersHoldHandles' /\ ArraysAreShort'
  BY <1>0, <1>7, <1>8, Frame DEF IInv, CallersHoldHandles, ArraysAreShort
<1>11. AdoptsIntoEmptySlots'
  <2>1. \A d \in Datas : pc'[d] \in {pc[d], "idle"} /\ idx'[d] = idx[d]
    BY <1>0, <1>8 DEF Objects
  <2>2. \A d \in Datas : items'[d] = items[d] /\ items[d] \in Seq(Objects)
    BY <1>0 DEF IInv, PlainTypeOK, Objects
  <2>3. \A o \in Objects : held'[Handle(o)] = held[Handle(o)]
    BY <1>7, Frame
  <2>4. \A d \in Datas, i \in Items : held'[Item(d, i)] = held[Item(d, i)]
    BY <1>7, Frame
  <2> QED BY <2>1, <2>2, <2>3, <2>4 DEF IInv, AdoptsIntoEmptySlots
<1>12. /\ \A w \in Volumes : pc'[w] \in {pc[w], "idle"} /\ idx'[w] = idx[w]
       /\ \A w \in Volumes, i \in Items : held'[Attr(w, i)] = held[Attr(w, i)]
       /\ \A w \in Volumes : held'[Param(w, "data")] = held[Param(w, "data")]
  BY <1>0, <1>7, <1>8, Frame, ConstantAssumption DEF Objects
<1>13. ClearsFromTheFront' /\ LoadsIntoEmptySlots'
  BY <1>0, <1>12 DEF IInv, ClearsFromTheFront, LoadsIntoEmptySlots, Attributes, IsArray
<1> QED BY <1>3, <1>6, <1>9, <1>10, <1>11, <1>13 DEF IInv

(* Making the default background keeps the invariant: the new array ends with one
   reference, that of the volume. *)
LEMMA LoadBackgroundDefaultStep ==
  ASSUME IInv, NEW v \in Volumes, NEW x \in Datas, LoadBackgroundDefault(v, x)
  PROVE  IInv'
<1> DEFINE s   == Backgr(v)
           dev == held[DevicePtr(v)]
           h1  == Born(obj, x)
           h2  == RefInc(h1, dev)
           h3  == RefInc(h2, x)
           h4  == RefDec(h3, x)
           H1  == [held EXCEPT ![DevicePtr(x)] = dev]
           H2  == [H1 EXCEPT ![s] = NoObj]
           H3  == [H2 EXCEPT ![s] = x]
<1>0. /\ pc[v] = "loadBackground" /\ obj[x].st = "unborn"
      /\ obj' = RefDec(h4, held[s])
      /\ held' = [held EXCEPT ![s] = x, ![DevicePtr(x)] = dev]
      /\ pc' = [pc EXCEPT ![v] = "idle"]
      /\ UNCHANGED <<items, flags, idx, committed, lost, useAfterFree>>
  BY DEF LoadBackgroundDefault, BornInternal, BornOn
<1>1. /\ v \in Objects \ Devices /\ x \in Objects \ Devices
      /\ s \in Slots /\ DevicePtr(x) \in Slots /\ s # DevicePtr(x)
      /\ pc \in [Objects -> Loops] /\ Live(v) /\ v # x
      /\ Owner(s) = v /\ Kind(s) = "background" /\ held[DevicePtr(x)] = NoObj
  <2>1. v \in Objects \ Devices /\ x \in Objects \ Devices
    BY ConstantAssumption DEF Objects
  <2>2. Live(v)
    BY <1>0, <2>1, UsedIsLive DEF IInv, CallersHoldHandles
  <2> QED BY <1>0, <2>1, <2>2, SlotsOfTheClasses, Kinds
          DEF IInv, PlainTypeOK, UnbornOwnNothing, Live
<1>2. dev \in Devices /\ dev \in Objects /\ dev # x /\ obj[dev].st = "live"
  <2>1. dev \in Devices
    BY <1>1 DEF IInv, DevicesAreSet
  <2>2. dev \in Objects /\ dev # NoObj
    BY <2>1, ConstantAssumption DEF Objects
  <2>3. obj[dev].st = "live"
    BY <1>1, <2>2, HeldIsLive, SlotsOfTheClasses DEF IInv
  <2> QED BY <1>0, <2>1, <2>2, <2>3
<1>3. h1 \in HeapType /\ h1[x].st = "live" /\ \A o \in Objects \ {x} : h1[o].st = obj[o].st
  BY <1>0, <1>1, Plain DEF Born, HeapType
<1>4. h2 \in HeapType /\ \A o \in Objects : h2[o].st = h1[o].st
  <2>1. dev \in Objs0 /\ dev \in Objects
    BY <1>2, Plain
  <2> HIDE DEF h1, dev
  <2> QED BY <1>3, <2>1, StatusKept
<1>5. h3 \in HeapType /\ \A o \in Objects : h3[o].st = h1[o].st
  <2>1. x \in Objs0 /\ x \in Objects
    BY <1>1, Plain
  <2> HIDE DEF h1, h2
  <2> QED BY <1>4, <2>1, StatusKept
<1>6. \A o \in Objects : /\ h4[o].st = "live" => h1[o].st = "live"
                         /\ h4[o].st = "unborn" => h1[o].st = "unborn"
  <2>1. x \in Objs0 /\ x \in Objects
    BY <1>1, Plain
  <2> HIDE DEF h1, h3
  <2> QED BY <1>5, <2>1, StatusKept
<1>7. /\ H1 \in [Slots -> Objs0] /\ H1[s] = held[s] /\ H2[s] = NoObj /\ held' = H3
      /\ held[s] \in Objs0
  BY <1>0, <1>1, <1>2, Plain
<1>8. Consistent(h1, held, Take(lost, x))
  BY <1>0, <1>1, Birth DEF IInv
<1>9. Take(lost, x) \in [Objects -> Nat] /\ Take(Take(lost, x), dev) \in [Objects -> Nat]
  BY <1>1, <1>2, InHand, Plain
<1>10. obj' = RefDec(h4, held[s])
  BY <1>0
<1>11. h2 = RefInc(h1, dev) /\ h3 = RefInc(h2, x) /\ h4 = RefDec(h3, x)
  OBVIOUS
<1> HIDE DEF h1, h2, h3, h4, dev
<1>12. Consistent(h2, held, Take(Take(lost, x), dev))
  BY <1>2, <1>3, <1>8, <1>11, Inc, Plain
<1>13. Consistent(h3, held, Take(Take(Take(lost, x), dev), x))
  BY <1>1, <1>3, <1>4, <1>11, <1>12, Inc, Plain
<1>14. Consistent(h4, held, Take(Take(lost, x), dev))
  <2>1. /\ Take(Take(Take(lost, x), dev), x)[x] > 0
        /\ Give(Take(Take(Take(lost, x), dev), x), x) = Take(Take(lost, x), dev)
    BY <1>1, <1>9, InHand, Plain
  <2>2. Consistent(RefDec(h3, x), held, Give(Take(Take(Take(lost, x), dev), x), x))
    BY <1>1, <1>13, <2>1, Dec, Plain
  <2> QED BY <1>11, <2>1, <2>2
<1>15. Consistent(h4, H1, Take(lost, x))
  BY <1>1, <1>2, <1>9, <1>14, Store, Plain
<1>16. Consistent(RefDec(h4, held[s]), H2, Take(lost, x))
  BY <1>1, <1>7, <1>9, <1>15, Drop
<1>17. Consistent(RefDec(h4, held[s]), H3, lost)
  BY <1>1, <1>7, <1>16, Store, Plain
<1>18. Consistent(obj, held, lost)'
  BY <1>0, <1>7, <1>10, <1>17
<1>19. held'[s] = x /\ held'[DevicePtr(x)] = dev
       /\ \A t \in Slots \ {s, DevicePtr(x)} : held'[t] = held[t]
  BY <1>0, <1>1, Plain
<1>20. obj'[x].st = "live"
       /\ \A o \in Objects \ {x} : /\ obj'[o].st = "live" => obj[o].st = "live"
                                   /\ obj'[o].st = "unborn" => obj[o].st = "unborn"
  <2>1. obj'[x].st = "live"
    <3>1. x # NoObj
      BY <1>1, Plain
    <3> QED BY <1>1, <1>18, <1>19, <3>1, HeldIsLive
  <2>2. h4 \in HeapType
    BY <1>14 DEF Consistent
  <2> HIDE DEF s
  <2>3. \A o \in Objects : /\ obj'[o].st = "live" => h4[o].st = "live"
                           /\ obj'[o].st = "unborn" => h4[o].st = "unborn"
    BY <1>7, <1>10, <2>2, StatusKept
  <2> QED BY <1>3, <1>6, <2>1, <2>3
<1>21. held'[Handle(x)] \in {x, NoObj}
  <2>1. Handle(x) # s /\ Handle(x) # DevicePtr(x)
    BY Kinds
  <2> QED BY <1>1, <1>19, <2>1, SlotsOfTheClasses DEF IInv, HandlesAreOwn
<1>22. \A t \in Slots :
          IF Owner(t) = x
          THEN Kind(t) \in {"handle", "device", "target"} \/ held'[t] = held[t]
          ELSE held'[t] = held[t] \/ (Kind(t) = "background" /\ Live(Owner(t)))
  BY <1>1, <1>19, Kinds
<1>23. /\ UnbornOwnNothing' /\ HandlesAreOwn' /\ ParamsAreData' /\ DevicesAreSet'
       /\ LeavesLoopsAlone
  BY <1>0, <1>1, <1>2, <1>19, <1>20, <1>21, <1>22, NewObject
<1>24. SameBut({"device", "background"})
  BY <1>1, <1>19, Kinds DEF SameBut
<1>25. pc' \in [Objects -> Loops] /\ \A o \in Objects : pc'[o] \in {pc[o], "idle"}
  BY <1>0, <1>1 DEF Loops
<1> HIDE DEF s
<1>26. PlainTypeOK'
  BY <1>0, <1>25 DEF IInv, PlainTypeOK
<1>27. /\ \A o \in Objects : held'[Handle(o)] = held[Handle(o)]
       /\ \A d \in Datas, i \in Items : held'[Item(d, i)] = held[Item(d, i)]
       /\ \A w \in Volumes, i \in Items : held'[Attr(w, i)] = held[Attr(w, i)]
       /\ \A w \in Volumes, p \in ParamNames : held'[Param(w, p)] = held[Param(w, p)]
  BY <1>24, Frame
<1>28. CallersHoldHandles' /\ ArraysAreShort'
  BY <1>0, <1>25, <1>27 DEF IInv, CallersHoldHandles, ArraysAreShort
<1>29. AdoptsIntoEmptySlots'
  <2>1. \A d \in Datas : pc'[d] \in {pc[d], "idle"} /\ idx'[d] = idx[d]
    BY <1>0, <1>25 DEF Objects
  <2>2. \A d \in Datas : items'[d] = items[d] /\ items[d] \in Seq(Objects)
    BY <1>0 DEF IInv, PlainTypeOK, Objects
  <2> QED BY <1>27, <2>1, <2>2 DEF IInv, AdoptsIntoEmptySlots
<1>30. ClearsFromTheFront' /\ LoadsIntoEmptySlots'
  <2>1. \A w \in Volumes : pc'[w] \in {pc[w], "idle"} /\ idx'[w] = idx[w]
    BY <1>0, <1>25 DEF Objects
  <2>2. \A w \in Volumes : held'[Param(w, "data")] = held[Param(w, "data")]
    BY <1>27, ConstantAssumption
  <2>3. ClearsFromTheFront'
    BY <1>27, <2>1 DEF IInv, ClearsFromTheFront
  <2>4. LoadsIntoEmptySlots'
    <3>1. \A w \in Volumes : Attributes(held[Param(w, "data")])'
                               = Attributes(held[Param(w, "data")])
      <4>1. items' = items
        BY <1>0
      <4> QED BY <2>2, <4>1 DEF Attributes, IsArray
    <3> QED BY <1>27, <2>1, <2>2, <3>1 DEF IInv, LoadsIntoEmptySlots
  <2> QED BY <2>3, <2>4
<1> QED BY <1>18, <1>23, <1>26, <1>28, <1>29, <1>30 DEF IInv

-----------------------------------------------------------------------------
(* The invariant holds before the first call. *)
LEMMA InitInvariant ==
  ASSUME Init
  PROVE  IInv
<1>1. Consistent(obj, held, lost)
  <2>1. ASSUME NEW o \in Objects
        PROVE  Cardinality(Holders(held, o)) = 0
    <3>1. Holders(held, o) = {}
      BY ConstantAssumption DEF Init, Holders
    <3> QED BY <3>1, FS_EmptySet
  <2> QED BY <2>1 DEF Init, Consistent, Exact, LiveIffCounted, HeapType, Objs0
<1>2. PlainTypeOK
  <2>1. 1 \in Items
    BY ConstantAssumption DEF Items
  <2>2. items \in [Datas -> Seq(Datas)]
    BY DEF Init
  <2> QED BY <2>1, <2>2 DEF Init, PlainTypeOK, Loops, Flags
<1>3. /\ UnbornOwnNothing /\ HandlesAreOwn /\ ParamsAreData
  BY SlotsOfTheClasses DEF Init, UnbornOwnNothing, HandlesAreOwn, ParamsAreData
<1>4. /\ CallersHoldHandles /\ AdoptsIntoEmptySlots
      /\ ClearsFromTheFront /\ LoadsIntoEmptySlots
  BY DEF Init, CallersHoldHandles, AdoptsIntoEmptySlots, ClearsFromTheFront,
         LoadsIntoEmptySlots, Objects
<1>5. ArraysAreShort
  BY ConstantAssumption DEF Init, ArraysAreShort
<1>6. DevicesAreSet
  BY DEF Init, DevicesAreSet, Live
<1> QED BY <1>1, <1>2, <1>3, <1>4, <1>5, <1>6 DEF IInv

(* Every step keeps the invariant. *)
LEMMA NextKeepsInvariant ==
  ASSUME IInv, [Next]_vars
  PROVE  IInv'
<1>1. CASE UNCHANGED vars
  <2>1. UNCHANGED <<obj, held, items, flags, pc, idx, committed, lost, useAfterFree>>
    BY <1>1 DEF vars
  <2>2. LeavesLoopsAlone
    BY <2>1 DEF LeavesLoopsAlone
  <2>3. PlainTypeOK' /\ UnbornOwnNothing' /\ HandlesAreOwn' /\ ParamsAreData'
        /\ DevicesAreSet'
    BY <2>1 DEF IInv, PlainTypeOK, UnbornOwnNothing, HandlesAreOwn, ParamsAreData,
                DevicesAreSet, Live
  <2> QED BY <2>1, <2>2, <2>3, LoopsLeftAlone DEF IInv
<1>2. CASE ApiCall
  <2>1. ASSUME NEW d \in Devices, NewDevice(d) \/ CommitDevice(d)
        PROVE  IInv'
    BY <2>1, NewDeviceStep, CommitDeviceStep
  <2>2. ASSUME NEW d \in Devices, NEW x \in Datas, NewData(x, d)
        PROVE  IInv'
    BY <2>2, NewDataStep
  <2>3. ASSUME NEW d \in Devices, NEW x \in Datas, NEW src \in HandleSeqs,
               NEW f \in HandleArrayFlags, NewDataArray(x, d, src, f)
        PROVE  IInv'
    BY <2>3, NewDataArrayStep
  <2>4. ASSUME NEW d \in Devices, NEW x \in Volumes, NewVolume(x, d)
        PROVE  IInv'
    BY <2>4, NewVolumeStep
  <2>5. ASSUME NEW x \in Objects, NEW t \in Objects,
               NewSampler(x, t) \/ NewContext(x, t) \/ NewObserver(x, t)
        PROVE  IInv'
    <3>1. /\ x \in Samplers \cup Contexts \cup Observers
          /\ t \in Volumes \cup Samplers /\ NewDependent(x, t)
      BY <2>5 DEF NewSampler, NewContext, NewObserver
    <3> QED BY <3>1, NewDependentStep
  <2>6. ASSUME NEW o \in Objects, Release(o)
        PROVE  IInv'
    BY <2>6, ReleaseStep
  <2>7. ASSUME NEW v \in Volumes, CommitVolume(v)
        PROVE  IInv'
    BY <2>7, CommitVolumeStep
  <2>8. ASSUME NEW v \in Volumes, NEW p \in ParamNames, NEW x \in Datas \cup {NoObj},
               SetObjectParam(v, p, x)
        PROVE  IInv'
    BY <2>8, SetObjectParamStep
  <2>9. ASSUME NEW v \in Volumes, NEW p \in ParamNames, SetScalarParam(v, p)
        PROVE  IInv'
    BY <2>9, SetScalarParamStep
  <2> QED BY <1>2, <2>1, <2>2, <2>3, <2>4, <2>5, <2>6, <2>7, <2>8, <2>9 DEF ApiCall
<1>3. CASE Loop
  <2>1. ASSUME NEW d \in Datas, AdoptChild(d)
        PROVE  IInv'
    BY <2>1, AdoptChildStep
  <2>2. ASSUME NEW v \in Volumes,
               ClearAttribute(v) \/ LoadAttribute(v) \/ LoadBackgroundParam(v)
                 \/ CommitThrows(v)
        PROVE  IInv'
    BY <2>2, ClearAttributeStep, LoadAttributeStep, LoadBackgroundParamStep,
       CommitVolumeStep
  <2>3. ASSUME NEW v \in Volumes, NEW x \in Datas, LoadBackgroundDefault(v, x)
        PROVE  IInv'
    BY <2>3, LoadBackgroundDefaultStep
  <2> QED BY <1>3, <2>1, <2>2, <2>3 DEF Loop
<1>4. CASE Destruction
  BY <1>4, DestructorDropsStep DEF Destruction
<1> QED BY <1>1, <1>2, <1>3, <1>4 DEF Next

(* The invariant holds in every reachable state. *)
THEOREM Invariant == Spec => []IInv
<1>1. Init => IInv
  BY InitInvariant
<1>2. IInv /\ [Next]_vars => IInv'
  BY NextKeepsInvariant
<1> QED BY <1>1, <1>2, PTL DEF Spec

(* Type correctness: no count goes below zero, no index leaves its loop. *)
THEOREM TypeCorrect == Spec => []TypeOK
<1>1. IInv => TypeOK
  BY DEF IInv, Consistent, PlainTypeOK, TypeOK, HeapType, Objs0
<1> QED BY <1>1, Invariant, PTL

(***************************************************************************)
(* The count of every object is the number of its references, whatever the *)
(* order of calls, loops and destructors.                                  *)
(***************************************************************************)
THEOREM ExactCounts == Spec => []CountsAreExact
<1>1. IInv => CountsAreExact
  BY DEF IInv, Consistent, Exact, CountsAreExact
<1> QED BY <1>1, Invariant, PTL

(* No reference to a deleted object exists, so no call can follow one. *)
THEOREM NoDangling == Spec => []NoDanglingReference
<1>1. IInv => NoDanglingReference
  BY HeldIsLive DEF IInv, NoDanglingReference, Live
<1> QED BY <1>1, Invariant, PTL

(***************************************************************************)
(* An object that lives, or whose destructor has not finished, has a       *)
(* device, and that device is alive.                                       *)
(***************************************************************************)
THEOREM DevicesOutlive == Spec => []DeviceOutlivesObjects
<1>1. ASSUME IInv
      PROVE  DeviceOutlivesObjects
  <2> SUFFICES ASSUME NEW o \in Objects \ Devices,
                      Live(o) \/ \E s \in SlotsOf(o) : held[s] # NoObj
               PROVE  held[DevicePtr(o)] \in Devices /\ Live(held[DevicePtr(o)])
    BY DEF DeviceOutlivesObjects
  <2>1. held[DevicePtr(o)] \in Devices
    <3>1. CASE Live(o)
      BY <1>1, <3>1 DEF IInv, DevicesAreSet
    <3>2. CASE \E s \in SlotsOf(o) : held[s] # NoObj
      <4>1. PICK s \in Slots : Owner(s) = o /\ held[s] # NoObj
        BY <3>2 DEF SlotsOf
      <4> QED BY <1>1, <4>1 DEF IInv, DevicesAreSet
    <3> QED BY <3>1, <3>2
  <2>2. held[DevicePtr(o)] # NoObj
    BY <2>1, ConstantAssumption DEF Objects
  <2> QED BY <1>1, <2>1, <2>2, SlotsOfTheClasses, HeldIsLive DEF IInv, Live
<1>2. IInv => DeviceOutlivesObjects
  BY <1>1
<1> QED BY <1>2, Invariant, PTL

(***************************************************************************)
(* Only a scalar setter loses an object: any other live object has a       *)
(* holder, whose release or destructor will delete it.                     *)
(***************************************************************************)
THEOREM NothingIsOrphaned == Spec => []NoOrphan
<1>1. ASSUME IInv
      PROVE  NoOrphan
  <2> SUFFICES ASSUME NEW o \in Objects, Live(o), lost[o] = 0
               PROVE  Holders(held, o) # {}
    BY <1>1 DEF NoOrphan, IInv, Consistent
  <2>1. obj[o].rc > 0
    BY <1>1 DEF IInv, Consistent, LiveIffCounted, Live
  <2>2. obj[o].rc = Cardinality(Holders(held, o))
    BY <1>1, HoldersFinite DEF IInv, Consistent, Exact
  <2> QED BY <2>1, <2>2, FS_EmptySet
<1> QED BY <1>1, Invariant, PTL
-----------------------------------------------------------------------------
(***************************************************************************)
(* Proofs about arrays of handles, when none is created with               *)
(* VKL_DATA_SHARED_BUFFER: the array keeps every element alive, and no     *)
(* commit reads a deleted one.                                             *)
(***************************************************************************)

(***************************************************************************)
(* A live array has a reference to each element its constructor has been   *)
(* through; a data object that was not created has no elements.            *)
(***************************************************************************)
HoldsElements ==
    \A d \in Datas : Live(d) =>
        \A i \in 1 .. Len(items[d]) :
            (pc[d] = "adoptChildren" => i < idx[d]) => held[Item(d, i)] = items[d][i]

UnbornAreEmpty == \A d \in Datas : obj[d].st = "unborn" => items[d] = <<>>

OnlyDefault == \A d \in Datas : flags[d] = "DEFAULT"

Elements == HoldsElements /\ UnbornAreEmpty /\ OnlyDefault /\ NoUseAfterFree

AInv == IInv /\ Elements

(* Nothing dead comes back to life, nothing becomes unborn. *)
NothingRevived ==
    \A o \in Objects : /\ obj'[o].st = "live" => obj[o].st \in {"live", "unborn"}
                       /\ obj'[o].st = "unborn" => obj[o].st = "unborn"

KeepsElements ==
    \A d \in Datas, i \in Items :
        held'[Item(d, i)] = held[Item(d, i)] \/ obj[d].st = "dead"

-----------------------------------------------------------------------------
(* A step that revives nothing and moves no element keeps the elements of the
   arrays alive. *)
LEMMA ElementsKept ==
  ASSUME AInv, NothingRevived, KeepsElements,
         UNCHANGED <<items, flags, useAfterFree>>,
         \A d \in Datas : pc'[d] = pc[d] /\ idx'[d] = idx[d]
  PROVE  Elements'
<1>1. UnbornAreEmpty' /\ OnlyDefault' /\ NoUseAfterFree'
  BY DEF AInv, Elements, UnbornAreEmpty, OnlyDefault, NoUseAfterFree, NothingRevived, Objects
<1>2. HoldsElements'
  <2> SUFFICES ASSUME NEW d \in Datas, obj'[d].st = "live",
                      NEW i \in 1 .. Len(items[d]),
                      pc[d] = "adoptChildren" => i < idx[d]
               PROVE  held'[Item(d, i)] = items[d][i]
    BY DEF HoldsElements, Live
  <2>1. items[d] \in Seq(Datas) /\ Len(items[d]) <= MaxItems
    BY DEF AInv, IInv, PlainTypeOK, ArraysAreShort
  <2>2. items[d] # <<>> /\ i \in Items
    BY <2>1, ConstantAssumption DEF Items
  <2>3. obj[d].st = "live"
    BY <2>2 DEF AInv, Elements, UnbornAreEmpty, NothingRevived, Objects
  <2>4. held[Item(d, i)] = items[d][i]
    BY <2>3 DEF AInv, Elements, HoldsElements, Live
  <2> QED BY <2>2, <2>3, <2>4 DEF KeepsElements
<1> QED BY <1>1, <1>2 DEF Elements

(* Slots of other kinds are not elements. *)
LEMMA NotAnElement ==
  ASSUME NEW kinds, SameBut(kinds), "item" \notin kinds
  PROVE  KeepsElements
BY Frame DEF KeepsElements

(* The births and the counts of the actions revive nothing. *)
LEMMA BornIsUnborn ==
  ASSUME NEW h \in HeapType, NEW x \in Objects, h[x].st = "unborn"
  PROVE  /\ Born(h, x) \in HeapType
         /\ \A o \in Objects : /\ Born(h, x)[o].st = "live" => h[o].st \in {"live", "unborn"}
                               /\ Born(h, x)[o].st = "unborn" => h[o].st = "unborn"
BY DEF Born, HeapType

(* Creating an object on a device changes no other object's status. *)
LEMMA BornOnIsUnborn ==
  ASSUME NEW h \in HeapType, NEW x \in Objects, h[x].st = "unborn", NEW dev \in Objs0
  PROVE  /\ BornOn(h, x, dev) \in HeapType
         /\ \A o \in Objects : /\ BornOn(h, x, dev)[o].st = "live"
                                     => h[o].st \in {"live", "unborn"}
                               /\ BornOn(h, x, dev)[o].st = "unborn" => h[o].st = "unborn"
BY BornIsUnborn, StatusKept DEF BornOn

(* The calls that move no element: devices, volumes, data, dependents. *)
LEMMA NewDeviceKeeps ==
  ASSUME AInv, NEW d \in Devices, NewDevice(d) \/ CommitDevice(d)
  PROVE  Elements'
<1>1. CASE NewDevice(d)
  <2>1. d \in Objects /\ obj[d].st = "unborn" /\ obj' = Born(obj, d)
    BY <1>1 DEF NewDevice, Objects
  <2>2. NothingRevived
    BY <2>1, BornIsUnborn, Plain DEF AInv, NothingRevived
  <2>3. SameBut({"handle"})
    BY <1>1, Kinds, Plain DEF NewDevice, SameBut, AInv
  <2>4. UNCHANGED <<items, flags, pc, idx, useAfterFree>>
    BY <1>1 DEF NewDevice
  <2> QED BY <2>2, <2>3, <2>4, NotAnElement, ElementsKept
<1>2. CASE CommitDevice(d)
  <2>1. UNCHANGED <<obj, held, items, flags, pc, idx, useAfterFree>>
    BY <1>2 DEF CommitDevice
  <2>2. NothingRevived /\ KeepsElements
    BY <2>1 DEF NothingRevived, KeepsElements
  <2> QED BY <2>1, <2>2, ElementsKept
<1> QED BY <1>1, <1>2

(* Creating an object on a device moves no element. *)
LEMMA NewOnDeviceKeeps ==
  ASSUME AInv, NEW x \in Datas \cup Volumes, NEW d \in Devices, NewOnDevice(x, d)
  PROVE  /\ NothingRevived /\ KeepsElements
         /\ obj[x].st = "unborn" /\ x \in Objects
<1>1. /\ x \in Objects /\ d \in Objs0 /\ obj[x].st = "unborn"
      /\ obj' = BornOn(obj, x, d)
      /\ held' = [held EXCEPT ![Handle(x)] = x, ![DevicePtr(x)] = d]
  BY DEF NewOnDevice, Objects, Objs0
<1>2. NothingRevived
  BY <1>1, BornOnIsUnborn, Plain DEF AInv, NothingRevived
<1>3. SameBut({"handle", "device"})
  BY <1>1, Kinds, Plain DEF SameBut, AInv
<1> QED BY <1>1, <1>2, <1>3, NotAnElement

(* vklNewData of scalars and vklNewVolume keep the elements. *)
LEMMA NewDataKeeps ==
  ASSUME AInv, NEW x \in Datas \cup Volumes, NEW d \in Devices,
         NewData(x, d) \/ NewVolume(x, d)
  PROVE  Elements'
<1>1. NewOnDevice(x, d) /\ UNCHANGED <<items, flags, pc, idx, useAfterFree>>
  BY DEF NewData, NewVolume
<1> QED BY <1>1, NewOnDeviceKeeps, ElementsKept

(* Creating a dependent object keeps the elements. *)
LEMMA NewDependentKeeps ==
  ASSUME AInv, NEW x \in Samplers \cup Contexts \cup Observers,
         NEW t \in Volumes \cup Samplers, NewDependent(x, t)
  PROVE  Elements'
<1> DEFINE dev == held[DevicePtr(t)]
<1>1. /\ x \in Objects /\ t \in Objs0 /\ dev \in Objs0 /\ obj[x].st = "unborn"
      /\ obj' = RefInc(BornOn(obj, x, dev), t)
      /\ held' = [held EXCEPT ![Handle(x)] = x, ![Target(x)] = t, ![DevicePtr(x)] = dev]
      /\ UNCHANGED <<items, flags, pc, idx, useAfterFree>>
  <2>1. x \in Objects /\ t \in Objects
    BY DEF Objects
  <2>2. dev \in Objs0 /\ t \in Objs0
    BY <2>1, Plain, SlotsOfTheClasses DEF AInv
  <2> QED BY <2>1, <2>2 DEF NewDependent, BornFrom
<1> HIDE DEF dev
<1>2. NothingRevived
  <2>1. BornOn(obj, x, dev) \in HeapType
    BY <1>1, BornOnIsUnborn, Plain DEF AInv
  <2>2. \A o \in Objects : RefInc(BornOn(obj, x, dev), t)[o].st = BornOn(obj, x, dev)[o].st
    BY <1>1, <2>1, StatusKept
  <2> QED BY <1>1, <2>2, BornOnIsUnborn, Plain DEF AInv, NothingRevived
<1>3. SameBut({"handle", "device", "target"})
  BY <1>1, Kinds, Plain DEF SameBut, AInv
<1> QED BY <1>1, <1>2, <1>3, NotAnElement, ElementsKept

(* One reference dropped, counted or replaced, in a slot that is no element. *)
LEMMA DecRevivesNothing ==
  ASSUME AInv, NEW x \in Objs0, obj' = RefDec(obj, x)
  PROVE  NothingRevived
BY StatusKept, Plain DEF AInv, NothingRevived

(* Counting a reference revives nothing. *)
LEMMA IncRevivesNothing ==
  ASSUME AInv, NEW x \in Objs0, obj' = RefInc(obj, x)
  PROVE  NothingRevived
BY StatusKept, Plain DEF AInv, NothingRevived

(* Reassigning a parameter revives nothing. *)
LEMMA ReassignRevivesNothing ==
  ASSUME AInv, NEW x \in Objs0, NEW old \in Objs0, obj' = Reassign(obj, old, x)
  PROVE  NothingRevived
<1>1. ASSUME NEW o \in Objects
      PROVE  /\ obj'[o].st = "live" => obj[o].st = "live"
             /\ obj'[o].st = "unborn" => obj[o].st = "unborn"
  <2>1. RefInc(obj, x) \in HeapType /\ RefInc(obj, x)[o].st = obj[o].st
    BY StatusKept, Plain DEF AInv
  <2>2. obj' = RefDec(RefInc(obj, x), old)
    BY DEF Reassign
  <2> QED BY <2>1, <2>2, StatusKept
<1> QED BY <1>1 DEF NothingRevived

(* vklRelease keeps the elements: an array holds a reference to each. *)
LEMMA ReleaseKeeps ==
  ASSUME AInv, NEW o \in Objects, Release(o)
  PROVE  Elements'
<1>1. /\ obj' = RefDec(obj, o) /\ held' = [held EXCEPT ![Handle(o)] = NoObj]
      /\ UNCHANGED <<items, flags, pc, idx, useAfterFree>>
  BY DEF Release
<1>2. SameBut({"handle"})
  BY <1>1, Kinds, Plain DEF SameBut, AInv
<1> QED BY <1>1, <1>2, DecRevivesNothing, NotAnElement, ElementsKept, Plain DEF AInv

(* Setting a parameter keeps the elements. *)
LEMMA SetParamKeeps ==
  ASSUME AInv, NEW v \in Volumes, NEW p \in ParamNames, NEW x \in Datas \cup {NoObj},
         SetObjectParam(v, p, x) \/ SetScalarParam(v, p)
  PROVE  Elements'
<1>1. /\ \/ obj' = Reassign(obj, held[Param(v, p)], x)
         \/ obj' = obj
      /\ \E y : held' = [held EXCEPT ![Param(v, p)] = y]
      /\ UNCHANGED <<items, flags, pc, idx, useAfterFree>>
  BY DEF SetObjectParam, SetScalarParam
<1>2. SameBut({"param"})
  BY <1>1, Kinds, Plain DEF SameBut, AInv
<1>3. NothingRevived
  <2>1. x \in Objs0 /\ held[Param(v, p)] \in Objs0
    BY Plain, SlotsOfTheClasses DEF AInv, Objs0, Objects
  <2>2. CASE obj' = obj
    BY <2>2 DEF NothingRevived
  <2> QED BY <1>1, <2>1, <2>2, ReassignRevivesNothing
<1> QED BY <1>1, <1>2, <1>3, NotAnElement, ElementsKept

(* A destructor only empties the slots of an array that is already deleted. *)
LEMMA DestructorDropsKeeps ==
  ASSUME AInv, NEW s \in Slots, DestructorDrops(s)
  PROVE  Elements'
<1>1. /\ obj[Owner(s)].st = "dead"
      /\ obj' = RefDec(obj, held[s]) /\ held' = [held EXCEPT ![s] = NoObj]
      /\ UNCHANGED <<items, flags, pc, idx, useAfterFree>>
  BY DEF DestructorDrops
<1>2. held[s] \in Objs0
  BY Plain DEF AInv
<1>3. KeepsElements
  <2> SUFFICES ASSUME NEW d \in Datas, NEW i \in Items, obj[d].st # "dead"
               PROVE  held'[Item(d, i)] = held[Item(d, i)]
    BY DEF KeepsElements
  <2>1. Item(d, i) # s
    BY <1>1, Kinds
  <2> QED BY <1>1, <2>1, Plain, SlotsOfTheClasses DEF AInv
<1> QED BY <1>1, <1>2, <1>3, DecRevivesNothing, ElementsKept

-----------------------------------------------------------------------------
(* The array under construction: what it lists so far is counted. *)
LEMMA NewDataArrayKeeps ==
  ASSUME AInv, HandleArrayFlags = {"DEFAULT"},
         NEW x \in Datas, NEW d \in Devices, NEW src \in HandleSeqs,
         NEW f \in HandleArrayFlags, NewDataArray(x, d, src, f)
  PROVE  Elements'
<1>1. /\ NewOnDevice(x, d) /\ f = "DEFAULT"
      /\ items' = [items EXCEPT ![x] = src] /\ flags' = [flags EXCEPT ![x] = f]
      /\ pc' = [pc EXCEPT ![x] = "adoptChildren"] /\ idx' = [idx EXCEPT ![x] = 1]
      /\ useAfterFree' = useAfterFree
  BY DEF NewDataArray
<1>2. /\ NothingRevived /\ KeepsElements /\ obj[x].st = "unborn" /\ x \in Objects
      /\ obj'[x].st # "unborn"
  <2>1. held'[Handle(x)] = x /\ IInv'
    BY <1>1, NewOnDeviceStep, NewDataArrayStep DEF AInv, NewDataArray
  <2>2. x \in Objects
    BY DEF Objects
  <2>3. obj'[x].st # "unborn"
    BY <2>1, <2>2, SlotsOfTheClasses, Kinds, ConstantAssumption
       DEF IInv, UnbornOwnNothing
  <2> QED BY <1>1, <2>3, NewOnDeviceKeeps
<1>3. /\ items \in [Datas -> Seq(Datas)] /\ pc \in [Objects -> Loops]
      /\ idx \in [Objects -> Items] /\ flags \in [Datas -> Flags]
  BY DEF AInv, IInv, PlainTypeOK
<1>4. UnbornAreEmpty' /\ OnlyDefault' /\ NoUseAfterFree'
  BY <1>1, <1>2, <1>3
     DEF AInv, Elements, UnbornAreEmpty, OnlyDefault, NoUseAfterFree, NothingRevived, Objects
<1>5. HoldsElements'
  <2> SUFFICES ASSUME NEW e \in Datas, obj'[e].st = "live",
                      NEW i \in 1 .. Len(items'[e]),
                      pc'[e] = "adoptChildren" => i < idx'[e]
               PROVE  held'[Item(e, i)] = items'[e][i]
    BY DEF HoldsElements, Live
  <2>1. e # x
    <3>1. pc'[x] = "adoptChildren" /\ idx'[x] = 1
      BY <1>1, <1>2, <1>3
    <3>2. i \in Nat /\ ~(i < 1)
      OBVIOUS
    <3> QED BY <3>1, <3>2
  <2>2. e \in Objects /\ items'[e] = items[e] /\ pc'[e] = pc[e] /\ idx'[e] = idx[e]
    BY <1>1, <1>3, <2>1 DEF Objects
  <2>3. items[e] \in Seq(Datas) /\ Len(items[e]) <= MaxItems
    BY DEF AInv, IInv, PlainTypeOK, ArraysAreShort
  <2>4. items[e] # <<>> /\ i \in Items /\ i \in 1 .. Len(items[e])
    BY <2>2, <2>3, ConstantAssumption DEF Items
  <2>5. obj[e].st = "live"
    BY <1>2, <2>2, <2>4 DEF AInv, Elements, UnbornAreEmpty, NothingRevived
  <2>6. held[Item(e, i)] = items[e][i]
    BY <2>2, <2>4, <2>5 DEF AInv, Elements, HoldsElements, Live
  <2> QED BY <1>2, <2>2, <2>4, <2>5, <2>6 DEF KeepsElements
<1> QED BY <1>4, <1>5 DEF Elements

(* The loop over the children adopts the element it is at. *)
LEMMA AdoptChildKeeps ==
  ASSUME AInv, NEW d \in Datas, AdoptChild(d)
  PROVE  Elements'
<1> DEFINE k == idx[d]
<1>1. /\ pc[d] = "adoptChildren"
      /\ obj' = RefInc(obj, items[d][k]) /\ held' = [held EXCEPT ![Item(d, k)] = items[d][k]]
      /\ IF k = Len(items[d])
         THEN pc' = [pc EXCEPT ![d] = "idle"] /\ idx' = [idx EXCEPT ![d] = 1]
         ELSE idx' = [idx EXCEPT ![d] = k + 1] /\ pc' = pc
      /\ UNCHANGED <<items, flags, useAfterFree>>
  BY DEF AdoptChild, Child, AInv, Elements, OnlyDefault
<1>2. /\ d \in Objects /\ k \in Items /\ k <= Len(items[d])
      /\ items[d] \in Seq(Datas) /\ Len(items[d]) \in Nat /\ Len(items[d]) <= MaxItems
      /\ pc \in [Objects -> Loops] /\ idx \in [Objects -> Items]
      /\ Item(d, k) \in Slots /\ MaxItems \in Nat
  BY <1>1, SlotsOfTheClasses, ConstantAssumption
     DEF AInv, IInv, PlainTypeOK, AdoptsIntoEmptySlots, ArraysAreShort, Objects, Items
<1>3. items[d][k] \in Datas /\ items[d][k] \in Objs0
  BY <1>2 DEF Items, Objs0, Objects
<1>4. NothingRevived
  BY <1>1, <1>3, IncRevivesNothing
<1>5. UnbornAreEmpty' /\ OnlyDefault' /\ NoUseAfterFree'
  BY <1>1, <1>4
     DEF AInv, Elements, UnbornAreEmpty, OnlyDefault, NoUseAfterFree, NothingRevived, Objects
<1>6. HoldsElements'
  <2> SUFFICES ASSUME NEW e \in Datas, obj'[e].st = "live",
                      NEW i \in 1 .. Len(items[e]),
                      pc'[e] = "adoptChildren" => i < idx'[e]
               PROVE  held'[Item(e, i)] = items[e][i]
    BY <1>1 DEF HoldsElements, Live
  <2>1. items[e] \in Seq(Datas) /\ Len(items[e]) <= MaxItems
    BY DEF AInv, IInv, PlainTypeOK, ArraysAreShort
  <2>2. items[e] # <<>> /\ i \in Items /\ e \in Objects
    BY <2>1, ConstantAssumption DEF Items, Objects
  <2>3. obj[e].st = "live"
    BY <1>4, <2>2 DEF AInv, Elements, UnbornAreEmpty, NothingRevived
  <2>4. CASE e = d /\ i = k
    BY <1>1, <1>2, <2>4, Plain DEF AInv
  <2>5. CASE e = d /\ i # k
    <3>1. i < k
      <4>1. CASE k = Len(items[d])
        BY <1>2, <2>5, <4>1 DEF Items
      <4>2. CASE k # Len(items[d])
        <5>1. pc'[d] = "adoptChildren" /\ idx'[d] = k + 1
          BY <1>1, <1>2, <4>2
        <5> QED BY <1>2, <2>5, <5>1 DEF Items
      <4> QED BY <4>1, <4>2
    <3>2. held[Item(e, i)] = items[e][i]
      BY <1>1, <2>3, <2>5, <3>1 DEF AInv, Elements, HoldsElements, Live
    <3>3. Item(e, i) # Item(d, k)
      BY <2>5 DEF Item
    <3> QED BY <1>1, <1>2, <2>2, <3>2, <3>3, Plain, SlotsOfTheClasses DEF AInv
  <2>6. CASE e # d
    <3>1. pc'[e] = pc[e] /\ idx'[e] = idx[e]
      BY <1>1, <1>2, <2>2, <2>6
    <3>2. held[Item(e, i)] = items[e][i]
      BY <2>3, <3>1 DEF AInv, Elements, HoldsElements, Live
    <3>3. Item(e, i) # Item(d, k)
      BY <2>6 DEF Item
    <3> QED BY <1>1, <1>2, <2>2, <3>2, <3>3, Plain, SlotsOfTheClasses DEF AInv
  <2> QED BY <2>4, <2>5, <2>6
<1> QED BY <1>5, <1>6 DEF Elements

-----------------------------------------------------------------------------
(* Every element of a live array is alive, during its construction as well. *)
LEMMA ElementsAreLive ==
  ASSUME AInv, NEW y \in Datas, Live(y), NEW i \in 1 .. Len(items[y])
  PROVE  items[y][i] \in Datas /\ Live(items[y][i])
<1>1. /\ items[y] \in Seq(Datas) /\ Len(items[y]) <= MaxItems
  BY DEF AInv, IInv, PlainTypeOK, ArraysAreShort
<1>2. /\ items[y][i] \in Datas /\ items[y][i] \in Objects /\ i \in Items
      /\ items[y][i] # NoObj
  BY <1>1, ConstantAssumption DEF Items, Objects
<1>3. CASE pc[y] = "adoptChildren"
  BY <1>2, <1>3, UsedIsLive DEF AInv, IInv, AdoptsIntoEmptySlots
<1>4. CASE pc[y] # "adoptChildren"
  <2>1. held[Item(y, i)] = items[y][i] /\ Item(y, i) \in Slots
    BY <1>2, <1>4, SlotsOfTheClasses DEF AInv, Elements, HoldsElements
  <2> QED BY <1>2, <2>1, HeldIsLive DEF AInv, IInv, Live
<1> QED BY <1>2, <1>3, <1>4

(* A commit finds the attribute it loads alive. *)
LEMMA LoadsLiveElements ==
  ASSUME AInv, NEW v \in Volumes, LoadAttribute(v)
  PROVE  Live(Attributes(held[Param(v, "data")])[idx[v]])
<1> DEFINE y == held[Param(v, "data")]
<1>1. pc[v] = "loadAttributes" /\ y # NoObj /\ Param(v, "data") \in Slots
  BY SlotsOfTheClasses, ConstantAssumption DEF LoadAttribute
<1>2. y \in Datas
  BY <1>1, ConstantAssumption DEF AInv, IInv, ParamsAreData
<1>3. Live(y)
  BY <1>1, HeldIsLive DEF AInv, IInv, Live
<1>4. idx[v] \in 1 .. Len(Attributes(y))
  BY <1>1, <1>2, AttributeIsData DEF AInv
<1>5. CASE items[y] = <<>>
  <2>1. Attributes(y) = <<y>>
    BY <1>5 DEF Attributes, IsArray
  <2> QED BY <1>3, <1>4, <2>1
<1>6. CASE items[y] # <<>>
  <2>1. Attributes(y) = items[y]
    BY <1>6 DEF Attributes, IsArray
  <2> QED BY <1>2, <1>3, <1>4, <2>1, ElementsAreLive
<1> QED BY <1>5, <1>6

(* The steps of a commit that load no default background keep the elements. *)
LEMMA CommitKeeps ==
  ASSUME AInv, NEW v \in Volumes,
         CommitVolume(v) \/ CommitThrows(v) \/ ClearAttribute(v)
           \/ LoadAttribute(v) \/ LoadBackgroundParam(v)
  PROVE  Elements'
<1> DEFINE a == Attr(v, idx[v])
           b == Backgr(v)
           x == Attributes(held[Param(v, "data")])[idx[v]]
<1>0. /\ pc \in [Objects -> Loops] /\ idx \in [Objects -> Items] /\ v \in Objects
      /\ a \in Slots /\ b \in Slots /\ Param(v, "background") \in Slots
  BY SlotsOfTheClasses, ConstantAssumption DEF AInv, IInv, PlainTypeOK, Objects
<1>1. CASE CommitVolume(v) \/ CommitThrows(v)
  <2>1. UNCHANGED <<obj, held, items, flags, useAfterFree>>
        /\ (\E l : pc' = [pc EXCEPT ![v] = l]) /\ (\E i : idx' = [idx EXCEPT ![v] = i])
    BY <1>1 DEF CommitVolume, CommitThrows
  <2>2. NothingRevived /\ KeepsElements
    BY <2>1 DEF NothingRevived, KeepsElements
  <2>3. \A d \in Datas : pc'[d] = pc[d] /\ idx'[d] = idx[d]
    BY <1>0, <2>1, ConstantAssumption DEF Objects
  <2> QED BY <2>1, <2>2, <2>3, ElementsKept
<1>2. CASE ClearAttribute(v)
  <2>1. /\ obj' = RefDec(obj, held[a]) /\ held' = [held EXCEPT ![a] = NoObj]
        /\ UNCHANGED <<items, flags, useAfterFree>>
        /\ pc' = pc \/ \E l : pc' = [pc EXCEPT ![v] = l]
        /\ \E i : idx' = [idx EXCEPT ![v] = i]
    BY <1>2 DEF ClearAttribute
  <2>2. held[a] \in Objs0
    BY <1>0, Plain DEF AInv
  <2>3. NothingRevived
    BY <2>1, <2>2, DecRevivesNothing
  <2>4. SameBut({"attribute"})
    BY <2>1, Kinds, Plain DEF SameBut, AInv
  <2>5. \A d \in Datas : pc'[d] = pc[d] /\ idx'[d] = idx[d]
    BY <1>0, <2>1, ConstantAssumption DEF Objects
  <2> QED BY <2>1, <2>3, <2>4, <2>5, NotAnElement, ElementsKept
<1>3. CASE LoadAttribute(v)
  <2>1. Live(x)
    BY <1>3, LoadsLiveElements
  <2>2. /\ obj' = RefInc(obj, x) /\ held' = [held EXCEPT ![a] = x]
        /\ UNCHANGED <<items, flags, useAfterFree>>
        /\ pc' = pc \/ \E l : pc' = [pc EXCEPT ![v] = l]
        /\ \E i : idx' = [idx EXCEPT ![v] = i]
        /\ IInv'
    BY <1>3, <2>1, LoadAttributeStep DEF LoadAttribute, AInv
  <2>3. x \in Objs0
    <3>1. held'[a] = x
      BY <1>0, <2>2, Plain DEF AInv
    <3>2. held' \in [Slots -> Objs0]
      BY <2>2 DEF IInv, Consistent
    <3> QED BY <1>0, <3>1, <3>2
  <2> HIDE DEF x
  <2>4. NothingRevived
    BY <2>2, <2>3, IncRevivesNothing
  <2>5. SameBut({"attribute"})
    BY <2>2, Kinds, Plain DEF SameBut, AInv
  <2>6. \A d \in Datas : pc'[d] = pc[d] /\ idx'[d] = idx[d]
    BY <1>0, <2>2, ConstantAssumption DEF Objects
  <2> QED BY <2>2, <2>4, <2>5, <2>6, NotAnElement, ElementsKept
<1>4. CASE LoadBackgroundParam(v)
  <2> DEFINE y == held[Param(v, "background")]
  <2>1. /\ obj' = Reassign(obj, held[b], y) /\ held' = [held EXCEPT ![b] = y]
        /\ UNCHANGED <<items, flags, idx, useAfterFree>>
        /\ pc' = [pc EXCEPT ![v] = "idle"]
    BY <1>4 DEF LoadBackgroundParam
  <2>2. y \in Objs0 /\ held[b] \in Objs0
    BY <1>0, Plain DEF AInv
  <2> HIDE DEF y
  <2>3. NothingRevived
    BY <2>1, <2>2, ReassignRevivesNothing
  <2>4. SameBut({"background"})
    BY <2>1, Kinds, Plain DEF SameBut, AInv
  <2>5. \A d \in Datas : pc'[d] = pc[d] /\ idx'[d] = idx[d]
    BY <1>0, <2>1, ConstantAssumption DEF Objects
  <2> QED BY <2>1, <2>3, <2>4, <2>5, NotAnElement, ElementsKept
<1> QED BY <1>1, <1>2, <1>3, <1>4

(* Making the default background keeps the elements. *)
LEMMA LoadBackgroundDefaultKeeps ==
  ASSUME AInv, NEW v \in Volumes, NEW x \in Datas, LoadBackgroundDefault(v, x)
  PROVE  Elements'
<1> DEFINE dev == held[DevicePtr(v)]
           h   == BornOn(obj, x, dev)
           h2  == RefInc(h, x)
           h3  == RefDec(h2, x)
           old == held[Backgr(v)]
<1>0. /\ x \in Objects /\ v \in Objects /\ obj[x].st = "unborn"
      /\ pc \in [Objects -> Loops] /\ dev \in Objs0 /\ old \in Objs0 /\ x \in Objs0
      /\ obj \in HeapType
  BY Plain, SlotsOfTheClasses
     DEF AInv, IInv, PlainTypeOK, Objects, Objs0, LoadBackgroundDefault
<1>1. /\ obj' = RefDec(h3, old)
      /\ held' = [held EXCEPT ![Backgr(v)] = x, ![DevicePtr(x)] = dev]
      /\ pc' = [pc EXCEPT ![v] = "idle"]
      /\ UNCHANGED <<items, flags, idx, useAfterFree>>
  BY DEF LoadBackgroundDefault, BornInternal
<1>2. /\ h \in HeapType
      /\ \A o \in Objects : /\ h[o].st = "live" => obj[o].st \in {"live", "unborn"}
                            /\ h[o].st = "unborn" => obj[o].st = "unborn"
  BY <1>0, BornOnIsUnborn
<1>3. h2 \in HeapType /\ \A o \in Objects : h2[o].st = h[o].st
  BY <1>0, <1>2, StatusKept
<1>4. h3 \in HeapType
  <2>1. h[x].st = "live" /\ h[x].rc \in Nat \ {0}
    <3>1. Born(obj, x) \in HeapType /\ Born(obj, x)[x] = [rc |-> 1, st |-> "live"]
      BY <1>0 DEF Born, HeapType
    <3>2. CASE dev = NoObj
      BY <3>1, <3>2 DEF BornOn, RefInc
    <3>3. CASE dev # NoObj
      BY <1>0, <3>1, <3>3 DEF BornOn, RefInc, HeapType, Objs0
    <3> QED BY <3>2, <3>3
  <2> HIDE DEF h
  <2>2. x # NoObj
    BY <1>0, ConstantAssumption
  <2>3. h2[x].rc \in Nat \ {0, 1}
    BY <1>0, <1>2, <2>1, <2>2 DEF RefInc, HeapType
  <2> HIDE DEF h2
  <2> QED BY <1>0, <1>3, <2>2, <2>3 DEF RefDec, HeapType
<1> HIDE DEF h, h2
<1>5. \A o \in Objects : /\ h3[o].st = "live" => h2[o].st = "live"
                         /\ h3[o].st = "unborn" => h2[o].st = "unborn"
  BY <1>0, <1>3, StatusKept
<1> HIDE DEF h3, old, dev
<1>6. NothingRevived
  <2>1. \A o \in Objects : /\ obj'[o].st = "live" => h3[o].st = "live"
                           /\ obj'[o].st = "unborn" => h3[o].st = "unborn"
    BY <1>0, <1>1, <1>4, StatusKept
  <2> QED BY <2>1, <1>2, <1>3, <1>5 DEF NothingRevived
<1>7. SameBut({"device", "background"})
  BY <1>1, Kinds, Plain DEF SameBut, AInv
<1>8. \A d \in Datas : pc'[d] = pc[d] /\ idx'[d] = idx[d]
  BY <1>0, <1>1, ConstantAssumption DEF Objects
<1> QED BY <1>1, <1>6, <1>7, <1>8, NotAnElement, ElementsKept

(* Every step keeps the elements. *)
LEMMA NextKeepsElements ==
  ASSUME AInv, HandleArrayFlags = {"DEFAULT"}, [Next]_vars
  PROVE  AInv'
<1>0. IInv'
  BY NextKeepsInvariant DEF AInv
<1>1. CASE UNCHANGED vars
  BY <1>0, <1>1
     DEF vars, AInv, Elements, HoldsElements, UnbornAreEmpty, OnlyDefault,
         NoUseAfterFree, Live
<1>2. CASE ApiCall
  <2>1. ASSUME NEW d \in Devices, NewDevice(d) \/ CommitDevice(d)
        PROVE  Elements'
    BY <2>1, NewDeviceKeeps
  <2>2. ASSUME NEW d \in Devices, NEW x \in Datas, NewData(x, d)
        PROVE  Elements'
    BY <2>2, NewDataKeeps
  <2>3. ASSUME NEW d \in Devices, NEW x \in Datas, NEW src \in HandleSeqs,
               NEW f \in HandleArrayFlags, NewDataArray(x, d, src, f)
        PROVE  Elements'
    BY <2>3, NewDataArrayKeeps
  <2>4. ASSUME NEW d \in Devices, NEW x \in Volumes, NewVolume(x, d)
        PROVE  Elements'
    BY <2>4, NewDataKeeps
  <2>5. ASSUME NEW x \in Objects, NEW t \in Objects,
               NewSampler(x, t) \/ NewContext(x, t) \/ NewObserver(x, t)
        PROVE  Elements'
    <3>1. /\ x \in Samplers \cup Contexts \cup Observers
          /\ t \in Volumes \cup Samplers /\ NewDependent(x, t)
      BY <2>5 DEF NewSampler, NewContext, NewObserver
    <3> QED BY <3>1, NewDependentKeeps
  <2>6. ASSUME NEW o \in Objects, Release(o)
        PROVE  Elements'
    BY <2>6, ReleaseKeeps
  <2>7. ASSUME NEW v \in Volumes, CommitVolume(v)
        PROVE  Elements'
    BY <2>7, CommitKeeps
  <2>8. ASSUME NEW v \in Volumes, NEW p \in ParamNames, NEW x \in Datas \cup {NoObj},
               SetObjectParam(v, p, x)
        PROVE  Elements'
    BY <2>8, SetParamKeeps
  <2>9. ASSUME NEW v \in Volumes, NEW p \in ParamNames, SetScalarParam(v, p)
        PROVE  Elements'
    BY <2>9, SetParamKeeps
  <2> QED BY <1>0, <1>2, <2>1, <2>2, <2>3, <2>4, <2>5, <2>6, <2>7, <2>8, <2>9
          DEF ApiCall, AInv
<1>3. CASE Loop
  <2>1. ASSUME NEW d \in Datas, AdoptChild(d)
        PROVE  Elements'
    BY <2>1, AdoptChildKeeps
  <2>2. ASSUME NEW v \in Volumes,
               ClearAttribute(v) \/ LoadAttribute(v) \/ LoadBackgroundParam(v)
                 \/ CommitThrows(v)
        PROVE  Elements'
    BY <2>2, CommitKeeps
  <2>3. ASSUME NEW v \in Volumes, NEW x \in Datas, LoadBackgroundDefault(v, x)
        PROVE  Elements'
    BY <2>3, LoadBackgroundDefaultKeeps
  <2> QED BY <1>0, <1>3, <2>1, <2>2, <2>3 DEF Loop, AInv
<1>4. CASE Destruction
  BY <1>0, <1>4, DestructorDropsKeeps DEF Destruction, AInv
<1> QED BY <1>1, <1>2, <1>3, <1>4 DEF Next

(* There is no array before the first call. *)
LEMMA InitElements ==
  ASSUME Init
  PROVE  AInv
BY InitInvariant DEF Init, AInv, Elements, HoldsElements, UnbornAreEmpty, OnlyDefault,
                     NoUseAfterFree, Live, Objects

(* The strengthened invariant holds in every behaviour in which arrays of handles are
   created with the default flag (Data.cpp copies the handles, and their stride is
   the one the constructor reads them with). *)
THEOREM DefaultInvariant ==
  ASSUME HandleArrayFlags = {"DEFAULT"}
  PROVE  Spec => []AInv
<1>1. Init => AInv
  BY InitElements
<1>2. AInv /\ [Next]_vars => AInv'
  BY NextKeepsElements
<1> QED BY <1>1, <1>2, PTL DEF Spec

(***************************************************************************)
(* A finished array of handles made with VKL_DATA_DEFAULT keeps its        *)
(* elements alive, however early the application releases their handles.   *)
(***************************************************************************)
THEOREM DefaultArraysKeepElements ==
  ASSUME HandleArrayFlags = {"DEFAULT"}
  PROVE  Spec => []ArrayElementsAreAlive
<1>1. AInv => ArrayElementsAreAlive
  BY ElementsAreLive DEF ArrayElementsAreAlive
<1> QED BY <1>1, DefaultInvariant, PTL

(* And so no commit of a volume reads an element that was deleted. *)
THEOREM DefaultArraysAreSafe ==
  ASSUME HandleArrayFlags = {"DEFAULT"}
  PROVE  Spec => []NoUseAfterFree
<1>1. AInv => NoUseAfterFree
  BY DEF AInv, Elements
<1> QED BY <1>1, DefaultInvariant, PTL
=============================================================================
