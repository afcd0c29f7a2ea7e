--------------------------- MODULE ManagedObjects ---------------------------
(***************************************************************************)
(* Reference counting of the API objects: the device, data arrays,         *)
(* volumes, samplers, iterator contexts and observers.                     *)
(*                                                                         *)
(* Everything that owns a reference is a slot: the handle the application  *)
(* got from vklNew...(), the device pointer of a ManagedObject, the        *)
(* Ref<> to the object it was created from, a parameter value, an element  *)
(* of a data array, a Ref<> taken by a commit.  A count goes up when a     *)
(* slot is filled and down when it is cleared; the object whose count      *)
(* reaches zero is deleted at once, and its destructor clears its own      *)
(* slots one by one, while other threads go on calling the API.            *)
(*                                                                         *)
(* A call is one step unless it runs a loop of reference operations: the   *)
(* Data constructor, Volume::commit() and the destructors take one step    *)
(* per operation.  What undefined behaviour leads to is not modelled: the  *)
(* step that dereferences a deleted object raises useAfterFree, and the    *)
(* behaviour ends there.                                                   *)
(***************************************************************************)
EXTENDS Naturals, Sequences, FiniteSets

CONSTANTS
    Devices, Datas, Volumes, Samplers, Contexts, Observers,
                    \* addresses of the objects of each class, each used once
    ParamNames,     \* names of volume parameters, at least "data", "background"
    MaxItems,       \* bound: longest array of handles
    MaxLeaks,       \* bound: lost references per object
    HandleArrayFlags,  \* creation flags of arrays of handles: a subset of Flags
    NoObj           \* the null pointer

Flags == {"DEFAULT", "SHARED_BUFFER"}

Objects == Devices \cup Datas \cup Volumes \cup Samplers \cup Contexts
             \cup Observers

ASSUME ConstantAssumption ==
    /\ MaxItems \in Nat \ {0} /\ MaxLeaks \in Nat
    /\ IsFiniteSet(Objects) /\ IsFiniteSet(ParamNames)
    /\ {"data", "background"} \subseteq ParamNames
    /\ HandleArrayFlags \subseteq Flags
    /\ NoObj \notin Objects
    /\ Devices \cap (Datas \cup Volumes \cup Samplers \cup Contexts \cup Observers) = {}
    /\ Datas \cap (Volumes \cup Samplers \cup Contexts \cup Observers) = {}
    /\ Volumes \cap (Samplers \cup Contexts \cup Observers) = {}
    /\ Samplers \cap (Contexts \cup Observers) = {}
    /\ Contexts \cap Observers = {}

Items == 1 .. MaxItems

(***************************************************************************)
(* The slots an object can own.  The two intrusive pointers to the device, *)
(* ManagedObject::device and StructShared::structSharedDevice, live and    *)
(* die together: one slot.                                                 *)
(***************************************************************************)
Handle(o)    == <<o, <<"handle", "app">>>>
DevicePtr(o) == <<o, <<"device", "ptr">>>>
Target(o)    == <<o, <<"target", "ref">>>>   \* Sampler::volume, IteratorContext::sampler, Observer::target
Param(o, p)  == <<o, <<"param", p>>>>        \* ParameterizedObject::Param::data
Item(o, i)   == <<o, <<"item", i>>>>         \* an element of Data
Attr(o, i)   == <<o, <<"attribute", i>>>>    \* StructuredVolume::attributesData
Backgr(o)    == <<o, <<"background", "ref">>>> \* StructuredVolume::background

Slots == {Handle(o) : o \in Objects} \cup {DevicePtr(o) : o \in Objects}
           \cup {Target(o) : o \in Samplers \cup Contexts \cup Observers}
           \cup {Param(v, p) : v \in Volumes, p \in ParamNames}
           \cup {Item(d, i) : d \in Datas, i \in Items}
           \cup {Attr(v, i) : v \in Volumes, i \in Items}
           \cup {Backgr(v) : v \in Volumes}

Owner(s) == s[1]
SlotsOf(o) == {s \in Slots : Owner(s) = o}

VARIABLES
    obj,        \* per object, its count rc and whether it is unborn, live or deleted
    held,       \* the object each slot points to, or NoObj
    items,      \* what an array of handles stores, one object per element
    flags,      \* the creation flags of each array of handles
    pc,         \* the loop a call on the object is in, or "idle"
    idx,        \* the loop's index
    committed,  \* Device::committed
    lost,       \* history: references dropped without decrementing the count
    useAfterFree

vars == <<obj, held, items, flags, pc, idx, committed, lost, useAfterFree>>

Loops == {"idle", "adoptChildren", "clearAttributes", "loadAttributes",
          "loadBackground"}

-----------------------------------------------------------------------------
(***************************************************************************)
(* RefCountedObject: refInc(), and refDec(), which deletes the object when *)
(* the count it leaves is zero.  A new object has count one.               *)
(***************************************************************************)
Born_Uncounted(h, x) == [h EXCEPT ![x] = [rc |-> 0, st |-> "live"]]

Born(h, x) == [h EXCEPT ![x] = [rc |-> 1, st |-> "live"]]

RefInc(h, x) == IF x = NoObj THEN h ELSE [h EXCEPT ![x].rc = @ + 1]

RefDec(h, x) ==
    IF x = NoObj THEN h
    ELSE [h EXCEPT ![x] = [rc |-> @.rc - 1,
                           st |-> IF @.rc = 1 THEN "dead" ELSE @.st]]

(***************************************************************************)
(* Fill a slot: the new referent is counted before the old one is          *)
(* released, so that assigning the same object again is harmless.          *)
(***************************************************************************)
Reassign_OldKept(h, old, new) == RefInc(h, new)

Reassign_NewUncounted(h, old, new) == RefDec(h, old)

Reassign(h, old, new) == RefDec(RefInc(h, new), old)

(* ManagedObject and Sampler, IteratorContext, Observer: a new object counts
   its device and the object it is created from. *)
BornOn(h, x, dev) == RefInc(Born(h, x), dev)

BornFrom(h, x, t, dev) == RefInc(BornOn(h, x, dev), t)

(***************************************************************************)
(* A data array made by a commit: counted by new, by the Ref<> that keeps  *)
(* it, and released once "since there is no app handle".                   *)
(***************************************************************************)
BornInternal_NotReleased(h, x, dev) == RefInc(BornOn(h, x, dev), x)

BornInternal(h, x, dev) == RefDec(RefInc(BornOn(h, x, dev), x), x)

Live(o) == obj[o].st = "live"

(***************************************************************************)
(* The application calls the API on o: it still has the handle, and no     *)
(* other call on o is in progress ("not thread safe ... on the same        *)
(* object").                                                               *)
(***************************************************************************)
AppMayUse(o) == held[Handle(o)] = o /\ pc[o] = "idle" /\ ~useAfterFree

InUseByConstructor(o) ==
    \E d \in Datas : /\ pc[d] = "adoptChildren"
                     /\ \/ held[DevicePtr(d)] = o
                        \/ \E i \in 1 .. Len(items[d]) : items[d][i] = o

IsArray(d) == items[d] # <<>>

-----------------------------------------------------------------------------
Init ==
    /\ obj = [o \in Objects |-> [rc |-> 0, st |-> "unborn"]]
    /\ held = [s \in Slots |-> NoObj]
    /\ items = [d \in Datas |-> <<>>]
    /\ flags = [d \in Datas |-> "DEFAULT"]
    /\ pc = [o \in Objects |-> "idle"]
    /\ idx = [o \in Objects |-> 1]
    /\ committed = [d \in Devices |-> FALSE]
    /\ lost = [o \in Objects |-> 0]
    /\ useAfterFree = FALSE

(* vklNewDevice, vklCommitDevice *)
NewDevice(d) ==
    /\ obj[d].st = "unborn" /\ ~useAfterFree
    /\ obj' = Born(obj, d)
    /\ held' = [held EXCEPT ![Handle(d)] = d]
    /\ UNCHANGED <<items, flags, pc, idx, committed, lost, useAfterFree>>

CommitDevice(d) ==
    /\ AppMayUse(d)
    /\ committed' = [committed EXCEPT ![d] = TRUE]
    /\ UNCHANGED <<obj, held, items, flags, pc, idx, lost, useAfterFree>>

(***************************************************************************)
(* vklNewData of scalars, and vklNewVolume: refused on a device that was   *)
(* not committed.  The application owns the one reference of the result.   *)
(***************************************************************************)
NewOnDevice(x, d) ==
    /\ AppMayUse(d) /\ committed[d]
    /\ obj[x].st = "unborn"
    /\ obj' = BornOn(obj, x, d)
    /\ held' = [held EXCEPT ![Handle(x)] = x, ![DevicePtr(x)] = d]

NewData(x, d) ==
    /\ NewOnDevice(x, d)
    /\ UNCHANGED <<items, flags, pc, idx, committed, lost, useAfterFree>>

NewVolume(x, d) ==
    /\ NewOnDevice(x, d)
    /\ UNCHANGED <<items, flags, pc, idx, committed, lost, useAfterFree>>

(***************************************************************************)
(* vklNewData of an array of data handles.  The constructor then goes      *)
(* through the elements and counts each child.  It reads child i at i      *)
(* times the size of a pointer, which is how DEFAULT arrays are stored; a  *)
(* SHARED_BUFFER array is the application's array of VKLObject, a host     *)
(* pointer and a device pointer each, and the device pointer of a data     *)
(* object is null on the CPU device.                                       *)
(***************************************************************************)
NewDataArray(x, d, src, f) ==
    /\ NewOnDevice(x, d)
    /\ \A i \in 1 .. Len(src) : AppMayUse(src[i]) /\ ~IsArray(src[i])
    /\ items' = [items EXCEPT ![x] = src]
    /\ flags' = [flags EXCEPT ![x] = f]
    /\ pc' = [pc EXCEPT ![x] = "adoptChildren"]
    /\ idx' = [idx EXCEPT ![x] = 1]
    /\ UNCHANGED <<committed, lost, useAfterFree>>

Child_Strided(d, i) ==
    IF i % 2 = 1 THEN items[d][(i + 1) \div 2] ELSE NoObj

Child(d, i) ==
    IF flags[d] = "SHARED_BUFFER"
    THEN IF i % 2 = 1 THEN items[d][(i + 1) \div 2] ELSE NoObj
    ELSE items[d][i]

AdoptChild(d) ==
    /\ pc[d] = "adoptChildren" /\ ~useAfterFree
    /\ obj' = RefInc(obj, Child(d, idx[d]))
    /\ held' = [held EXCEPT ![Item(d, idx[d])] = Child(d, idx[d])]
    /\ IF idx[d] = Len(items[d])
       THEN /\ pc' = [pc EXCEPT ![d] = "idle"]
            /\ idx' = [idx EXCEPT ![d] = 1]
       ELSE /\ idx' = [idx EXCEPT ![d] = @ + 1]
            /\ UNCHANGED pc
    /\ UNCHANGED <<items, flags, committed, lost, useAfterFree>>

(***************************************************************************)
(* vklNewSampler, vklNewIntervalIteratorContext, vklNewHitIteratorContext, *)
(* vklNewVolumeObserver, vklNewSamplerObserver: the new object keeps a     *)
(* reference to the object it was created from, and to that one's device.  *)
(***************************************************************************)
NewDependent(x, t) ==
    /\ AppMayUse(t)
    /\ obj[x].st = "unborn"
    /\ LET dev == held[DevicePtr(t)]
       IN  /\ obj' = BornFrom(obj, x, t, dev)
           /\ held' = [held EXCEPT ![Handle(x)] = x, ![Target(x)] = t,
                                   ![DevicePtr(x)] = dev]
    /\ UNCHANGED <<items, flags, pc, idx, committed, lost, useAfterFree>>

NewSampler(x, v) == x \in Samplers /\ v \in Volumes /\ NewDependent(x, v)

NewContext(x, s) == x \in Contexts /\ s \in Samplers /\ NewDependent(x, s)

NewObserver(x, t) ==
    x \in Observers /\ t \in Volumes \cup Samplers /\ NewDependent(x, t)

(* vklRelease, vklReleaseDevice *)
Release(o) ==
    /\ AppMayUse(o) /\ ~InUseByConstructor(o)
    /\ held' = [held EXCEPT ![Handle(o)] = NoObj]
    /\ obj' = RefDec(obj, o)
    /\ UNCHANGED <<items, flags, pc, idx, committed, lost, useAfterFree>>

(***************************************************************************)
(* vklSetData: Param::set for an object pointer; x = NoObj is a null       *)
(* VKLData.                                                                *)
(***************************************************************************)
SetObjectParam(v, p, x) ==
    /\ AppMayUse(v)
    /\ x # NoObj => AppMayUse(x)
    /\ obj' = Reassign(obj, held[Param(v, p)], x)
    /\ held' = [held EXCEPT ![Param(v, p)] = x]
    /\ UNCHANGED <<items, flags, pc, idx, committed, lost, useAfterFree>>

(***************************************************************************)
(* vklSetFloat and every setter of another type: the generic Param::set    *)
(* just assigns, and the reference to the object held before is lost.      *)
(***************************************************************************)
SetScalarParam(v, p) ==
    LET old == held[Param(v, p)]
    IN  /\ AppMayUse(v)
        /\ old # NoObj
        /\ lost[old] < MaxLeaks
        /\ held' = [held EXCEPT ![Param(v, p)] = NoObj]
        /\ lost' = [lost EXCEPT ![old] = @ + 1]
        /\ UNCHANGED <<obj, items, flags, pc, idx, committed, useAfterFree>>

-----------------------------------------------------------------------------
(***************************************************************************)
(* vklCommit of a structured volume.  The old attributes are released      *)
(* before the "data" parameter is looked at: a commit that throws leaves   *)
(* the volume without them.                                                *)
(***************************************************************************)
CommitVolume(v) ==
    /\ AppMayUse(v)
    /\ pc' = [pc EXCEPT ![v] = "clearAttributes"]
    /\ idx' = [idx EXCEPT ![v] = 1]
    /\ UNCHANGED <<obj, held, items, flags, committed, lost, useAfterFree>>

ClearAttribute(v) ==
    /\ pc[v] = "clearAttributes" /\ ~useAfterFree
    /\ held' = [held EXCEPT ![Attr(v, idx[v])] = NoObj]
    /\ obj' = RefDec(obj, held[Attr(v, idx[v])])
    /\ IF idx[v] = MaxItems
       THEN /\ pc' = [pc EXCEPT ![v] = "loadAttributes"]
            /\ idx' = [idx EXCEPT ![v] = 1]
       ELSE /\ idx' = [idx EXCEPT ![v] = @ + 1]
            /\ UNCHANGED pc
    /\ UNCHANGED <<items, flags, committed, lost, useAfterFree>>

(* one attribute per element of an array, or the data object itself *)
Attributes(d) == IF IsArray(d) THEN items[d] ELSE <<d>>

LoadAttribute(v) ==
    LET data == held[Param(v, "data")]
    IN  /\ pc[v] = "loadAttributes" /\ ~useAfterFree
        /\ data # NoObj
        /\ LET x == Attributes(data)[idx[v]]
           IN  IF Live(x)
               THEN /\ obj' = RefInc(obj, x)
                    /\ held' = [held EXCEPT ![Attr(v, idx[v])] = x]
                    /\ UNCHANGED useAfterFree
               ELSE /\ useAfterFree' = TRUE
                    /\ UNCHANGED <<obj, held>>
        /\ IF idx[v] = Len(Attributes(data))
           THEN /\ pc' = [pc EXCEPT ![v] = "loadBackground"]
                /\ idx' = [idx EXCEPT ![v] = 1]
           ELSE /\ idx' = [idx EXCEPT ![v] = @ + 1]
                /\ UNCHANGED pc
        /\ UNCHANGED <<items, flags, committed, lost>>

(***************************************************************************)
(* getParamDataT with a default: the parameter, if it is an array of       *)
(* values, else a new array that only the volume refers to, also if the    *)
(* parameter is an array of handles.  A null VKLData counts as unset.      *)
(***************************************************************************)
LoadBackgroundParam(v) ==
    LET x == held[Param(v, "background")]
    IN  /\ pc[v] = "loadBackground" /\ ~useAfterFree
        /\ x # NoObj /\ ~IsArray(x)
        /\ obj' = Reassign(obj, held[Backgr(v)], x)
        /\ held' = [held EXCEPT ![Backgr(v)] = x]
        /\ pc' = [pc EXCEPT ![v] = "idle"]
        /\ UNCHANGED <<items, flags, idx, committed, lost, useAfterFree>>

LoadBackgroundDefault(v, x) ==
    LET dev == held[DevicePtr(v)]
        found == held[Param(v, "background")]
    IN  /\ pc[v] = "loadBackground" /\ ~useAfterFree
        /\ found # NoObj => IsArray(found)
        /\ obj[x].st = "unborn"
        /\ obj' = RefDec(BornInternal(obj, x, dev), held[Backgr(v)])
        /\ held' = [held EXCEPT ![Backgr(v)] = x, ![DevicePtr(x)] = dev]
        /\ pc' = [pc EXCEPT ![v] = "idle"]
        /\ UNCHANGED <<items, flags, idx, committed, lost, useAfterFree>>

(***************************************************************************)
(* The commit throws, because "data" is missing or does not pass a check   *)
(* or memory is short; the API reports the error and nothing is undone.    *)
(***************************************************************************)
CommitThrows(v) ==
    /\ pc[v] \in {"loadAttributes", "loadBackground"} /\ ~useAfterFree
    /\ pc' = [pc EXCEPT ![v] = "idle"]
    /\ idx' = [idx EXCEPT ![v] = 1]
    /\ UNCHANGED <<obj, held, items, flags, committed, lost, useAfterFree>>

-----------------------------------------------------------------------------
(***************************************************************************)
(* One reference released by the destructors of a deleted object: those of *)
(* its class and ~ManagedObject; the member ManagedObject::device goes     *)
(* last.                                                                   *)
(***************************************************************************)
InDestructionOrder_Any(s) == TRUE

InDestructionOrder_NoParams(s) ==
    /\ s = DevicePtr(Owner(s)) =>
          \A t \in SlotsOf(Owner(s)) \ {s} : t[2][1] # "param" => held[t] = NoObj
    /\ s[2][1] # "param"

InDestructionOrder(s) ==
    s = DevicePtr(Owner(s)) =>
        \A t \in SlotsOf(Owner(s)) \ {s} : held[t] = NoObj

DestructorDrops(s) ==
    /\ ~useAfterFree
    /\ obj[Owner(s)].st = "dead"
    /\ held[s] # NoObj
    /\ InDestructionOrder(s)
    /\ held' = [held EXCEPT ![s] = NoObj]
    /\ obj' = RefDec(obj, held[s])
    /\ UNCHANGED <<items, flags, pc, idx, committed, lost, useAfterFree>>

HandleSeqs == UNION {[1 .. n -> Datas] : n \in Items}

ApiCall ==
    \/ \E d \in Devices : NewDevice(d) \/ CommitDevice(d)
    \/ \E d \in Devices : \E x \in Datas :
          \/ NewData(x, d)
          \/ \E src \in HandleSeqs, f \in HandleArrayFlags :
                NewDataArray(x, d, src, f)
    \/ \E d \in Devices, x \in Volumes : NewVolume(x, d)
    \/ \E x, t \in Objects :
          NewSampler(x, t) \/ NewContext(x, t) \/ NewObserver(x, t)
    \/ \E o \in Objects : Release(o)
    \/ \E v \in Volumes :
          \/ CommitVolume(v)
          \/ \E p \in ParamNames :
                \/ \E x \in Datas \cup {NoObj} : SetObjectParam(v, p, x)
                \/ SetScalarParam(v, p)

Loop ==
    \/ \E d \in Datas : AdoptChild(d)
    \/ \E v \in Volumes :
          \/ ClearAttribute(v) \/ LoadAttribute(v)
          \/ LoadBackgroundParam(v) \/ CommitThrows(v)
          \/ \E x \in Datas : LoadBackgroundDefault(v, x)

Destruction == \E s \in Slots : DestructorDrops(s)

Next == ApiCall \/ Loop \/ Destruction

(***************************************************************************)
(* A destructor runs to its end in the thread that released the object.    *)
(***************************************************************************)
Spec == Init /\ [][Next]_vars /\ WF_vars(Destruction)

-----------------------------------------------------------------------------
TypeOK ==
    /\ obj \in [Objects -> [rc : Nat, st : {"unborn", "live", "dead"}]]
    /\ held \in [Slots -> Objects \cup {NoObj}]
    /\ items \in [Datas -> Seq(Datas)]
    /\ flags \in [Datas -> Flags]
    /\ pc \in [Objects -> Loops]
    /\ idx \in [Objects -> Items]
    /\ committed \in [Devices -> BOOLEAN]
    /\ lost \in [Objects -> Nat]
    /\ useAfterFree \in BOOLEAN

Holders(h, o) == {s \in Slots : h[s] = o}

(***************************************************************************)
(* The count of an object is the number of slots that point to it, plus    *)
(* the references a scalar setter lost: no path of the API, the            *)
(* constructors, the commits and the destructors counts one too few or one *)
(* too many, in any interleaving.                                          *)
(***************************************************************************)
CountsAreExact ==
    \A o \in Objects :
        obj[o].rc = Cardinality(Holders(held, o)) + lost[o]

(***************************************************************************)
(* Nothing refers to a deleted object: whoever still holds a reference,    *)
(* the application, another object or a destructor that has not run to its *)
(* end, finds the object alive.                                            *)
(***************************************************************************)
NoDanglingReference ==
    \A s \in Slots : held[s] # NoObj => Live(held[s])

(***************************************************************************)
(* A device outlives the objects created on it, to the end of their        *)
(* destructors, which still use it to free memory (~Data).                 *)
(***************************************************************************)
DeviceOutlivesObjects ==
    \A o \in Objects \ Devices :
        (Live(o) \/ \E s \in SlotsOf(o) : held[s] # NoObj) =>
            /\ held[DevicePtr(o)] \in Devices
            /\ Live(held[DevicePtr(o)])

(***************************************************************************)
(* What a finished array of handles returns is alive: the application may  *)
(* release the handles it put into the array (README, the object model).   *)
(***************************************************************************)
ArrayElementsAreAlive ==
    \A d \in Datas :
        Live(d) /\ pc[d] = "idle" =>
            \A i \in 1 .. Len(items[d]) : Live(items[d][i])

(* No commit reads an array element that was deleted. *)
NoUseAfterFree == ~useAfterFree

(***************************************************************************)
(* A live object nobody refers to was lost by a scalar setter: on every    *)
(* other path "If the count reaches 0 the object will automatically be     *)
(* deleted" (README).                                                      *)
(***************************************************************************)
NoOrphan ==
    \A o \in Objects : Live(o) => Holders(held, o) # {} \/ lost[o] > 0

(***************************************************************************)
(* When the application has released every handle, and no setter lost a    *)
(* reference, every object is deleted in the end, the device included.     *)
(***************************************************************************)
AllReleased ==
    /\ \A o \in Objects : held[Handle(o)] = NoObj /\ lost[o] = 0
    /\ \A o \in Objects : pc[o] = "idle"
    /\ \A d \in Devices : obj[d].st # "unborn"

AllDeleted == \A o \in Objects : ~Live(o)

ReleasedObjectsAreDeleted == AllReleased /\ ~useAfterFree ~> AllDeleted
=============================================================================
