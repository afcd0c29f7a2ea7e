----------------------------- MODULE VdbIterator -----------------------------
(***************************************************************************)
(* The interval iterator of VDB volumes, over the tree that a commit has   *)
(* built.  A hierarchical DDA keeps, for each level down to the iterator's *)
(* depth, the cell the ray is in and the t at which it leaves the cell     *)
(* along each axis.  A call asks the tree about the current cell, steps    *)
(* over voxels that are empty or of no interest, and returns the next one. *)
(*                                                                         *)
(* Positions are counted in fractions of a voxel, so that rays cross the   *)
(* sides of voxels at integer t.                                           *)
(***************************************************************************)
EXTENDS VdbTree, IteratorContext

CONSTANTS
    Rays,          \* an input :> the iterators to try, see RayAssumption
    VoxelWidth,    \* the fractions of a voxel
    Inf            \* larger than every t

(***************************************************************************)
(* A ray in index space with its t range, and the context: the resolution  *)
(* hint, and the leaves whose values it asks for.                          *)
(***************************************************************************)
ASSUME IteratorAssumption ==
    /\ Axes \subseteq Nat /\ VoxelWidth \in Nat \ {0, 1} /\ Inf \in Nat
    /\ \A s \in Inputs : \A r \in Rays[s] :
          /\ r \in [org : [Axes -> Int], dir : [Axes -> -2 .. 2],
                    tRange : [lo : Nat, hi : 0 .. Inf - 1],
                    hint : Int, want : SUBSET (1 .. Len(s))]
          /\ \A a \in Axes :
                r.dir[a] \in {-2, 2} => r.org[a] % 2 = 0 /\ VoxelWidth % 2 = 0

VARIABLES
    pc,            \* where a call is
    ray, depth,    \* the ray in domain space, dda.level
    tMax,          \* where the ray leaves the domain
    dda,           \* [t, idx, tNext]: idx and tNext of each level's cell
    voxel,         \* [level, isEmpty, range], the VdbVoxelDescriptor
    entry,         \* of the voxel: its t, and the levels above that may follow
    interval,      \* [lo, hi, range], the interval returned last
    required       \* history: the units of t that the context asks for

march == <<pc, ray, depth, tMax, dda, voxel, entry, interval, required>>
allVars == <<vars, march>>

Sign(n) == IF n < 0 THEN -1 ELSE IF n = 0 THEN 0 ELSE 1

Smaller(a, b) == IF a <= b THEN a ELSE b

Position(t) == [a \in Axes |-> ray.org[a] + (t * ray.dir[a])]

(* the cell of a level is the node of the level below, or a voxel of a leaf *)
CellRes(l) == Res[l + 1]

(***************************************************************************)
(* intersect_planes: the t of a plane across an axis.  "Do not intersect   *)
(* planes the origin is on!"                                               *)
(***************************************************************************)
Divide(n, d) == IF d > 0 THEN n \div d ELSE (-n) \div (-d)

Intersection(p, a) ==
    IF ray.dir[a] = 0 \/ VoxelWidth * p = ray.org[a] THEN Inf
    ELSE Divide(VoxelWidth * p - ray.org[a], ray.dir[a])

(* clampToCell: the cell on level l that contains a position *)
ClampToCell(pos, l) ==
    [a \in Axes |-> LET n == IF pos[a] < 0 THEN 0 ELSE pos[a] \div VoxelWidth
                    IN  n - (n % CellRes(l))]

(* where the ray will leave the cell, per axis *)
ExitTimes_LowerPlane(idx, l) == [a \in Axes |-> Intersection(idx[a], a)]

ExitTimes(idx, l) ==
    [a \in Axes |-> Intersection(IF ray.dir[a] < 0 THEN idx[a] ELSE idx[a] + CellRes(l), a)]

-----------------------------------------------------------------------------
(* ddaInit *)
InitialDda(t) ==
    LET idx == [l \in 0 .. depth |-> ClampToCell(Position(t), l)]
    IN  [t |-> t, idx |-> idx, tNext |-> [l \in 0 .. depth |-> ExitTimes(idx[l], l)]]

(* ddaStep: once on one level, along the first of the axes that are due *)
StepAxis(d, l) ==
    CHOOSE a \in Axes : \A b \in Axes : \/ d.tNext[l][a] < d.tNext[l][b]
                                        \/ d.tNext[l][a] = d.tNext[l][b] /\ a <= b

TDelta(l, a) ==
    IF ray.dir[a] = 0 THEN Inf
    ELSE (VoxelWidth * CellRes(l)) \div (Sign(ray.dir[a]) * ray.dir[a])

DdaStep(d, l) ==
    LET a == StepAxis(d, l)
    IN  [d EXCEPT !.t = d.tNext[l][a],
                  !.idx[l][a] = @ + Sign(ray.dir[a]) * CellRes(l),
                  !.tNext[l][a] = @ + TDelta(l, a)]

(***************************************************************************)
(* ddaReinitBelow: the ray is on a side across axis a, "move the index     *)
(* point off of that plane" by less than a voxel.                          *)
(***************************************************************************)
ReinitAt(pos, d, l) ==
    LET idx == [k \in 0 .. depth |-> IF k <= l THEN d.idx[k] ELSE ClampToCell(pos, k)]
    IN  [d EXCEPT !.idx = idx,
                  !.tNext = [k \in 0 .. depth |-> IF k <= l THEN @[k] ELSE ExitTimes(idx[k], k)]]

DdaReinitBelow_OnPlane(d, l, a) == ReinitAt(Position(d.t), d, l)

DdaReinitBelow(d, l, a) ==
    ReinitAt([Position(d.t) EXCEPT ![a] = @ + Sign(ray.dir[a])], d, l)

StepOnLevel(d, l) ==
    IF l < depth THEN DdaReinitBelow(DdaStep(d, l), l, StepAxis(d, l)) ELSE DdaStep(d, l)

ChildHasLeftDomain_Never(d, l) == FALSE

ChildHasLeftDomain(d, l) ==
    \E a \in Axes : \/ d.idx[l + 1][a] < d.idx[l][a]
                    \/ d.idx[l + 1][a] >= d.idx[l][a] + CellRes(l)

-----------------------------------------------------------------------------
(***************************************************************************)
(* VdbIterator_queryVoxel: descends to the depth, and stops at an empty    *)
(* voxel, at one without a value the context asks for, and at a leaf: of   *)
(* that the iterator returns the voxels, if it may go that deep, with the  *)
(* range of the leaf.                                                      *)
(***************************************************************************)
ValueRangesOverlap(r) == \E s \in r : s[1] \in {"tile", "cell"} /\ s[2] \in ray.want

QueryVoxel(offset) ==
    LET d      == Descend(offset, depth)
        n      == Len(d.visited)
        pruned == {k \in 1 .. n : ~ValueRangesOverlap(range[d.visited[k]])}
        leaf   == d.voxel.type = "leaf"
    IN  IF pruned # {} THEN [level |-> SmallestOf(pruned) - 1, isEmpty |-> TRUE, range |-> {}]
        ELSE IF ~leaf /\ n <= depth THEN [level |-> n, isEmpty |-> TRUE, range |-> {}]
        ELSE [level |-> IF leaf /\ n <= depth THEN n ELSE n - 1,
              isEmpty |-> FALSE, range |-> range[Last(d.visited)]]

(* intersectBox, with the bounding box of the leaves *)
Slab(r, a) ==
    LET lo == VoxelWidth * (Lower[a] - rootOrigin[a]) - r.org[a]
        hi == VoxelWidth * (Upper[a] - rootOrigin[a]) - r.org[a]
    IN  CASE r.dir[a] > 0 -> [lo |-> Divide(lo, r.dir[a]), hi |-> Divide(hi, r.dir[a])]
          [] r.dir[a] < 0 -> [lo |-> Divide(hi, r.dir[a]), hi |-> Divide(lo, r.dir[a])]
          [] r.dir[a] = 0 -> IF lo <= 0 /\ 0 < hi THEN [lo |-> -Inf, hi |-> Inf]
                                                  ELSE [lo |-> Inf, hi |-> -Inf]

IntersectBox(r) ==
    LET slabs == {Slab(r, a) : a \in Axes} \cup {r.tRange}
    IN  [lo |-> LargestOf({s.lo : s \in slabs}), hi |-> SmallestOf({s.hi : s \in slabs})]

-----------------------------------------------------------------------------
(***************************************************************************)
(* The cell of a ray between t and t + 1, in index space; the units of t   *)
(* in voxels of leaves that the context asks for.                          *)
(***************************************************************************)
CellAt(r, t) ==
    [a \in Axes |-> rootOrigin[a]
                      + ((2 * r.org[a] + (2 * t + 1) * r.dir[a]) \div (2 * VoxelWidth))]

Required(r, tRange) ==
    {t \in tRange.lo .. tRange.hi - 1 : \E i \in r.want : InLeaf(CellAt(r, t), i)}

IteratorInit ==
    /\ Init
    /\ pc = "none" /\ ray = <<>> /\ depth = 0 /\ tMax = 0
    /\ dda = [t |-> 0, idx |-> <<>>, tNext |-> <<>>]
    /\ voxel = [level |-> 0, isEmpty |-> TRUE, range |-> {}] /\ entry = [t |-> 0, above |-> 0]
    /\ interval = [lo |-> 0, hi |-> 0, range |-> {}]
    /\ required = {}

CommitStep == Commit /\ UNCHANGED march

(* VdbIterator_Initialize; a tree that did not fit its root is left alone *)
Initialize ==
    /\ phase = "committed" /\ FitsRoot /\ pc = "none"
    /\ UNCHANGED vars
    /\ \E r \in Rays[leaves] :
          LET inDomain == [r EXCEPT !.org = Minus(@, [a \in Axes |-> VoxelWidth * rootOrigin[a]])]
              tRange   == IntersectBox(inDomain)
          IN  /\ ray' = inDomain
              /\ depth' = Smaller(VdbMaxIteratorDepth(r.hint), LeafLevel)
              /\ required' = Required(inDomain, tRange)
              /\ IF tRange.hi <= tRange.lo
                 THEN tMax' = -Inf /\ dda' = [dda EXCEPT !.t = 0] /\ UNCHANGED interval
                 ELSE /\ tMax' = tRange.hi
                      /\ dda' = InitialDda(tRange.lo)'
                      /\ interval' = [lo |-> tRange.lo, hi |-> tRange.lo, range |-> {}]
    /\ pc' = "query" /\ UNCHANGED <<voxel, entry>>

(***************************************************************************)
(* VdbIterator_iterateInterval, which the application calls until it       *)
(* returns false: behind tMax, or in a voxel that the ray only touches.    *)
(***************************************************************************)
Query ==
    /\ pc = "query" /\ dda.t <= tMax
    /\ voxel' = QueryVoxel(dda.idx[depth])
    /\ pc' = IF voxel'.isEmpty \/ dda.t < tMax THEN "step" ELSE "done"
    /\ UNCHANGED vars /\ UNCHANGED <<ray, depth, tMax, dda, entry, interval, required>>

NoInterval ==
    /\ pc = "query" /\ dda.t > tMax
    /\ pc' = "done"
    /\ UNCHANGED vars
    /\ UNCHANGED <<ray, depth, tMax, dda, voxel, entry, interval, required>>

(***************************************************************************)
(* hddaStep: step on the level of the voxel, bring the levels below up to  *)
(* date, and let the levels above follow as far as a child left its parent. *)
(***************************************************************************)
Step ==
    /\ pc = "step"
    /\ dda' = StepOnLevel(dda, voxel.level)
    /\ entry' = [t |-> dda.t, above |-> voxel.level]
    /\ pc' = "follow"
    /\ UNCHANGED vars /\ UNCHANGED <<ray, depth, tMax, voxel, interval, required>>

Follows == entry.above > 0 /\ ChildHasLeftDomain(dda, entry.above - 1)

Follow ==
    /\ pc = "follow" /\ Follows
    /\ dda' = DdaStep(dda, entry.above - 1)
    /\ entry' = [entry EXCEPT !.above = @ - 1]
    /\ UNCHANGED vars /\ UNCHANGED <<pc, ray, depth, tMax, voxel, interval, required>>

(* the next voxel; the one that was left is returned if it is not empty *)
Arrive ==
    /\ pc = "follow" /\ ~Follows
    /\ pc' = "query"
    /\ interval' = IF voxel.isEmpty THEN interval
                   ELSE [lo |-> entry.t, hi |-> Smaller(dda.t, tMax), range |-> voxel.range]
    /\ UNCHANGED vars /\ UNCHANGED <<ray, depth, tMax, dda, voxel, entry, required>>

March == Query \/ NoInterval \/ Step \/ Follow \/ Arrive

IteratorDone ==
    /\ \/ pc = "done"
       \/ pc = "none" /\ phase \in {"committed", "failed"}
    /\ UNCHANGED allVars

IteratorNext == CommitStep \/ Initialize \/ March \/ IteratorDone

(* A call runs to its end, and the application goes on calling. *)
IteratorSpec == IteratorInit /\ [][IteratorNext]_allVars /\ WF_allVars(March)

-----------------------------------------------------------------------------
(***************************************************************************)
(* The iterator implements the promise of all interval iterators: its      *)
(* intervals come in order and miss no voxel of a leaf that the context    *)
(* asks for, whatever was pruned on whatever level; and they end.          *)
(***************************************************************************)
Promise == INSTANCE IntervalIteration WITH
    stage    <- IF pc \in {"none", "done"} THEN pc ELSE "iterating",
    required <- required,
    limit    <- tMax,
    interval <- [lo |-> interval.lo, hi |-> interval.hi]

ImplementsIteration == Promise!Spec /\ Promise!Ends

(***************************************************************************)
(* "This keeps the dda state consistent": between two calls the cell of    *)
(* each level is in the cell of the level above, so that a step over a     *)
(* large empty voxel starts from where the small steps have led.           *)
(***************************************************************************)
DdaIsConsistent ==
    pc = "query" /\ dda.t < tMax =>
        \A l \in 0 .. depth - 1, a \in Axes :
            /\ dda.idx[l][a] <= dda.idx[l + 1][a]
            /\ dda.idx[l + 1][a] < dda.idx[l][a] + CellRes(l)

(***************************************************************************)
(* "the sampled value range should be completely within the returned       *)
(* interval value range" (interval_iterator.cpp).                          *)
(***************************************************************************)
ReportedRangeCoversInterval ==
    pc = "query" =>
        \A t \in interval.lo .. interval.hi - 1 :
            \A i \in Leaves :
                InLeaf(CellAt(ray, t), i) /\ leaves[i].level = LeafLevel =>
                    \A d \in [Axes -> -1 .. 2] :
                        Sample(Plus(CellAt(ray, t), d)) \in interval.range
=============================================================================
