# A TLA+ model of Open VKL

Open VKL is a library of volume data structures for ray tracing: an
application creates volumes from arrays of data, samplers on volumes, iterator
contexts on samplers, and asks for samples, intervals and hits along rays.
This directory holds TLA+ modules translated from the C++ and ISPC sources, the
TLC configurations that check them on small instances, and TLAPS proofs.
`PROJECT.json` lists the components, the hazards, the runs, the theorems, and
for every definition the lines of source it stands for.

## The system

| component | state | operations | interacts with | what makes it correct | module |
|---|---|---|---|---|---|
| object model (`api/`, `common/`, `devices/cpu/api`) | reference counts, parameters, arrays of handles, device pointers | new, release, set, commit, destructors | everything: every object is one of these | counts equal references; nothing refers to a deleted object; the device goes last; what is released is deleted | `ManagedObjects` |
| leaf access observers (`devices/cpu/observer`, `VdbLeafAccessObserver`) | a growable list of buffers per sampler | add, remove, visit from a sampler | samplers write into the buffers | the list is the set of live observers | `ObserverRegistry` |
| VDB volume (`volume/vdb`) | levels of inner nodes, a pointer and a value range per voxel | commit, descend, value ranges, list inner nodes | samplers, iterators, observers | the tree finds the leaf a coordinate is in; ranges cover what the filters read | `VdbTopology`, `VdbTree` |
| VDB interval iterator (`VdbIterator.ispc`, `HDDA.ih.in`, `Dda.ih`) | per level: the cell the ray is in, where it leaves it | initialise, query a voxel, step | the VDB tree, a context | the promise of interval iterators | `VdbIterator` |
| BVH of unstructured, particle and AMR volumes (`UnstructuredBVH.h`) and its interval iterator | nodes with bounds, value range and signed nominal length; current node and bit stack | build (Embree), merge overlapping nodes, next interval | iterator contexts set the depth and the values | the promise of interval iterators | `BvhIterator` |
| default interval and hit iterators, surface search (`DefaultIterator`, `Iterator.ih`) | the last slice; the interval left, the last hit | initialise, next interval, next hit | any interval iterator, a sampler | the promises of both kinds of iterators | `HitIterator` |
| grid accelerator of structured volumes and its iterators | value ranges of macrocells; current cell | build, next interval, next hit | contexts, the surface search | the promises of both kinds of iterators | `GridIterator` |
| iterator contexts | attribute, value ranges, depth | commit | samplers, iterators | the depth a resolution hint asks for | `IteratorContext`, used by `BvhIterator`, `VdbIterator` |
| interactive example (`examples/interactive`) | versions of camera and parameters, framebuffer, iterator context, the flag `run` | the GUI loop; start, stop, render a frame | two threads, three kinds of locks | nothing is replaced under a running renderer; one picture per buffer; every edit is displayed | `RenderLoop` |
| structured, AMR, particle volumes; cell sampling | voxels, blocks, particles | sample | samplers | floating point interpolation | - |
| device registry, logging, vectorised entry points, GPU device, utilities, tests | factories, callbacks, none | load, create, convert | the API | - | - |

What makes it hard: objects of one graph are released from several threads
while others create and release more; a commit is a long sequence of reference
operations that can throw half way; trees are built with masks and shifts that
silently wrap; iterators keep state between two calls of the application and
have to resume in the middle of a tree, or of an interval; the viewer edits
parameters, volume and framebuffer while a thread renders with them.

## How the modules fit together

    IntervalIteration   HitIteration          what iterators promise
        ^  ^  ^  ^          ^  ^              (INSTANCE ... WITH, a PROPERTY)
        |  |  |  +--------  |  +----------.
        |  |  |   HitIterator             |   default interval and hit iterators
        |  |  +-- GridIterator -----------'   grid accelerator, both iterators
        |  +----- BvhIterator   EXTENDS IteratorContext
        +-------- VdbIterator   EXTENDS VdbTree (EXTENDS VdbTopology), IteratorContext

    ManagedObjects    <- ManagedObjectsProofs    (EXTENDS)
    ObserverRegistry  <- ObserverRegistryProofs
    RenderLoop        <- RenderLoopProofs
    VdbTree, VdbIterator <- VdbProofs
    BvhIterator       <- BvhIteratorProofs
    HitIterator       <- HitIteratorProofs
    GridIterator      <- GridIteratorProofs

    NumberLemmas: least elements, division; EXTENDed by the proofs of the registry, the tree
    and the iterators

`MC...` modules hold the finite inputs of a run; `RenderLoop` and `ObserverRegistry`
need none.

## The promises of iterators

An application cannot tell the four interval iterators apart:
`IntervalIteration` is what it may rely on. Intervals come from front to back and
inside of the ray's range, nothing between two of them, before the first or after the
last has a value that the context asks for, and the loop of calls comes to its
end. `HitIteration` is the same for hits: strictly front to back, and no surface is
left out but those within the epsilon of the hit before. Each iterator module
instantiates them with a refinement mapping - its own cell, node, slice or hit for
the abstract interval or hit, a history variable `required` or `surfaces`, computed
from the volume when the iterator is initialised, for what must not be missed - and
has `ImplementsIteration` or `ImplementsHitIteration` as a temporal property of its
run. It says at once what are four properties of the code (order, no holes, no
missed value, an end), and it composes: `HitIterator` takes intervals from any
iterator that keeps the promise, or from the default one, which it models and shows
to keep it.

`Spec` of a promise is its safety, `Ends` its liveness. Where the safety is proved,
`ImplementsIteration` is `Spec` alone (but for `VdbIterator`, whose property is both and whose
theorem `KeepsThePromise` is about `Promise!Spec`): `BvhIterator` has `IterationEnds` next to it, in
`GridIterator` the ends of both iterations go with the promise of hits, and in
`HitIterator` the interval iteration ends because the hit iteration does.

## ManagedObjects

**State.** Whatever owns a reference is a *slot*: the application's handle, the
device pointer of a `ManagedObject`, the `Ref<>` to the object it was created
from, a parameter value, an element of a data array, a `Ref<>` taken by a
commit. `held` maps slots to objects, `obj` an object to its count and its
status. `pc` and `idx` hold the loop a call is in.

**Actions.** One per API call, except for what loops over references: the
`Data` constructor (`AdoptChild`), `StructuredVolume::commit` (`ClearAttribute`,
`LoadAttribute`, `LoadBackground...`, `CommitThrows`) and the destructors
(`DestructorDrops`) take one step per reference operation, and steps of
different objects interleave as threads do. The application is the
environment: it calls anything on an object whose handle it has, one call per
object at a time (README.md, thread safety). A scalar setter applied to an object
parameter overwrites the pointer without releasing it (`Device.cpp:226`); the history
variable `lost` counts these. The background of a volume comes from its parameter, or is an
array the commit creates: if the parameter is not set, or an array of handles. That data may have
another element type, which takes the second path too, or another size, which
throws, is left out: counts are the same. A parameter set to a null `VKLData`, which `getParam`
dereferences (`ManagedObject.h:186`), counts as unset.

**Undefined behaviour.** A commit that follows an element that was deleted sets
`useAfterFree` and the behaviour stops: nothing is claimed of it.

Runs:

- `handles_data` three data objects, interchangeable (symmetry), arrays of two
  handles, one volume, default arrays. Two is the shortest array in which the
  stride of a handle matters; three objects are an array, two elements, or an
  array, an element and a background made by the commit.
- `handles_graph` the chain data, volume, two samplers, context, observer, for the
  liveness property `ReleasedObjectsAreDeleted`, without symmetry.
- `handles_shared_array` with `VKL_DATA_SHARED_BUFFER`: `ArrayElementsAreAlive` is
  violated. The loop that counts the elements uses the stride of a plain
  pointer (`Data.cpp:146`) on pairs of pointers (finding).

`CHECK_DEADLOCK FALSE`: addresses are used once, so the program stops when
they are used up. Fairness (`WF_vars(Destruction)`) is only that a destructor,
once started by a release, runs to its end; it runs in the calling thread.
The application need not release anything: the liveness property speaks of the
case that it did.

**Proofs** (`ManagedObjectsProofs`), for any finite sets of
objects, parameters and any bounds. `CountsAreExact` is not inductive: an action
that fills a slot without releasing what was there (`adoptChildren`, the
attributes, the background, a constructor) keeps the counts exact only if the
slot was empty. `IInv` therefore adds what the code knows about slots it is
about to fill: slots of unborn objects are empty, loops fill from the front, a
handle refers to its own object, every object but a device has a device. The
heart is a ledger: `Consistent(h, H, l)` says that counts equal slots plus `l`,
the references *in hand*, and each of `refInc`, `refDec`, birth, filling and
clearing a slot keeps it (lemmas `Inc`, `Dec`, `Birth`, `Fill`, `Clear`). `l` is
`lost` between steps; inside of a step it also holds what was counted but not
yet stored. Every action is a composition of these five. From `IInv` follow
`TypeCorrect`, `ExactCounts`, `NoDangling`, `DevicesOutlive` and
`NothingIsOrphaned`. The second part extends the invariant with `Elements`,
under the assumption that no array of handles is created with
`VKL_DATA_SHARED_BUFFER`: `DefaultArraysKeepElements` and
`DefaultArraysAreSafe`; the run `handles_shared_array` shows that the assumption
is needed. `ReleasedObjectsAreDeleted` is liveness and only model-checked.

## ObserverRegistry

`data` and `size` are the array and the count, `Garbage` the word past its end.
`remove()` overwrites the removed entry with `data[size]`, before it decrements
`size` (`ObserverRegistry.ispc:70`), one past the last entry. Buffers are
addresses the allocator may use again. The API asks for no concurrent observer
calls, so a call is one step. The concurrency of `add()` with a sampler in
another thread is excluded by README.md:2088.

- `registry_lifo` observers are released newest first: the list is right, across
  reallocations.
- `registry_any_order` violates `ListsTheObservers` (finding). Two buffers are enough: the older
  observer is removed, and the word past the list takes the place of the other.

**Proofs** (`ObserverRegistryProofs`), for any finite set of buffers. `TypeCorrect`
holds in whatever order observers are released: the loop of `remove()` reads one word
past the last entry in use, and writes only within them. `ListsTheObservers` is not
inductive, since a removal clears every entry equal to the buffer, wherever it is. `IInv`
adds that no two observers have the same buffer (`BuffersAreHeld`) and, if they are released
newest first (`LastFirst`), that entry `i` is the buffer of the `i`-th oldest observer
(`ListIsInOrder`): the entry removed is then the last one, and what overwrites it lies
behind the new end (lemma `UnlistLast`). `ObserversAreListed` and
`LiveBuffersAreObserved` follow, both under the assumption `LastFirst`, without which
`registry_any_order` refutes the first. The loop is a recursive function; its equation is
proved by a least number for which no function would satisfy it (`LoopExists`).

## VdbTopology, VdbTree

`VdbTopology` has the arithmetic of `vdb.h`: the resolutions per level, offsets
and voxel indices by shifts and masks. `VdbTree` is the commit: `computeRootOrigin`,
`allocateInnerLevels` (which counts nodes, one level per action), `insertLeaves` and
`computeValueRanges` (one leaf per action, in any order). A leaf is inserted one level per
action: `cursor` is the node the descent has come to, and the four branches of its
loop are `InsertIntoLeaf`, which throws, `InsertIntoChild`, `InsertChild`, which creates a
node, and `InsertLeaf`. The order, by level and then as given, is `Precedes`.
Sampling (`Traverse`), what a filter reads, what the
iterators ask (`QueriedRange`), and both observers are operators on the result.
The value of a voxel is the source it came from, and a value range the set of the
sources it was extended with, so that a range that misses one is seen.

The run is that of the next section. The properties of the tree have `FitsRoot` as
a premise: the code compares the extent of the leaves with the root's size, but rounds
the root's origin down to the resolution of level 1 (`VdbVolume.cpp:575`). With three
levels of two voxels, a leaf at 2 and one at 8 have an extent of 8 voxels, which is that
of a root; the root's origin is 0, and the offset 8 wraps to voxel 0. Most inputs of
the run fit.

Limits of the code the properties leave room for: the range of a tile on a level
above the leaves covers only the neighbours of its first leaf-sized block
(`VdbSampler.ispc:509`), so `LeafRangesCoverFilter` is about leaves of the lowest
level; `TraversalFindsTheLeaf` is about the data that is sampled, which packed indices
lead to as well (`DataOf`), and not about what is marked; `maxDepth` of an inner node observer
is limited to the number of levels, one more than there are level buffers
(`VdbInnerNodeObserver.cpp:23`).

**Proofs** (`VdbProofs`, first half), for any number of axes, any levels of any resolution of at least
two, and any non-empty lists of leaves: every invariant of the tree that the run checks.
The inductive invariant `CommitInv` has three parts.

- `ShapeInv`: types, the root's extent, and what has been counted. On every level
  the nodes counted are those some leaf below needs (`AllOrigins`, lemma
  `ParentsAreAllOrigins`), since rounding to a node and then to its parent is
  rounding to the parent (`NodesNest`). `TypeCorrect` follows.
- `TreeInv`, from the first insertion on, if all leaves are in one root (`FitsRoot`): nodes
  of a level are different and each is needed (`OriginsDiffer`, `NodesAreNeeded`), a child is in
  the corner its parent's voxel says (`ChildrenFit`), every node but the root has a parent, a
  leaf pointer is where the leaf's origin says (`LeavesFit`), what is
  inserted is found by going down from the root (`PathsLeadToLeaves`), and nothing is
  inserted before a leaf of a level above (`InsertedInOrder`). That the last voxel of a leaf's
  way is never a child (`LastVoxelIsNoChild`) rests on this order; the mutant
  `Precedes_ByIndex` is what goes wrong without it. `NodesFit` counts: nodes are an injection
  into what was counted, and onto it at the end.
- `RangesOK`: the range of a leaf is that of its neighbourhood, the range of a voxel the union
  of those of the leaves below.

On it rest the descent (`Descent`, no level is the first at which it goes astray: `LeafIsFound`,
`FoundIsLeaf`), what packed indices mean (`DataOfLeafPtr`: counting leaves of one format is one
to one), what a filter reads around a leaf (`SamplesOfFilter`: each cell within the filter's
reach is in one of the neighbouring nodes and among the cells read there), and boxes
(`BoxFacts`). `FailsForAReason` is the invariant for the other direction of
`AcceptsDisjoint`: a leaf in the way of another overlaps it (`InTheWay`).

Four theorems, `AcceptsDisjoint`, `TraversalIsRight`, `RangesCoverFilter` and `InnerNodesCover`,
assume that origins of leaves are multiples of their size (`Aligned`). The code does not check
that, README.md:1169 does not ask for it, and without it they are false: a leaf at 1 of extent 2
is put in the node at 0. All inputs of the run are aligned, as OpenVDB's trees are. `FitsRoot` is
a premise of the properties themselves. That the equations of the recursive functions
`Res` and `Down` hold is proved too (`ResIsDefined`, `DescentIsDefined`).

## IteratorContext

The part of a context's commit that decides how deep iterators go: the hint is
clamped and mapped to a depth, for VDB volumes by three thresholds, for hierarchies
by two ranges around the default with a gap between them (`IteratorContext.cpp:50-174`).
Pure operators on hints in hundredths, used by `VdbIterator` and `BvhIterator`, whose runs
try hints of every branch and beyond both ends.

## VdbIterator

The interval iterator over the tree that `VdbTree` has committed. `dda` holds, per
level down to the iterator's depth, the cell and the t at which the ray leaves it
along each axis (`DdaState`). One call is a loop of steps: `Query` asks the tree about
the current cell (`VdbIterator_queryVoxel`, which prunes voxels by value range on
the way down), `Step` moves on the level of that voxel and re-initialises the levels
below (`ddaReinitBelow`), `Follow` moves a level above when its child has left it, and
`Arrive` reports the voxel left, if it was not empty.

Positions count quarters of a voxel and t is an integer; the code moves a position off a side
by a hundredth of a voxel (`Dda.ih:217-242`), the model by one of its quarters, which
floors to the same cell as long as the ray does not meet another side there.

- `vdb` three levels of two voxels a side, on one or two axes; lists of up to three
  leaves out of tiles of levels 1 and 2 and dense leaves around the origin,
  packed and not, some invalid. Three levels are the fewest with an inner node
  below the root; three leaves the fewest in which one node is shared and one is not,
  and in which order matters twice. Through every square of one tile and one
  dense leaf nine rays are cast, along the axes and aslant, from outside and from within,
  at three depths, asking for the leaf only (so that the tile's voxels are pruned and
  stepped over) or for both. `DdaIsConsistent` is what the comments in `HDDA.ih.in` claim of
  the two directions of updates ("keeps the dda state consistent").

Rays are in general position: none starts on the side of a voxel it leaves
through, and none meets two sides at the same t. With a ray that starts on such a
side, `intersect_planes` has no exit for it ("Do not intersect planes the origin is
on!", `Dda.ih:79`); the index then stays behind the ray, and the range reported is
not that of the values in the interval, against `interval_iterator.cpp:199-202`. This is
among the disagreements below.

**Proofs** (`VdbProofs`, second half), for any tree `VdbTree` can build, any ray that moves at
most two fractions of a voxel per unit of t, any depth and any set of leaves asked for. The invariant of
the tree, `CommitInv`, holds of `IteratorSpec` too (the iterator only reads it), and on it rest two
more:

- `DdaInv`, about the way. In the box, the cell of every level contains the ray and the cell of
  the level below (`Nested`), and `tNext` is when the ray leaves each of them, across each axis.
  A step moves on one level and makes the cells below anew (`StepMarches`); until the levels above
  have followed, one level (`Gap`) may have a cell whose child has left it. That `Follow`, which
  steps that level across the axis of its own smallest exit, ends in the right cell is the one
  thing to argue: the child came into its cell at this very t across some axis, from a cell that
  was in this parent (`CameThrough`), so the ray is on that side of the parent as well, and as it
  is on no other side, that is the exit taken (`FollowKeeps`). Behind the box (`Late`) cells no
  longer mean anything and only exits count: none lies before the end. `DdaStaysConsistent`.
- `SeenInv`, about the answers. Until the ray leaves the voxel queried, on that voxel's level,
  every unit of t lies in that voxel (`QueryFits`), so that the answer is right about it: an
  empty voxel and a pruned one hold nothing that is asked for, and the range of any other covers
  what a filter reads there, which is `CommitInv`'s claim for the node at that depth. Hence
  nothing required lies between the interval returned last and the current t, and an interval
  returned has its values in its range: `ReportedCovers`, and `KeepsThePromise` (the safety of
  `ImplementsIteration`).

The theorems have the general position as a hypothesis about the rays, `[]RayIsGeneral`; without
it they are false, as said above. The last two also need `Aligned`, for what the tree
says of a cell. In all 65170 states of the run `vdb` both hold: every ray, tree and
depth the run tries is one that the theorems speak about.

## BvhIterator

A hierarchy as Embree may return it (`Builds`, external), the merge of metadata
over overlapping nodes of one level (`MergeLevel`), the commit of a context
(`CommitContext`), and the stackless traversal (`Initialize`, `CallIterate`, `Descend`,
`TestNode`, `Backtrack`, `Return`) with its bit stack and its restart point. The ray runs
along one axis; the second axis is there to have cells beside the ray, which
boxes may meet all the same. `elementary` selects the iteration over cells instead of
boxes, of hit iterators and of the largest hint.

- `bvh` every tree of up to three leaves over eight cells (overlapping, beside the
  ray, smaller than their box), trees of four leaves and three levels over four
  cells, two queries, four hints. Overlap of nodes of one level, a closer hit
  found after a farther one, and restarts below the root all need no more than
  three leaves; the chain of three levels adds a restart with more than one bit.
- `bvh_range` violates `ReportedRangeCoversInterval`: the interval returned is the
  closest hit, its value range is the first hit's (finding).

Fairness: a call runs to its end and the application goes on calling; the
promise is that it then comes to an end (`IterationEnds`). Cells of zero nominal length, which
are stored as `-0` and fail all three tests for a leaf (`UnstructuredBVH.h:179`), are
not among the builds.

**Proofs** (`BvhIteratorProofs`), for any builds of binary trees whose leaves have their
cells inside of their boxes, any queries, hints and depth. `IInv` has two parts:

- `InTree` is about places. A node and its bit stack are a place when the stack is below
  two to the level of the node: `Descend` adds a bit with a level, `Backtrack` drops one
  with each, so that it never follows the root's parent (`RestartsInside`). While levels are
  merged, nodes above the current level are merged and all others are as they were
  built (`LevelsAreMerged`); no node of a level reads one already merged, which is why
  the result covers deeper cells (`NodesCover`).
- `SeesAll` is why no cell is missed. `Pending[<<n, b>>]` is the set of leaves below the
  siblings that the bits of `b` name on the road from `n` to the root. Whatever the context
  asks for in front of the closest hit is below the current node, or pending; and
  whatever it asks for on the rest of the ray is below or pending at the place the
  next call will start from. Entering a child moves its sibling's leaves from below to
  pending, backtracking moves them back, a node is pruned only if its range and bounds
  rule out every cell below it (`PruningIsSafe`, which needs the merge).

`Implements` is then the refinement of `IntervalIteration`, step by step: `Initialize` begins,
`Return` is a call, all other steps stutter. `ReportedRangeCoversInterval` is
what `bvh_range` refutes; `IterationEnds` is liveness.

`LevelOf`, `Bounds` and `Built` are recursive on a tree that is data. That they satisfy
their equations, and that what holds of the root and is handed on to children holds
of all nodes, is proved with a least number that has no smaller counterexample
(`LeastNat`), since no theorem with an operator as its parameter can be used.

## HitIterator

`DefaultIntervalIterator_iterateInterval`, which slices the bounding box
(`NextIntervals`), and `DefaultHitIterator_iterateHit` with `intersectSurfacesBisection` and
`bisect`, one step per interval, bracket, isovalue and halving; `pc` is the place in
the call, `returned`, `currentInterval` and `lastHitOffsetT` are what the iterators keep
between calls. Intervals are either the slices, or a given list in order, as
`IntervalIteration` allows them. The ray parameter is an integer; the tolerances of
the bisection and of the NaN evasion are one unit, and a step is at least eight
units, so that an epsilon is at least one. In floating point these units are far
apart (1e-6, 1e-5 and an eighth of the step): what the integers preserve is their
order, tolerance no more than evasion no more than epsilon. The last branch of
`bisect` ("should never get here") is not an action: the absence of a deadlock shows
that it is never taken.

- `hits` every field with three knots of heights 0, 8, 16, five sets of NaN (none,
  inside, before and at a boundary, at both ends, a hole too wide to be evaded), three
  ways to divide the ray into intervals and steps, lists of isovalues without
  one, with one, with two in the wrong order, and two lengths of the direction; the
  default iterator in a box of one slice and a short one, of one slice, and
  an empty one, with a value nowhere in the volume among the queries.

`ImplementsHitIteration` asks for the surfaces the search can see: the bisection takes a
crossing for granted, so a surface that touches or is crossed twice within one
step may be missed; `Visible` says which ones are not. The epsilon is documented in
object space and yet added to the ray parameter (`Iterator.ih:188`,
`DefaultIterator.ispc:251`): for a direction longer than one, more of the ray is skipped
than an eighth of a step, which the promise allows for. `HitsInOrder` adds what is
particular to this iterator, that a hit is beyond the epsilon of the last one, and
`HitsAreOnSurfaces` that each hit is near a surface of the value it says: within the
tolerance or what the halvings leave of a step; or, if a NaN is within a step of it,
within a step and the evasion, since a bisection that meets a NaN returns one of its
ends. A surface is a place where the field is the value or lies on different sides
of it at neighbouring samples that are not NaN, or on the two sides of a hole.

Fairness as above: calls run to their end and the application goes on.

**Proofs** (`HitIteratorProofs`), for any field with any holes, any values, any number of
halvings and any intervals in order whose step is at least eight units. `IInv` has three parts:

- `InOrder`, where a call is: what is left of the interval lies beyond the last hit and its
  epsilon, the bracket in what is left, the part that is bisected in the bracket.
  `HitsComeInOrder` follows, and says most for a hit next to the boundary of two
  intervals, where `lastHitOffsetT` carries it over.
- `OnTheField`, what a call remembers: a sample is the field's at its place or, next to a NaN,
  at most `BISECT_MAX_BACKTRACK_ITERS` units before; the two ends of a bisection lie
  on either side of the value, and `(high.t - low.t - 1) * 2^iter` is less than the
  step. A field with the value between two samples has a surface between them (lemma
  `Crossing`: before the first sample that is not on the side of the one it begins
  with). `HitsOnSurfaces` and `OneHalf` (`OneHalfCrosses`) follow.
- `Fetched`, where the interval iterator is. It gives `Implements`: the default
  interval iterator, or any that returns the given intervals in order, refines the safety of
  `IntervalIteration` as this hit iterator calls it.

That no visible surface is skipped (`ImplementsHitIteration`) and the end of the
iteration are only checked.

## GridIterator

The accelerator of structured volumes (`EncodeBrick`, one task of the parallel
build per brick) and its two iterators. A structured volume does not use the
default hit iterator: `GridAcceleratorIterator.ispc` has its own, which keeps the
current cell, what is left of its t range and whether there is a cell at all
(`activeCell`) between calls. `NextCell` is `nextCell`: the first cell from where
the ray enters, possibly empty when the ray starts on a boundary, and then the
neighbour on the axes with the smallest exit, several at a corner. The range of a
cell is written through the address that `encodeBrick` counts and read through
`getCellIndex1D`, so that `ReportedRangeCoversInterval` is also about the two
agreeing.

Space has two axes and coordinates are voxels. Rays start on voxels and move by
-1, 0 or 1 voxels per unit of t on each axis: they meet cell boundaries at
integers, and on a diagonal cut corners, pass through them exactly, or have
cells as short as one unit. That is where the code's comparisons of floating point
numbers have to be right; rounding itself is not modelled. An epsilon of one or
two units of t is one of a direction four or six voxels long, since the code adds an
epsilon scaled to object space to t.

- `grid` cells two voxels wide and two cells to a brick (16 and 16 in the code),
  volumes of 5x4 and 6x3 voxels: along one axis the last cell is only a face,
  along the others partial or whole, and two bricks meet. Four fields (a ramp, a ridge, a step
  on a cell boundary, a block of NaN), thirty-some origins inside and outside,
  eight directions, two t ranges, four sets of values. `SomeIterators` leaves
  out the hit iterators that the next run is about, and only these.
- `grid_restart` adds them and violates `HitsInOrder` (finding): a ray that leaves
  through the lower x face right after a hit has the cell index -1, which means
  that the iteration has not begun, and the next call returns the first hit again.

After a hit near the end of a cell, the rest of the next cell may be empty too
(`GridAcceleratorIterator.ispc:257`). `intersectSurfacesBisection` asserts that it is
not (`Iterator.ih:98`); builds other than debug builds disable assertions
(`openvkl_ispc.cmake:208`), and the model follows these: an empty range has no
surfaces. The cell after that one is searched from its entrance, so that the next
hit may be within the epsilon of the last one: `HitIteration` asks only that it is
beyond the last hit.

Fairness as above. An application that calls `vklIterateInterval` again after it
returned false is outside of the model; the code would start over for rays as in
`grid_restart`.

**Proofs** (`GridIteratorProofs`), for any volume of at least two voxels a side with any
undefined voxels, any widths of cells and bricks, any rays that move and any ranges asked
for. Three layers:

- Addresses: a cell is at one offset of one brick, and `getCellIndex1D` finds both
  (`Addresses`), since quotient and remainder are unique. `encodeBrick` then writes the cells
  of its brick and no others (`EncodeBrickEncodes`), so that after the last task, in
  whatever order they ran, every cell has its range where it is read (`Encoded`).
- Geometry: where more than a point of the ray is in a cell, the cell is one of the volume
  and the ray is between its planes (`InsideCell`), so that the cell's range covers the
  corners of every sample (`CornersCovered`; this is what the one voxel more is for). The
  march enters where the ray does, in the first cell or, when that is only a point, in its
  neighbour (`Enters`: one second try is enough); the next cell begins where this one ends
  (`AdjacentContinues`, through corners too), until the ray leaves (`AdjacentBeyond`).
- The iterator: `Marches` says that nothing wanted lies between the last interval and the
  end of the current cell. A skipped cell has nothing wanted, because the range of the
  values wanted is inside of the cell's (`WantedOverlaps`).

`TypeCorrect`, `RangesCover` and `Implements` follow. About the hit iterator only types are
proved, and that an active cell is one of the volume: the order of its hits is what
`grid_restart` refutes, and that its promise holds for the other rays is only checked.

## RenderLoop

The interactive example: `InteractiveApplication::run` on the main thread, a renderer on
a thread of its own (or, with `-sync`, inside of the loop). `main` and `step[t]` say where the
loop and a thread's `renderFrame` are; a step is what happens between two
points at which the other thread can see something. `Start`, `Stop` and `Joined` are
the scheduler (`Scheduler.cpp`); `CopyCamera`, `CopyRendererParams`, `CopyGuiParams` are
the three copies of a frame, each under the lock of its object; `BeginFrame`,
`LockBackBuffer`, `RenderBlock` (blocks in any order, each checking `workerMustTerminate`)
and `Tonemap` are `renderFrameImpl`; the rest is the loop. An object's value is its version.
A pixel's content is the set of pictures it holds samples of: a picture is what
parameters, volume and size it was rendered with, or `Torn` where a thread read copies
that another was writing. `kind` selects a renderer that accumulates
(`DensityPathTracer`) or one with an iterator context (`RayMarchIterator`).

- `render_loop` two blocks, two canvas sizes, both kinds, both schedulers, up to two inputs
  by the user after the initial build of the volume, which are an edit, a rebuild, a
  resize, or closing and opening the view. An edit of the renderer parameters may change their
  version and the size of the canvas at once, as that of a fixed framebuffer size does. Two blocks
  are enough for one to be rendered and one not; two inputs for one to come while the other is
  processed.
  A deadlock would be an error: the loop never waits for a thread that waits for it.

Fairness: weak, for the main thread and for the worker: both are threads of a
preemptive system. Nothing is assumed of a contended mutex: `std::mutex` need not be
fair, so the worker may take the back buffer's lock over and over while the main
thread, which renders a frame after a resize, waits. `EditsAreRendered` holds all
the same, because the worker then displays the edit; that the loop itself goes on is not
claimed, except in `StopReturns`, where the worker has been told to end.

`SamplesOfOnePicture` has two exceptions, and both happen in the run. During a
resize the worker may already draw into the buffer that the main thread's frame will
clear. And a frame that is told to stop when it has copied new versions, but not yet
cleared its blocks, leaves old samples in a buffer which the next frame adds
to, since it sees no change (`RendererHost.cpp:56`): `lost` keeps account of these blocks.

**Proofs** (`RenderLoopProofs`), for any finite set of blocks, any sizes and any number of
inputs. The four invariants of the run need one after the other:

- `Threading`: which steps of the two threads go together. The main thread is in a frame
  exactly when its loop says so, and a worker exists exactly when the renderer runs or is being
  joined; after `Joined` the loop is where it wanted to be with the worker off.
  `TypeCorrect` and `WorkersStop` follow.
- `ContextIsKept`: from start to stop the context is that of the sampler, and of
  the copies of parameters too, unless the thread that has changed a copy is between that
  copy and `UpdateIntervalContext`, with `clear` set (`ContextIsCurrent`).
- `BlocksAreKept`: a block whose samples are not of the current picture is *due*: the
  thread that renders frames has still to compare a version that has changed, or has
  seen it and set `clear`, and then has the block in its `todo`. Only blocks that are due
  may differ from the picture, and no block ever has samples of two
  (`AccumulatesOnePicture`). The exceptions `Resizing` and `lost` are those above.

## What is proved and what is checked

| property | TLC | TLAPS |
|---|---|---|
| types, counts, no dangling references, device outlives objects, no orphans | `handles_data`, `handles_graph` | for all constants |
| elements of default arrays are alive, no use after free | `handles_data` | for all constants, if no handle array is shared |
| everything released is deleted | `handles_graph` | liveness: out of reach |
| registry: the array | `registry_lifo` | for all constants |
| registry: the list is the observers, live buffers only | `registry_lifo` | for all constants, if observers are released newest first |
| VDB tree: types, nodes counted and created | `vdb` | for all constants |
| VDB tree: disjoint leaves, traversal, value ranges, inner nodes | `vdb` | for all constants, if leaves are aligned to their size |
| VDB iterator: cells of all levels agree | `vdb` | for all constants, if rays are in general position |
| VDB iterator: reported ranges, safety of `IntervalIteration` | `vdb` | ... and leaves are aligned |
| BVH: types, restarts, merge, implements `IntervalIteration` | `bvh` | for all constants |
| default iterators: types, order of hits, hits are on surfaces, implements `IntervalIteration` | `hits` | for all constants |
| grid: types, reported ranges, implements `IntervalIteration` | `grid` | for all constants |
| default hit iterator implements `HitIteration`: no visible surface is skipped | `hits` | not yet |
| grid's hit iterator implements `HitIteration` | `grid`, some rays | not in general (`grid_restart`) |
| iterations end | `vdb`, `bvh`, `hits`, `grid` | liveness: out of reach |
| render loop: workers are stopped, contexts, one picture | `render_loop` | for all constants |
| render loop: edits are rendered, `stop` returns | `render_loop` | liveness: out of reach |

## Where the code and its documents disagree

Shown by a run, and listed as findings: shared arrays of handles
(`handles_shared_array`), the removal of observers (`registry_any_order`), the value range of an
interval of a hierarchy (`bvh_range`), the hit iterator of structured volumes that starts again
(`grid_restart`). Met while modelling, and left out of the inputs of the runs or stated as an
exception:

- a setter of another type overwrites an object parameter without releasing the object
  (`Device.cpp:226`), so that "make sure all ManagedObject parameter refs are decremented"
  (`ManagedObject.cpp:18`) comes too late (`lost`);
- leaves that are not on the grid of their size are accepted and moved (`Aligned`, above);
- leaves that stick out of the root are accepted, not rejected ("input leaves do not
  fit into a single root level node", `VdbVolume.cpp:572`), and wrapped; two root nodes are then
  counted, against the assertion at `VdbVolume.cpp:209` ("This should be true at this point");
- with packed data, the LeafNodeAccess observer marks the index of a node among those of its
  format (`VdbVolume.cpp:315`), not that of the input node (README.md:1216): a tile and a dense
  node may mark the same entry;
- a VDB iterator whose ray starts on the side it leaves through (`Dda.ih:79`);
- leaves of a hierarchy with zero nominal length (`UnstructuredBVH.h:179`);
- the value range of a coarse tile (`VdbSampler.ispc:509`);
- a ray range that begins before t = -1 loses its first part in the default interval
  iterator, whose reset interval ends there (`DefaultIterator.ispc:101`,
  `Interval.ih:19`);
- `renderFrameImpl` "is called only from the scheduler" (`Renderer.h:93`), and is called by
  `getFramebuffer` on the main thread, next to the worker (`RendererHost.cpp:42`);
- a clearing frame that is stopped leaves old samples (`RendererHost.cpp:56`);
- command line options set the renderer parameters without a new version
  (`Scene.cpp:241`), so that in batch mode no renderer sees them; the version of a
  copy and of the original start equal (`Versioned.h:67`).

## Bounds

`MaxItems` longest array of handles; `MaxLeaks` references a scalar setter may
lose per object; the sets of object addresses; `Buffers`; `Inputs`, `NumLevels`,
`StorageRes` of the VDB tree, `Rays`, `VoxelWidth` of its iterator; `Builds`, `Queries`, `Hints`,
`MaxLevel` of the hierarchy; `Rays`, `Horizon`, `maxIter`, `BISECT_MAX_BACKTRACK_ITERS` of
the hits; `Volumes`, `Iterators`, `CELL_WIDTH`, `BRICK_WIDTH` of the grid; `Blocks`, `Sizes`,
`MaxInputs` of the render loop; `Inf`, larger than every t. In the code
`BISECT_MAX_BACKTRACK_ITERS` is ten steps of 1e-5 of a step, less than any step; in the
model it is two units, less than any step too.

## Plan

Built: `ManagedObjects` with its proofs, `ObserverRegistry`, `VdbTree`, `VdbIterator`,
`BvhIterator`, `HitIterator`, `GridIterator`, `IteratorContext`, the two promises, `RenderLoop`.
Proved: all safety properties of `ManagedObjects`, `ObserverRegistry`, `RenderLoop`, `VdbTree`,
`VdbIterator` and `BvhIterator`, and those of `HitIterator` and `GridIterator` but the promise of
hits. To prove next:

- `HitIterator`: the safety of `ImplementsHitIteration`, which needs that the halvings reach
  the tolerance: `2^maxIter` is at least a step.

To model after that: a volume committed again while samplers hold the grid of the first
commit (README.md:1234 excludes it for VDB volumes), a commit of a context that fails.

## Not modelled

Floating point interpolation, coordinate transforms and cell shape functions, and
rounding wherever the models use integers; VDB rays that start on a side of a voxel or
meet two sides at once; dense VDB grids, whose tree is implicit; SIMD lanes that diverge
(lanes share no state; one is modelled); the AMR and particle builds; the value range of
a whole structured volume, which is extended with the NaN ranges of cells without values
(what `min` returns then is external); Embree's builder; several views of the
interactive example, which share only what one view shares with the main thread, its batch
application, its GPU renderers (and the flag to clear that only they set, `Renderer.h:101`), its
widgets, and pixels outside of `pixelRange`, which are not rendered (`RendererHost.cpp:84`); the GPU device, whose
kernels repeat the ISPC ones; logging, module loading, vectorised entry points; vendored
code. `PROJECT.json` gives the reason for each component.
