---------------------------- MODULE GridIterator ----------------------------
(***************************************************************************)
(* The grid accelerator of structured volumes and its two iterators.  The  *)
(* voxels are divided into macrocells, stored brick by brick, each with    *)
(* the range of the values that can be sampled in it.  A ray marches from  *)
(* cell to cell; the interval iterator returns the cells whose range the   *)
(* context asks for, the hit iterator searches them for surfaces.          *)
(*                                                                         *)
(* Two axes.  A ray moves by -1, 0 or 1 voxels per unit of its parameter   *)
(* t along each, from a voxel, so that it crosses cells at integers and    *)
(* its sample at an integer t is a voxel's value.                          *)
(***************************************************************************)
EXTENDS Integers, Sequences

CONSTANTS
    Volumes,        \* [dims, voxel], see GridAssumption
    Iterators,      \* a volume :> set of [ray, query, kind]
    CELL_WIDTH, BRICK_WIDTH,
    NaN,            \* an undefined voxel
    Inf             \* larger than every t

Axes == {1, 2}

ASSUME GridAssumption ==
    /\ CELL_WIDTH \in Nat \ {0} /\ BRICK_WIDTH \in Nat \ {0}
    /\ Inf \in Nat /\ NaN \notin Int
    /\ \A v \in Volumes :
          /\ v.dims \in [Axes -> 2 .. Inf - 1]
          /\ v.voxel \in [(0 .. v.dims[1] - 1) \X (0 .. v.dims[2] - 1) -> Int \cup {NaN}]
          /\ \A c \in Iterators[v] :
                /\ c.ray.origin \in [Axes -> Int]
                /\ c.ray.direction \in [Axes -> {-1, 0, 1}]
                /\ \E a \in Axes : c.ray.direction[a] # 0
                /\ c.ray.tRange.lo \in Nat /\ c.ray.tRange.hi \in 0 .. Inf
                /\ c.ray.epsilon \in 1 .. Inf
                /\ c.query \subseteq [lo : Int, hi : Int]
                /\ c.kind \in {"interval", "hit"}
                /\ c.kind = "hit" => \A r \in c.query : r.lo = r.hi

VARIABLES
    volume, cellValueRanges,  \* the accelerator, an array of ranges
    bricks,                   \* the bricks still to be encoded
    ray, query, kind,         \* the iterator, its context; "interval" or "hit"
    boundingBoxTRange,        \* the part of the ray in the volume
    pc,                       \* where a call is, or between two calls
    currentCellIndex, currentCellTRange, activeCell,
    interval,                 \* the interval returned last
    hits,                     \* history: the t of the hits returned
    wanted                    \* history: the t, or the surfaces, asked for

vars == <<volume, cellValueRanges, bricks, ray, query, kind, boundingBoxTRange,
          pc, currentCellIndex, currentCellTRange, activeCell, interval, hits,
          wanted>>

accelerator == <<volume, cellValueRanges, bricks>>
iterator == <<ray, query, kind, boundingBoxTRange, wanted>>

Least(a, b)    == IF a <= b THEN a ELSE b
SmallestOf(S)  == CHOOSE m \in S : \A x \in S : m <= x
LargestOf(S)   == CHOOSE m \in S : \A x \in S : x <= m
Intersect(S)   == [lo |-> LargestOf({r.lo : r \in S}), hi |-> SmallestOf({r.hi : r \in S})]
IsEmpty(r)     == r.hi <= r.lo

(* inf, -inf *)
Nothing == [lo |-> Inf, hi |-> -Inf]

-----------------------------------------------------------------------------
(***************************************************************************)
(* The bricks of cells, padded to whole ones, and where a cell's range is. *)
(***************************************************************************)
CellsPerDimension(a) == (volume.dims[a] + CELL_WIDTH - 1) \div CELL_WIDTH

BricksPerDimension(a) == (CellsPerDimension(a) + BRICK_WIDTH - 1) \div BRICK_WIDTH

BrickCellCount == BRICK_WIDTH * BRICK_WIDTH

NumTasks == BricksPerDimension(1) * BricksPerDimension(2)

BrickAddress(b) == b[1] + BricksPerDimension(1) * b[2]

CellIndex1D(c) ==
    BrickAddress(<<c[1] \div BRICK_WIDTH, c[2] \div BRICK_WIDTH>>) * BrickCellCount
        + (c[2] % BRICK_WIDTH) * BRICK_WIDTH + (c[1] % BRICK_WIDTH)

(***************************************************************************)
(* computeCellValueRange: the voxels of the cell and one more, those that  *)
(* samples in the cell are interpolated from, clamped to the volume.       *)
(***************************************************************************)
Extent_OwnVoxels == CELL_WIDTH - 1

Extent == CELL_WIDTH

VoxelAt(x, y) ==
    volume.voxel[<<Least(volume.dims[1] - 1, x), Least(volume.dims[2] - 1, y)>>]

RangeOfValues(S) ==
    IF S \ {NaN} = {} THEN [lo |-> NaN, hi |-> NaN]
    ELSE [lo |-> SmallestOf(S \ {NaN}), hi |-> LargestOf(S \ {NaN})]

CellValueRange(c) ==
    RangeOfValues({VoxelAt(c[1] * CELL_WIDTH + i, c[2] * CELL_WIDTH + j) :
                      i \in 0 .. Extent, j \in 0 .. Extent})

(* the cell that encodeBrick computes the i-th range of brick b for *)
CellOfBrick(b, i) ==
    <<b[1] * BRICK_WIDTH + (i % BRICK_WIDTH), b[2] * BRICK_WIDTH + (i \div BRICK_WIDTH)>>

-----------------------------------------------------------------------------
(***************************************************************************)
(* The march: the t in a slab of the volume, and in a cell.  Along an axis *)
(* it does not move on, a ray is in a half-open slab always or never.      *)
(***************************************************************************)
PositionOn(a, t) == ray.origin[a] + t * ray.direction[a]

Position(t) == <<PositionOn(1, t), PositionOn(2, t)>>

Slab(r, a, lo, hi) ==
    LET o == r.origin[a]
    IN  CASE r.direction[a] = 1  -> [lo |-> lo - o, hi |-> hi - o]
          [] r.direction[a] = -1 -> [lo |-> o - hi, hi |-> o - lo]
          [] r.direction[a] = 0  -> IF lo <= o /\ o < hi THEN [lo |-> -Inf, hi |-> Inf]
                                                         ELSE Nothing

BoundsOf(r) == Intersect({Slab(r, a, 0, volume.dims[a] - 1) : a \in Axes} \cup {r.tRange})

CellSlab(c, a) == Slab(ray, a, c[a] * CELL_WIDTH, (c[a] + 1) * CELL_WIDTH)

CellInterval(c) == Intersect({CellSlab(c, a) : a \in Axes} \cup {boundingBoxTRange})

FirstCell ==
    LET p == Position(boundingBoxTRange.lo)
    IN  <<p[1] \div CELL_WIDTH, p[2] \div CELL_WIDTH>>

CornerDelta_SignExtended(d) == IF d < 0 THEN 3 ELSE 1

CornerDelta(d) == IF d < 0 THEN -1 ELSE 1

(* the t at which the ray leaves the cell's slab along an axis *)
TMax(c, a) == IF ray.direction[a] = 0 THEN Inf ELSE CellSlab(c, a).hi

(* the axes along which the next cell differs: both, through a corner *)
ExitAxes(c) == {a \in Axes : \A b \in Axes : TMax(c, a) <= TMax(c, b)}

AdjacentOn(c, a) ==
    IF a \in ExitAxes(c) THEN c[a] + CornerDelta(ray.direction[a]) ELSE c[a]

Adjacent(c) == <<AdjacentOn(c, 1), AdjacentOn(c, 2)>>

(***************************************************************************)
(* nextCell.  An index of -1 on the first axis marks a march that has not  *)
(* begun.  A ray on the boundary of two cells may have only a point of the *)
(* first one.                                                              *)
(***************************************************************************)
NotBegun(c) == c[1] = -1

NextCell_NoSecondTry(c) == IF NotBegun(c) THEN FirstCell ELSE Adjacent(c)

NextCell(c) ==
    IF NotBegun(c)
    THEN IF IsEmpty(CellInterval(FirstCell)) THEN Adjacent(FirstCell) ELSE FirstCell
    ELSE Adjacent(c)

CellTRange(c) == IF IsEmpty(CellInterval(c)) THEN Nothing ELSE CellInterval(c)

-----------------------------------------------------------------------------
(* comparisons with the NaN of an empty cell are false *)
Meet(r, s) == r.lo # NaN /\ r.hi >= s.lo /\ r.lo <= s.hi

ValueRangesOverlap(r) == query = {} \/ \E s \in query : Meet(r, s)

(* the range read for the current cell *)
ReadRange(c) == cellValueRanges[CellIndex1D(c)]

Inside(p) == \A a \in Axes : p[a] \in 0 .. volume.dims[a] - 1

Sample(t) == IF Inside(Position(t))
             THEN volume.voxel[Position(t)] ELSE NaN

(* a surface of v at t, or between t and the next unit if that is before hi *)
Surface(v, t, hi) ==
    /\ Sample(t) # NaN
    /\ \/ Sample(t) = v
       \/ t < hi /\ Sample(t + 1) # NaN /\ (v - Sample(t)) * (v - Sample(t + 1)) < 0

(***************************************************************************)
(* intersectSurfacesBisection, as far as it matters here: it finds the     *)
(* nearest surface in a t range.  HitIterator has the search itself.       *)
(***************************************************************************)
SurfacesIn(r) ==
    IF IsEmpty(r) THEN {}
    ELSE {t \in r.lo .. r.hi : \E s \in query : Surface(s.lo, t, r.hi)}

(* the values that samples between t and t + 1 are interpolated from *)
Corners(t) ==
    LET p == Position(t)
        q == Position(t + 1)
    IN  {volume.voxel[<<x, y>>] : x \in {p[1], q[1]}, y \in {p[2], q[2]}} \ {NaN}

(* the units of the ray in the volume with values that the context asks for *)
RequiredUnits ==
    {t \in boundingBoxTRange.lo .. boundingBoxTRange.hi - 1 :
        Corners(t) # {} /\ ValueRangesOverlap(RangeOfValues(Corners(t)))}

-----------------------------------------------------------------------------
Init ==
    /\ volume \in Volumes
    /\ cellValueRanges = <<>>
    /\ bricks = 0 .. NumTasks - 1
    /\ ray = <<>> /\ query = {} /\ kind = "none" /\ boundingBoxTRange = Nothing
    /\ pc = "build"
    /\ currentCellIndex = <<-1, -1>> /\ currentCellTRange = Nothing
    /\ activeCell = FALSE
    /\ interval = Nothing /\ hits = <<>> /\ wanted = {}

(***************************************************************************)
(* GridAccelerator_encodeBrick, a task of buildAccelerator; the tasks run  *)
(* in any order.                                                           *)
(***************************************************************************)
EncodeBrick(task) ==
    LET b == <<task % BricksPerDimension(1), task \div BricksPerDimension(1)>>
        address(i) == BrickAddress(b) * BrickCellCount + i
        addresses == {address(i) : i \in 0 .. BrickCellCount - 1}
    IN  /\ pc = "build" /\ task \in bricks
        /\ cellValueRanges' =
              [n \in DOMAIN cellValueRanges \cup addresses |->
                  IF n \in addresses
                  THEN CellValueRange(CellOfBrick(b, n - address(0)))
                  ELSE cellValueRanges[n]]
        /\ bricks' = bricks \ {task}
        /\ pc' = IF bricks' = {} THEN "built" ELSE "build"
        /\ UNCHANGED volume /\ UNCHANGED iterator
        /\ UNCHANGED <<currentCellIndex, currentCellTRange, activeCell, interval, hits>>

(* vklInitIntervalIterator or vklInitHitIterator *)
Initialize ==
    /\ pc = "built" /\ UNCHANGED accelerator
    /\ \E c \in Iterators[volume] : ray' = c.ray /\ query' = c.query /\ kind' = c.kind
                                  /\ boundingBoxTRange' = BoundsOf(c.ray)
    /\ wanted' = IF kind' = "interval" THEN RequiredUnits' ELSE SurfacesIn(boundingBoxTRange)'
    /\ pc' = "idle"
    /\ currentCellIndex' = <<-1, -1>>
    /\ currentCellTRange' = Nothing
    /\ interval' = [lo |-> boundingBoxTRange'.lo, hi |-> boundingBoxTRange'.lo]
    /\ UNCHANGED <<activeCell, hits>>

MoveToNextCell ==
    /\ currentCellIndex' = NextCell(currentCellIndex)
    /\ currentCellTRange' = CellTRange(currentCellIndex')

(***************************************************************************)
(* GridAcceleratorIterator_iterateInterval.  The application calls it      *)
(* until it returns false.                                                 *)
(***************************************************************************)
CallIterateInterval ==
    /\ pc = "idle" /\ kind = "interval"
    /\ pc' = IF IsEmpty(boundingBoxTRange) THEN "done" ELSE "march"
    /\ UNCHANGED accelerator /\ UNCHANGED iterator
    /\ UNCHANGED <<currentCellIndex, currentCellTRange, activeCell, interval, hits>>

NextIntervalCell ==
    /\ pc = "march"
    /\ MoveToNextCell
    /\ \/ /\ IsEmpty(currentCellTRange')
          /\ pc' = "done"
          /\ UNCHANGED interval
       \/ /\ ~IsEmpty(currentCellTRange')
          /\ ~ValueRangesOverlap(ReadRange(currentCellIndex'))
          /\ UNCHANGED <<pc, interval>>
       \/ /\ ~IsEmpty(currentCellTRange')
          /\ ValueRangesOverlap(ReadRange(currentCellIndex'))
          /\ pc' = "idle"
          /\ interval' = currentCellTRange'
    /\ UNCHANGED accelerator /\ UNCHANGED iterator
    /\ UNCHANGED <<activeCell, hits>>

(***************************************************************************)
(* GridAcceleratorIterator_iterateHit: enters the first cell, and looks    *)
(* for surfaces in the current one before it moves on.                     *)
(***************************************************************************)
CallIterateHit ==
    /\ pc = "idle" /\ kind = "hit"
    /\ IF IsEmpty(boundingBoxTRange) \/ query = {}
       THEN pc' = "done" /\ UNCHANGED <<currentCellIndex, currentCellTRange, activeCell>>
       ELSE /\ pc' = "search"
            /\ IF NotBegun(currentCellIndex)
               THEN MoveToNextCell /\ activeCell' = ~IsEmpty(currentCellTRange')
               ELSE UNCHANGED <<currentCellIndex, currentCellTRange, activeCell>>
    /\ UNCHANGED accelerator /\ UNCHANGED iterator
    /\ UNCHANGED <<interval, hits>>

SurfacesHere ==
    IF ValueRangesOverlap(ReadRange(currentCellIndex))
    THEN SurfacesIn(currentCellTRange) ELSE {}

(***************************************************************************)
(* After a hit, stay in the cell, "to pursue other hits", from an epsilon  *)
(* behind the hit; "move to next cell if next t passes the cell boundary". *)
(***************************************************************************)
StaysInCell_Never(lower) == FALSE

StaysInCell(lower) == lower < currentCellTRange.hi

Offset(t) == t + ray.epsilon

FindHit ==
    /\ pc = "search" /\ activeCell /\ SurfacesHere # {}
    /\ LET t == SmallestOf(SurfacesHere)
       IN  /\ hits' = Append(hits, t)
           /\ IF StaysInCell(Offset(t))
              THEN /\ currentCellTRange' = [currentCellTRange EXCEPT !.lo = Offset(t)]
                   /\ UNCHANGED <<currentCellIndex, activeCell>>
              ELSE /\ currentCellIndex' = NextCell(currentCellIndex)
                   /\ currentCellTRange' =
                         [CellTRange(currentCellIndex') EXCEPT !.lo = Offset(t)]
                   /\ activeCell' = ~IsEmpty(CellTRange(currentCellIndex'))
    /\ pc' = "idle"
    /\ UNCHANGED accelerator /\ UNCHANGED iterator /\ UNCHANGED interval

NoHitInCell ==
    /\ pc = "search" /\ activeCell /\ SurfacesHere = {}
    /\ MoveToNextCell
    /\ activeCell' = ~IsEmpty(currentCellTRange')
    /\ UNCHANGED pc
    /\ UNCHANGED accelerator /\ UNCHANGED iterator /\ UNCHANGED <<interval, hits>>

NoMoreHits ==
    /\ pc = "search" /\ ~activeCell
    /\ pc' = "done"
    /\ UNCHANGED accelerator /\ UNCHANGED iterator
    /\ UNCHANGED <<currentCellIndex, currentCellTRange, activeCell, interval, hits>>

Build == \E task \in bricks : EncodeBrick(task)

Iterate ==
    \/ CallIterateInterval \/ NextIntervalCell
    \/ CallIterateHit \/ FindHit \/ NoHitInCell \/ NoMoreHits

Done == pc = "done" /\ UNCHANGED vars

Next == Build \/ Initialize \/ Iterate \/ Done

(* A call runs to its end, and the application goes on calling. *)
Spec == Init /\ [][Next]_vars /\ WF_vars(Iterate)

-----------------------------------------------------------------------------
TypeOK ==
    /\ bricks \subseteq 0 .. NumTasks - 1
    /\ \A n \in DOMAIN cellValueRanges :
          n \in 0 .. NumTasks * BrickCellCount - 1
    /\ pc \in {"build", "built", "idle", "march", "search", "done"}
    /\ \A a \in Axes : currentCellIndex[a] \in -1 .. CellsPerDimension(a)
    /\ currentCellTRange.lo \in 0 .. 2 * Inf /\ currentCellTRange.hi \in -Inf .. Inf
    /\ activeCell \in BOOLEAN
    /\ wanted \subseteq 0 .. Inf
    /\ \A n \in 1 .. Len(hits) : hits[n] \in 0 .. Inf

(***************************************************************************)
(* "the sampled value range should be completely within the returned       *)
(* interval value range" (interval_iterator.cpp): the range found through  *)
(* the cell's address covers all values interpolated in the interval.      *)
(***************************************************************************)
ReportedRangeCoversInterval ==
    pc = "idle" /\ kind = "interval" /\ ~NotBegun(currentCellIndex) =>
        \A t \in currentCellTRange.lo .. currentCellTRange.hi - 1 :
            \A v \in Corners(t) :
                LET r == ReadRange(currentCellIndex) IN r.lo <= v /\ v <= r.hi

(***************************************************************************)
(* The hits go forward along the ray, as hit_iterator.cpp expects them:    *)
(* none is returned again, within a cell or after it.                      *)
(***************************************************************************)
HitsInOrder == \A n \in 1 .. Len(hits) - 1 : hits[n] < hits[n + 1]

(***************************************************************************)
(* Both iterators implement the promise of all of their kind: intervals in *)
(* order that miss no unit with values the context asked for, whatever     *)
(* cells were skipped; hits in order that leave out only surfaces within   *)
(* the epsilon of another one.  And both come to an end.                   *)
(***************************************************************************)
StageOf(k) ==
    IF kind # k \/ pc \in {"build", "built"} THEN "none"
    ELSE IF pc = "done" THEN "done" ELSE "iterating"

IntervalPromise == INSTANCE IntervalIteration WITH
    stage    <- StageOf("interval"),
    required <- wanted,
    limit    <- boundingBoxTRange.hi

HitPromise == INSTANCE HitIteration WITH
    Tolerance <- 0,
    stage     <- StageOf("hit"),
    surfaces  <- wanted,
    hit       <- IF hits = <<>> THEN [t |-> -Inf, epsilon |-> 0]
                 ELSE [t |-> hits[Len(hits)], epsilon |-> ray.epsilon]

(* The intervals come in order and leave out no unit that is wanted. *)
ImplementsIteration == IntervalPromise!Spec

(* The application's loops over intervals and hits come to their end. *)
IterationsEnd == IntervalPromise!Ends /\ HitPromise!Ends

(* The hits come in order, leave out no surface, and both loops end. *)
ImplementsHitIteration == HitPromise!Spec /\ IterationsEnd
=============================================================================
