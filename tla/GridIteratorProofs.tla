------------------------- MODULE GridIteratorProofs -------------------------
(***************************************************************************)
(* Proofs about the grid accelerator, for any volume, any widths of cells  *)
(* and bricks and any rays.                                                *)
(*                                                                         *)
(* First the accelerator: the address a cell's range is read from is the   *)
(* one that it was written to.  Then the geometry: in a cell that a ray    *)
(* passes through it is in the volume, and the next cell begins where this *)
(* one ends, until the ray leaves the volume.  The inductive invariant     *)
(* says of the interval iterator that nothing the context asks for lies    *)
(* between the interval returned last and the end of the current cell.     *)
(***************************************************************************)
EXTENDS GridIterator, NumberLemmas, TLAPS

Grid == (0 .. CellsPerDimension(1) - 1) \X (0 .. CellsPerDimension(2) - 1)

(* the brick of a cell *)
TaskOf(c) == BrickAddress(<<c[1] \div BRICK_WIDTH, c[2] \div BRICK_WIDTH>>)

(***************************************************************************)
(* The cells of the bricks that were encoded have their range where it is  *)
(* read.                                                                   *)
(***************************************************************************)
Encoded ==
    /\ \A c \in Grid : TaskOf(c) \notin bricks =>
          CellIndex1D(c) \in DOMAIN cellValueRanges /\ ReadRange(c) = CellValueRange(c)
    /\ pc # "build" => bricks = {}

(* The iterator is one that was initialised for this volume. *)
Cast ==
    IF pc \in {"build", "built"}
    THEN kind = "none" /\ interval = Nothing /\ ~activeCell /\ wanted = {}
    ELSE /\ \E c \in Iterators[volume] : ray = c.ray /\ query = c.query /\ kind = c.kind
         /\ boundingBoxTRange = BoundsOf(ray)

Unwanted(lo, hi) == wanted \cap (lo .. hi - 1) = {}

(***************************************************************************)
(* Nothing that is wanted lies between the last interval and the end of    *)
(* the current cell.                                                       *)
(***************************************************************************)
Marches ==
    kind = "interval" /\ pc \in {"idle", "march"} =>
        /\ wanted = RequiredUnits /\ interval.hi \in Int
        /\ pc = "march" => ~IsEmpty(boundingBoxTRange)
        /\ \/ /\ NotBegun(currentCellIndex)
              /\ interval.lo = boundingBoxTRange.lo /\ interval.hi = boundingBoxTRange.lo
           \/ /\ ~IsEmpty(currentCellTRange)
              /\ currentCellTRange = CellInterval(currentCellIndex)
              /\ interval.hi <= currentCellTRange.hi
              /\ Unwanted(interval.hi, currentCellTRange.hi)
              /\ pc = "idle" => interval = currentCellTRange

(* A hit iterator's active cell is a cell of the volume. *)
Searches ==
    /\ activeCell => kind = "hit" /\ currentCellIndex \in Grid
    /\ pc = "search" => kind = "hit" /\ ~IsEmpty(boundingBoxTRange)
    /\ pc = "march" => kind = "interval"

Positions ==
    /\ volume \in Volumes
    /\ currentCellIndex \in (-1 .. CellsPerDimension(1)) \X (-1 .. CellsPerDimension(2))
    /\ currentCellTRange \in [lo : Int, hi : Int]
    /\ hits \in Seq(Int)

IInv == Positions /\ TypeOK /\ Encoded /\ Cast /\ Marches /\ Searches

-----------------------------------------------------------------------------
(* The dimensions of a volume, in voxels, cells and bricks. *)
LEMMA Dimensions ==
  ASSUME volume \in Volumes, NEW a \in Axes
  PROVE  /\ volume.dims[a] \in Nat /\ 2 <= volume.dims[a] /\ volume.dims[a] < Inf
         /\ CellsPerDimension(a) \in Nat \ {0} /\ BricksPerDimension(a) \in Nat \ {0}
         /\ volume.dims[a] <= CELL_WIDTH * CellsPerDimension(a)
         /\ CellsPerDimension(a) <= BRICK_WIDTH * BricksPerDimension(a)
         /\ \A k \in Int : CELL_WIDTH * k < volume.dims[a] => k < CellsPerDimension(a)
<1>1. /\ volume.dims[a] \in Nat \ {0} /\ 2 <= volume.dims[a] /\ volume.dims[a] < Inf
      /\ CELL_WIDTH \in Nat \ {0} /\ BRICK_WIDTH \in Nat \ {0}
  <2>1. volume.dims \in [Axes -> 2 .. Inf - 1] /\ Inf \in Nat
        /\ CELL_WIDTH \in Nat \ {0} /\ BRICK_WIDTH \in Nat \ {0}
    BY GridAssumption
  <2> QED
    BY <2>1
<1>2. /\ CellsPerDimension(a) \in Nat \ {0}
      /\ volume.dims[a] <= CELL_WIDTH * CellsPerDimension(a)
      /\ \A k \in Int : CELL_WIDTH * k < volume.dims[a] => k < CellsPerDimension(a)
  BY <1>1, Ceiling DEF CellsPerDimension
<1>3. /\ BricksPerDimension(a) \in Nat \ {0}
      /\ CellsPerDimension(a) <= BRICK_WIDTH * BricksPerDimension(a)
  BY <1>1, <1>2, Ceiling DEF BricksPerDimension
<1> QED
  BY <1>1, <1>2, <1>3

(* One number for two: column and row of a cell or brick. *)
LEMMA RowAndColumn ==
  ASSUME NEW d \in Nat \ {0}, NEW e \in Nat, NEW x \in 0 .. d - 1, NEW y \in 0 .. e - 1
  PROVE  /\ d * y + x \in 0 .. d * e - 1
         /\ (d * y + x) % d = x /\ (d * y + x) \div d = y
<1>1. (d * y + x) \div d = y /\ (d * y + x) % d = x
  BY DivisionIsUnique
<1>2. d * y + d <= d * e
  BY Multiples
<1>3. 0 <= d * y
  OBVIOUS
<1> QED
  BY <1>1, <1>2, <1>3

LEMMA ColumnAndRow ==
  ASSUME NEW d \in Nat \ {0}, NEW e \in Nat, NEW n \in 0 .. d * e - 1
  PROVE  /\ n % d \in 0 .. d - 1 /\ n \div d \in 0 .. e - 1
         /\ n = d * (n \div d) + (n % d)
<1>1. n \in Nat /\ n < d * e
  OBVIOUS
<1>2. n \div d \in 0 .. e - 1
  BY <1>1, QuotientBelow
<1> QED
  BY <1>1, <1>2, Division

(* The numbers of bricks and of the cells of one. *)
LEMMA Counts ==
  ASSUME volume \in Volumes
  PROVE  /\ BrickCellCount \in Nat \ {0} /\ NumTasks \in Nat \ {0}
         /\ BRICK_WIDTH \in Nat \ {0} /\ CELL_WIDTH \in Nat \ {0}
         /\ BricksPerDimension(1) \in Nat \ {0} /\ BricksPerDimension(2) \in Nat \ {0}
<1>1. /\ BRICK_WIDTH \in Nat \ {0} /\ CELL_WIDTH \in Nat \ {0}
      /\ BricksPerDimension(1) \in Nat \ {0} /\ BricksPerDimension(2) \in Nat \ {0}
  BY Dimensions, GridAssumption DEF Axes
<1>2. \A m, n \in Nat \ {0} : m * n \in Nat \ {0}
  OBVIOUS
<1> QED
  BY <1>1, <1>2 DEF BrickCellCount, NumTasks

(***************************************************************************)
(* A cell is at an offset in one brick: getCellIndex1D finds both.         *)
(***************************************************************************)
OffsetOf(c) == (c[2] % BRICK_WIDTH) * BRICK_WIDTH + (c[1] % BRICK_WIDTH)

BrickOf(task) == <<task % BricksPerDimension(1), task \div BricksPerDimension(1)>>

LEMMA Addresses ==
  ASSUME volume \in Volumes, NEW c \in Grid
  PROVE  /\ TaskOf(c) \in 0 .. NumTasks - 1
         /\ OffsetOf(c) \in 0 .. BrickCellCount - 1
         /\ CellIndex1D(c) = BrickCellCount * TaskOf(c) + OffsetOf(c)
         /\ CellOfBrick(BrickOf(TaskOf(c)), OffsetOf(c)) = <<c[1], c[2]>>
<1> DEFINE B == BRICK_WIDTH
           n == BricksPerDimension(1)
           m == BricksPerDimension(2)
           x == c[1] \div B
           y == c[2] \div B
<1>1. B \in Nat \ {0} /\ n \in Nat \ {0} /\ m \in Nat \ {0}
  BY Counts
<1>2. /\ c[1] \in 0 .. B * n - 1 /\ c[2] \in 0 .. B * m - 1
  <2>1. /\ CellsPerDimension(1) <= B * n /\ CellsPerDimension(1) \in Nat
        /\ CellsPerDimension(2) <= B * m /\ CellsPerDimension(2) \in Nat
    BY Dimensions DEF Axes
  <2>2. B * n \in Nat /\ B * m \in Nat
    BY <1>1
  <2>3. c[1] \in 0 .. CellsPerDimension(1) - 1 /\ c[2] \in 0 .. CellsPerDimension(2) - 1
    BY DEF Grid
  <2> HIDE DEF B, n, m
  <2> QED
    BY <2>1, <2>2, <2>3
<1>3. /\ c[1] % B \in 0 .. B - 1 /\ x \in 0 .. n - 1 /\ c[1] = B * x + (c[1] % B)
      /\ c[2] % B \in 0 .. B - 1 /\ y \in 0 .. m - 1 /\ c[2] = B * y + (c[2] % B)
  <2> HIDE DEF B, n, m
  <2> QED
    BY <1>1, <1>2, ColumnAndRow
<1>4. TaskOf(c) = n * y + x
  <2>1. TaskOf(c) = x + n * y
    BY DEF TaskOf, BrickAddress
  <2>2. n * y \in Int /\ x \in Int
    BY <1>1, <1>3
  <2> HIDE DEF n, x, y
  <2> QED
    BY <2>1, <2>2
<1>5. /\ TaskOf(c) \in 0 .. n * m - 1 /\ TaskOf(c) % n = x /\ TaskOf(c) \div n = y
  <2> HIDE DEF n, m, x, y
  <2> QED
    BY <1>1, <1>3, <1>4, RowAndColumn, SMTT(30)
<1> DEFINE i == c[1] % B
           j == c[2] % B
<1>6. /\ OffsetOf(c) = B * j + i
      /\ OffsetOf(c) \in 0 .. B * B - 1 /\ OffsetOf(c) % B = i /\ OffsetOf(c) \div B = j
  <2>1. OffsetOf(c) = j * B + i
    BY DEF OffsetOf
  <2>2. i \in 0 .. B - 1 /\ j \in 0 .. B - 1 /\ j * B = B * j
    BY <1>1, <1>3
  <2> HIDE DEF B, i, j
  <2> QED
    BY <1>1, <2>1, <2>2, RowAndColumn
<1>7. CellIndex1D(c) = BrickCellCount * TaskOf(c) + OffsetOf(c)
  <2>1. CellIndex1D(c) = TaskOf(c) * BrickCellCount + j * B + i
    BY DEF CellIndex1D, TaskOf
  <2>2. OffsetOf(c) = j * B + i
    BY DEF OffsetOf
  <2>3. /\ TaskOf(c) \in Int /\ BrickCellCount \in Int /\ j * B \in Int /\ i \in Int
    BY <1>1, <1>3, <1>5, Counts
  <2> HIDE DEF B, i, j
  <2> QED
    BY <2>1, <2>2, <2>3
<1>8. CellOfBrick(BrickOf(TaskOf(c)), OffsetOf(c)) = <<x * B + i, y * B + j>>
  BY <1>5, <1>6 DEF CellOfBrick, BrickOf
<1>9. x * B + i = c[1] /\ y * B + j = c[2]
  <2>1. x \in Int /\ y \in Int /\ B \in Int
    BY <1>1, <1>3
  <2> HIDE DEF B, x, y
  <2> QED
    BY <2>1, <1>3
<1> QED
  BY <1>5, <1>6, <1>7, <1>8, <1>9 DEF NumTasks, BrickCellCount

(* What is computed from the volume alone does not change. *)
LEMMA VolumeStays ==
  ASSUME UNCHANGED volume
  PROVE  /\ Grid' = Grid /\ NumTasks' = NumTasks
         /\ \A a : CellsPerDimension(a)' = CellsPerDimension(a)
         /\ \A c : /\ TaskOf(c)' = TaskOf(c) /\ CellIndex1D(c)' = CellIndex1D(c)
                  /\ CellValueRange(c)' = CellValueRange(c)
<1>1. \A a : /\ CellsPerDimension(a)' = CellsPerDimension(a)
            /\ BricksPerDimension(a)' = BricksPerDimension(a)
  BY DEF CellsPerDimension, BricksPerDimension
<1>2. \A x, y : VoxelAt(x, y)' = VoxelAt(x, y)
  BY DEF VoxelAt
<1>3. ASSUME NEW c
      PROVE  /\ TaskOf(c)' = TaskOf(c) /\ CellIndex1D(c)' = CellIndex1D(c)
  BY <1>1 DEF TaskOf, CellIndex1D, BrickAddress
<1>4. ASSUME NEW c PROVE CellValueRange(c)' = CellValueRange(c)
  BY <1>2 DEF CellValueRange
<1> QED
  BY <1>1, <1>3, <1>4 DEF Grid, NumTasks

(* encodeBrick writes the ranges of the cells of its brick, and no others. *)
LEMMA EncodeBrickEncodes ==
  ASSUME Positions, Encoded, NEW task \in 0 .. NumTasks - 1, EncodeBrick(task),
         \A n \in DOMAIN cellValueRanges : n \in 0 .. NumTasks * BrickCellCount - 1
  PROVE  /\ Encoded'
         /\ \A n \in DOMAIN cellValueRanges' : n \in 0 .. NumTasks * BrickCellCount - 1
<1> DEFINE size == BrickCellCount
           written == {task * size + i : i \in 0 .. size - 1}
<1>1. /\ size \in Nat \ {0} /\ NumTasks \in Nat \ {0} /\ volume \in Volumes
      /\ UNCHANGED volume /\ bricks' = bricks \ {task}
      /\ pc' # "build" => bricks' = {}
  BY Counts DEF Positions, EncodeBrick
<1>2. BrickAddress(BrickOf(task)) = task
  <2>1. task \in 0 .. BricksPerDimension(1) * BricksPerDimension(2) - 1
    BY DEF NumTasks
  <2>2. task = BricksPerDimension(1) * (task \div BricksPerDimension(1))
                   + (task % BricksPerDimension(1))
        /\ task % BricksPerDimension(1) \in Int /\ task \div BricksPerDimension(1) \in Int
        /\ BricksPerDimension(1) \in Int
    <3> DEFINE n == BricksPerDimension(1)
               m == BricksPerDimension(2)
    <3>1. n \in Nat \ {0} /\ m \in Nat /\ task \in 0 .. n * m - 1
      BY <1>1, <2>1, Counts
    <3> HIDE DEF n, m
    <3>2. /\ task % n \in 0 .. n - 1 /\ task \div n \in 0 .. m - 1
          /\ task = n * (task \div n) + (task % n)
      BY <3>1, ColumnAndRow
    <3> QED
      BY <3>1, <3>2 DEF n
  <2>3. BrickAddress(BrickOf(task)) = (task % BricksPerDimension(1))
                   + BricksPerDimension(1) * (task \div BricksPerDimension(1))
    BY DEF BrickAddress, BrickOf
  <2> QED
    BY <2>2, <2>3
<1>3. cellValueRanges' =
          [n \in DOMAIN cellValueRanges \cup written |->
              IF n \in written THEN CellValueRange(CellOfBrick(BrickOf(task), n - (task * size + 0)))
              ELSE cellValueRanges[n]]
  BY <1>2 DEF EncodeBrick, BrickOf
<1>4. ASSUME NEW c \in Grid
      PROVE  /\ CellIndex1D(c) \in written <=> TaskOf(c) = task
             /\ TaskOf(c) = task =>
                   CellOfBrick(BrickOf(task), CellIndex1D(c) - (task * size + 0)) = <<c[1], c[2]>>
  <2>1. /\ TaskOf(c) \in 0 .. NumTasks - 1 /\ OffsetOf(c) \in 0 .. size - 1
        /\ CellIndex1D(c) = size * TaskOf(c) + OffsetOf(c)
        /\ CellOfBrick(BrickOf(TaskOf(c)), OffsetOf(c)) = <<c[1], c[2]>>
    BY <1>1, Addresses
  <2>2. ASSUME NEW i \in 0 .. size - 1, task * size + i = size * TaskOf(c) + OffsetOf(c)
        PROVE  TaskOf(c) = task
    <3>1. /\ (size * task + i) \div size = task
          /\ (size * TaskOf(c) + OffsetOf(c)) \div size = TaskOf(c)
      <4>1. task \in Int /\ TaskOf(c) \in Int
        BY <2>1
      <4> HIDE DEF size
      <4> QED
        BY <1>1, <2>1, <4>1, DivisionIsUnique
    <3>2. task * size = size * task
      BY <1>1
    <3> QED
      BY <2>2, <3>1, <3>2
  <2>3. ASSUME TaskOf(c) = task
        PROVE  CellIndex1D(c) = task * size + OffsetOf(c)
               /\ CellIndex1D(c) - (task * size + 0) = OffsetOf(c)
    <3>1. task * size = size * task /\ task * size \in Int
      BY <1>1
    <3> QED
      BY <2>1, <2>3, <3>1
  <2>4. CellIndex1D(c) \in written => TaskOf(c) = task
    BY <2>1, <2>2
  <2>5. TaskOf(c) = task => CellIndex1D(c) \in written
    BY <2>1, <2>3
  <2> QED
    BY <2>1, <2>3, <2>4, <2>5
<1>5. \A n \in written : n \in 0 .. NumTasks * size - 1
  <2> SUFFICES ASSUME NEW i \in 0 .. size - 1
               PROVE  task * size + i \in 0 .. NumTasks * size - 1
    OBVIOUS
  <2>1. size * task + size <= size * NumTasks /\ 0 <= size * task
        /\ size * task = task * size /\ size * NumTasks = NumTasks * size
    BY <1>1, Multiples
  <2>2. task * size \in Int /\ NumTasks * size \in Int
    BY <1>1
  <2> HIDE DEF size
  <2> QED
    BY <1>1, <2>1, <2>2
<1> HIDE DEF written
<1>6. DOMAIN cellValueRanges' = DOMAIN cellValueRanges \cup written
  BY <1>3
<1>7. ASSUME NEW c \in Grid, TaskOf(c) \notin bricks'
      PROVE  /\ CellIndex1D(c) \in DOMAIN cellValueRanges'
             /\ cellValueRanges'[CellIndex1D(c)] = CellValueRange(c)
  <2>1. CASE TaskOf(c) = task
    <3>1. CellValueRange(<<c[1], c[2]>>) = CellValueRange(c)
      BY DEF CellValueRange
    <3> QED
      BY <1>3, <1>4, <1>6, <2>1, <3>1
  <2>2. CASE TaskOf(c) # task
    <3>1. CellIndex1D(c) \in DOMAIN cellValueRanges
          /\ cellValueRanges[CellIndex1D(c)] = CellValueRange(c)
      BY <1>1, <1>7, <2>2 DEF Encoded, ReadRange
    <3> QED
      BY <1>3, <1>4, <1>6, <2>2, <3>1
  <2> QED
    BY <2>1, <2>2
<1>8. Encoded'
  BY <1>1, <1>7, VolumeStays DEF Encoded, ReadRange
<1> QED
  BY <1>5, <1>6, <1>8

-----------------------------------------------------------------------------
(***************************************************************************)
(* The range of a cell covers the voxels of the cell and one more, which   *)
(* is what samples in it are interpolated from.                            *)
(***************************************************************************)
LEMMA RangeCovers ==
  ASSUME NEW S \in SUBSET (Int \cup {NaN}), IsFiniteSet(S), NEW v \in S \ {NaN}
  PROVE  LET r == RangeOfValues(S)
         IN  r.lo \in S \ {NaN} /\ r.hi \in S \ {NaN} /\ r.lo <= v /\ v <= r.hi
<1> DEFINE T == S \ {NaN}
<1>1. T \in SUBSET Int /\ T # {}
  BY GridAssumption
<1>2. IsFiniteSet(T)
  BY FS_Subset
<1>3. /\ \E m \in T : \A n \in T : m <= n
      /\ \E m \in T : \A n \in T : n <= m
  <2> HIDE DEF T
  <2> QED
    BY <1>1, <1>2, Extremes
<1>4. /\ SmallestOf(T) \in T /\ \A n \in T : SmallestOf(T) <= n
      /\ LargestOf(T) \in T /\ \A n \in T : n <= LargestOf(T)
  <2> HIDE DEF T
  <2> QED
    BY <1>3 DEF SmallestOf, LargestOf
<1>5. RangeOfValues(S) = [lo |-> SmallestOf(T), hi |-> LargestOf(T)]
  BY <1>1 DEF RangeOfValues
<1> QED
  BY <1>4, <1>5

LEMMA CellRangeCovers ==
  ASSUME volume \in Volumes, NEW c \in Grid, NEW x \in Nat, NEW y \in Nat,
         x < volume.dims[1], c[1] * CELL_WIDTH <= x, x <= (c[1] + 1) * CELL_WIDTH,
         y < volume.dims[2], c[2] * CELL_WIDTH <= y, y <= (c[2] + 1) * CELL_WIDTH,
         volume.voxel[<<x, y>>] # NaN
  PROVE  /\ volume.voxel[<<x, y>>] \in Int
         /\ CellValueRange(c).lo \in Int /\ CellValueRange(c).hi \in Int
         /\ CellValueRange(c).lo <= volume.voxel[<<x, y>>]
         /\ volume.voxel[<<x, y>>] <= CellValueRange(c).hi
<1> DEFINE at(p) == VoxelAt(c[1] * CELL_WIDTH + p[1], c[2] * CELL_WIDTH + p[2])
           P == (0 .. Extent) \X (0 .. Extent)
           S == {VoxelAt(c[1] * CELL_WIDTH + i, c[2] * CELL_WIDTH + j) :
                    i \in 0 .. Extent, j \in 0 .. Extent}
           w == c[1] * CELL_WIDTH
           z == c[2] * CELL_WIDTH
<1>1. /\ volume.dims[1] \in Nat \ {0} /\ volume.dims[2] \in Nat \ {0}
      /\ CELL_WIDTH \in Nat \ {0} /\ c[1] \in Nat /\ c[2] \in Nat
  BY Dimensions, GridAssumption DEF Grid, Axes
<1>2. volume.voxel \in [(0 .. volume.dims[1] - 1) \X (0 .. volume.dims[2] - 1) -> Int \cup {NaN}]
  BY GridAssumption
<1>3. /\ w \in Nat /\ z \in Nat /\ Extent \in Nat
      /\ w <= x /\ x <= w + Extent /\ z <= y /\ y <= z + Extent
  <2>1. /\ (c[1] + 1) * CELL_WIDTH = c[1] * CELL_WIDTH + CELL_WIDTH
        /\ (c[2] + 1) * CELL_WIDTH = c[2] * CELL_WIDTH + CELL_WIDTH
        /\ c[1] * CELL_WIDTH \in Nat /\ c[2] * CELL_WIDTH \in Nat
    BY <1>1
  <2> QED
    BY <1>1, <2>1 DEF Extent
<1> HIDE DEF w, z
<1>4. \A i, j \in 0 .. Extent : VoxelAt(w + i, z + j) \in Int \cup {NaN}
  BY <1>1, <1>2, <1>3 DEF VoxelAt, Least
<1>5. S \in SUBSET (Int \cup {NaN})
  BY <1>4 DEF w, z
<1>6. VoxelAt(x, y) = volume.voxel[<<x, y>>] /\ VoxelAt(x, y) \in Int \cup {NaN}
  <2>1. Least(volume.dims[1] - 1, x) = x /\ Least(volume.dims[2] - 1, y) = y
    <3>1. \A d, n \in Nat : n < d => Least(d - 1, n) = n
      BY DEF Least
    <3> QED
      BY <1>1, <3>1
  <2>2. <<x, y>> \in (0 .. volume.dims[1] - 1) \X (0 .. volume.dims[2] - 1)
    BY <1>1
  <2> QED
    BY <1>2, <2>1, <2>2 DEF VoxelAt
<1>7. VoxelAt(x, y) \in S
  <2>1. x - w \in 0 .. Extent /\ y - z \in 0 .. Extent /\ w + (x - w) = x /\ z + (y - z) = y
    BY <1>3
  <2> QED
    BY <2>1 DEF w, z
<1>8. IsFiniteSet(S)
  <2>1. IsFiniteSet(P)
    <3>1. IsFiniteSet(0 .. Extent)
      BY <1>3, FS_Interval
    <3> QED
      BY <3>1, FS_Product
  <2> DEFINE f == [p \in P |-> at(p)]
  <2>2. f \in Surjection(P, S)
    <3>1. f \in [P -> S]
      OBVIOUS
    <3>2. \A s \in S : \E p \in P : f[p] = s
      <4> TAKE s \in S
      <4>1. PICK i \in 0 .. Extent, j \in 0 .. Extent :
                s = VoxelAt(c[1] * CELL_WIDTH + i, c[2] * CELL_WIDTH + j)
        OBVIOUS
      <4>2. <<i, j>> \in P /\ f[<<i, j>>] = s
        BY <4>1
      <4> QED
        BY <4>2
    <3> HIDE DEF f, S, P
    <3> QED
      BY <3>1, <3>2 DEF Surjection
  <2> HIDE DEF f, S, P
  <2> QED
    BY <2>1, <2>2, FS_Surjection DEF ExistsSurjection
<1>9. CellValueRange(c) = RangeOfValues(S)
  BY DEF CellValueRange
<1> HIDE DEF S
<1> DEFINE r == RangeOfValues(S)
           v == volume.voxel[<<x, y>>]
<1>10. v \in S \ {NaN}
  BY <1>6, <1>7
<1>11. r.lo \in S \ {NaN} /\ r.hi \in S \ {NaN} /\ r.lo <= v /\ v <= r.hi
  <2> HIDE DEF v
  <2> QED
    BY <1>5, <1>8, <1>10, RangeCovers
<1> QED
  BY <1>5, <1>9, <1>10, <1>11

-----------------------------------------------------------------------------
(***************************************************************************)
(* What the proofs use of an iterator's ray.                               *)
(***************************************************************************)
OnRay ==
    /\ volume \in Volumes
    /\ ray.origin \in [Axes -> Int] /\ ray.direction \in [Axes -> {-1, 0, 1}]
    /\ \E a \in Axes : ray.direction[a] # 0
    /\ ray.tRange.lo \in Nat /\ ray.tRange.hi \in 0 .. Inf
    /\ ray.epsilon \in 1 .. Inf
    /\ query \subseteq [lo : Int, hi : Int] /\ kind \in {"interval", "hit"}
    /\ boundingBoxTRange = BoundsOf(ray)

LEMMA CastOnRay ==
  ASSUME volume \in Volumes, Cast, pc \notin {"build", "built"}
  PROVE  OnRay
<1>1. PICK c \in Iterators[volume] : ray = c.ray /\ query = c.query /\ kind = c.kind
  BY DEF Cast
<1>2. boundingBoxTRange = BoundsOf(ray)
  BY DEF Cast
<1>3. /\ c.ray.origin \in [Axes -> Int] /\ c.ray.direction \in [Axes -> {-1, 0, 1}]
      /\ \E a \in Axes : c.ray.direction[a] # 0
      /\ c.ray.tRange.lo \in Nat /\ c.ray.tRange.hi \in 0 .. Inf
      /\ c.ray.epsilon \in 1 .. Inf
      /\ c.query \subseteq [lo : Int, hi : Int] /\ c.kind \in {"interval", "hit"}
  BY GridAssumption
<1> QED
  BY <1>1, <1>2, <1>3 DEF OnRay

(* The intersection of finitely many ranges. *)
LEMMA Intersection ==
  ASSUME NEW S, IsFiniteSet(S), S # {}, \A r \in S : r.lo \in Int /\ r.hi \in Int
  PROVE  LET m == Intersect(S)
         IN  /\ m = [lo |-> m.lo, hi |-> m.hi] /\ m.lo \in Int /\ m.hi \in Int
             /\ \A r \in S : r.lo <= m.lo /\ m.hi <= r.hi
             /\ \E r \in S : m.lo = r.lo
             /\ \E r \in S : m.hi = r.hi
<1> DEFINE los == {r.lo : r \in S}
           his == {r.hi : r \in S}
           f == [r \in S |-> r.lo]
           g == [r \in S |-> r.hi]
<1>1. /\ f \in [S -> Int] /\ g \in [S -> Int]
      /\ \A r \in S : f[r] = r.lo /\ g[r] = r.hi
  OBVIOUS
<1> HIDE DEF f, g
<1>2. PICK p \in S : \A r \in S : f[r] <= f[p]
  BY <1>1, GreatestOfFinite
<1>3. PICK q \in S : \A r \in S : g[q] <= g[r]
  BY <1>1, LeastOfFinite
<1>4. LargestOf(los) \in los /\ \A x \in los : x <= LargestOf(los)
  <2>1. p.lo \in los /\ \A x \in los : x <= p.lo
    BY <1>1, <1>2
  <2> HIDE DEF los
  <2> QED
    BY <2>1 DEF LargestOf
<1>5. SmallestOf(his) \in his /\ \A x \in his : SmallestOf(his) <= x
  <2>1. q.hi \in his /\ \A x \in his : q.hi <= x
    BY <1>1, <1>3
  <2> HIDE DEF his
  <2> QED
    BY <2>1 DEF SmallestOf
<1>6. Intersect(S) = [lo |-> LargestOf(los), hi |-> SmallestOf(his)]
  BY DEF Intersect
<1>7. /\ \A r \in S : r.lo \in los /\ r.hi \in his
      /\ \A x \in los : x \in Int /\ \E r \in S : x = r.lo
      /\ \A x \in his : x \in Int /\ \E r \in S : x = r.hi
  OBVIOUS
<1> HIDE DEF los, his
<1> DEFINE m == Intersect(S)
<1>8. m.lo = LargestOf(los) /\ m.hi = SmallestOf(his) /\ m = [lo |-> m.lo, hi |-> m.hi]
  BY <1>6
<1> HIDE DEF m
<1> QED
  BY <1>4, <1>5, <1>7, <1>8 DEF m

(* ... of the slabs of both axes and a range. *)
LEMMA SlabsMeet ==
  ASSUME NEW s, NEW u, NEW r,
         s.lo \in Int /\ s.hi \in Int, u.lo \in Int /\ u.hi \in Int, r.lo \in Int /\ r.hi \in Int
  PROVE  LET m == Intersect({s, u} \cup {r})
         IN  /\ m = [lo |-> m.lo, hi |-> m.hi] /\ m.lo \in Int /\ m.hi \in Int
             /\ s.lo <= m.lo /\ u.lo <= m.lo /\ r.lo <= m.lo
             /\ m.hi <= s.hi /\ m.hi <= u.hi /\ m.hi <= r.hi
             /\ m.lo = s.lo \/ m.lo = u.lo \/ m.lo = r.lo
             /\ m.hi = s.hi \/ m.hi = u.hi \/ m.hi = r.hi
<1> DEFINE S == {s, u} \cup {r}
<1>1. IsFiniteSet(S)
  <2>1. IsFiniteSet({s}) /\ IsFiniteSet({u}) /\ IsFiniteSet({r})
    BY FS_Singleton
  <2>2. IsFiniteSet({s} \cup {u})
    BY <2>1, FS_Union
  <2>3. IsFiniteSet(({s} \cup {u}) \cup {r})
    BY <2>1, <2>2, FS_Union
  <2>4. ({s} \cup {u}) \cup {r} = S
    OBVIOUS
  <2> QED
    BY <2>3, <2>4
<1>2. /\ s \in S /\ u \in S /\ r \in S /\ S # {}
      /\ \A x \in S : x = s \/ x = u \/ x = r
  OBVIOUS
<1> HIDE DEF S
<1>3. \A x \in S : x.lo \in Int /\ x.hi \in Int
  BY <1>2
<1> DEFINE m == Intersect(S)
<1>4. /\ m = [lo |-> m.lo, hi |-> m.hi] /\ m.lo \in Int /\ m.hi \in Int
      /\ \A x \in S : x.lo <= m.lo /\ m.hi <= x.hi
      /\ \E x \in S : m.lo = x.lo
      /\ \E x \in S : m.hi = x.hi
  BY <1>1, <1>2, <1>3, Intersection
<1> HIDE DEF m
<1>5. m.lo = s.lo \/ m.lo = u.lo \/ m.lo = r.lo
  BY <1>2, <1>4
<1>6. m.hi = s.hi \/ m.hi = u.hi \/ m.hi = r.hi
  BY <1>2, <1>4
<1> QED
  BY <1>2, <1>4, <1>5, <1>6 DEF m, S

(* A slab: along an axis the ray moves on, the t at which it is between    *)
(* two planes; else all t, or none.                                        *)
LEMMA SlabFacts ==
  ASSUME OnRay, NEW a \in Axes, NEW lo \in Int, NEW hi \in Int
  PROVE  LET s == Slab(ray, a, lo, hi)
             o == ray.origin[a]
         IN  /\ s.lo \in Int /\ s.hi \in Int /\ Inf \in Nat /\ 2 < Inf /\ o \in Int
             /\ \/ ray.direction[a] = 1 /\ s.lo = lo - o /\ s.hi = hi - o
                \/ ray.direction[a] = -1 /\ s.lo = o - hi /\ s.hi = o - lo
                \/ ray.direction[a] = 0 /\ lo <= o /\ o < hi /\ s.lo = -Inf /\ s.hi = Inf
                \/ ray.direction[a] = 0 /\ ~(lo <= o /\ o < hi) /\ s.lo = Inf /\ s.hi = -Inf
             /\ \A t \in Int : s.lo <= t /\ t <= s.hi => lo <= PositionOn(a, t) /\ PositionOn(a, t) <= hi
<1>1. /\ ray.origin[a] \in Int /\ ray.direction[a] \in {-1, 0, 1}
      /\ Inf \in Nat
  BY GridAssumption DEF OnRay
<1>2. 2 < Inf
  <2>1. volume.dims[a] \in Nat /\ 2 <= volume.dims[a] /\ volume.dims[a] < Inf
    BY Dimensions DEF OnRay
  <2> QED
    BY <1>1, <2>1
<1> DEFINE s == Slab(ray, a, lo, hi)
           o == ray.origin[a]
<1>3. \/ ray.direction[a] = 1 /\ s.lo = lo - o /\ s.hi = hi - o
      \/ ray.direction[a] = -1 /\ s.lo = o - hi /\ s.hi = o - lo
      \/ ray.direction[a] = 0 /\ lo <= o /\ o < hi /\ s.lo = -Inf /\ s.hi = Inf
      \/ ray.direction[a] = 0 /\ ~(lo <= o /\ o < hi) /\ s.lo = Inf /\ s.hi = -Inf
  <2>1. CASE ray.direction[a] = 1
    BY <2>1 DEF Slab
  <2>2. CASE ray.direction[a] = -1
    BY <2>2 DEF Slab
  <2>3. CASE ray.direction[a] = 0
    BY <2>3 DEF Slab, Nothing
  <2> QED
    BY <1>1, <2>1, <2>2, <2>3
<1> HIDE DEF s
<1>4. ASSUME NEW t \in Int, s.lo <= t, t <= s.hi
      PROVE  lo <= PositionOn(a, t) /\ PositionOn(a, t) <= hi
  <2>1. CASE ray.direction[a] = 1
    BY <1>1, <1>2, <1>3, <1>4, <2>1 DEF PositionOn
  <2>2. CASE ray.direction[a] = -1
    BY <1>1, <1>2, <1>3, <1>4, <2>2 DEF PositionOn
  <2>3. CASE ray.direction[a] = 0
    BY <1>1, <1>2, <1>3, <1>4, <2>3 DEF PositionOn
  <2> QED
    BY <1>1, <2>1, <2>2, <2>3
<1> QED
  BY <1>1, <1>2, <1>3, <1>4 DEF s

(* The part of the ray that is in the volume. *)
LEMMA BoundsFacts ==
  ASSUME OnRay
  PROVE  LET b == boundingBoxTRange
         IN  /\ b = [lo |-> b.lo, hi |-> b.hi]
             /\ b.lo \in Nat /\ b.hi \in Int /\ b.hi <= Inf /\ Inf \in Nat
             /\ \A t \in Int : b.lo <= t /\ t <= b.hi =>
                   \A a \in Axes : PositionOn(a, t) \in 0 .. volume.dims[a] - 1
<1> DEFINE slab(a) == Slab(ray, a, 0, volume.dims[a] - 1)
           b == boundingBoxTRange
<1>1. /\ \A a \in Axes : volume.dims[a] \in Nat /\ 2 <= volume.dims[a]
      /\ ray.tRange.lo \in Nat /\ ray.tRange.hi \in 0 .. Inf /\ Inf \in Nat
  BY Dimensions, GridAssumption DEF OnRay
<1>2. ASSUME NEW a \in Axes
      PROVE  /\ slab(a).lo \in Int /\ slab(a).hi \in Int
             /\ \A t \in Int : slab(a).lo <= t /\ t <= slab(a).hi =>
                   0 <= PositionOn(a, t) /\ PositionOn(a, t) <= volume.dims[a] - 1
  BY <1>1, SlabFacts
<1>3. b = Intersect({slab(1), slab(2)} \cup {ray.tRange})
  <2>1. {slab(a) : a \in Axes} = {slab(1), slab(2)}
    BY DEF Axes
  <2> QED
    BY <2>1 DEF OnRay, BoundsOf
<1>4. ASSUME NEW a \in Axes, NEW t \in Int PROVE PositionOn(a, t) \in Int
  <2>1. ray.origin[a] \in Int /\ ray.direction[a] \in {-1, 0, 1}
    BY DEF OnRay
  <2> QED
    BY <2>1 DEF PositionOn
<1> HIDE DEF slab, b
<1>5. /\ b = [lo |-> b.lo, hi |-> b.hi] /\ b.lo \in Int /\ b.hi \in Int
      /\ slab(1).lo <= b.lo /\ slab(2).lo <= b.lo /\ ray.tRange.lo <= b.lo
      /\ b.hi <= slab(1).hi /\ b.hi <= slab(2).hi /\ b.hi <= ray.tRange.hi
  <2>1. /\ slab(1).lo \in Int /\ slab(1).hi \in Int /\ slab(2).lo \in Int /\ slab(2).hi \in Int
        /\ ray.tRange.lo \in Int /\ ray.tRange.hi \in Int
    BY <1>1, <1>2 DEF Axes
  <2> QED
    BY <1>3, <2>1, SlabsMeet
<1>6. ASSUME NEW t \in Int, b.lo <= t, t <= b.hi, NEW a \in Axes
      PROVE  PositionOn(a, t) \in 0 .. volume.dims[a] - 1
  <2>1. slab(a).lo <= b.lo /\ b.hi <= slab(a).hi
    BY <1>5 DEF Axes
  <2>2. slab(a).lo <= t /\ t <= slab(a).hi
    BY <1>2, <1>5, <1>6, <2>1
  <2> QED
    BY <1>1, <1>2, <1>4, <2>2
<1> QED
  BY <1>1, <1>5, <1>6 DEF b

(* The part that is in a cell. *)
LEMMA CellIntervalFacts ==
  ASSUME OnRay, NEW c, c[1] \in Int, c[2] \in Int
  PROVE  LET m == CellInterval(c)
             b == boundingBoxTRange
         IN  /\ m = [lo |-> m.lo, hi |-> m.hi] /\ m.lo \in Int /\ m.hi \in Int
             /\ b.lo <= m.lo /\ m.hi <= b.hi
             /\ \A a \in Axes : CellSlab(c, a).lo <= m.lo /\ m.hi <= CellSlab(c, a).hi
             /\ m.lo = b.lo \/ \E a \in Axes : m.lo = CellSlab(c, a).lo
             /\ m.hi = b.hi \/ \E a \in Axes : m.hi = CellSlab(c, a).hi
<1> DEFINE m == CellInterval(c)
           b == boundingBoxTRange
           s == CellSlab(c, 1)
           u == CellSlab(c, 2)
<1>1. /\ s.lo \in Int /\ s.hi \in Int /\ u.lo \in Int /\ u.hi \in Int
  <2>1. /\ c[1] * CELL_WIDTH \in Int /\ (c[1] + 1) * CELL_WIDTH \in Int
        /\ c[2] * CELL_WIDTH \in Int /\ (c[2] + 1) * CELL_WIDTH \in Int
    BY GridAssumption
  <2> QED
    BY <2>1, SlabFacts DEF CellSlab, Axes
<1>2. b.lo \in Int /\ b.hi \in Int
  BY BoundsFacts
<1>3. m = Intersect({s, u} \cup {b})
  <2>1. {CellSlab(c, a) : a \in Axes} = {s, u}
    BY DEF Axes
  <2> QED
    BY <2>1 DEF CellInterval
<1> HIDE DEF m, s, u, b
<1>4. /\ m = [lo |-> m.lo, hi |-> m.hi] /\ m.lo \in Int /\ m.hi \in Int
      /\ s.lo <= m.lo /\ u.lo <= m.lo /\ b.lo <= m.lo
      /\ m.hi <= s.hi /\ m.hi <= u.hi /\ m.hi <= b.hi
      /\ m.lo = s.lo \/ m.lo = u.lo \/ m.lo = b.lo
      /\ m.hi = s.hi \/ m.hi = u.hi \/ m.hi = b.hi
  BY <1>1, <1>2, <1>3, SlabsMeet
<1>5. \A a \in Axes : CellSlab(c, a) = s \/ CellSlab(c, a) = u
  BY DEF Axes, s, u
<1>6. 1 \in Axes /\ CellSlab(c, 1) = s /\ 2 \in Axes /\ CellSlab(c, 2) = u
  BY DEF Axes, s, u
<1>7. \A a \in Axes : CellSlab(c, a).lo <= m.lo /\ m.hi <= CellSlab(c, a).hi
  BY <1>4, <1>5
<1>8. m.lo = b.lo \/ \E a \in Axes : m.lo = CellSlab(c, a).lo
  BY <1>4, <1>6
<1>9. m.hi = b.hi \/ \E a \in Axes : m.hi = CellSlab(c, a).hi
  BY <1>4, <1>6
<1> QED
  BY <1>4, <1>7, <1>8, <1>9 DEF m, b

(* The planes of a cell. *)
LEMMA CellPlanes ==
  ASSUME NEW k \in Int
  PROVE  /\ CELL_WIDTH \in Nat \ {0} /\ k * CELL_WIDTH \in Int
         /\ (k + 1) * CELL_WIDTH = k * CELL_WIDTH + CELL_WIDTH
         /\ (k - 1) * CELL_WIDTH = k * CELL_WIDTH - CELL_WIDTH
<1>1. CELL_WIDTH \in Nat \ {0}
  BY GridAssumption
<1> QED
  BY <1>1

(* A cell that a part of the ray is in is a cell of the volume, and there  *)
(* the ray is between its planes.                                          *)
LEMMA InsideCell ==
  ASSUME OnRay, NEW c \in Int \X Int, ~IsEmpty(CellInterval(c))
  PROVE  /\ c \in Grid
         /\ \A t \in Int : CellInterval(c).lo <= t /\ t <= CellInterval(c).hi =>
               \A a \in Axes : /\ PositionOn(a, t) \in 0 .. volume.dims[a] - 1
                               /\ c[a] * CELL_WIDTH <= PositionOn(a, t)
                               /\ PositionOn(a, t) <= (c[a] + 1) * CELL_WIDTH
<1> DEFINE m == CellInterval(c)
           b == boundingBoxTRange
<1>0. /\ c[1] \in Int /\ c[2] \in Int
      /\ \A a \in Axes : c[a] \in Int
  BY DEF Axes
<1>1. /\ m.lo \in Int /\ m.hi \in Int /\ b.lo <= m.lo /\ m.hi <= b.hi /\ b.lo \in Int /\ b.hi \in Int
      /\ \A a \in Axes : CellSlab(c, a).lo <= m.lo /\ m.hi <= CellSlab(c, a).hi
  BY <1>0, CellIntervalFacts, BoundsFacts
<1>2. m.lo < m.hi
  BY <1>1 DEF IsEmpty
<1> HIDE DEF m, b
<1>3. ASSUME NEW a \in Axes, NEW t \in Int, m.lo <= t, t <= m.hi
      PROVE  /\ PositionOn(a, t) \in 0 .. volume.dims[a] - 1
             /\ c[a] * CELL_WIDTH <= PositionOn(a, t)
             /\ PositionOn(a, t) <= (c[a] + 1) * CELL_WIDTH
  <2>1. b.lo <= t /\ t <= b.hi
    BY <1>1, <1>3
  <2>2. PositionOn(a, t) \in 0 .. volume.dims[a] - 1
    BY <2>1, BoundsFacts DEF b
  <2>3. c[a] * CELL_WIDTH \in Int /\ (c[a] + 1) * CELL_WIDTH \in Int
    <3>1. c[a] \in Int
      BY <1>0
    <3>2. /\ c[a] * CELL_WIDTH \in Int /\ CELL_WIDTH \in Nat
          /\ (c[a] + 1) * CELL_WIDTH = c[a] * CELL_WIDTH + CELL_WIDTH
      BY <3>1, CellPlanes
    <3> QED
      BY <3>2
  <2> DEFINE s == CellSlab(c, a)
             p == c[a] * CELL_WIDTH
             q == (c[a] + 1) * CELL_WIDTH
  <2>4. s.lo \in Int /\ s.hi \in Int /\ s.lo <= m.lo /\ m.hi <= s.hi
    <3>1. CellSlab(c, a).lo \in Int /\ CellSlab(c, a).hi \in Int
      BY <2>3, SlabFacts DEF CellSlab
    <3> QED
      BY <1>1, <3>1
  <2>5. s = Slab(ray, a, p, q)
    BY DEF CellSlab
  <2> HIDE DEF s, p, q
  <2>6. s.lo <= t /\ t <= s.hi
    BY <1>1, <1>3, <2>4
  <2>7. p <= PositionOn(a, t) /\ PositionOn(a, t) <= q
    <3>1. p \in Int /\ q \in Int
      BY <2>3 DEF p, q
    <3> QED
      BY <2>5, <2>6, <3>1, SlabFacts
  <2> QED
    BY <2>2, <2>7 DEF p, q
<1>4. ASSUME NEW a \in Axes PROVE c[a] \in 0 .. CellsPerDimension(a) - 1
  <2> DEFINE x == PositionOn(a, m.lo)
             y == PositionOn(a, m.lo + 1)
             W == CELL_WIDTH
             d == volume.dims[a]
  <2>1. /\ x \in 0 .. d - 1 /\ c[a] * W <= x /\ x <= (c[a] + 1) * W
        /\ y \in 0 .. d - 1 /\ c[a] * W <= y /\ y <= (c[a] + 1) * W
    BY <1>1, <1>2, <1>3
  <2>2. /\ c[a] \in Int /\ c[a] * W \in Int /\ (c[a] + 1) * W = c[a] * W + W /\ W \in Nat \ {0}
        /\ d \in Nat /\ c[a] * W = W * c[a] /\ (c[a] + 1) * W = W * (c[a] + 1)
    <3>1. c[a] \in Int /\ W \in Nat \ {0}
      BY <1>0, GridAssumption
    <3>2. d \in Nat
      BY Dimensions DEF OnRay
    <3> HIDE DEF W, d
    <3> QED
      BY <3>1, <3>2
  <2>3. 0 < (c[a] + 1) * W
    <3>1. CASE ray.direction[a] = 0
      <4>1. m.lo <= CellSlab(c, a).hi /\ CellSlab(c, a).lo <= m.lo /\ m.lo < CellSlab(c, a).hi
        <5>1. CellSlab(c, a).hi \in Int /\ CellSlab(c, a).lo \in Int
          BY <2>2, SlabFacts DEF CellSlab
        <5> QED
          BY <1>1, <1>2, <5>1
      <4>2. ray.origin[a] < (c[a] + 1) * W
        <5>1. c[a] * W \in Int /\ (c[a] + 1) * W \in Int
          BY <2>2
        <5>2. Slab(ray, a, c[a] * W, (c[a] + 1) * W) = CellSlab(c, a)
          BY DEF CellSlab
        <5> HIDE DEF W
        <5> QED
          BY <1>1, <3>1, <4>1, <5>1, <5>2, SlabFacts
      <4>3. x = ray.origin[a] /\ ray.origin[a] \in Int
        BY <1>1, <3>1 DEF PositionOn, OnRay
      <4> HIDE DEF x, W, d
      <4> QED
        BY <2>1, <2>2, <4>2, <4>3
    <3>2. CASE ray.direction[a] # 0
      <4>1. x # y
        <5>1. ray.direction[a] \in {-1, 1} /\ ray.origin[a] \in Int
          BY <3>2 DEF OnRay
        <5> QED
          BY <1>1, <5>1 DEF PositionOn
      <4> HIDE DEF x, y, W, d
      <4> QED
        BY <2>1, <2>2, <4>1
    <3> QED
      BY <3>1, <3>2
  <2>4. W * c[a] < d
    <3> HIDE DEF x, y, W, d
    <3> QED
      BY <2>1, <2>2
  <2>5. c[a] < CellsPerDimension(a) /\ CellsPerDimension(a) \in Nat
    BY <2>2, <2>4, Dimensions DEF OnRay
  <2>6. 0 < c[a] + 1
    BY <2>2, <2>3, Positive
  <2> QED
    BY <2>2, <2>5, <2>6
<1>5. c \in Grid
  <2>1. c = <<c[1], c[2]>>
    OBVIOUS
  <2> QED
    BY <1>4, <2>1 DEF Grid, Axes
<1> QED
  BY <1>3, <1>5 DEF m

-----------------------------------------------------------------------------
(* Along an axis the ray moves on, the next slab begins where one ends. *)
LEMMA NextSlab ==
  ASSUME OnRay, NEW a \in Axes, NEW k \in Int, ray.direction[a] # 0
  PROVE  LET n == k + CornerDelta(ray.direction[a])
             s == Slab(ray, a, k * CELL_WIDTH, (k + 1) * CELL_WIDTH)
             u == Slab(ray, a, n * CELL_WIDTH, (n + 1) * CELL_WIDTH)
         IN  n \in Int /\ u.lo = s.hi /\ s.hi < u.hi
<1> DEFINE W == CELL_WIDTH
           n == k + CornerDelta(ray.direction[a])
           s == Slab(ray, a, k * W, (k + 1) * W)
           u == Slab(ray, a, n * W, (n + 1) * W)
           o == ray.origin[a]
<1>1. /\ W \in Nat \ {0} /\ k * W \in Int /\ (k + 1) * W = k * W + W
      /\ (k - 1) * W = k * W - W /\ ((k + 1) + 1) * W = (k * W + W) + W
  <2>1. W \in Nat \ {0}
    BY GridAssumption
  <2> HIDE DEF W
  <2> QED
    BY <2>1
<1>2. o \in Int
  BY DEF OnRay
<1>3. CASE ray.direction[a] = 1
  <2>1. n = k + 1
    BY <1>3 DEF CornerDelta
  <2>2. s.hi = (k + 1) * W - o
    BY <1>3 DEF Slab
  <2>3. u.lo = n * W - o /\ u.hi = (n + 1) * W - o
    BY <1>3 DEF Slab
  <2> HIDE DEF W, n, s, u, o
  <2> QED
    BY <1>1, <1>2, <2>1, <2>2, <2>3 DEF W, n, s, u
<1>4. CASE ray.direction[a] = -1
  <2>1. n = k - 1
    BY <1>4 DEF CornerDelta
  <2>2. s.hi = o - k * W
    BY <1>4 DEF Slab
  <2>3. u.lo = o - (n + 1) * W /\ u.hi = o - n * W
    BY <1>4 DEF Slab
  <2>4. n \in Int /\ n + 1 = k
    BY <2>1
  <2> HIDE DEF W, n, s, u, o
  <2> QED
    BY <1>1, <1>2, <2>1, <2>2, <2>3, <2>4 DEF W, n, s, u
<1> QED
  BY <1>3, <1>4 DEF OnRay

(* The slabs of a cell, and where the ray leaves them. *)
LEMMA CellSlabs ==
  ASSUME OnRay, NEW c \in Int \X Int, NEW a \in Axes
  PROVE  /\ c[a] \in Int
         /\ CellSlab(c, a).lo \in Int /\ CellSlab(c, a).hi \in Int
         /\ TMax(c, a) \in Int /\ Inf \in Nat /\ 2 < Inf
         /\ ray.direction[a] # 0 => TMax(c, a) = CellSlab(c, a).hi
         /\ ray.direction[a] = 0 =>
               /\ TMax(c, a) = Inf
               /\ \/ CellSlab(c, a).lo = -Inf /\ CellSlab(c, a).hi = Inf
                  \/ CellSlab(c, a).lo = Inf /\ CellSlab(c, a).hi = -Inf
         /\ Adjacent(c) \in Int \X Int
         /\ CellSlab(Adjacent(c), a) =
               IF a \in ExitAxes(c)
               THEN Slab(ray, a, (c[a] + CornerDelta(ray.direction[a])) * CELL_WIDTH,
                                 (c[a] + CornerDelta(ray.direction[a]) + 1) * CELL_WIDTH)
               ELSE CellSlab(c, a)
<1>1. \A e \in Axes : c[e] \in Int
  BY DEF Axes
<1>2. c[a] * CELL_WIDTH \in Int /\ (c[a] + 1) * CELL_WIDTH \in Int
  <2>1. c[a] * CELL_WIDTH \in Int /\ CELL_WIDTH \in Nat
        /\ (c[a] + 1) * CELL_WIDTH = c[a] * CELL_WIDTH + CELL_WIDTH
    BY <1>1, CellPlanes
  <2> QED
    BY <2>1
<1>3. /\ CellSlab(c, a).lo \in Int /\ CellSlab(c, a).hi \in Int /\ Inf \in Nat /\ 2 < Inf
      /\ ray.direction[a] = 0 =>
            \/ CellSlab(c, a).lo = -Inf /\ CellSlab(c, a).hi = Inf
            \/ CellSlab(c, a).lo = Inf /\ CellSlab(c, a).hi = -Inf
  BY <1>2, SlabFacts DEF CellSlab
<1>4. \A d : CornerDelta(d) \in Int
  BY DEF CornerDelta
<1>5. \A e \in Axes : AdjacentOn(c, e) \in Int
  BY <1>1, <1>4 DEF AdjacentOn
<1>6. Adjacent(c) \in Int \X Int
  BY <1>5 DEF Adjacent, Axes
<1>7. Adjacent(c)[a] = AdjacentOn(c, a)
  BY DEF Adjacent, Axes
<1>8. CellSlab(Adjacent(c), a) =
               IF a \in ExitAxes(c)
               THEN Slab(ray, a, (c[a] + CornerDelta(ray.direction[a])) * CELL_WIDTH,
                                 (c[a] + CornerDelta(ray.direction[a]) + 1) * CELL_WIDTH)
               ELSE CellSlab(c, a)
  BY <1>7 DEF CellSlab, AdjacentOn
<1> QED
  BY <1>1, <1>3, <1>6, <1>8 DEF TMax

(* One axis is left first. *)
LEMMA Exits ==
  ASSUME OnRay, NEW c \in Int \X Int
  PROVE  \E a \in Axes : a \in ExitAxes(c)
<1>1. TMax(c, 1) \in Int /\ TMax(c, 2) \in Int
  BY CellSlabs DEF Axes
<1> QED
  BY <1>1 DEF ExitAxes, Axes

(***************************************************************************)
(* nextCell: where the ray leaves a cell within the volume, the adjacent   *)
(* cell begins, and it is more than a point.                               *)
(***************************************************************************)
LEMMA AdjacentContinues ==
  ASSUME OnRay, NEW c \in Int \X Int, NEW t \in Int,
         boundingBoxTRange.lo <= t, t < boundingBoxTRange.hi,
         \A a \in Axes : CellSlab(c, a).lo <= t /\ t <= CellSlab(c, a).hi,
         \E a \in Axes : CellSlab(c, a).hi = t
  PROVE  CellInterval(Adjacent(c)).lo = t /\ t < CellInterval(Adjacent(c)).hi
<1> DEFINE b == boundingBoxTRange
           n == Adjacent(c)
           m == CellInterval(n)
<1>1. b.lo \in Nat /\ b.hi \in Int /\ b.hi <= Inf /\ Inf \in Nat
  BY BoundsFacts
<1>2. ASSUME NEW a \in Axes
      PROVE  /\ t <= TMax(c, a) /\ TMax(c, a) \in Int
             /\ CellSlab(c, a).hi = t <=> TMax(c, a) = t
             /\ TMax(c, a) = t => ray.direction[a] # 0
             /\ CellSlab(c, a).hi \in Int /\ CellSlab(c, a).lo \in Int
  BY <1>1, CellSlabs
<1>3. \A a \in Axes : a \in ExitAxes(c) <=> TMax(c, a) = t
  BY <1>2 DEF ExitAxes
<1>4. ASSUME NEW a \in Axes
      PROVE  /\ CellSlab(n, a).lo \in Int /\ CellSlab(n, a).hi \in Int
             /\ CellSlab(n, a).lo <= t /\ t < CellSlab(n, a).hi
             /\ TMax(c, a) = t => CellSlab(n, a).lo = t
  <2>0. n \in Int \X Int
    BY CellSlabs
  <2>1. CellSlab(n, a).lo \in Int /\ CellSlab(n, a).hi \in Int
    BY <2>0, CellSlabs
  <2>2. CASE TMax(c, a) = t
    <3>1. /\ c[a] \in Int /\ ray.direction[a] # 0 /\ CellSlab(c, a).hi = t
          /\ CellSlab(n, a) =
               Slab(ray, a, (c[a] + CornerDelta(ray.direction[a])) * CELL_WIDTH,
                            (c[a] + CornerDelta(ray.direction[a]) + 1) * CELL_WIDTH)
      BY <1>2, <1>3, <2>2, CellSlabs
    <3>2. CellSlab(c, a) = Slab(ray, a, c[a] * CELL_WIDTH, (c[a] + 1) * CELL_WIDTH)
      BY DEF CellSlab
    <3>3. CellSlab(n, a).lo = CellSlab(c, a).hi /\ CellSlab(c, a).hi < CellSlab(n, a).hi
      <4> HIDE DEF n
      <4> QED
        BY <3>1, <3>2, NextSlab, ZenonT(30)
    <3> QED
      BY <1>2, <2>1, <3>1, <3>3
  <2>3. CASE TMax(c, a) # t
    <3>1. CellSlab(n, a) = CellSlab(c, a)
      BY <1>3, <2>3, CellSlabs
    <3> QED
      BY <1>2, <2>3, <3>1
  <2> QED
    BY <2>2, <2>3
<1>5. PICK e \in Axes : TMax(c, e) = t
  BY <1>2
<1>6. /\ m.lo \in Int /\ m.hi \in Int
      /\ \A a \in Axes : CellSlab(n, a).lo <= m.lo /\ m.hi <= CellSlab(n, a).hi
      /\ m.lo = b.lo \/ \E a \in Axes : m.lo = CellSlab(n, a).lo
      /\ m.hi = b.hi \/ \E a \in Axes : m.hi = CellSlab(n, a).hi
  <2>1. n \in Int \X Int
    BY <1>5, CellSlabs
  <2>2. n[1] \in Int /\ n[2] \in Int
    BY <2>1
  <2> HIDE DEF n
  <2> QED
    BY <2>2, CellIntervalFacts
<1> HIDE DEF n, m, b
<1>7. t <= m.lo
  BY <1>4, <1>5, <1>6
<1>8. m.lo <= t
  BY <1>4, <1>6 DEF b
<1>9. t < m.hi
  BY <1>4, <1>6 DEF b
<1> QED
  BY <1>6, <1>7, <1>8, <1>9 DEF m, n

(* Beyond the last cell there is none. *)
LEMMA AdjacentBeyond ==
  ASSUME OnRay, NEW c \in Int \X Int, ~IsEmpty(CellInterval(c)),
         CellInterval(c).hi = boundingBoxTRange.hi
  PROVE  IsEmpty(CellInterval(Adjacent(c)))
<1> DEFINE b == boundingBoxTRange
           n == Adjacent(c)
           m == CellInterval(c)
           k == CellInterval(n)
<1>1. b.lo \in Nat /\ b.hi \in Int /\ b.hi <= Inf /\ Inf \in Nat
  BY BoundsFacts
<1>2. PICK a \in Axes : a \in ExitAxes(c)
  BY Exits
<1>3. n \in Int \X Int
  BY <1>2, CellSlabs
<1>4. /\ CellSlab(n, a).lo <= k.lo /\ k.hi <= CellSlab(n, a).hi /\ k.hi <= b.hi
      /\ k.lo \in Int /\ k.hi \in Int
  <2>1. n[1] \in Int /\ n[2] \in Int
    BY <1>3
  <2> HIDE DEF n
  <2> QED
    BY <2>1, CellIntervalFacts
<1>5. /\ CellSlab(c, a).lo <= m.lo /\ m.hi <= CellSlab(c, a).hi
      /\ m.lo \in Int /\ m.hi \in Int /\ m.lo < m.hi
  <2>1. c[1] \in Int /\ c[2] \in Int
    OBVIOUS
  <2>2. /\ CellSlab(c, a).lo <= m.lo /\ m.hi <= CellSlab(c, a).hi
        /\ m.lo \in Int /\ m.hi \in Int
    BY <2>1, CellIntervalFacts
  <2> QED
    BY <2>2 DEF IsEmpty
<1>6. /\ CellSlab(n, a).lo \in Int /\ CellSlab(n, a).hi \in Int
      /\ CellSlab(c, a).lo \in Int /\ CellSlab(c, a).hi \in Int
  BY <1>3, CellSlabs
<1>7. CellSlab(n, a) = Slab(ray, a, (c[a] + CornerDelta(ray.direction[a])) * CELL_WIDTH,
                                    (c[a] + CornerDelta(ray.direction[a]) + 1) * CELL_WIDTH)
  BY <1>2, CellSlabs
<1>8. CASE ray.direction[a] # 0
  <2>1. c[a] \in Int
    BY CellSlabs
  <2>2. CellSlab(n, a).lo = CellSlab(c, a).hi
    BY <1>7, <1>8, <2>1, NextSlab, ZenonT(30) DEF CellSlab
  <2>3. b.hi <= CellSlab(n, a).lo
    BY <1>5, <2>2
  <2> HIDE DEF k, b
  <2> QED
    BY <1>1, <1>4, <1>6, <2>3 DEF IsEmpty, k
<1>9. CASE ray.direction[a] = 0
  <2>1. CellSlab(c, a).lo = -Inf /\ CellSlab(c, a).hi = Inf
    BY <1>1, <1>5, <1>9, CellSlabs
  <2> DEFINE p == c[a] * CELL_WIDTH
             q == (c[a] + 1) * CELL_WIDTH
             r == (c[a] + 1 + 1) * CELL_WIDTH
  <2>2. c[a] \in Int /\ p \in Int /\ q \in Int /\ r \in Int /\ c[a] + 1 \in Int
    <3>1. c[a] \in Int
      BY CellSlabs
    <3>2. c[a] + 1 \in Int
      BY <3>1
    <3>3. p \in Int /\ q \in Int
      BY <3>1, <3>2, CellPlanes
    <3>4. r \in Int
      <4>1. c[a] + 1 + 1 \in Int
        BY <3>1
      <4> QED
        BY <4>1, CellPlanes
    <3> QED
      BY <3>1, <3>2, <3>3, <3>4
  <2>3. CornerDelta(ray.direction[a]) = 1
    BY <1>9 DEF CornerDelta
  <2>4. CellSlab(n, a) = Slab(ray, a, q, r) /\ CellSlab(c, a) = Slab(ray, a, p, q)
    BY <1>7, <2>3 DEF CellSlab
  <2> HIDE DEF p, q, r
  <2>5. ray.origin[a] < q /\ ray.origin[a] \in Int
    BY <1>1, <1>9, <2>1, <2>2, <2>4, SlabFacts
  <2>6. CellSlab(n, a).lo = Inf /\ CellSlab(n, a).hi = -Inf
    BY <1>1, <1>9, <2>2, <2>4, <2>5, SlabFacts
  <2> HIDE DEF k, b
  <2> QED
    BY <1>1, <1>4, <2>6 DEF IsEmpty, k
<1> QED
  BY <1>8, <1>9 DEF k, n

(* A t at which the ray is between two planes is in their slab. *)
LEMMA SlabContains ==
  ASSUME OnRay, NEW a \in Axes, NEW lo \in Int, NEW hi \in Int, NEW t \in 0 .. Inf,
         lo <= PositionOn(a, t), PositionOn(a, t) < hi
  PROVE  Slab(ray, a, lo, hi).lo <= t /\ t <= Slab(ray, a, lo, hi).hi
<1> DEFINE s == Slab(ray, a, lo, hi)
           o == ray.origin[a]
<1>1. /\ s.lo \in Int /\ s.hi \in Int /\ Inf \in Nat /\ o \in Int
      /\ \/ ray.direction[a] = 1 /\ s.lo = lo - o /\ s.hi = hi - o
         \/ ray.direction[a] = -1 /\ s.lo = o - hi /\ s.hi = o - lo
         \/ ray.direction[a] = 0 /\ lo <= o /\ o < hi /\ s.lo = -Inf /\ s.hi = Inf
         \/ ray.direction[a] = 0 /\ ~(lo <= o /\ o < hi) /\ s.lo = Inf /\ s.hi = -Inf
  BY SlabFacts
<1> HIDE DEF s
<1>2. CASE ray.direction[a] = 1
  BY <1>1, <1>2 DEF PositionOn, s
<1>3. CASE ray.direction[a] = -1
  BY <1>1, <1>3 DEF PositionOn, s
<1>4. CASE ray.direction[a] = 0
  BY <1>1, <1>4 DEF PositionOn, s
<1> QED
  BY <1>1, <1>2, <1>3, <1>4

(***************************************************************************)
(* The march enters the volume where the ray does, in the first cell, or   *)
(* in the adjacent one if the ray has only a point of the first.           *)
(***************************************************************************)
LEMMA Enters ==
  ASSUME OnRay, ~IsEmpty(boundingBoxTRange), NEW c, NotBegun(c)
  PROVE  /\ NextCell(c) \in Grid
         /\ CellInterval(NextCell(c)).lo = boundingBoxTRange.lo
         /\ ~IsEmpty(CellInterval(NextCell(c)))
<1> DEFINE b == boundingBoxTRange
           f == FirstCell
           m == CellInterval(f)
           W == CELL_WIDTH
<1>1. b.lo \in Nat /\ b.hi \in Int /\ b.hi <= Inf /\ Inf \in Nat /\ b.lo < b.hi
  BY BoundsFacts DEF IsEmpty
<1>2. ASSUME NEW a \in Axes
      PROVE  /\ f[a] \in Int
             /\ f[a] * W \in Int /\ (f[a] + 1) * W \in Int
             /\ f[a] * W <= PositionOn(a, b.lo) /\ PositionOn(a, b.lo) < (f[a] + 1) * W
  <2> DEFINE x == PositionOn(a, b.lo)
  <2>1. x \in Int
    BY <1>1, BoundsFacts
  <2>2. f[a] = x \div W
    BY DEF FirstCell, Position, Axes
  <2>3. W \in Nat \ {0}
    BY GridAssumption
  <2> HIDE DEF f, x, W
  <2>4. f[a] \in Int /\ x % W \in 0 .. W - 1 /\ x = W * f[a] + (x % W)
    BY <2>1, <2>2, <2>3, Division
  <2>5. f[a] * W = W * f[a] /\ (f[a] + 1) * W = W * f[a] + W /\ W * f[a] \in Int
    BY <2>3, <2>4
  <2> QED
    BY <2>3, <2>4, <2>5 DEF x
<1>3. f \in Int \X Int
  <2>1. f = <<f[1], f[2]>>
    BY DEF FirstCell
  <2> HIDE DEF f
  <2> QED
    BY <1>2, <2>1 DEF Axes
<1>4. ASSUME NEW a \in Axes
      PROVE  /\ CellSlab(f, a).lo \in Int /\ CellSlab(f, a).hi \in Int
             /\ CellSlab(f, a).lo <= b.lo /\ b.lo <= CellSlab(f, a).hi
  <2>1. CellSlab(f, a).lo \in Int /\ CellSlab(f, a).hi \in Int
    BY <1>3, CellSlabs
  <2>2. CellSlab(f, a) = Slab(ray, a, f[a] * W, (f[a] + 1) * W)
    BY DEF CellSlab
  <2>3. b.lo \in 0 .. Inf
    BY <1>1
  <2> DEFINE p == f[a] * W
             q == (f[a] + 1) * W
  <2>4. p \in Int /\ q \in Int /\ p <= PositionOn(a, b.lo) /\ PositionOn(a, b.lo) < q
    BY <1>2
  <2>5. CellSlab(f, a) = Slab(ray, a, p, q)
    BY <2>2
  <2> HIDE DEF p, q, b, f
  <2> QED
    BY <2>1, <2>3, <2>4, <2>5, SlabContains
<1>5. /\ m.lo \in Int /\ m.hi \in Int /\ b.lo <= m.lo
      /\ m.lo = b.lo \/ \E a \in Axes : m.lo = CellSlab(f, a).lo
      /\ m.hi = b.hi \/ \E a \in Axes : m.hi = CellSlab(f, a).hi
  <2>1. f[1] \in Int /\ f[2] \in Int
    BY <1>3
  <2> HIDE DEF f
  <2> QED
    BY <2>1, CellIntervalFacts
<1>6. m.lo = b.lo /\ b.lo <= m.hi
  <2> HIDE DEF m, b, f
  <2> QED
    BY <1>1, <1>4, <1>5
<1>7. ASSUME IsEmpty(m)
      PROVE  /\ CellInterval(Adjacent(f)).lo = b.lo /\ b.lo < CellInterval(Adjacent(f)).hi
             /\ Adjacent(f) \in Int \X Int
  <2>1. m.hi = b.lo
    BY <1>5, <1>6, <1>7 DEF IsEmpty
  <2>2. \E a \in Axes : CellSlab(f, a).hi = b.lo
    BY <1>1, <1>5, <2>1
  <2>3. Adjacent(f) \in Int \X Int
    BY <1>3, CellSlabs DEF Axes
  <2>4. /\ b.lo \in Int /\ boundingBoxTRange.lo <= b.lo /\ b.lo < boundingBoxTRange.hi
        /\ \A a \in Axes : CellSlab(f, a).lo <= b.lo /\ b.lo <= CellSlab(f, a).hi
    BY <1>1, <1>4
  <2> HIDE DEF f
  <2> QED
    BY <1>3, <2>2, <2>3, <2>4, AdjacentContinues
<1>8. NextCell(c) = IF IsEmpty(m) THEN Adjacent(f) ELSE f
  BY DEF NextCell
<1>9. /\ NextCell(c) \in Int \X Int
      /\ CellInterval(NextCell(c)).lo = b.lo
      /\ ~IsEmpty(CellInterval(NextCell(c)))
  <2>1. CASE IsEmpty(m)
    <3>1. NextCell(c) = Adjacent(f)
      BY <1>8, <2>1
    <3> DEFINE k == CellInterval(NextCell(c))
    <3>2. NextCell(c) \in Int \X Int /\ k.lo = b.lo /\ b.lo < k.hi
      BY <1>7, <2>1, <3>1
    <3>3. k.hi \in Int
      <4>1. NextCell(c)[1] \in Int /\ NextCell(c)[2] \in Int
        BY <3>2
      <4> QED
        BY <4>1, CellIntervalFacts
    <3> HIDE DEF k, b
    <3>4. ~IsEmpty(k)
      BY <1>1, <3>2, <3>3 DEF IsEmpty
    <3> QED
      BY <3>2, <3>4 DEF k
  <2>2. CASE ~IsEmpty(m)
    BY <1>3, <1>6, <1>8, <2>2
  <2> QED
    BY <2>1, <2>2
<1>10. NextCell(c) \in Grid
  BY <1>9, InsideCell
<1> QED
  BY <1>9, <1>10

(***************************************************************************)
(* ... and moves on to where the current cell ends, until the ray leaves   *)
(* the volume.                                                             *)
(***************************************************************************)
LEMMA Advances ==
  ASSUME OnRay, NEW c \in Grid
  PROVE  /\ NextCell(c) \in (-1 .. CellsPerDimension(1)) \X (-1 .. CellsPerDimension(2))
         /\ ~IsEmpty(CellInterval(NextCell(c))) => NextCell(c) \in Grid
         /\ ~IsEmpty(CellInterval(c)) =>
               /\ CellInterval(c).hi = boundingBoxTRange.hi => IsEmpty(CellInterval(NextCell(c)))
               /\ CellInterval(c).hi # boundingBoxTRange.hi =>
                     /\ ~IsEmpty(CellInterval(NextCell(c)))
                     /\ CellInterval(NextCell(c)).lo = CellInterval(c).hi
<1>1. /\ c \in Int \X Int /\ c[1] \in 0 .. CellsPerDimension(1) - 1
      /\ c[2] \in 0 .. CellsPerDimension(2) - 1
      /\ CellsPerDimension(1) \in Nat /\ CellsPerDimension(2) \in Nat
  BY Dimensions DEF OnRay, Grid, Axes
<1>2. NextCell(c) = Adjacent(c)
  BY <1>1 DEF NextCell, NotBegun
<1>3. /\ AdjacentOn(c, 1) \in -1 .. CellsPerDimension(1)
      /\ AdjacentOn(c, 2) \in -1 .. CellsPerDimension(2)
  BY <1>1 DEF AdjacentOn, CornerDelta
<1>4. Adjacent(c) \in (-1 .. CellsPerDimension(1)) \X (-1 .. CellsPerDimension(2))
  BY <1>3 DEF Adjacent
<1>5. Adjacent(c) \in Int \X Int
  BY <1>1, CellSlabs DEF Axes
<1>6. ~IsEmpty(CellInterval(Adjacent(c))) => Adjacent(c) \in Grid
  BY <1>5, InsideCell
<1>7. ASSUME ~IsEmpty(CellInterval(c)), CellInterval(c).hi # boundingBoxTRange.hi
      PROVE  /\ ~IsEmpty(CellInterval(Adjacent(c)))
             /\ CellInterval(Adjacent(c)).lo = CellInterval(c).hi
  <2> DEFINE m == CellInterval(c)
             b == boundingBoxTRange
             k == CellInterval(Adjacent(c))
  <2>1. /\ m.lo \in Int /\ m.hi \in Int /\ b.lo <= m.lo /\ m.hi <= b.hi
        /\ \A a \in Axes : CellSlab(c, a).lo <= m.lo /\ m.hi <= CellSlab(c, a).hi
        /\ m.hi = b.hi \/ \E a \in Axes : m.hi = CellSlab(c, a).hi
    <3>1. c[1] \in Int /\ c[2] \in Int
      BY <1>1
    <3> QED
      BY <3>1, CellIntervalFacts
  <2>2. m.lo < m.hi /\ b.lo \in Int /\ b.hi \in Int
    BY <1>7, <2>1, BoundsFacts DEF IsEmpty
  <2>3. \A a \in Axes : CellSlab(c, a).lo \in Int /\ CellSlab(c, a).hi \in Int
    BY <1>1, CellSlabs
  <2>4. k.hi \in Int
    <3>1. Adjacent(c)[1] \in Int /\ Adjacent(c)[2] \in Int
      BY <1>5
    <3> QED
      BY <3>1, CellIntervalFacts
  <2> HIDE DEF m
  <2>5. /\ boundingBoxTRange.lo <= m.hi /\ m.hi < boundingBoxTRange.hi
        /\ \A a \in Axes : CellSlab(c, a).lo <= m.hi /\ m.hi <= CellSlab(c, a).hi
        /\ \E a \in Axes : CellSlab(c, a).hi = m.hi
    BY <1>7, <2>1, <2>2, <2>3 DEF m
  <2>6. k.lo = m.hi /\ m.hi < k.hi
    BY <1>1, <2>1, <2>5, AdjacentContinues
  <2> HIDE DEF k, b
  <2>7. ~IsEmpty(k)
    BY <2>1, <2>4, <2>6 DEF IsEmpty
  <2> QED
    BY <2>6, <2>7 DEF k, m
<1>8. ASSUME ~IsEmpty(CellInterval(c)), CellInterval(c).hi = boundingBoxTRange.hi
      PROVE  IsEmpty(CellInterval(Adjacent(c)))
  BY <1>1, <1>8, AdjacentBeyond
<1> QED
  BY <1>2, <1>4, <1>6, <1>7, <1>8

-----------------------------------------------------------------------------
(* The range of the cell covers the values that samples between t and t+1  *)
(* are interpolated from.                                                  *)
LEMMA CornersCovered ==
  ASSUME OnRay, NEW c \in Int \X Int, ~IsEmpty(CellInterval(c)),
         NEW t \in CellInterval(c).lo .. CellInterval(c).hi - 1
  PROVE  /\ Corners(t) \in SUBSET Int /\ IsFiniteSet(Corners(t))
         /\ \A v \in Corners(t) :
               /\ CellValueRange(c).lo \in Int /\ CellValueRange(c).hi \in Int
               /\ CellValueRange(c).lo <= v /\ v <= CellValueRange(c).hi
<1> DEFINE m == CellInterval(c)
           p(a) == PositionOn(a, t)
           q(a) == PositionOn(a, t + 1)
           at(x, y) == volume.voxel[<<x, y>>]
<1>1. m.lo \in Int /\ m.hi \in Int /\ t \in Int /\ t + 1 \in Int
      /\ m.lo <= t /\ t <= m.hi /\ m.lo <= t + 1 /\ t + 1 <= m.hi
  <2>1. c[1] \in Int /\ c[2] \in Int
    OBVIOUS
  <2>2. m.lo \in Int /\ m.hi \in Int
    BY <2>1, CellIntervalFacts
  <2> QED
    BY <2>2
<1>2. /\ c \in Grid
      /\ \A u \in {t, t + 1} : \A a \in Axes :
            /\ PositionOn(a, u) \in 0 .. volume.dims[a] - 1
            /\ c[a] * CELL_WIDTH <= PositionOn(a, u)
            /\ PositionOn(a, u) <= (c[a] + 1) * CELL_WIDTH
  BY <1>1, InsideCell
<1>3. /\ volume \in Volumes /\ volume.dims[1] \in Nat /\ volume.dims[2] \in Nat
      /\ volume.voxel \in [(0 .. volume.dims[1] - 1) \X (0 .. volume.dims[2] - 1) -> Int \cup {NaN}]
  BY Dimensions, GridAssumption DEF OnRay, Axes
<1>4. ASSUME NEW x \in {p(1), q(1)}, NEW y \in {p(2), q(2)}
      PROVE  /\ at(x, y) \in Int \cup {NaN}
             /\ at(x, y) # NaN =>
                   /\ CellValueRange(c).lo \in Int /\ CellValueRange(c).hi \in Int
                   /\ CellValueRange(c).lo <= at(x, y) /\ at(x, y) <= CellValueRange(c).hi
  <2>1. /\ x \in 0 .. volume.dims[1] - 1
        /\ c[1] * CELL_WIDTH <= x /\ x <= (c[1] + 1) * CELL_WIDTH
        /\ y \in 0 .. volume.dims[2] - 1
        /\ c[2] * CELL_WIDTH <= y /\ y <= (c[2] + 1) * CELL_WIDTH
    BY <1>2 DEF Axes
  <2>2. x \in Nat /\ x < volume.dims[1] /\ y \in Nat /\ y < volume.dims[2]
    BY <1>3, <2>1
  <2>3. at(x, y) \in Int \cup {NaN}
    BY <1>3, <2>1
  <2>4. at(x, y) # NaN =>
            /\ CellValueRange(c).lo \in Int /\ CellValueRange(c).hi \in Int
            /\ CellValueRange(c).lo <= at(x, y) /\ at(x, y) <= CellValueRange(c).hi
    BY <1>2, <1>3, <2>1, <2>2, CellRangeCovers
  <2> QED
    BY <2>3, <2>4
<1>5. Corners(t) = {at(x, y) : x \in {p(1), q(1)}, y \in {p(2), q(2)}} \ {NaN}
  BY DEF Corners, Position
<1>6. ASSUME NEW v \in Corners(t)
      PROVE  /\ v \in Int
             /\ CellValueRange(c).lo \in Int /\ CellValueRange(c).hi \in Int
             /\ CellValueRange(c).lo <= v /\ v <= CellValueRange(c).hi
  <2>1. PICK x \in {p(1), q(1)}, y \in {p(2), q(2)} : v = at(x, y) /\ at(x, y) # NaN
    BY <1>5
  <2> HIDE DEF p, q, at
  <2> QED
    BY <1>4, <2>1
<1>7. IsFiniteSet(Corners(t))
  <2> DEFINE A == {at(p(1), p(2))}
             B == {at(p(1), q(2))}
             C == {at(q(1), p(2))}
             D == {at(q(1), q(2))}
  <2>1. IsFiniteSet(A) /\ IsFiniteSet(B) /\ IsFiniteSet(C) /\ IsFiniteSet(D)
    BY FS_Singleton
  <2>2. Corners(t) \subseteq (A \cup B) \cup (C \cup D)
    <3> HIDE DEF p, q, at
    <3> QED
      BY <1>5
  <2> HIDE DEF A, B, C, D
  <2>3. IsFiniteSet(A \cup B) /\ IsFiniteSet(C \cup D)
    BY <2>1, FS_Union
  <2>4. IsFiniteSet((A \cup B) \cup (C \cup D))
    BY <2>3, FS_Union
  <2> QED
    BY <2>2, <2>4, FS_Subset
<1> QED
  BY <1>6, <1>7

(***************************************************************************)
(* A unit of the ray with values that the context asks for is in a cell    *)
(* with such a range: no cell that is skipped has one.                     *)
(***************************************************************************)
LEMMA WantedOverlaps ==
  ASSUME OnRay, NEW c \in Int \X Int, ~IsEmpty(CellInterval(c)),
         NEW t \in CellInterval(c).lo .. CellInterval(c).hi - 1, t \in RequiredUnits
  PROVE  ValueRangesOverlap(CellValueRange(c))
<1> DEFINE S == Corners(t)
           r == RangeOfValues(S)
           v == CellValueRange(c)
<1>1. S # {} /\ ValueRangesOverlap(r)
  BY DEF RequiredUnits
<1>2. /\ S \in SUBSET Int /\ IsFiniteSet(S)
      /\ \A x \in S : v.lo \in Int /\ v.hi \in Int /\ v.lo <= x /\ x <= v.hi
  BY CornersCovered
<1> HIDE DEF S, v
<1>3. r.lo \in S /\ r.hi \in S
  <2>1. NaN \notin Int
    BY GridAssumption
  <2>2. PICK x \in S : TRUE
    BY <1>1
  <2>3. S \in SUBSET (Int \cup {NaN}) /\ x \in S \ {NaN}
    BY <1>2, <2>1, <2>2
  <2> QED
    BY <1>2, <2>3, RangeCovers
<1> HIDE DEF r
<1>4. /\ r.lo \in Int /\ r.hi \in Int /\ v.lo \in Int /\ v.hi \in Int
      /\ v.lo <= r.lo /\ r.hi <= v.hi /\ v.lo # NaN
  BY <1>2, <1>3, GridAssumption
<1>5. CASE query = {}
  BY <1>5 DEF ValueRangesOverlap
<1>6. CASE query # {}
  <2>1. PICK s \in query : Meet(r, s)
    BY <1>1, <1>6 DEF ValueRangesOverlap
  <2>2. s.lo \in Int /\ s.hi \in Int
    BY DEF OnRay
  <2>3. Meet(v, s)
    BY <1>4, <2>1, <2>2 DEF Meet
  <2> QED
    BY <2>3 DEF ValueRangesOverlap, v
<1> QED
  BY <1>5, <1>6 DEF v

-----------------------------------------------------------------------------
(* What is computed from the volume and the ray does not change either. *)
LEMMA RayStays ==
  ASSUME UNCHANGED volume, UNCHANGED iterator
  PROVE  /\ RequiredUnits' = RequiredUnits /\ BoundsOf(ray)' = BoundsOf(ray)
         /\ \A c : CellInterval(c)' = CellInterval(c)
<1>1. \A t : Position(t)' = Position(t) /\ PositionOn(1, t)' = PositionOn(1, t)
                                        /\ PositionOn(2, t)' = PositionOn(2, t)
  BY DEF Position, PositionOn, iterator
<1>2. \A t : Corners(t)' = Corners(t)
  BY <1>1 DEF Corners
<1>3. \A r : ValueRangesOverlap(r)' = ValueRangesOverlap(r)
  BY DEF ValueRangesOverlap, iterator
<1>4. RequiredUnits' = RequiredUnits
  BY <1>2, <1>3 DEF RequiredUnits, iterator
<1>5. \A c, a : CellSlab(c, a)' = CellSlab(c, a)
  BY DEF CellSlab, iterator
<1>6. \A c : CellInterval(c)' = CellInterval(c)
  BY <1>5 DEF CellInterval, iterator
<1>7. BoundsOf(ray)' = BoundsOf(ray)
  BY DEF BoundsOf, iterator
<1> QED
  BY <1>4, <1>6, <1>7

Iterating == {"idle", "march", "search", "done"}

(***************************************************************************)
(* A step of the iterator leaves the accelerator and the iterator's ray    *)
(* alone; what is left to show is about the march.                         *)
(***************************************************************************)
LEMMA IteratorStep ==
  ASSUME IInv, UNCHANGED accelerator, UNCHANGED iterator,
         pc \in Iterating, pc' \in Iterating,
         currentCellIndex' \in (-1 .. CellsPerDimension(1)) \X (-1 .. CellsPerDimension(2)),
         currentCellTRange' \in [lo : 0 .. 2 * Inf, hi : -Inf .. Inf],
         activeCell' \in BOOLEAN,
         hits' \in Seq(Int), \A n \in 1 .. Len(hits') : hits'[n] \in 0 .. Inf,
         Marches', Searches'
  PROVE  IInv'
<1>1. /\ UNCHANGED volume /\ Inf \in Nat
      /\ CellsPerDimension(1) \in Nat /\ CellsPerDimension(2) \in Nat
  BY Dimensions, GridAssumption DEF accelerator, IInv, Positions, Axes
<1>2. Positions'
  <2>1. currentCellTRange' \in [lo : Int, hi : Int]
    BY <1>1
  <2> QED
    BY <1>1, <2>1, VolumeStays DEF IInv, Positions
<1>3. TypeOK'
  <2>1. /\ bricks' \subseteq 0 .. NumTasks' - 1
        /\ \A n \in DOMAIN cellValueRanges' : n \in 0 .. NumTasks' * BrickCellCount - 1
    BY <1>1, VolumeStays DEF IInv, TypeOK, accelerator
  <2>2. \A a \in Axes : currentCellIndex'[a] \in -1 .. CellsPerDimension(a)'
    <3>1. /\ currentCellIndex'[1] \in -1 .. CellsPerDimension(1)
          /\ currentCellIndex'[2] \in -1 .. CellsPerDimension(2)
      OBVIOUS
    <3> QED
      BY <1>1, <3>1, VolumeStays DEF Axes
  <2>3. currentCellTRange'.lo \in 0 .. 2 * Inf /\ currentCellTRange'.hi \in -Inf .. Inf
    OBVIOUS
  <2>4. wanted' \subseteq 0 .. Inf
    BY DEF IInv, TypeOK, iterator
  <2>5. pc' \in {"build", "built", "idle", "march", "search", "done"}
    BY DEF Iterating
  <2> QED
    BY <2>1, <2>2, <2>3, <2>4, <2>5 DEF TypeOK, BrickCellCount
<1>4. Encoded'
  <2>1. bricks = {}
    BY DEF IInv, Encoded, Iterating
  <2> QED
    BY <1>1, <2>1, VolumeStays DEF IInv, Encoded, accelerator, ReadRange
<1>5. Cast'
  BY <1>1, RayStays DEF IInv, Cast, Iterating, iterator
<1> QED
  BY <1>2, <1>3, <1>4, <1>5 DEF IInv

(* What is known of an iterator that is in use. *)
LEMMA InUse ==
  ASSUME IInv, pc \in Iterating
  PROVE  /\ OnRay /\ bricks = {} /\ Inf \in Nat
         /\ \A c \in Grid : ReadRange(c) = CellValueRange(c)
         /\ boundingBoxTRange.lo \in 0 .. Inf \/ IsEmpty(boundingBoxTRange)
         /\ boundingBoxTRange.hi <= Inf
         /\ currentCellIndex \in (-1 .. CellsPerDimension(1)) \X (-1 .. CellsPerDimension(2))
         /\ currentCellTRange \in [lo : 0 .. 2 * Inf, hi : -Inf .. Inf]
         /\ activeCell \in BOOLEAN
         /\ hits \in Seq(Int) /\ \A n \in 1 .. Len(hits) : hits[n] \in 0 .. Inf
<1>1. OnRay
  BY CastOnRay DEF IInv, Positions, Iterating
<1>2. bricks = {} /\ \A c \in Grid : ReadRange(c) = CellValueRange(c)
  BY DEF IInv, Encoded, Iterating
<1>3. currentCellTRange \in [lo : 0 .. 2 * Inf, hi : -Inf .. Inf]
  BY DEF IInv, Positions, TypeOK
<1>4. /\ Inf \in Nat /\ boundingBoxTRange.hi <= Inf
      /\ boundingBoxTRange.lo \in 0 .. Inf \/ IsEmpty(boundingBoxTRange)
  BY <1>1, BoundsFacts DEF IsEmpty
<1> QED
  BY <1>1, <1>2, <1>3, <1>4 DEF IInv, Positions, TypeOK

(* The t range of a cell. *)
LEMMA CellTRangeFacts ==
  ASSUME OnRay, NEW c \in Int \X Int
  PROVE  /\ CellTRange(c) \in [lo : 0 .. 2 * Inf, hi : -Inf .. Inf]
         /\ IsEmpty(CellTRange(c)) <=> IsEmpty(CellInterval(c))
         /\ ~IsEmpty(CellTRange(c)) => CellTRange(c) = CellInterval(c)
         /\ CellTRange(c).hi <= Inf
<1> DEFINE m == CellInterval(c)
           b == boundingBoxTRange
<1>1. b.lo \in Nat /\ b.hi \in Int /\ b.hi <= Inf /\ Inf \in Nat
  BY BoundsFacts
<1>2. m = [lo |-> m.lo, hi |-> m.hi] /\ m.lo \in Int /\ m.hi \in Int /\ b.lo <= m.lo /\ m.hi <= b.hi
  <2>1. c[1] \in Int /\ c[2] \in Int
    OBVIOUS
  <2> QED
    BY <2>1, CellIntervalFacts
<1>3. CellTRange(c) = IF IsEmpty(m) THEN Nothing ELSE m
  BY DEF CellTRange
<1> HIDE DEF m, b
<1>4. CASE IsEmpty(m)
  <2>1. CellTRange(c) = [lo |-> Inf, hi |-> -Inf]
    BY <1>3, <1>4 DEF Nothing
  <2> QED
    BY <1>1, <1>4, <2>1 DEF IsEmpty, m
<1>5. CASE ~IsEmpty(m)
  <2>1. CellTRange(c) = m
    BY <1>3, <1>5
  <2>2. m.lo \in 0 .. 2 * Inf /\ m.hi \in -Inf .. Inf
    BY <1>1, <1>2, <1>5 DEF IsEmpty
  <2>3. m \in [lo : 0 .. 2 * Inf, hi : -Inf .. Inf]
    BY <1>2, <2>2
  <2>4. m.hi <= Inf
    BY <1>1, <2>2
  <2> QED
    BY <1>5, <2>1, <2>3, <2>4 DEF m
<1> QED
  BY <1>4, <1>5

(* Where nextCell goes. *)
LEMMA Moves ==
  ASSUME IInv, pc \in Iterating, ~IsEmpty(boundingBoxTRange), MoveToNextCell,
         NotBegun(currentCellIndex) \/ currentCellIndex \in Grid
  PROVE  /\ currentCellIndex' \in (-1 .. CellsPerDimension(1)) \X (-1 .. CellsPerDimension(2))
         /\ currentCellTRange' \in [lo : 0 .. 2 * Inf, hi : -Inf .. Inf]
         /\ ~IsEmpty(currentCellTRange') =>
               /\ currentCellIndex' \in Grid
               /\ currentCellTRange' = CellInterval(currentCellIndex')
<1> DEFINE n == NextCell(currentCellIndex)
<1>1. currentCellIndex' = n /\ currentCellTRange' = CellTRange(n)
  BY DEF MoveToNextCell
<1>2. OnRay
  BY InUse
<1>3. CellsPerDimension(1) \in Nat /\ CellsPerDimension(2) \in Nat
  BY <1>2, Dimensions DEF OnRay, Axes
<1>4. /\ n \in (-1 .. CellsPerDimension(1)) \X (-1 .. CellsPerDimension(2))
      /\ ~IsEmpty(CellInterval(n)) => n \in Grid
  <2>1. CASE NotBegun(currentCellIndex)
    <3>1. n \in Grid
      BY <1>2, <2>1, Enters
    <3>2. Grid \subseteq (-1 .. CellsPerDimension(1)) \X (-1 .. CellsPerDimension(2))
      BY <1>3 DEF Grid
    <3> HIDE DEF n
    <3> QED
      BY <3>1, <3>2
  <2>2. CASE currentCellIndex \in Grid
    BY <1>2, <2>2, Advances
  <2> QED
    BY <2>1, <2>2
<1> HIDE DEF n
<1>5. n \in Int \X Int
  BY <1>3, <1>4
<1>6. /\ CellTRange(n) \in [lo : 0 .. 2 * Inf, hi : -Inf .. Inf]
      /\ IsEmpty(CellTRange(n)) <=> IsEmpty(CellInterval(n))
      /\ ~IsEmpty(CellTRange(n)) => CellTRange(n) = CellInterval(n)
  BY <1>2, <1>5, CellTRangeFacts
<1> QED
  BY <1>1, <1>4, <1>6

(***************************************************************************)
(* The march leaves nothing out: what lies between the last interval and   *)
(* the next cell, or the end of the ray, is not wanted.                    *)
(***************************************************************************)
LEMMA MarchContinues ==
  ASSUME IInv, NextIntervalCell
  PROVE  /\ OnRay /\ interval.hi \in Int /\ wanted = RequiredUnits /\ kind = "interval"
         /\ ~IsEmpty(boundingBoxTRange)
         /\ NotBegun(currentCellIndex) \/ currentCellIndex \in Grid
         /\ IF IsEmpty(currentCellTRange')
            THEN Unwanted(interval.hi, boundingBoxTRange.hi)
            ELSE /\ interval.hi <= currentCellTRange'.lo
                 /\ Unwanted(interval.hi, currentCellTRange'.lo)
<1> DEFINE c == currentCellIndex
           n == NextCell(c)
           b == boundingBoxTRange
           m == CellInterval(n)
<1>1. pc = "march" /\ currentCellIndex' = n /\ currentCellTRange' = CellTRange(n)
  BY DEF NextIntervalCell, MoveToNextCell
<1>2. /\ kind = "interval" /\ wanted = RequiredUnits /\ ~IsEmpty(b) /\ interval.hi \in Int
      /\ \/ NotBegun(c) /\ interval.hi = b.lo
         \/ /\ ~IsEmpty(currentCellTRange) /\ currentCellTRange = CellInterval(c)
            /\ interval.hi <= currentCellTRange.hi
            /\ Unwanted(interval.hi, currentCellTRange.hi)
  BY <1>1 DEF IInv, Searches, Marches
<1>3. OnRay /\ c \in (-1 .. CellsPerDimension(1)) \X (-1 .. CellsPerDimension(2))
  BY <1>1, InUse DEF Iterating
<1>4. b.lo \in Int
  BY <1>3, BoundsFacts
<1>5. CellsPerDimension(1) \in Nat /\ CellsPerDimension(2) \in Nat
  BY <1>3, Dimensions DEF OnRay, Axes
<1>6. c \in Int \X Int
  <2> HIDE DEF c
  <2> QED
    BY <1>3, <1>5
<1>7. NotBegun(c) \/ c \in Grid
  <2> HIDE DEF c
  <2> QED
    BY <1>2, <1>3, <1>6, InsideCell
<1>8. n \in Int \X Int
  <2>1. n \in (-1 .. CellsPerDimension(1)) \X (-1 .. CellsPerDimension(2))
    BY <1>1, <1>2, <1>7, Moves DEF Iterating, NextIntervalCell
  <2> HIDE DEF n
  <2> QED
    BY <1>5, <2>1
<1>9. /\ IsEmpty(currentCellTRange') <=> IsEmpty(m)
      /\ ~IsEmpty(m) => currentCellTRange' = m
  BY <1>1, <1>3, <1>8, CellTRangeFacts
<1>10. CASE NotBegun(c) /\ interval.hi = b.lo
  <2>1. m.lo = b.lo /\ ~IsEmpty(m)
    BY <1>2, <1>3, <1>10, Enters
  <2>2. currentCellTRange'.lo = interval.hi
    BY <1>9, <1>10, <2>1
  <2>3. interval.hi .. interval.hi - 1 = {}
    BY <1>2
  <2>4. Unwanted(interval.hi, interval.hi)
    BY <2>3 DEF Unwanted
  <2> QED
    BY <1>2, <1>3, <1>7, <1>9, <2>1, <2>2, <2>4
<1>11. CASE /\ ~IsEmpty(currentCellTRange) /\ currentCellTRange = CellInterval(c)
            /\ interval.hi <= currentCellTRange.hi
            /\ Unwanted(interval.hi, currentCellTRange.hi)
  <2>1. c \in Grid
    <3> HIDE DEF c
    <3> QED
      BY <1>3, <1>6, <1>11, InsideCell
  <2>2. /\ CellInterval(c).hi = b.hi => IsEmpty(m)
        /\ CellInterval(c).hi # b.hi => ~IsEmpty(m) /\ m.lo = CellInterval(c).hi
    BY <1>3, <1>11, <2>1, Advances
  <2> HIDE DEF m, n, c, b
  <2>3. CASE CellInterval(c).hi = b.hi
    BY <1>2, <1>3, <1>7, <1>9, <1>11, <2>2, <2>3 DEF c, b
  <2>4. CASE CellInterval(c).hi # b.hi
    <3>1. currentCellTRange'.lo = currentCellTRange.hi
      BY <1>9, <1>11, <2>2, <2>4
    <3> QED
      BY <1>2, <1>3, <1>7, <1>9, <1>11, <2>2, <2>4, <3>1 DEF c, b
  <2> QED
    BY <2>3, <2>4
<1> QED
  BY <1>2, <1>10, <1>11

LEMMA NextIntervalCellInvariant ==
  ASSUME IInv, NextIntervalCell
  PROVE  IInv'
<1> DEFINE c == currentCellIndex'
           r == currentCellTRange'
<1>1. /\ pc = "march" /\ UNCHANGED accelerator /\ UNCHANGED iterator
      /\ UNCHANGED <<activeCell, hits>> /\ MoveToNextCell
      /\ pc \in Iterating /\ pc' \in {"done", "march", "idle"}
  BY DEF NextIntervalCell, Iterating
<1>2. /\ OnRay /\ interval.hi \in Int /\ wanted = RequiredUnits /\ kind = "interval"
      /\ ~IsEmpty(boundingBoxTRange)
      /\ NotBegun(currentCellIndex) \/ currentCellIndex \in Grid
      /\ ~IsEmpty(r) => interval.hi <= r.lo /\ Unwanted(interval.hi, r.lo)
  BY MarchContinues
<1>3. /\ c \in (-1 .. CellsPerDimension(1)) \X (-1 .. CellsPerDimension(2))
      /\ r \in [lo : 0 .. 2 * Inf, hi : -Inf .. Inf]
      /\ ~IsEmpty(r) => c \in Grid /\ r = CellInterval(c)
  BY <1>1, <1>2, Moves
<1>4. /\ activeCell \in BOOLEAN /\ hits \in Seq(Int)
      /\ \A n \in 1 .. Len(hits) : hits[n] \in 0 .. Inf
      /\ Inf \in Nat
      /\ \A p \in Grid : ReadRange(p) = CellValueRange(p)
  BY <1>1, InUse
<1>5. Searches'
  <2>1. ~activeCell
    BY <1>1, <1>2 DEF IInv, Searches
  <2>2. pc' # "search" /\ kind' = "interval" /\ ~activeCell'
    BY <1>1, <1>2, <2>1 DEF iterator
  <2> QED
    BY <2>2 DEF Searches
<1>6. r.lo \in Int /\ r.hi \in Int
  BY <1>3, <1>4
<1>7. ASSUME ~IsEmpty(r), ~ValueRangesOverlap(ReadRange(c))
      PROVE  Unwanted(r.lo, r.hi)
  <2> SUFFICES ASSUME NEW t \in wanted, t \in r.lo .. r.hi - 1 PROVE FALSE
    BY DEF Unwanted
  <2>1. /\ c \in Grid /\ c \in Int \X Int /\ ~IsEmpty(CellInterval(c))
        /\ t \in CellInterval(c).lo .. CellInterval(c).hi - 1 /\ t \in RequiredUnits
    <3>1. c \in Int \X Int
      <4>1. CellsPerDimension(1) \in Nat /\ CellsPerDimension(2) \in Nat
        BY <1>2, Dimensions DEF OnRay, Axes
      <4> QED
        BY <1>3, <4>1
    <3> QED
      BY <1>2, <1>3, <1>7, <3>1
  <2> HIDE DEF c, r
  <2>2. ValueRangesOverlap(CellValueRange(c))
    BY <1>2, <2>1, WantedOverlaps
  <2> QED
    BY <1>4, <1>7, <2>1, <2>2
<1>8. r.lo < r.hi \/ IsEmpty(r)
  BY <1>6 DEF IsEmpty
<1>9. /\ wanted' = wanted /\ kind' = kind /\ boundingBoxTRange' = boundingBoxTRange
      /\ RequiredUnits' = RequiredUnits /\ \A p : CellInterval(p)' = CellInterval(p)
  BY <1>1, RayStays DEF iterator, accelerator
<1>10. CellInterval(currentCellIndex)' = CellInterval(c)
  BY <1>9
<1> HIDE DEF c, r
<1>11. Marches'
  <2>1. CASE pc' = "done"
    BY <2>1 DEF Marches
  <2>2. CASE ~IsEmpty(r) /\ ~ValueRangesOverlap(ReadRange(c)) /\ UNCHANGED <<pc, interval>>
    <3>1. Unwanted(interval.hi, r.hi)
      <4>1. \A t \in interval.hi .. r.hi - 1 :
               t \in interval.hi .. r.lo - 1 \/ t \in r.lo .. r.hi - 1
        BY <1>2, <1>6
      <4> QED
        BY <1>2, <1>7, <2>2, <4>1 DEF Unwanted
    <3>2. interval.hi <= r.hi
      BY <1>2, <1>6, <1>8, <2>2
    <3>3. pc' = "march" /\ interval' = interval
      BY <1>1, <2>2
    <3>4. Unwanted(interval.hi, currentCellTRange.hi)'
      BY <1>9, <3>1, <3>3 DEF Unwanted, r
    <3>5. /\ ~IsEmpty(currentCellTRange)'
          /\ (currentCellTRange = CellInterval(currentCellIndex))'
      BY <1>3, <1>10, <2>2 DEF r, c, IsEmpty
    <3>6. interval'.hi <= currentCellTRange'.hi /\ ~IsEmpty(boundingBoxTRange)'
          /\ wanted' = RequiredUnits' /\ interval'.hi \in Int
      BY <1>2, <1>9, <3>2, <3>3 DEF r, IsEmpty
    <3> QED
      BY <3>3, <3>4, <3>5, <3>6 DEF Marches
  <2>3. CASE ~IsEmpty(r) /\ pc' = "idle" /\ interval' = r
    <3>1. r.hi .. r.hi - 1 = {}
      BY <1>6
    <3>2. Unwanted(interval.hi, currentCellTRange.hi)'
      BY <2>3, <3>1 DEF Unwanted, r
    <3> QED
      BY <1>2, <1>3, <1>6, <1>9, <1>10, <2>3, <3>2 DEF Marches, r, IsEmpty
  <2> QED
    BY <2>1, <2>2, <2>3 DEF NextIntervalCell, c, r
<1> QED
  BY <1>1, <1>3, <1>4, <1>5, <1>11, IteratorStep DEF Iterating, c, r

LEMMA CallIterateIntervalInvariant ==
  ASSUME IInv, CallIterateInterval
  PROVE  IInv'
<1>1. /\ pc = "idle" /\ kind = "interval"
      /\ pc' = IF IsEmpty(boundingBoxTRange) THEN "done" ELSE "march"
      /\ UNCHANGED accelerator /\ UNCHANGED iterator
      /\ UNCHANGED <<currentCellIndex, currentCellTRange, activeCell, interval, hits>>
  BY DEF CallIterateInterval
<1>2. pc \in Iterating /\ pc' \in Iterating
  BY <1>1 DEF Iterating
<1>3. Searches'
  BY <1>1, VolumeStays DEF IInv, Searches, iterator, accelerator
<1>4. Marches'
  <2>1. /\ wanted' = wanted /\ kind' = kind /\ boundingBoxTRange' = boundingBoxTRange
        /\ RequiredUnits' = RequiredUnits /\ \A p : CellInterval(p)' = CellInterval(p)
    BY <1>1, RayStays DEF iterator, accelerator
  <2>2. CellInterval(currentCellIndex)' = CellInterval(currentCellIndex)
    BY <1>1, <2>1
  <2>3. Unwanted(interval.hi, currentCellTRange.hi)' <=> Unwanted(interval.hi, currentCellTRange.hi)
    BY <1>1, <2>1 DEF Unwanted
  <2> QED
    BY <1>1, <2>1, <2>2, <2>3 DEF IInv, Marches, IsEmpty, NotBegun
<1> QED
  BY <1>1, <1>2, <1>3, <1>4, InUse, IteratorStep

-----------------------------------------------------------------------------
LEMMA InitInvariant == Init => IInv
<1> SUFFICES ASSUME Init PROVE IInv
  OBVIOUS
<1>1. /\ volume \in Volumes /\ cellValueRanges = <<>> /\ bricks = 0 .. NumTasks - 1
      /\ kind = "none" /\ pc = "build" /\ currentCellIndex = <<-1, -1>>
      /\ currentCellTRange = Nothing /\ activeCell = FALSE
      /\ interval = Nothing /\ hits = <<>> /\ wanted = {}
  BY DEF Init
<1>2. /\ Inf \in Nat /\ CellsPerDimension(1) \in Nat /\ CellsPerDimension(2) \in Nat
  BY <1>1, Dimensions, GridAssumption DEF Axes
<1>3. currentCellIndex \in (-1 .. CellsPerDimension(1)) \X (-1 .. CellsPerDimension(2))
  BY <1>1, <1>2
<1>4. Positions
  BY <1>1, <1>2, <1>3 DEF Positions, Nothing
<1>5. TypeOK
  <2>1. \A a \in Axes : currentCellIndex[a] \in -1 .. CellsPerDimension(a)
    BY <1>1, <1>2 DEF Axes
  <2>2. currentCellTRange.lo \in 0 .. 2 * Inf /\ currentCellTRange.hi \in -Inf .. Inf
    BY <1>1, <1>2 DEF Nothing
  <2>3. \A n \in DOMAIN cellValueRanges : n \in 0 .. NumTasks * BrickCellCount - 1
    BY <1>1
  <2>4. \A n \in 1 .. Len(hits) : hits[n] \in 0 .. Inf
    BY <1>1
  <2> QED
    BY <1>1, <2>1, <2>2, <2>3, <2>4 DEF TypeOK
<1>6. Encoded
  BY <1>1, Addresses DEF Encoded
<1> QED
  BY <1>1, <1>4, <1>5, <1>6 DEF IInv, Cast, Marches, Searches

LEMMA EncodeBrickInvariant ==
  ASSUME IInv, NEW task \in bricks, EncodeBrick(task)
  PROVE  IInv'
<1>1. /\ pc = "build" /\ pc' \in {"build", "built"} /\ bricks' = bricks \ {task}
      /\ UNCHANGED volume /\ UNCHANGED iterator
      /\ UNCHANGED <<currentCellIndex, currentCellTRange, activeCell, interval, hits>>
  BY DEF EncodeBrick
<1>2. /\ Positions /\ TypeOK /\ Encoded /\ kind = "none" /\ interval = Nothing
      /\ ~activeCell /\ wanted = {}
  BY <1>1 DEF IInv, Cast
<1>3. /\ task \in 0 .. NumTasks - 1
      /\ \A n \in DOMAIN cellValueRanges : n \in 0 .. NumTasks * BrickCellCount - 1
  BY <1>2 DEF TypeOK
<1>4. /\ Encoded'
      /\ \A n \in DOMAIN cellValueRanges' : n \in 0 .. NumTasks * BrickCellCount - 1
  BY <1>2, <1>3, EncodeBrickEncodes
<1>5. /\ NumTasks' = NumTasks /\ \A a : CellsPerDimension(a)' = CellsPerDimension(a)
  BY <1>1, VolumeStays
<1>6. Positions'
  BY <1>1, <1>2, <1>5 DEF Positions
<1>7. TypeOK'
  <2>1. bricks' \subseteq 0 .. NumTasks' - 1
    BY <1>1, <1>2, <1>5 DEF TypeOK
  <2>2. \A n \in DOMAIN cellValueRanges' : n \in 0 .. NumTasks' * BrickCellCount - 1
    BY <1>4, <1>5
  <2>3. \A a \in Axes : currentCellIndex'[a] \in -1 .. CellsPerDimension(a)'
    BY <1>1, <1>2, <1>5 DEF TypeOK
  <2>4. /\ currentCellTRange'.lo \in 0 .. 2 * Inf /\ currentCellTRange'.hi \in -Inf .. Inf
        /\ activeCell' \in BOOLEAN /\ wanted' \subseteq 0 .. Inf
        /\ \A n \in 1 .. Len(hits') : hits'[n] \in 0 .. Inf
    BY <1>1, <1>2 DEF TypeOK, iterator
  <2> QED
    BY <1>1, <2>1, <2>2, <2>3, <2>4 DEF TypeOK, BrickCellCount
<1> QED
  BY <1>1, <1>2, <1>4, <1>6, <1>7 DEF IInv, Cast, Marches, Searches, iterator

(* The t range of a new iterator, with primes. *)
BoundsAreTimes ==
    /\ boundingBoxTRange.lo \in Nat /\ boundingBoxTRange.hi \in Int
    /\ boundingBoxTRange.hi <= Inf

LEMMA RayHasTimes == OnRay => BoundsAreTimes
  BY BoundsFacts DEF BoundsAreTimes

LEMMA NewRayHasTimes == OnRay' => BoundsAreTimes'
  BY RayHasTimes, PTL

LEMMA InitializeInvariant ==
  ASSUME IInv, Initialize
  PROVE  IInv'
<1>1. /\ pc = "built" /\ pc' = "idle" /\ UNCHANGED accelerator
      /\ currentCellIndex' = <<-1, -1>> /\ currentCellTRange' = Nothing
      /\ interval' = [lo |-> boundingBoxTRange'.lo, hi |-> boundingBoxTRange'.lo]
      /\ UNCHANGED <<activeCell, hits>>
  BY DEF Initialize
<1>2. PICK c \in Iterators[volume] :
          /\ ray' = c.ray /\ query' = c.query /\ kind' = c.kind
          /\ boundingBoxTRange' = BoundsOf(c.ray)
  BY DEF Initialize
<1>3. volume \in Volumes /\ volume' = volume /\ ~activeCell /\ bricks = {} /\ hits' = hits
      /\ Positions /\ TypeOK /\ Encoded
  BY <1>1 DEF IInv, Positions, Cast, Encoded, accelerator
<1>4. Cast'
  <2>1. BoundsOf(ray)' = BoundsOf(c.ray)
    BY <1>2, <1>3 DEF BoundsOf
  <2>2. \E e \in Iterators[volume'] : ray' = e.ray /\ query' = e.query /\ kind' = e.kind
    BY <1>2, <1>3
  <2>3. pc' \notin {"build", "built"}
    BY <1>1
  <2> QED
    BY <1>2, <2>1, <2>2, <2>3 DEF Cast
<1>5. OnRay'
  <2>1. /\ c.ray.origin \in [Axes -> Int] /\ c.ray.direction \in [Axes -> {-1, 0, 1}]
        /\ \E a \in Axes : c.ray.direction[a] # 0
        /\ c.ray.tRange.lo \in Nat /\ c.ray.tRange.hi \in 0 .. Inf
        /\ c.ray.epsilon \in 1 .. Inf
        /\ c.query \subseteq [lo : Int, hi : Int] /\ c.kind \in {"interval", "hit"}
    BY <1>3, GridAssumption
  <2>2. boundingBoxTRange' = BoundsOf(ray)'
    BY <1>1, <1>4 DEF Cast
  <2> QED
    BY <1>2, <1>3, <2>1, <2>2 DEF OnRay
<1>6. boundingBoxTRange'.lo \in Nat /\ boundingBoxTRange'.hi \in Int /\ boundingBoxTRange'.hi <= Inf
  BY <1>5, NewRayHasTimes DEF BoundsAreTimes
<1>7. wanted' \subseteq 0 .. Inf
  <2>1. wanted' = IF kind' = "interval" THEN RequiredUnits' ELSE SurfacesIn(boundingBoxTRange)'
    BY DEF Initialize
  <2>2. RequiredUnits' \subseteq boundingBoxTRange'.lo .. boundingBoxTRange'.hi - 1
    BY DEF RequiredUnits
  <2>3. SurfacesIn(boundingBoxTRange)' \subseteq boundingBoxTRange'.lo .. boundingBoxTRange'.hi
    BY DEF SurfacesIn
  <2>4. /\ boundingBoxTRange'.lo .. boundingBoxTRange'.hi - 1 \subseteq 0 .. Inf
        /\ boundingBoxTRange'.lo .. boundingBoxTRange'.hi \subseteq 0 .. Inf
    BY <1>6, GridAssumption
  <2> QED
    BY <2>1, <2>2, <2>3, <2>4
<1>8. /\ Inf \in Nat /\ CellsPerDimension(1) \in Nat /\ CellsPerDimension(2) \in Nat
  BY <1>3, Dimensions, GridAssumption DEF Axes
<1>9. Positions'
  <2>1. <<-1, -1>> \in (-1 .. CellsPerDimension(1)) \X (-1 .. CellsPerDimension(2))
    BY <1>8
  <2>2. Nothing \in [lo : Int, hi : Int]
    BY <1>8 DEF Nothing
  <2> QED
    BY <1>1, <1>3, <2>1, <2>2, VolumeStays DEF Positions
<1>10. TypeOK'
  <2>1. /\ bricks' \subseteq 0 .. NumTasks' - 1
        /\ \A n \in DOMAIN cellValueRanges' : n \in 0 .. NumTasks' * BrickCellCount - 1
    BY <1>1, <1>3, VolumeStays DEF TypeOK, accelerator
  <2>2. \A a \in Axes : currentCellIndex'[a] \in -1 .. CellsPerDimension(a)'
    BY <1>1, <1>3, <1>8, VolumeStays DEF Axes
  <2>3. currentCellTRange'.lo \in 0 .. 2 * Inf /\ currentCellTRange'.hi \in -Inf .. Inf
    BY <1>1, <1>8 DEF Nothing
  <2>4. activeCell' \in BOOLEAN /\ \A n \in 1 .. Len(hits') : hits'[n] \in 0 .. Inf
    BY <1>1, <1>3 DEF TypeOK
  <2> QED
    BY <1>1, <1>7, <2>1, <2>2, <2>3, <2>4 DEF TypeOK, BrickCellCount
<1>11. Encoded'
  BY <1>1, <1>3, VolumeStays DEF Encoded, accelerator, ReadRange
<1>12. Marches'
  <2>1. kind' = "interval" => wanted' = RequiredUnits'
    BY DEF Initialize
  <2>2. interval'.lo = boundingBoxTRange'.lo /\ interval'.hi = boundingBoxTRange'.lo
    BY <1>1
  <2>3. NotBegun(currentCellIndex)' /\ pc' # "march"
    BY <1>1 DEF NotBegun
  <2> QED
    BY <1>6, <2>1, <2>2, <2>3 DEF Marches
<1>13. Searches'
  BY <1>1, <1>3 DEF Searches
<1> QED
  BY <1>4, <1>9, <1>10, <1>11, <1>12, <1>13 DEF IInv

-----------------------------------------------------------------------------
(* The hit iterator: the next hit is in the t range of the cell. *)
LEMMA HitTime ==
  ASSUME IInv, pc \in Iterating, SurfacesHere # {}
  PROVE  /\ SmallestOf(SurfacesHere) \in SurfacesHere
         /\ SmallestOf(SurfacesHere) \in 0 .. Inf
         /\ SmallestOf(SurfacesHere) \in currentCellTRange.lo .. currentCellTRange.hi
<1> DEFINE S == SurfacesHere
<1>1. S \subseteq currentCellTRange.lo .. currentCellTRange.hi
  BY DEF SurfacesHere, SurfacesIn
<1>2. Inf \in Nat /\ currentCellTRange \in [lo : 0 .. 2 * Inf, hi : -Inf .. Inf]
  BY InUse
<1>3. currentCellTRange.lo .. currentCellTRange.hi \subseteq 0 .. Inf
  BY <1>2
<1> HIDE DEF S
<1>4. S \in SUBSET Nat
  BY <1>1, <1>3
<1>5. \E m \in S : \A x \in S : m <= x
  BY <1>4, LeastNat DEF S
<1>6. SmallestOf(S) \in S
  BY <1>5 DEF SmallestOf
<1> QED
  BY <1>1, <1>3, <1>6 DEF S

LEMMA CallIterateHitInvariant ==
  ASSUME IInv, CallIterateHit
  PROVE  IInv'
<1>1. /\ pc = "idle" /\ kind = "hit" /\ UNCHANGED accelerator /\ UNCHANGED iterator
      /\ UNCHANGED <<interval, hits>>
      /\ pc \in Iterating /\ pc' \in {"done", "search"} /\ pc' \in Iterating
      /\ pc' = "search" => ~IsEmpty(boundingBoxTRange)
  BY DEF CallIterateHit, Iterating
<1>2. /\ kind' = "hit" /\ boundingBoxTRange' = boundingBoxTRange /\ Grid' = Grid
  BY <1>1, VolumeStays DEF iterator, accelerator
<1>3. Marches'
  BY <1>2 DEF Marches
<1>4. /\ currentCellIndex' \in (-1 .. CellsPerDimension(1)) \X (-1 .. CellsPerDimension(2))
      /\ currentCellTRange' \in [lo : 0 .. 2 * Inf, hi : -Inf .. Inf]
      /\ activeCell' \in BOOLEAN
      /\ activeCell' => currentCellIndex' \in Grid
  <2>1. CASE UNCHANGED <<currentCellIndex, currentCellTRange, activeCell>>
    BY <1>1, <2>1, InUse DEF IInv, Searches
  <2>2. CASE /\ NotBegun(currentCellIndex) /\ ~IsEmpty(boundingBoxTRange)
             /\ MoveToNextCell /\ activeCell' = ~IsEmpty(currentCellTRange')
    BY <1>1, <2>2, Moves
  <2> QED
    BY <2>1, <2>2 DEF CallIterateHit
<1>5. Searches'
  BY <1>1, <1>2, <1>4 DEF Searches, IsEmpty
<1>6. /\ hits' \in Seq(Int) /\ \A n \in 1 .. Len(hits') : hits'[n] \in 0 .. Inf
  BY <1>1, InUse
<1> QED
  BY <1>1, <1>3, <1>4, <1>5, <1>6, IteratorStep

LEMMA FindHitInvariant ==
  ASSUME IInv, FindHit
  PROVE  IInv'
<1> DEFINE t == SmallestOf(SurfacesHere)
           n == NextCell(currentCellIndex)
<1>1. /\ pc = "search" /\ activeCell /\ SurfacesHere # {} /\ pc' = "idle"
      /\ UNCHANGED accelerator /\ UNCHANGED iterator /\ hits' = Append(hits, t)
      /\ pc \in Iterating /\ pc' \in Iterating
  BY DEF FindHit, Iterating
<1>2. /\ kind = "hit" /\ currentCellIndex \in Grid /\ kind' = "hit" /\ Grid' = Grid
  BY <1>1, VolumeStays DEF IInv, Searches, iterator, accelerator
<1>3. /\ OnRay /\ Inf \in Nat /\ hits \in Seq(Int)
      /\ \A i \in 1 .. Len(hits) : hits[i] \in 0 .. Inf
      /\ currentCellIndex \in (-1 .. CellsPerDimension(1)) \X (-1 .. CellsPerDimension(2))
      /\ currentCellTRange \in [lo : 0 .. 2 * Inf, hi : -Inf .. Inf]
  BY <1>1, InUse
<1>4. t \in 0 .. Inf
  BY <1>1, HitTime
<1> HIDE DEF t
<1>5. Offset(t) \in 0 .. 2 * Inf
  <2>1. ray.epsilon \in 1 .. Inf
    BY <1>3 DEF OnRay
  <2> QED
    BY <1>3, <1>4, <2>1 DEF Offset
<1>6. /\ hits' \in Seq(Int) /\ \A i \in 1 .. Len(hits') : hits'[i] \in 0 .. Inf
  BY <1>1, <1>3, <1>4
<1>7. Marches'
  BY <1>2 DEF Marches
<1>8. /\ currentCellIndex' \in (-1 .. CellsPerDimension(1)) \X (-1 .. CellsPerDimension(2))
      /\ currentCellTRange' \in [lo : 0 .. 2 * Inf, hi : -Inf .. Inf]
      /\ activeCell' \in BOOLEAN
      /\ activeCell' => currentCellIndex' \in Grid
  <2>1. CASE /\ currentCellTRange' = [currentCellTRange EXCEPT !.lo = Offset(t)]
             /\ UNCHANGED <<currentCellIndex, activeCell>>
    BY <1>1, <1>2, <1>3, <1>5, <2>1
  <2>2. CASE /\ currentCellIndex' = n
             /\ currentCellTRange' = [CellTRange(currentCellIndex') EXCEPT !.lo = Offset(t)]
             /\ activeCell' = ~IsEmpty(CellTRange(currentCellIndex'))
    <3>1. /\ n \in (-1 .. CellsPerDimension(1)) \X (-1 .. CellsPerDimension(2))
          /\ ~IsEmpty(CellInterval(n)) => n \in Grid
      BY <1>2, <1>3, Advances
    <3> HIDE DEF n
    <3>2. n \in Int \X Int
      <4>1. CellsPerDimension(1) \in Nat /\ CellsPerDimension(2) \in Nat
        BY <1>3, Dimensions DEF OnRay, Axes
      <4> QED
        BY <3>1, <4>1
    <3>3. /\ CellTRange(n) \in [lo : 0 .. 2 * Inf, hi : -Inf .. Inf]
          /\ IsEmpty(CellTRange(n)) <=> IsEmpty(CellInterval(n))
      BY <1>3, <3>2, CellTRangeFacts
    <3>4. activeCell' \in BOOLEAN /\ (activeCell' => n \in Grid)
      BY <2>2, <3>1, <3>3
    <3>5. currentCellTRange' \in [lo : 0 .. 2 * Inf, hi : -Inf .. Inf]
      BY <1>5, <2>2, <3>3
    <3> QED
      BY <2>2, <3>1, <3>4, <3>5
  <2> QED
    BY <2>1, <2>2 DEF FindHit, t
<1>9. Searches'
  BY <1>1, <1>2, <1>8 DEF Searches
<1> QED
  BY <1>1, <1>6, <1>7, <1>8, <1>9, IteratorStep

LEMMA NoHitInCellInvariant ==
  ASSUME IInv, NoHitInCell
  PROVE  IInv'
<1>1. /\ pc = "search" /\ activeCell /\ pc' = "search" /\ MoveToNextCell
      /\ activeCell' = ~IsEmpty(currentCellTRange')
      /\ UNCHANGED accelerator /\ UNCHANGED iterator /\ UNCHANGED <<interval, hits>>
      /\ pc \in Iterating /\ pc' \in Iterating
  BY DEF NoHitInCell, Iterating
<1>2. /\ kind = "hit" /\ currentCellIndex \in Grid /\ ~IsEmpty(boundingBoxTRange)
      /\ kind' = "hit" /\ Grid' = Grid /\ ~IsEmpty(boundingBoxTRange')
  BY <1>1, VolumeStays DEF IInv, Searches, iterator, accelerator
<1>3. /\ currentCellIndex' \in (-1 .. CellsPerDimension(1)) \X (-1 .. CellsPerDimension(2))
      /\ currentCellTRange' \in [lo : 0 .. 2 * Inf, hi : -Inf .. Inf]
      /\ activeCell' \in BOOLEAN
      /\ activeCell' => currentCellIndex' \in Grid
  BY <1>1, <1>2, Moves
<1>4. Marches' /\ Searches'
  BY <1>1, <1>2, <1>3 DEF Marches, Searches, IsEmpty
<1>5. /\ hits' \in Seq(Int) /\ \A n \in 1 .. Len(hits') : hits'[n] \in 0 .. Inf
  BY <1>1, InUse
<1> QED
  BY <1>1, <1>3, <1>4, <1>5, IteratorStep

LEMMA NoMoreHitsInvariant ==
  ASSUME IInv, NoMoreHits
  PROVE  IInv'
<1>1. /\ pc = "search" /\ pc' = "done" /\ UNCHANGED accelerator /\ UNCHANGED iterator
      /\ UNCHANGED <<currentCellIndex, currentCellTRange, activeCell, interval, hits>>
      /\ pc \in Iterating /\ pc' \in Iterating
  BY DEF NoMoreHits, Iterating
<1>2. Marches'
  BY <1>1 DEF Marches
<1>3. Searches'
  BY <1>1, VolumeStays DEF IInv, Searches, iterator, accelerator
<1> QED
  BY <1>1, <1>2, <1>3, InUse, IteratorStep

LEMMA Stutters ==
  ASSUME IInv, UNCHANGED vars
  PROVE  IInv'
<1>1. UNCHANGED accelerator /\ UNCHANGED iterator
      /\ UNCHANGED <<pc, currentCellIndex, currentCellTRange, activeCell, interval, hits>>
  BY DEF vars, accelerator, iterator
<1>2. UNCHANGED <<volume, cellValueRanges, bricks, kind, wanted, boundingBoxTRange, ray, query>>
  BY <1>1 DEF accelerator, iterator
<1>3. /\ RequiredUnits' = RequiredUnits /\ BoundsOf(ray)' = BoundsOf(ray)
      /\ \A c : CellInterval(c)' = CellInterval(c)
      /\ Grid' = Grid /\ NumTasks' = NumTasks
      /\ \A a : CellsPerDimension(a)' = CellsPerDimension(a)
      /\ \A c : /\ TaskOf(c)' = TaskOf(c) /\ CellIndex1D(c)' = CellIndex1D(c)
               /\ CellValueRange(c)' = CellValueRange(c)
  BY <1>1, <1>2, RayStays, VolumeStays
<1>4. Positions'
  BY <1>1, <1>2, <1>3 DEF IInv, Positions
<1>5. TypeOK'
  BY <1>1, <1>2, <1>3 DEF IInv, TypeOK, BrickCellCount
<1>6. Encoded'
  BY <1>1, <1>2, <1>3 DEF IInv, Encoded, ReadRange
<1>7. Cast'
  BY <1>1, <1>2, <1>3 DEF IInv, Cast
<1>8. Searches'
  BY <1>1, <1>2, <1>3 DEF IInv, Searches, IsEmpty
<1>9. Marches'
  <2>1. CellInterval(currentCellIndex)' = CellInterval(currentCellIndex)
    BY <1>1, <1>3
  <2>2. Unwanted(interval.hi, currentCellTRange.hi)' <=> Unwanted(interval.hi, currentCellTRange.hi)
    BY <1>1, <1>2 DEF Unwanted
  <2> QED
    BY <1>1, <1>2, <1>3, <2>1, <2>2 DEF IInv, Marches, IsEmpty, NotBegun
<1> QED
  BY <1>4, <1>5, <1>6, <1>7, <1>8, <1>9 DEF IInv

LEMMA NextInvariant == IInv /\ [Next]_vars => IInv'
<1> SUFFICES ASSUME IInv, [Next]_vars PROVE IInv'
  OBVIOUS
<1>1. CASE Build
  BY <1>1, EncodeBrickInvariant DEF Build
<1>2. CASE Initialize
  BY <1>2, InitializeInvariant
<1>3. CASE Iterate
  BY <1>3, CallIterateIntervalInvariant, NextIntervalCellInvariant, CallIterateHitInvariant,
     FindHitInvariant, NoHitInCellInvariant, NoMoreHitsInvariant DEF Iterate
<1>4. CASE Done \/ UNCHANGED vars
  BY <1>4, Stutters DEF Done
<1> QED
  BY <1>1, <1>2, <1>3, <1>4 DEF Next

(* The inductive invariant holds, for every volume, grid and ray. *)
THEOREM Invariance == Spec => []IInv
  BY InitInvariant, NextInvariant, PTL DEF Spec

(* Cell indices, addresses, t ranges and hits are in their bounds. *)
THEOREM TypeCorrect == Spec => []TypeOK
<1>1. IInv => TypeOK
  BY DEF IInv
<1> QED
  BY <1>1, Invariance, PTL

(***************************************************************************)
(* "the sampled value range should be completely within the returned       *)
(* interval value range": the range read for a returned interval covers    *)
(* all values interpolated in it, whatever the volume, its undefined       *)
(* voxels and the widths of cells and bricks.                              *)
(***************************************************************************)
THEOREM RangesCover == Spec => []ReportedRangeCoversInterval
<1>1. IInv => ReportedRangeCoversInterval
  <2> SUFFICES ASSUME IInv, pc = "idle", kind = "interval", ~NotBegun(currentCellIndex),
                      NEW t \in currentCellTRange.lo .. currentCellTRange.hi - 1,
                      NEW v \in Corners(t)
               PROVE  /\ ReadRange(currentCellIndex).lo <= v
                      /\ v <= ReadRange(currentCellIndex).hi
    BY DEF ReportedRangeCoversInterval
  <2> DEFINE c == currentCellIndex
  <2>1. /\ OnRay /\ c \in (-1 .. CellsPerDimension(1)) \X (-1 .. CellsPerDimension(2))
        /\ \A p \in Grid : ReadRange(p) = CellValueRange(p)
    BY InUse DEF Iterating
  <2>2. ~IsEmpty(currentCellTRange) /\ currentCellTRange = CellInterval(c)
    BY DEF IInv, Marches
  <2>3. c \in Int \X Int
    <3>1. CellsPerDimension(1) \in Nat /\ CellsPerDimension(2) \in Nat
      BY <2>1, Dimensions DEF OnRay, Axes
    <3> HIDE DEF c
    <3> QED
      BY <2>1, <3>1
  <2> HIDE DEF c
  <2>4. c \in Grid
    BY <2>1, <2>2, <2>3, InsideCell
  <2>5. CellValueRange(c).lo <= v /\ v <= CellValueRange(c).hi
    BY <2>1, <2>2, <2>3, CornersCovered
  <2> QED
    BY <2>1, <2>4, <2>5 DEF c
<1> QED
  BY <1>1, Invariance, PTL

-----------------------------------------------------------------------------
(***************************************************************************)
(* The grid's interval iterator implements IntervalIteration.  A hit       *)
(* iterator, and the building of the accelerator, are outside of its       *)
(* stage.                                                                  *)
(***************************************************************************)
LEMMA InitImplements == Init => IntervalPromise!Init
  BY DEF Init, IntervalPromise!Init, StageOf

LEMMA InitializeBegins ==
  ASSUME IInv, Initialize
  PROVE  IntervalPromise!Next
<1>1. /\ StageOf("interval") = "none"
      /\ StageOf("interval")' = IF kind' = "interval" THEN "iterating" ELSE "none"
      /\ interval'.lo = boundingBoxTRange'.lo /\ interval'.hi = boundingBoxTRange'.lo
      /\ kind' = "interval" => wanted' = RequiredUnits'
  BY DEF Initialize, StageOf
<1>2. RequiredUnits' \subseteq boundingBoxTRange'.lo .. boundingBoxTRange'.hi - 1
  BY DEF RequiredUnits
<1>3. CASE kind' = "interval"
  <2>1. IntervalPromise!Begin
    BY <1>1, <1>2, <1>3 DEF IntervalPromise!Begin
  <2> QED
    BY <2>1 DEF IntervalPromise!Next
<1>4. CASE kind' # "interval"
  BY <1>1, <1>4 DEF IntervalPromise!Next, IntervalPromise!Unused
<1> QED
  BY <1>3, <1>4

(* Without a call in progress, and for hits, nothing is promised. *)
LEMMA UnusedSteps ==
  ASSUME IInv, Build \/ CallIterateHit \/ FindHit \/ NoHitInCell \/ NoMoreHits
  PROVE  IntervalPromise!Next
<1>1. kind # "interval" /\ kind' = kind
  BY DEF Build, EncodeBrick, CallIterateHit, FindHit, NoHitInCell, NoMoreHits,
         IInv, Cast, Searches, iterator
<1> QED
  BY <1>1 DEF StageOf, IntervalPromise!Next, IntervalPromise!Unused

LEMMA CallImplements ==
  ASSUME IInv, CallIterateInterval
  PROVE  IntervalPromise!Next \/ UNCHANGED IntervalPromise!vars
<1>1. /\ pc = "idle" /\ kind = "interval"
      /\ pc' = IF IsEmpty(boundingBoxTRange) THEN "done" ELSE "march"
      /\ kind' = kind /\ wanted' = wanted /\ boundingBoxTRange' = boundingBoxTRange
      /\ interval' = interval
  BY DEF CallIterateInterval, iterator
<1>2. CASE IsEmpty(boundingBoxTRange)
  <2>1. wanted = RequiredUnits
    BY <1>1 DEF IInv, Marches
  <2>2. wanted = {}
    <3>1. OnRay
      BY <1>1, InUse DEF Iterating
    <3>2. boundingBoxTRange.lo \in Int /\ boundingBoxTRange.hi \in Int
      BY <3>1, BoundsFacts
    <3>3. boundingBoxTRange.lo .. boundingBoxTRange.hi - 1 = {}
      BY <1>2, <3>2 DEF IsEmpty
    <3> QED
      BY <2>1, <3>3 DEF RequiredUnits
  <2>3. StageOf("interval") = "iterating" /\ StageOf("interval")' = "done"
    BY <1>1, <1>2 DEF StageOf
  <2>4. IntervalPromise!End
    BY <1>1, <2>2, <2>3 DEF IntervalPromise!End, IntervalPromise!NothingRequired
  <2> QED
    BY <2>4 DEF IntervalPromise!Next
<1>3. CASE ~IsEmpty(boundingBoxTRange)
  <2>1. StageOf("interval") = "iterating" /\ StageOf("interval")' = "iterating"
    BY <1>1, <1>3 DEF StageOf
  <2> QED
    BY <1>1, <2>1 DEF IntervalPromise!vars
<1> QED
  BY <1>2, <1>3

LEMMA MarchImplements ==
  ASSUME IInv, NextIntervalCell
  PROVE  IntervalPromise!Next \/ UNCHANGED IntervalPromise!vars
<1> DEFINE r == currentCellTRange'
<1>1. /\ pc = "march" /\ kind = "interval" /\ kind' = kind /\ wanted' = wanted
      /\ boundingBoxTRange' = boundingBoxTRange /\ OnRay
      /\ interval.hi \in Int /\ ~IsEmpty(boundingBoxTRange)
      /\ NotBegun(currentCellIndex) \/ currentCellIndex \in Grid
      /\ IF IsEmpty(r)
         THEN Unwanted(interval.hi, boundingBoxTRange.hi)
         ELSE interval.hi <= r.lo /\ Unwanted(interval.hi, r.lo)
  BY MarchContinues DEF NextIntervalCell, iterator
<1>2. CASE IsEmpty(r) /\ pc' = "done" /\ UNCHANGED interval
  <2>1. StageOf("interval") = "iterating" /\ StageOf("interval")' = "done"
    BY <1>1, <1>2 DEF StageOf
  <2>2. IntervalPromise!End
    BY <1>1, <1>2, <2>1 DEF IntervalPromise!End, IntervalPromise!NothingRequired, Unwanted
  <2> QED
    BY <2>2 DEF IntervalPromise!Next
<1>3. CASE UNCHANGED <<pc, interval>>
  <2>1. StageOf("interval")' = StageOf("interval")
    BY <1>1, <1>3 DEF StageOf
  <2> QED
    BY <1>1, <1>3, <2>1 DEF IntervalPromise!vars
<1>4. CASE ~IsEmpty(r) /\ pc' = "idle" /\ interval' = r
  <2>1. StageOf("interval") = "iterating" /\ StageOf("interval")' = "iterating"
    BY <1>1, <1>4 DEF StageOf
  <2>2. r.lo <= r.hi /\ r.hi <= boundingBoxTRange.hi
    <3>1. /\ currentCellIndex' \in (-1 .. CellsPerDimension(1)) \X (-1 .. CellsPerDimension(2))
          /\ r \in [lo : 0 .. 2 * Inf, hi : -Inf .. Inf]
          /\ ~IsEmpty(r) => currentCellIndex' \in Grid /\ r = CellInterval(currentCellIndex')
      BY <1>1, Moves DEF NextIntervalCell, Iterating
    <3>2. currentCellIndex'[1] \in Int /\ currentCellIndex'[2] \in Int
      BY <1>4, <3>1 DEF Grid
    <3>3. r = CellInterval(currentCellIndex')
      BY <1>4, <3>1
    <3>4. r.lo \in Int /\ r.hi \in Int /\ r.hi <= boundingBoxTRange.hi
      BY <1>1, <3>2, <3>3, CellIntervalFacts
    <3> HIDE DEF r
    <3> QED
      BY <1>4, <3>4 DEF IsEmpty
  <2>3. IntervalPromise!Return
    BY <1>1, <1>4, <2>1, <2>2
       DEF IntervalPromise!Return, IntervalPromise!NothingRequired, Unwanted
  <2> QED
    BY <2>3 DEF IntervalPromise!Next
<1> QED
  BY <1>2, <1>3, <1>4 DEF NextIntervalCell

(* The intervals come in order, and what they leave out holds no value the *)
(* context asks for: no cell is skipped that has one, between cells        *)
(* nothing is, for every volume and every ray.                             *)
THEOREM Implements == Spec => ImplementsIteration
<1>1. IInv /\ [Next]_vars => [IntervalPromise!Next]_(IntervalPromise!vars)
  <2> SUFFICES ASSUME IInv, [Next]_vars
               PROVE  IntervalPromise!Next \/ UNCHANGED IntervalPromise!vars
    OBVIOUS
  <2>1. CASE UNCHANGED vars
    BY <2>1 DEF vars, IntervalPromise!vars, StageOf
  <2>2. CASE Next
    BY <2>1, <2>2, InitializeBegins, UnusedSteps, CallImplements, MarchImplements
       DEF Next, Iterate, Done
  <2> QED
    BY <2>1, <2>2
<1> QED
  BY <1>1, InitImplements, Invariance, PTL DEF Spec, ImplementsIteration, IntervalPromise!Spec
=============================================================================
