------------------------------ MODULE VdbTree ------------------------------
(***************************************************************************)
(* The tree of a VDB volume: VdbVolume::commit() builds it from a list of  *)
(* leaf nodes, samplers and iterators descend it, the InnerNode observer   *)
(* lists it.                                                               *)
(*                                                                         *)
(* The value of a voxel is known by its source, a cell of a dense leaf, a  *)
(* tile, or what lies outside of all leaves; a value range is the set of   *)
(* the sources it was extended with.                                       *)
(***************************************************************************)
EXTENDS VdbTopology, Sequences

CONSTANT
    Inputs         \* the inputs, each a sequence of leaves [level, origin, format]

ASSUME TreeAssumption ==
    /\ Inputs \subseteq Seq([level : 0 .. LeafLevel, origin : [Axes -> Int],
                            format : {"TILE", "DENSE_ZYX"}])
    /\ <<>> \notin Inputs

VARIABLES
    leaves,        \* the parameters node.level, node.origin, node.format
    packed,        \* TRUE: nodesPackedDense and nodesPackedTile, not node.data
    phase,         \* where commit() is
    level,         \* the level allocateInnerLevels is at
    todo,          \* the leaves still to insert
    cursor,        \* [level, node]: where the insertion of a leaf has come to
    rootOrigin, activeSize,
    oldInner,      \* origins of the inner nodes of the level below
    capacity,      \* inner nodes per level, as counted before the insertion
    origin,        \* per level, the origins of its inner nodes
    voxels,        \* <<level, node, voxel index>> :> child or leaf pointer
    leafRange,     \* per leaf, the value range of its neighbourhood
    range          \* per voxel, its value range

vars == <<leaves, packed, phase, level, todo, cursor, rootOrigin, activeSize,
          oldInner, capacity, origin, voxels, leafRange, range>>

input  == <<leaves, packed>>
extent == <<rootOrigin, activeSize>>
counts == <<level, oldInner, capacity>>
tree   == <<todo, cursor, origin, voxels>>
ranges == <<leafRange, range>>

Leaves == 1 .. Len(leaves)
Extent(i) == Res[leaves[i].level]
Offset(i) == Minus(leaves[i].origin, rootOrigin)
Zero == [a \in Axes |-> 0]
InnerLevels == 0 .. LeafLevel - 1

Root == [level |-> 0, node |-> 1]

Init ==
    /\ leaves \in Inputs /\ packed \in BOOLEAN
    /\ phase = "uncommitted" /\ level = LeafLevel /\ todo = {} /\ cursor = Root
    /\ rootOrigin = Zero /\ activeSize = Zero
    /\ oldInner = {} /\ capacity = [l \in InnerLevels |-> 0]
    /\ origin = [l \in InnerLevels |-> <<>>]
    /\ voxels = [v \in {} |-> {}]
    /\ leafRange = [i \in Leaves |-> {}]
    /\ range = [v \in {} |-> {}]

(* the catch block: cleanup() frees the grid, and the error is rethrown *)
Fail ==
    /\ phase' = "failed"
    /\ UNCHANGED <<input, extent, counts, tree, ranges>>

-----------------------------------------------------------------------------
(***************************************************************************)
(* computeBbox, computeRootOrigin: the root is quantised to the children   *)
(* of the root, and the bounding box must not be larger than a root node.  *)
(***************************************************************************)
SmallestOf(S) == CHOOSE n \in S : \A m \in S : n <= m
LargestOf(S)  == CHOOSE n \in S : \A m \in S : n >= m

Lower == [a \in Axes |-> SmallestOf({leaves[i].origin[a] : i \in Leaves})]
Upper == [a \in Axes |-> LargestOf({leaves[i].origin[a] + Extent(i) : i \in Leaves})]

TooLarge == \E a \in Axes : Upper[a] - Lower[a] > Res[0]

RootOrigin(c) == [a \in Axes |-> Res[1] * (c[a] \div Res[1])]

ComputeRoot ==
    /\ phase = "uncommitted"
    /\ IF TooLarge
       THEN Fail
       ELSE /\ phase' = "verify"
            /\ rootOrigin' = RootOrigin(Lower)
            /\ activeSize' = Minus(Upper, RootOrigin(Lower))
            /\ UNCHANGED <<input, counts, tree, ranges>>

(***************************************************************************)
(* verifyNodeDataFormat for each leaf, and binLeavesPerLevel: dense leaves *)
(* are on the lowest level only, and no leaf is on level 0.                *)
(***************************************************************************)
Invalid(i) ==
    \/ leaves[i].level = 0
    \/ leaves[i].format = "DENSE_ZYX" /\ leaves[i].level # LeafLevel

VerifyLeaves ==
    /\ phase = "verify"
    /\ IF \E i \in Leaves : Invalid(i)
       THEN Fail
       ELSE /\ phase' = "allocate"
            /\ todo' = Leaves
            /\ UNCHANGED <<input, extent, counts, cursor, origin, voxels, ranges>>

(***************************************************************************)
(* allocateInnerLevels, from the leaves up: the inner nodes of level l - 1 *)
(* are the parents of the leaves and of the inner nodes of level l, without *)
(* duplicates.  A node's origin is filled in when a leaf is inserted.      *)
(***************************************************************************)
LeavesOn(l) == {i \in Leaves : leaves[i].level = l}

InnerOrigins_LeavesOnly(l) == {NodeOrigin(Offset(i), l - 1) : i \in LeavesOn(l)}

InnerOrigins(l) ==
    {NodeOrigin(Offset(i), l - 1) : i \in LeavesOn(l)}
      \cup {NodeOrigin(o, l - 1) : o \in oldInner}

AllocateInnerLevel ==
    /\ phase = "allocate"
    /\ oldInner' = InnerOrigins(level)
    /\ capacity' = [capacity EXCEPT ![level - 1] = Cardinality(InnerOrigins(level))]
    /\ level' = level - 1
    /\ IF level = 1 THEN phase' = "insert" /\ origin' = [origin EXCEPT ![0] = <<Zero>>]
                    ELSE UNCHANGED <<phase, origin>>
    /\ UNCHANGED <<input, extent, todo, cursor, voxels, ranges>>

-----------------------------------------------------------------------------
(***************************************************************************)
(* insertLeaves, level by level and in the order of the input: descend     *)
(* from the root, creating inner nodes as needed.  A leaf pointer holds    *)
(* the index of the leaf or, for packed data, its index among the leaves   *)
(* of its format.                                                          *)
(***************************************************************************)
Child(n) == [type |-> "child", index |-> n]

PackedIndex(i) ==
    Cardinality({j \in 1 .. i : leaves[j].format = leaves[i].format})

LeafPtr(i) ==
    [type |-> "leaf", format |-> leaves[i].format,
     index |-> IF packed THEN PackedIndex(i) ELSE i]

Precedes_ByIndex(i, j) == i <= j

Precedes(i, j) ==
    \/ leaves[i].level < leaves[j].level
    \/ leaves[i].level = leaves[j].level /\ i <= j

Current(i) == i \in todo /\ \A j \in todo : Precedes(i, j)

Here(i) == <<cursor.level, cursor.node, VoxelIndex(Offset(i), cursor.level)>>

IsLast(i) == cursor.level + 1 = leaves[i].level

With(f, k, v) == [x \in DOMAIN f \cup {k} |-> IF x = k THEN v ELSE f[x]]

(* on to the node below, or to the next leaf *)
Advance(i, node) ==
    IF IsLast(i) THEN todo' = todo \ {i} /\ cursor' = Root
                 ELSE cursor' = [level |-> cursor.level + 1, node |-> node] /\ UNCHANGED todo

InsertIntoLeaf(i) ==
    /\ Here(i) \in DOMAIN voxels /\ voxels[Here(i)].type = "leaf"
    /\ Fail

InsertIntoChild(i) ==
    /\ Here(i) \in DOMAIN voxels /\ voxels[Here(i)].type = "child"
    /\ Advance(i, voxels[Here(i)].index)
    /\ UNCHANGED <<input, phase, extent, counts, origin, voxels, ranges>>

InsertChild(i) ==
    LET next == cursor.level + 1
        new  == Len(origin[next]) + 1
    IN  /\ Here(i) \notin DOMAIN voxels /\ ~IsLast(i)
        /\ voxels' = With(voxels, Here(i), Child(new))
        /\ origin' = [origin EXCEPT ![next] = Append(@, NodeOrigin(Offset(i), next))]
        /\ Advance(i, new)
        /\ UNCHANGED <<input, phase, extent, counts, ranges>>

InsertLeaf(i) ==
    /\ Here(i) \notin DOMAIN voxels /\ IsLast(i)
    /\ voxels' = With(voxels, Here(i), LeafPtr(i))
    /\ Advance(i, cursor.node)
    /\ UNCHANGED <<input, phase, extent, counts, origin, ranges>>

Insert(i) ==
    /\ phase = "insert" /\ Current(i)
    /\ InsertIntoLeaf(i) \/ InsertIntoChild(i) \/ InsertChild(i) \/ InsertLeaf(i)

StartRanges ==
    /\ phase = "insert" /\ todo = {}
    /\ phase' = "computeRanges"
    /\ range' = [v \in DOMAIN voxels |-> {}]
    /\ UNCHANGED <<input, extent, counts, tree, leafRange>>

-----------------------------------------------------------------------------
(***************************************************************************)
(* The descent of samplers, iterators and computeValueRanges, down to at   *)
(* most maxDepth: the voxel it ends at and those it visited.               *)
(***************************************************************************)
Empty == [type |-> "empty"]

DescendOnLevel(grid, d, l, offset, maxDepth) ==
    LET v == <<l, d.node, VoxelIndex(offset, l)>>
    IN  IF d.done THEN d
        ELSE IF v \notin DOMAIN grid THEN [d EXCEPT !.done = TRUE]
        ELSE [visited |-> Append(d.visited, v),
              voxel   |-> grid[v],
              done    |-> grid[v].type = "leaf" \/ l + 1 > maxDepth,
              node    |-> grid[v].index]

DescendIn(grid, offset, maxDepth) ==
    LET Down[l \in 0 .. LeafLevel] ==
            IF l = 0 THEN [visited |-> <<>>, voxel |-> Empty, done |-> FALSE, node |-> 1]
            ELSE DescendOnLevel(grid, Down[l - 1], l - 1, offset, maxDepth)
    IN  Down[LeafLevel]

Descend(offset, maxDepth) == DescendIn(voxels, offset, maxDepth)

(***************************************************************************)
(* VdbSampler_traverse: the leaf that contains a coordinate.  Coordinates  *)
(* outside the active region are empty; a negative offset becomes a very   *)
(* large one, and is outside as well.                                      *)
(***************************************************************************)
InDomain(c) ==
    \A a \in Axes : c[a] >= rootOrigin[a] /\ c[a] - rootOrigin[a] < activeSize[a]

Traverse(c) ==
    LET d == Descend(NodeOrigin(Minus(c, rootOrigin), LeafLevel), LeafLevel)
    IN  IF InDomain(c) /\ d.voxel.type = "leaf" THEN d.voxel ELSE Empty

(* the input leaf whose data a leaf pointer leads to *)
DataOf(voxel) ==
    IF packed
    THEN CHOOSE i \in Leaves : /\ leaves[i].format = voxel.format
                               /\ PackedIndex(i) = voxel.index
    ELSE voxel.index

Outside(c) == IF InDomain(c) THEN <<"zero">> ELSE <<"background">>

(* VdbSampler_sample_inner: what a sampler reads for one cell *)
Sample(c) ==
    LET voxel == Traverse(c)
    IN  IF voxel = Empty THEN Outside(c)
        ELSE IF voxel.format = "TILE" THEN <<"tile", DataOf(voxel)>>
        ELSE <<"cell", DataOf(voxel), [a \in Axes |-> (c[a] - rootOrigin[a]) % Res[LeafLevel]]>>

-----------------------------------------------------------------------------
(***************************************************************************)
(* VdbSampler_computeValueRange: the 3 x 3 x 3 leaf-sized nodes around the *)
(* origin of leaf i, of each the cells a filter can reach: the last one of *)
(* the previous node, the first two of the next.                           *)
(***************************************************************************)
Reach_Linear(d) ==
    CASE d = -1 -> {Res[LeafLevel] - 1}
      [] d = 0  -> 0 .. Res[LeafLevel] - 1
      [] d = 1  -> {0}

Reach(d) ==
    CASE d = -1 -> {Res[LeafLevel] - 1}
      [] d = 0  -> 0 .. Res[LeafLevel] - 1
      [] d = 1  -> {0, 1}

NodeSamples(i, d) ==
    LET node  == [a \in Axes |-> leaves[i].origin[a] + d[a] * Res[LeafLevel]]
        voxel == Traverse(node)
    IN  IF voxel = Empty THEN {Outside(node)}
        ELSE IF voxel.format = "TILE" THEN {<<"tile", DataOf(voxel)>>}
        ELSE {<<"cell", DataOf(voxel), x>> :
                x \in {y \in [Axes -> 0 .. Res[LeafLevel] - 1] :
                          \A a \in Axes : y[a] \in Reach(d[a])}}

NeighbourhoodSamples(i) == UNION {NodeSamples(i, d) : d \in [Axes -> {-1, 0, 1}]}

(* computeValueRanges: first, in parallel, the range of each leaf ... *)
ComputeRange(i) ==
    /\ phase = "computeRanges"
    /\ leafRange[i] = {}
    /\ leafRange' = [leafRange EXCEPT ![i] = NeighbourhoodSamples(i)]
    /\ UNCHANGED <<input, phase, extent, counts, tree, range>>

(* ... then the ranges of the voxels on the way to it *)
Visited(i) ==
    LET path == Descend(Offset(i), leaves[i].level - 1).visited
    IN  {path[k] : k \in 1 .. Len(path)}

ExtendRanges ==
    /\ phase = "computeRanges"
    /\ \A i \in Leaves : leafRange[i] # {}
    /\ range' = [v \in DOMAIN range |->
                    UNION {leafRange[i] : i \in {j \in Leaves : v \in Visited(j)}}]
    /\ phase' = "committed"
    /\ UNCHANGED <<input, extent, counts, tree, leafRange>>

Commit ==
    \/ ComputeRoot \/ VerifyLeaves \/ AllocateInnerLevel
    \/ StartRanges \/ ExtendRanges
    \/ \E i \in Leaves : Insert(i) \/ ComputeRange(i)

Done == phase \in {"committed", "failed"} /\ UNCHANGED vars

Next == Commit \/ Done

Spec == Init /\ [][Next]_vars

-----------------------------------------------------------------------------
(* VdbIterator_queryVoxel: the value range an iterator at a depth tests at c *)
Last(s) == s[Len(s)]

QueriedRange(c, depth) ==
    range[Last(Descend(Minus(c, rootOrigin), depth).visited)]

(***************************************************************************)
(* VdbInnerNodeObserver::commit: the voxels at maxDepth, and the leaves    *)
(* above it.  visitVoxels goes through the levels up to maxDepth, which it *)
(* limits to the last level.                                               *)
(***************************************************************************)
VisitedLevels(maxDepth) ==
    0 .. IF maxDepth < LeafLevel THEN maxDepth ELSE LeafLevel

Box(v) ==
    [origin |-> [a \in Axes |-> rootOrigin[a] + origin[v[1]][v[2]][a] + Res[v[1] + 1] * v[3][a]],
     res    |-> Res[v[1] + 1],
     range  |-> range[v]]

InnerNodes_NoLeaves(maxDepth) == {Box(v) : v \in {w \in DOMAIN voxels : w[1] = maxDepth}}

InnerNodes(maxDepth) ==
    {Box(v) : v \in {w \in DOMAIN voxels :
                        /\ w[1] \in VisitedLevels(maxDepth)
                        /\ w[1] = maxDepth \/ voxels[w].type = "leaf"}}

-----------------------------------------------------------------------------
TypeOK ==
    /\ phase \in {"uncommitted", "verify", "allocate", "insert",
                  "computeRanges", "committed", "failed"}
    /\ level \in 0 .. LeafLevel
    /\ todo \subseteq Leaves
    /\ cursor \in [level : InnerLevels, node : Nat]
    /\ phase = "insert" => cursor.node \in DOMAIN origin[cursor.level]
    /\ rootOrigin \in [Axes -> Int] /\ activeSize \in [Axes -> Nat]
    /\ capacity \in [InnerLevels -> Nat]
    /\ origin \in [InnerLevels -> Seq([Axes -> Nat])]
    /\ \A v \in DOMAIN voxels :
          /\ v[1] \in InnerLevels /\ v[2] \in DOMAIN origin[v[1]]
          /\ v[3] \in VoxelIndices(v[1])
          /\ \/ voxels[v].type = "leaf" /\ voxels[v] \in {LeafPtr(i) : i \in Leaves}
             \/ voxels[v].type = "child" /\ v[1] + 1 \in InnerLevels
                  /\ voxels[v].index \in DOMAIN origin[v[1] + 1]

(***************************************************************************)
(* All leaves lie in one root node.  The code asserts it ("This should be  *)
(* true at this point, but make sure..." in allocateInnerLevels), but only *)
(* checks the extent, not where the rounded origin puts the leaves: what   *)
(* follows is promised of the trees that fit.                              *)
(***************************************************************************)
FitsRoot == capacity[0] = 1

Cells(i) == Cube(leaves[i].origin, Extent(i))

InLeaf(c, i) ==
    \A a \in Axes : /\ leaves[i].origin[a] <= c[a]
                    /\ c[a] < leaves[i].origin[a] + Extent(i)

Overlap(i, j) == Cells(i) \cap Cells(j) # {}

(* coordinates in the bounding box of the leaves, and some around it *)
Around ==
    LET lo == SmallestOf({Lower[a] : a \in Axes}) - 2
        hi == LargestOf({Upper[a] : a \in Axes}) + 1
    IN  {c \in [Axes -> lo .. hi] : \A a \in Axes : c[a] \in Lower[a] - 2 .. Upper[a] + 1}

(***************************************************************************)
(* Insertion never needs a node that allocateInnerLevels did not count,    *)
(* and a finished tree has all of those it counted.                        *)
(***************************************************************************)
NodesFitTheCapacity ==
    phase \in {"insert", "computeRanges", "committed"} /\ FitsRoot =>
        \A l \in InnerLevels :
            /\ Len(origin[l]) <= capacity[l]
            /\ phase = "committed" => Len(origin[l]) = capacity[l]

(***************************************************************************)
(* The commit accepts exactly the inputs without overlapping leaves: one   *)
(* leaf in, under or over another one is found whatever their order.       *)
(***************************************************************************)
AcceptsExactlyDisjointLeaves ==
    /\ phase \in {"computeRanges", "committed"} /\ FitsRoot =>
          \A i, j \in Leaves : i # j => ~Overlap(i, j)
    /\ phase = "failed" =>
          \/ \E i, j \in Leaves : i # j /\ Overlap(i, j)
          \/ \E i \in Leaves : Invalid(i)
          \/ TooLarge
          \/ ~FitsRoot

(***************************************************************************)
(* A sampler finds, for every coordinate, the leaf that contains it, and   *)
(* reads that leaf's data, packed or not; it finds nothing where there is  *)
(* no leaf.                                                                *)
(***************************************************************************)
TraversalFindsTheLeaf ==
    phase = "committed" /\ FitsRoot =>
        \A c \in Around :
            LET voxel == Traverse(c)
            IN  IF \E i \in Leaves : InLeaf(c, i)
                THEN voxel # Empty /\ InLeaf(c, DataOf(voxel))
                ELSE voxel = Empty

(***************************************************************************)
(* "We need to consider voxels outside this node in the value range because *)
(* of reconstruction filter support": at every depth the value range an    *)
(* iterator tests for a point in leaf i covers the samples any filter      *)
(* combines there, so that no interval with a wanted value is skipped.     *)
(* Tiles of the levels above are left out: only the neighbours of their    *)
(* first leaf-sized block are read.                                        *)
(***************************************************************************)
LeafRangesCoverFilter ==
    phase = "committed" /\ FitsRoot =>
        \A i \in {j \in Leaves : leaves[j].level = LeafLevel} :
            \A c \in Cells(i) :
                LET samples == {Sample(Plus(c, d)) : d \in [Axes -> -1 .. 2]}
                IN  \A maxDepth \in InnerLevels : samples \subseteq QueriedRange(c, maxDepth)

(***************************************************************************)
(* The boxes the InnerNode observer reports at a depth are disjoint, each  *)
(* leaf is inside one of them, and that one's value range covers the leaf. *)
(***************************************************************************)
InnerNodesCoverLeaves ==
    phase = "committed" /\ FitsRoot =>
        \A depth \in InnerLevels :
            LET boxes == InnerNodes(depth)
            IN  /\ \A b1, b2 \in boxes :
                      b1 # b2 => Cube(b1.origin, b1.res) \cap Cube(b2.origin, b2.res) = {}
                /\ \A i \in Leaves : \E b \in boxes :
                      /\ Cells(i) \subseteq Cube(b.origin, b.res)
                      /\ {Sample(c) : c \in Cells(i)} \subseteq b.range
=============================================================================
