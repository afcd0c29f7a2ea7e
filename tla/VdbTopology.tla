---------------------------- MODULE VdbTopology ----------------------------
(***************************************************************************)
(* The fixed shape of the trees of VDB volumes: the resolution of nodes on *)
(* each level, and the map from coordinates to nodes and voxels.  A        *)
(* coordinate is a function of the axes, so that one, two or three of them *)
(* can be checked.  Resolutions are powers of two in the code, where masks *)
(* and shifts divide by them.                                              *)
(***************************************************************************)
EXTENDS Integers, FiniteSets

CONSTANTS
    Axes,          \* {"x", "y", "z"} in the code
    NumLevels,     \* VKL_VDB_NUM_LEVELS
    StorageRes     \* per level, the voxels along one side of a node

ASSUME TopologyAssumption ==
    /\ IsFiniteSet(Axes) /\ Axes # {}
    /\ NumLevels \in Nat \ {0, 1}
    /\ StorageRes \in [0 .. NumLevels - 1 -> Nat \ {0, 1}]

LeafLevel == NumLevels - 1

(* vklVdbLevelRes: the extent of a node in voxels of the leaf level *)
Res[l \in 0 .. NumLevels] ==
    IF l = NumLevels THEN 1 ELSE StorageRes[l] * Res[l + 1]

(* offsetToNodeOrigin: mask out the lower bits *)
NodeOrigin(offset, l) == [a \in Axes |-> offset[a] - (offset[a] % Res[l])]

(***************************************************************************)
(* offsetToVoxelIndex: the voxel of a node on level l that contains the    *)
(* offset.  The linear index the code computes from it is one to one.      *)
(***************************************************************************)
VoxelIndex_Unmasked(offset, l) == [a \in Axes |-> offset[a] \div Res[l + 1]]

VoxelIndex_ShiftedTwice(offset, l) ==
    [a \in Axes |-> (offset[a] % Res[l]) \div (2 * Res[l + 1])]

VoxelIndex(offset, l) == [a \in Axes |-> (offset[a] % Res[l]) \div Res[l + 1]]

(* the voxels along the sides of a node on level l *)
VoxelIndices(l) == [Axes -> 0 .. StorageRes[l] - 1]

Plus(c, d)  == [a \in Axes |-> c[a] + d[a]]
Minus(c, d) == [a \in Axes |-> c[a] - d[a]]

(* the coordinates in the cube of extent n at c *)
Cube(c, n) == {Plus(c, d) : d \in [Axes -> 0 .. n - 1]}
=============================================================================
