--------------------------- MODULE MCGridIterator ---------------------------
(***************************************************************************)
(* Small grids for TLC: cells two voxels wide, two cells to a brick, with  *)
(* a last cell that is whole, partial or only a face; rays in all eight    *)
(* directions, from inside and outside of the volume.                      *)
(***************************************************************************)
EXTENDS GridIterator

Voxels(d) == (0 .. d[1] - 1) \X (0 .. d[2] - 1)

(* a ramp, a ridge, a step at a cell boundary, and a cell without values *)
Fields(d) ==
    {[v \in Voxels(d) |-> v[1]],
     [v \in Voxels(d) |-> IF v[1] = 3 THEN 4 ELSE v[2]],
     [v \in Voxels(d) |-> IF v[1] <= 2 THEN 0 ELSE 2],
     [v \in Voxels(d) |-> IF v[1] <= 2 /\ v[2] <= 2 THEN NaN ELSE v[1] + v[2]]}

SmallVolumes ==
    UNION {{[dims |-> d, voxel |-> f] : f \in Fields(d)} : d \in {<<5, 4>>, <<6, 3>>}}

R(a, b) == [lo |-> a, hi |-> b]

AllRays ==
    {[origin |-> <<x, y>>, direction |-> d, tRange |-> t, epsilon |-> e] :
        x \in {-1, 0, 1, 2, 3, 4, 6}, y \in -1 .. 4,
        d \in {-1, 0, 1} \X {-1, 0, 1} \ {<<0, 0>>},
        t \in {R(0, Inf), R(2, 3)}, e \in {1, 2}}

SmallQueries == {{}, {R(1, 1), R(3, 3)}, {R(0, 0), R(2, 2)}, {R(1, 2), R(5, 7)}}

AllIterators ==
    {c \in [ray : AllRays, query : SmallQueries, kind : {"interval", "hit"}] :
        c.kind = "hit" => \A r \in c.query : r.lo = r.hi}

EveryIterator == [v \in SmallVolumes |-> AllIterators]

(***************************************************************************)
(* A hit whose epsilon passes the face x = 0 of the volume leaves the      *)
(* march at an index of -1.  The other cases: the ray does not run in that *)
(* direction, or not that far, or has no surface there.                    *)
(***************************************************************************)
OneSided(v, S) == (\A x \in S : x < v) \/ (\A x \in S : x > v)

NoHitAtTheLowerFace(v, c) ==
    LET e    == c.ray.epsilon
        near == {v.voxel[p] : p \in {q \in Voxels(v.dims) : q[1] <= e + 1}}
    IN  \/ c.ray.direction[1] # -1
        \/ c.ray.origin[1] - e > c.ray.tRange.hi
        \/ \A r \in c.query : OneSided(r.lo, near \ {NaN})

SomeIterators ==
    [v \in SmallVolumes |->
        {c \in AllIterators : c.kind = "hit" => NoHitAtTheLowerFace(v, c)}]
=============================================================================
