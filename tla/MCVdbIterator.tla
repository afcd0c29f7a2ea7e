---------------------------- MODULE MCVdbIterator ----------------------------
(***************************************************************************)
(* Small VDB volumes and rays for TLC: three levels of two voxels a side,  *)
(* so that a root node is 8 voxels wide, a tile of level 1 four, a leaf    *)
(* two.  Origins are multiples of the node's size, as OpenVDB's are, on    *)
(* both sides of zero.                                                     *)
(***************************************************************************)
EXTENDS VdbIterator

TwoPerLevel == [l \in 0 .. 2 |-> 2]

Nodes(lev, formats, origins) ==
    {[level |-> lev, format |-> f, origin |-> o] : f \in formats, o \in origins}

Lists(nodes, lengths) == UNION {[1 .. n -> nodes] : n \in lengths}

(* one row: input the commit must reject, and leaves astride two root nodes *)
Row(positions) == {<<p, 0>> : p \in positions}

RowNodes ==
    Nodes(1, {"TILE"}, Row({-4, 0, 4})) \cup Nodes(2, {"TILE"}, Row({-2, 0, 4}))
      \cup Nodes(2, {"DENSE_ZYX"}, Row({-4, -2, 0, 2}))

BadNodes == Nodes(0, {"TILE"}, Row({0})) \cup Nodes(1, {"DENSE_ZYX"}, Row({0}))

(* leaves of both formats on the lowest level, in every order *)
LeafLevelNodes == Nodes(2, {"TILE", "DENSE_ZYX"}, Row({-2, 0, 2}))

(* two axes: neighbours across edges and corners *)
Square(positions) == positions \X positions

SquareNodes ==
    Nodes(1, {"TILE"}, Square({-4, 0})) \cup Nodes(2, {"TILE"}, Square({-2, 2}))
      \cup Nodes(2, {"DENSE_ZYX"}, Square({-4, -2, 0}))

SmallInputs ==
    Lists(RowNodes, {3}) \cup Lists(RowNodes \cup BadNodes, {1, 2})
      \cup Lists(LeafLevelNodes, {3}) \cup Lists(SquareNodes, {2})

-----------------------------------------------------------------------------
(***************************************************************************)
(* Rays are cast through squares of a tile and a dense leaf, along an axis *)
(* and aslant, from all sides and from within.  None of them meets an edge *)
(* where two axes are due at the same t, or starts on a side of a voxel.   *)
(***************************************************************************)
Ray(o, d) == [org |-> o, dir |-> d]

Rows == {Ray(<<-18, 2>>, <<1, 0>>), Ray(<<18, 6>>, <<-2, 0>>), Ray(<<-6, 18>>, <<0, -1>>)}

Slants ==
    {Ray(<<-20, -18>>, <<1, 1>>), Ray(<<-18, -18>>, <<1, 2>>), Ray(<<18, -18>>, <<-2, 1>>),
     Ray(<<-18, 18>>, <<2, -1>>), Ray(<<20, 18>>, <<-1, -1>>), Ray(<<6, 6>>, <<-1, -2>>)}

(* one tile and one dense leaf in a square *)
Marched(s) == /\ Len(s) = 2 /\ {s[1], s[2]} \subseteq SquareNodes
              /\ s[1].format = "TILE" /\ s[1].level = 1 /\ s[2].format = "DENSE_ZYX"

Cast(rays) ==
    [s \in SmallInputs |->
        IF ~Marched(s) THEN {}
        ELSE {[org |-> r.org, dir |-> r.dir, tRange |-> [lo |-> 0, hi |-> 90],
               hint |-> h, want |-> w] : r \in rays, h \in {-10, 30, 100}, w \in {{2}, {1, 2}}}]

SmallRays == Cast(Rows \cup Slants)
=============================================================================
