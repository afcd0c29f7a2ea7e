--------------------------- MODULE MCBvhIterator ---------------------------
(***************************************************************************)
(* Small hierarchies for TLC.  A cell's box lies on the ray, beside it, or *)
(* on it and wider than its values; the cell itself may fill its box or    *)
(* only a part of it.  The builder may produce any shape.                  *)
(***************************************************************************)
EXTENDS BvhIterator

R(a, b) == [lo |-> a, hi |-> b]

Cell(a, b, y, c, d, v) ==
    [x |-> R(a, b), y |-> y, cell |-> R(c, d), range |-> v]

On == R(0, 1)
Beside == R(1, 2)

(* up to three leaves *)
SmallTrees ==
    {[n \in {} |-> <<>>], [n \in {1} |-> <<2, 3>>],
     [n \in {1, 2} |-> IF n = 1 THEN <<2, 3>> ELSE <<4, 5>>],
     [n \in {1, 3} |-> IF n = 1 THEN <<2, 3>> ELSE <<4, 5>>]}

SmallCells ==
    {Cell(-1, 2, On, -1, 1, v) : v \in {R(0, 0), R(1, 1)}}
      \cup {Cell(1, 3, On, 1, 3, v) : v \in {R(0, 0), R(1, 1)}}
      \cup {Cell(2, 4, On, 3, 4, v) : v \in {R(0, 0), R(1, 1)}}
      \cup {Cell(0, 1, Beside, 0, 1, R(0, 0)), Cell(1, 4, R(0, 2), 2, 2, R(0, 1))}

(* four leaves: a chain of three levels, and the balanced tree *)
DeepTrees ==
    {[n \in {1, 3, 5} |-> <<n + 1, n + 2>>],
     [n \in {1, 2, 4} |-> IF n = 1 THEN <<2, 3>> ELSE IF n = 2 THEN <<4, 5>> ELSE <<6, 7>>],
     [n \in {1, 2, 3} |-> <<2 * n, 2 * n + 1>>]}

DeepCells ==
    {Cell(0, 1, Beside, 0, 1, R(1, 1)), Cell(0, 2, On, 0, 2, R(0, 0)),
     Cell(1, 2, On, 1, 2, R(1, 1)), Cell(2, 4, On, 2, 4, R(1, 1))}

BuildsOf(trees, cells) ==
    UNION {{[tree |-> t, cellOf |-> f] : f \in [LeavesOf(t) -> cells]} : t \in trees}

SmallBuilds == BuildsOf(SmallTrees, SmallCells) \cup BuildsOf(DeepTrees, DeepCells)

ThreeLeaves == BuildsOf(SmallTrees, SmallCells)

Values == {R(0, 0), R(0, 1)}

(* one of each depth of a tree of three levels, and one out of range *)
SomeHints == {-5, DefaultHint, 60, 100}
=============================================================================
