---------------------------- MODULE BvhIterator ----------------------------
(***************************************************************************)
(* Interval iteration over the bounding volume hierarchy of unstructured,  *)
(* particle and AMR volumes: the metadata of the nodes, and the traversal  *)
(* without a stack.  A bit stack records on which levels the sibling of    *)
(* the current node is still to be visited; each call to                   *)
(* vklIterateInterval starts again from the node where the last one had    *)
(* its first hit.                                                          *)
(*                                                                         *)
(* Boxes have two axes.  The ray runs along the first one through the row  *)
(* between 0 and 1 of the second, its parameter t is the first coordinate. *)
(* Lanes of a vector of rays do not influence each other; this is one.     *)
(***************************************************************************)
EXTENDS Integers, FiniteSets, IteratorContext

CONSTANTS
    Builds,        \* what the builder may return: a tree and the cell of each leaf
    Queries,       \* value ranges an iterator context may ask for
    Hints,         \* the interval resolution hints of contexts
    MaxLevel,      \* bound: deepest level of a tree
    Inf            \* larger than every coordinate

Ranges == [lo : Int, hi : Int]
Cells  == [x : Ranges, y : Ranges, cell : Ranges, range : Ranges]

NodesOf(t)  == {1} \cup {t[n][i] : n \in DOMAIN t, i \in {1, 2}}
LeavesOf(t) == NodesOf(t) \ DOMAIN t

(* a node has one parent, a child is one level below it *)
IsTree(t) ==
    /\ IsFiniteSet(NodesOf(t)) /\ DOMAIN t \subseteq NodesOf(t)
    /\ \A n, m \in DOMAIN t : \A i, j \in {1, 2} : t[n][i] = t[m][j] => n = m /\ i = j
    /\ \E depth \in [NodesOf(t) -> 0 .. MaxLevel] :
          /\ depth[1] = 0
          /\ \A n \in DOMAIN t : \A i \in {1, 2} : depth[t[n][i]] = depth[n] + 1

ASSUME BvhAssumption ==
    /\ MaxLevel \in Nat /\ Inf \in Nat /\ Hints \subseteq Int /\ Queries \subseteq Ranges
    /\ \A t \in {b.tree : b \in Builds} : IsTree(t)
    /\ \A b \in Builds :
          /\ b.cellOf \in [LeavesOf(b.tree) -> Cells]
          /\ \A l \in DOMAIN b.cellOf :
                LET c == b.cellOf[l]
                IN  c.x.lo <= c.cell.lo /\ c.cell.hi <= c.x.hi /\ c.x.hi < Inf

VARIABLES
    tree,              \* inner node :> <<child, child>>; the root is node 1
    cellOf,            \* leaf :> its cell, [x, y, cell, range]: its box, the part
                       \* of the ray that is inside of it, its values
    meta,              \* per node, valueRange and nominalLength.x
    phase, level,      \* where the commit or the iteration is
    query, maxIteratorDepth, elementary,       \* the iterator context
    tLower, start,     \* the iterator: tRange.lower and traversalState
    node, bitstack, hit, first,                \* one call
    interval,          \* the interval returned last
    required           \* history: the t that the context asks for

vars == <<tree, cellOf, meta, phase, level, query, maxIteratorDepth, elementary,
          tLower, start, node, bitstack, hit, first, interval, required>>

volume  == <<tree, cellOf, meta, level>>
context == <<query, maxIteratorDepth, elementary>>
call    == <<node, bitstack, hit, first>>
results == <<tLower, start, interval, required>>

Inner  == DOMAIN tree
Leaves == DOMAIN cellOf
Nodes  == Inner \cup Leaves

Least(a, b)    == IF a <= b THEN a ELSE b
Greatest(a, b) == IF a <= b THEN b ELSE a
Extend(r, s)   == [lo |-> Least(r.lo, s.lo), hi |-> Greatest(r.hi, s.hi)]
Clip(r, s)     == [lo |-> Greatest(r.lo, s.lo), hi |-> Least(r.hi, s.hi)]
IsEmpty(r)     == r.hi <= r.lo
Meet(r, s)     == r.hi >= s.lo /\ r.lo <= s.hi
Abs(a)         == IF a < 0 THEN -a ELSE a

Sibling_Null(n) == 0

Parent(n)  == CHOOSE p \in Inner : n \in {tree[p][1], tree[p][2]}
Sibling(n) == LET kids == tree[Parent(n)]
              IN  IF kids[1] = n THEN kids[2] ELSE kids[1]

(* addLevelToNodes *)
LevelOf[n \in Nodes] == IF n = 1 THEN 0 ELSE LevelOf[Parent(n)] + 1

(* getMaxNodeLevel *)
BvhDepth == CHOOSE d \in {LevelOf[n] : n \in Nodes} : \A n \in Nodes : LevelOf[n] <= d

(* the bounds an inner node stores for its children; getNodeBounds *)
Bounds[n \in Nodes] ==
    IF n \in Leaves THEN [x |-> cellOf[n].x, y |-> cellOf[n].y]
    ELSE LET a == Bounds[tree[n][1]]
             b == Bounds[tree[n][2]]
         IN  [x |-> Extend(a.x, b.x), y |-> Extend(a.y, b.y)]

(***************************************************************************)
(* A node's metadata when it is built: LeafNodeSingle stores the negative  *)
(* of the nominal length to tell leaves from inner nodes, setChildren      *)
(* combines the children's.                                                *)
(***************************************************************************)
Combine(a, b) ==
    [range |-> Extend(a.range, b.range), len |-> Least(Abs(a.len), Abs(b.len))]

Built[n \in Nodes] ==
    IF n \in Leaves
    THEN [range |-> cellOf[n].range, len |-> cellOf[n].x.lo - cellOf[n].x.hi]
    ELSE Combine(Built[tree[n][1]], Built[tree[n][2]])

IsLeafNode(n) == meta[n].len < 0

-----------------------------------------------------------------------------
Init ==
    /\ \E b \in Builds : tree = b.tree /\ cellOf = b.cellOf
    /\ query = [lo |-> 0, hi |-> 0] /\ maxIteratorDepth = 0 /\ elementary = FALSE
    /\ meta = Built
    /\ phase = "merge" /\ level = 0
    /\ tLower = 0 /\ start = [node |-> 1, bitstack |-> 0]
    /\ node = 1 /\ bitstack = 0
    /\ hit = [lo |-> Inf, hi |-> Inf] /\ first = start
    /\ interval = [lo |-> 0, hi |-> 0] /\ required = {}

(***************************************************************************)
(* computeOverlappingNodeMetadata, one level: a node takes the metadata of *)
(* the nodes of its level it overlaps.                                     *)
(***************************************************************************)
NodesOverlap_FirstAxisInside(m, n) ==
    Bounds[m].x.lo <= Bounds[n].x.lo /\ Bounds[n].x.hi <= Bounds[m].x.hi

NodesOverlap(m, n) ==
    /\ ~(Bounds[m].x.lo >= Bounds[n].x.hi \/ Bounds[n].x.lo >= Bounds[m].x.hi)
    /\ ~(Bounds[m].y.lo >= Bounds[n].y.hi \/ Bounds[n].y.lo >= Bounds[m].y.hi)

Overlapping(n) ==
    {m \in Nodes : LevelOf[m] = LevelOf[n] /\ (m = n \/ NodesOverlap(n, m))}

Merged(n) ==
    LET over == Overlapping(n)
        lens == {Abs(meta[m].len) : m \in over}
        len  == CHOOSE l \in lens : \A k \in lens : l <= k
    IN  [range |-> [lo |-> CHOOSE v \in {meta[m].range.lo : m \in over} :
                              \A m \in over : v <= meta[m].range.lo,
                    hi |-> CHOOSE v \in {meta[m].range.hi : m \in over} :
                              \A m \in over : v >= meta[m].range.hi],
         len |-> IF IsLeafNode(n) THEN -len ELSE len]

MergeLevel ==
    /\ phase = "merge"
    /\ meta' = [n \in Nodes |-> IF LevelOf[n] = level THEN Merged(n) ELSE meta[n]]
    /\ IF \E n \in Nodes : LevelOf[n] > level
       THEN level' = level + 1 /\ UNCHANGED phase
       ELSE phase' = "committed" /\ UNCHANGED level
    /\ UNCHANGED <<tree, cellOf>> /\ UNCHANGED context
    /\ UNCHANGED call /\ UNCHANGED results

-----------------------------------------------------------------------------
(***************************************************************************)
(* intersectNode, intersectLeaf: the part of a t range in the node, if the *)
(* given value range is one the context asks for.                          *)
(***************************************************************************)
Nothing == [lo |-> Inf, hi |-> -1]

OnRay(y) == y.lo <= 0 /\ y.hi >= 1

Intersect(box, t, range) ==
    IF Meet(query, range) /\ OnRay(box.y) THEN Clip(box.x, t) ELSE Nothing

(* where the ray, which begins at 0, is in a cell, and in its box *)
Along(r, l) == IF OnRay(cellOf[l].y) THEN {t \in r.lo .. r.hi - 1 : t >= 0} ELSE {}
Inside(l)   == Along(cellOf[l].cell, l)
InBox(l)    == Along(cellOf[l].x, l)

(***************************************************************************)
(* The commit of an interval or hit iterator context, then the             *)
(* initialisation of an iterator.  "We use the same iterator               *)
(* implementation for both unstructured and particle volumes.  However,    *)
(* only unstructured volumes support elementary cell iteration."           *)
(***************************************************************************)
CommitContext ==
    /\ phase = "committed" /\ phase' = "context"
    /\ query' \in Queries
    /\ \E kind \in {"interval", "hit"}, hint \in Hints, cellsSupported \in BOOLEAN :
          /\ kind = "hit" => hint = DefaultHint
          /\ maxIteratorDepth' = BvhMaxIteratorDepth(BvhDepth, hint)
          /\ elementary' = (cellsSupported /\ AsksForCells(kind, hint))
    /\ UNCHANGED volume /\ UNCHANGED call /\ UNCHANGED results

Initialize ==
    /\ phase = "context" /\ phase' = "ready"
    /\ start' = [node |-> 1, bitstack |-> 0]
    /\ tLower' = 0
    /\ required' = UNION {IF elementary THEN Inside(l) ELSE InBox(l) :
                             l \in {m \in Leaves : Meet(query, cellOf[m].range)}}
    /\ UNCHANGED interval
    /\ UNCHANGED call /\ UNCHANGED volume /\ UNCHANGED context

(* vklIterateInterval: evalNodeStacklessV from the traversal state *)
CallIterate ==
    /\ phase = "ready"
    /\ phase' = "traverse"
    /\ node' = start.node /\ bitstack' = start.bitstack
    /\ hit' = [lo |-> Inf, hi |-> Inf]
    /\ UNCHANGED first
    /\ UNCHANGED volume /\ UNCHANGED context /\ UNCHANGED results

Descends(n) ==
    n \in Inner /\ (elementary \/ LevelOf[n] < maxIteratorDepth)

(* both children are tested up to the closest hit, with the node's own range *)
ChildRange(i) ==
    Intersect(Bounds[tree[node][i]], [lo |-> tLower, hi |-> hit.lo], meta[node].range)

Entered == {i \in {1, 2} : ~IsEmpty(ChildRange(i))}

Nearer(i, j) == \/ ChildRange(i).lo < ChildRange(j).lo
                \/ ChildRange(i).lo = ChildRange(j).lo /\ i < j

Descend ==
    /\ phase = "traverse" /\ Descends(node)
    /\ IF Entered = {}
       THEN phase' = "backtrack" /\ UNCHANGED <<node, bitstack>>
       ELSE /\ node' = tree[node][CHOOSE i \in Entered :
                                     \A j \in Entered \ {i} : Nearer(i, j)]
            /\ bitstack' = 2 * bitstack + IF Entered = {1, 2} THEN 1 ELSE 0
            /\ UNCHANGED phase
    /\ UNCHANGED <<hit, first>>
    /\ UNCHANGED volume /\ UNCHANGED context /\ UNCHANGED results

(* a leaf, or a node at the maximum depth, is tested with the whole ray left *)
NodeRange ==
    IF node \in Leaves /\ elementary
    THEN Intersect([x |-> cellOf[node].cell, y |-> cellOf[node].y],
                   [lo |-> tLower, hi |-> Inf - 1], meta[node].range)
    ELSE Intersect(Bounds[node], [lo |-> tLower, hi |-> Inf - 1], meta[node].range)

(***************************************************************************)
(* "first hit; we will restart from here, since we may skip farther nodes  *)
(* before later returning a closer node (which would lead to holes with a  *)
(* later restart point)".                                                  *)
(***************************************************************************)
RestartPoint_Closest(f, h, n, b) == [node |-> n, bitstack |-> b]

RestartPoint_AtRoot(f, h, n, b) ==
    IF h.lo = Inf THEN [node |-> 1, bitstack |-> b] ELSE f

RestartPoint(f, h, n, b) ==
    IF h.lo = Inf THEN [node |-> n, bitstack |-> b] ELSE f

TestNode ==
    /\ phase = "traverse" /\ ~Descends(node)
    /\ IF ~IsEmpty(NodeRange) /\ NodeRange.lo < hit.lo
       THEN /\ first' = RestartPoint(first, hit, node, bitstack)
            /\ hit' = NodeRange
       ELSE UNCHANGED <<first, hit>>
    /\ phase' = "backtrack"
    /\ UNCHANGED <<node, bitstack>>
    /\ UNCHANGED volume /\ UNCHANGED context /\ UNCHANGED results

Backtrack ==
    /\ phase = "backtrack" /\ bitstack # 0
    /\ IF bitstack % 2 = 0
       THEN node' = Parent(node) /\ bitstack' = bitstack \div 2 /\ UNCHANGED phase
       ELSE node' = Sibling(node) /\ bitstack' = bitstack - 1 /\ phase' = "traverse"
    /\ UNCHANGED <<hit, first>>
    /\ UNCHANGED volume /\ UNCHANGED context /\ UNCHANGED results

(* the call returns: the application sees an interval, or the end *)
NextLower_Lower(t) == t.lo

NextLower(t) == t.hi

Return ==
    /\ phase = "backtrack" /\ bitstack = 0
    /\ IF hit.lo = Inf \/ IsEmpty(hit)
       THEN phase' = "done" /\ UNCHANGED results
       ELSE /\ phase' = "ready"
            /\ tLower' = NextLower(hit)
            /\ start' = first
            /\ interval' = hit
            /\ UNCHANGED required
    /\ UNCHANGED call /\ UNCHANGED volume /\ UNCHANGED context

Done == phase = "done" /\ UNCHANGED vars

Traversal == CallIterate \/ Descend \/ TestNode \/ Backtrack \/ Return

Next == MergeLevel \/ CommitContext \/ Initialize \/ Traversal \/ Done

(***************************************************************************)
(* The code of a call runs to its end, and the application goes on calling *)
(* "as long as the returned lane masks indicates that the iterator is still *)
(* within the volume".                                                     *)
(***************************************************************************)
Spec == Init /\ [][Next]_vars /\ WF_vars(Traversal)

-----------------------------------------------------------------------------
TypeOK ==
    /\ phase \in {"merge", "committed", "context", "ready", "traverse", "backtrack", "done"}
    /\ cellOf \in [Leaves -> Cells] /\ meta \in [Nodes -> [range : Ranges, len : Int]]
    /\ LevelOf \in [Nodes -> 0 .. MaxLevel] /\ level \in 0 .. MaxLevel
    /\ query \in Ranges /\ maxIteratorDepth \in 0 .. MaxLevel /\ elementary \in BOOLEAN
    /\ tLower \in 0 .. Inf /\ required \subseteq 0 .. Inf
    /\ node \in Nodes /\ bitstack \in Nat
    /\ {start, first} \subseteq [node : Nodes, bitstack : Nat]
    /\ {hit, interval} \subseteq Ranges

(***************************************************************************)
(* The bit stack is a road to the root with a turn for each bit: as many   *)
(* levels as the node has, so that backtracking ends at the root and never *)
(* follows the root's null parent.                                         *)
(***************************************************************************)
TwoTo[k \in 0 .. MaxLevel] == IF k = 0 THEN 1 ELSE 2 * TwoTo[k - 1]

RestartsInsideTheTree ==
    /\ start.bitstack < TwoTo[LevelOf[start.node]]
    /\ bitstack < TwoTo[LevelOf[node]]

(***************************************************************************)
(* The iterator implements the promise of all interval iterators, whatever *)
(* was pruned, skipped on the way to a closer node or merged, and whatever *)
(* depth its context has chosen: its intervals come in order and miss no   *)
(* cell on the ray that the context asks for; and they end.                *)
(***************************************************************************)
Promise == INSTANCE IntervalIteration WITH
    stage    <- IF phase \in {"merge", "committed", "context"} THEN "none"
                ELSE IF phase = "done" THEN "done" ELSE "iterating",
    limit    <- Inf

ImplementsIteration == Promise!Spec

IterationEnds == Promise!Ends

(***************************************************************************)
(* After the merge a node's value range covers those of its children, and  *)
(* of the nodes of its own or a deeper level that its box overlaps: "this  *)
(* allows BVH node intersections to be used individually".                 *)
(***************************************************************************)
CoversRange(r, s) == r.lo <= s.lo /\ s.hi <= r.hi

NodesCoverDeeperCells ==
    phase = "committed" =>
        /\ \A n \in Nodes \ {1} : CoversRange(meta[Parent(n)].range, meta[n].range)
        /\ \A n \in Nodes, l \in Leaves :
              LevelOf[l] >= LevelOf[n] /\ NodesOverlap(n, l) =>
                  CoversRange(meta[n].range, cellOf[l].range)

(***************************************************************************)
(* "the sampled value range should be completely within the returned       *)
(* interval value range" (interval_iterator.cpp): the interval reports the *)
(* range of the first node hit.                                            *)
(***************************************************************************)
ReportedRange == meta[start.node].range

DisjointCells == \A l, m \in Leaves : l # m => Inside(l) \cap Inside(m) = {}

ReportedRangeCoversInterval ==
    phase = "ready" /\ DisjointCells =>
        \A l \in Leaves :
            Inside(l) \cap (interval.lo .. interval.hi - 1) # {} =>
                CoversRange(ReportedRange, cellOf[l].range)
=============================================================================
