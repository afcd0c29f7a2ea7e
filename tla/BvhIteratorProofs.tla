------------------------- MODULE BvhIteratorProofs -------------------------
(***************************************************************************)
(* Theorems about the iterator of BvhIterator, for every tree the builder  *)
(* may return, every query and every depth.                                *)
(*                                                                         *)
(* First the tree: what is computed from the leaves up or from the root    *)
(* down (LevelOf, Bounds, Built) is what its equation says, because every  *)
(* node has one parent and a level.  Then the merge: a node's values cover *)
(* those of what it overlaps.  Then the traversal: the bit stack of a node *)
(* names the siblings that are still to be visited (Pending), and a leaf   *)
(* that the context asks for is below the current node or pending until it *)
(* lies behind the ray or behind a closer hit (SeesAll).  That gives the   *)
(* promise of IntervalIteration, step by step.                             *)
(***************************************************************************)
EXTENDS BvhIterator, NumberLemmas, FiniteSetTheorems, TLAPS

-----------------------------------------------------------------------------
(* The tree and its leaves are what the builder returned.                  *)
Shape == \E b \in Builds : tree = b.tree /\ cellOf = b.cellOf

(* the children of the inner nodes *)
IsChild(c, n) == n \in Inner /\ c \in {tree[n][1], tree[n][2]}

(* What the proofs use of the tree the builder returned. *)
LEMMA TreeFacts ==
  ASSUME Shape
  PROVE  /\ 1 \in Nodes /\ IsFiniteSet(Nodes) /\ Inner \cap Leaves = {}
         /\ cellOf \in [Leaves -> Cells]
         /\ \A l \in Leaves : /\ cellOf[l].x.lo <= cellOf[l].cell.lo
                            /\ cellOf[l].cell.hi <= cellOf[l].x.hi /\ cellOf[l].x.hi < Inf
         /\ \A n \in Inner : tree[n][1] \in Nodes \ {1} /\ tree[n][2] \in Nodes \ {1}
         /\ \A n, m \in Inner : \A i, j \in {1, 2} :
               tree[n][i] = tree[m][j] => n = m /\ i = j
         /\ \A c \in Nodes \ {1} : IsChild(c, Parent(c))
<1>1. PICK b \in Builds : tree = b.tree /\ cellOf = b.cellOf
  BY DEF Shape
<1>2. IsTree(tree) /\ cellOf \in [LeavesOf(tree) -> Cells]
  BY <1>1, BvhAssumption
<1>3. \A l \in Leaves : /\ cellOf[l].x.lo <= cellOf[l].cell.lo
                       /\ cellOf[l].cell.hi <= cellOf[l].x.hi /\ cellOf[l].x.hi < Inf
  BY <1>1, BvhAssumption DEF Leaves
<1>4. Leaves = NodesOf(tree) \ Inner /\ Nodes = NodesOf(tree)
  BY <1>2 DEF Leaves, LeavesOf, Nodes, Inner, IsTree
<1>5. PICK depth \in [NodesOf(tree) -> 0 .. MaxLevel] :
          /\ depth[1] = 0
          /\ \A n \in DOMAIN tree : \A i \in {1, 2} : depth[tree[n][i]] = depth[n] + 1
  BY <1>2 DEF IsTree
<1>6. \A n \in Inner : \A i \in {1, 2} : tree[n][i] \in Nodes
  BY <1>4 DEF NodesOf, Inner
<1>7. \A n \in Inner : \A i \in {1, 2} : tree[n][i] # 1
  BY <1>2, <1>4, <1>5 DEF Inner, IsTree
<1>8. \A c \in Nodes \ {1} : \E n \in Inner : IsChild(c, n)
  BY <1>4 DEF NodesOf, Inner, IsChild
<1>9. \A c \in Nodes \ {1} : IsChild(c, Parent(c))
  BY <1>8 DEF IsChild, Parent
<1>10. \A n, m \in Inner : \A i, j \in {1, 2} :
           tree[n][i] = tree[m][j] => n = m /\ i = j
  BY <1>2 DEF IsTree, Inner
<1>11. 1 \in Nodes
  BY <1>4 DEF NodesOf
<1>12. IsFiniteSet(Nodes) /\ Inner \cap Leaves = {}
  BY <1>2, <1>4 DEF IsTree
<1>13. cellOf \in [Leaves -> Cells]
  BY <1>2 DEF Leaves
<1> QED
  BY <1>3, <1>6, <1>7, <1>9, <1>10, <1>11, <1>12, <1>13

(* The children of a node have it as their parent, and each other as       *)
(* siblings.                                                               *)
LEMMA Family ==
  ASSUME Shape
  PROVE  /\ \A n \in Inner : /\ Parent(tree[n][1]) = n /\ Parent(tree[n][2]) = n
                             /\ Sibling(tree[n][1]) = tree[n][2]
                             /\ Sibling(tree[n][2]) = tree[n][1]
         /\ \A c \in Nodes \ {1} : /\ Parent(c) \in Inner
                                   /\ Sibling(c) \in Nodes \ {1}
                                   /\ Parent(Sibling(c)) = Parent(c)
<1>1. \A n \in Inner : \A i \in {1, 2} : Parent(tree[n][i]) = n
  <2> TAKE n \in Inner
  <2> TAKE i \in {1, 2}
  <2>1. IsChild(tree[n][i], Parent(tree[n][i]))
    BY TreeFacts
  <2>2. PICK j \in {1, 2} : tree[Parent(tree[n][i])][j] = tree[n][i]
    BY <2>1 DEF IsChild
  <2> QED
    BY <2>1, <2>2, TreeFacts DEF IsChild
<1>2. \A n \in Inner : tree[n][1] # tree[n][2]
  BY TreeFacts
<1>3. \A n \in Inner : /\ Sibling(tree[n][1]) = tree[n][2]
                       /\ Sibling(tree[n][2]) = tree[n][1]
  BY <1>1, <1>2 DEF Sibling
<1>4. ASSUME NEW c \in Nodes \ {1}
      PROVE  /\ Parent(c) \in Inner /\ Sibling(c) \in Nodes \ {1}
             /\ Parent(Sibling(c)) = Parent(c)
  <2>1. IsChild(c, Parent(c))
    BY TreeFacts
  <2>2. PICK i \in {1, 2} : Parent(c) \in Inner /\ c = tree[Parent(c)][i]
    BY <2>1 DEF IsChild
  <2>3. CASE i = 1
    BY <1>1, <1>3, <2>2, <2>3, TreeFacts
  <2>4. CASE i = 2
    BY <1>1, <1>3, <2>2, <2>4, TreeFacts
  <2> QED
    BY <2>3, <2>4
<1> QED
  BY <1>1, <1>3, <1>4

(* addLevelToNodes gives the root level 0 and children the next level.     *)
LEMMA Levels ==
  ASSUME Shape
  PROVE  /\ LevelOf \in [Nodes -> 0 .. MaxLevel] /\ LevelOf[1] = 0
         /\ \A n \in Inner : \A i \in {1, 2} : LevelOf[tree[n][i]] = LevelOf[n] + 1
<1> DEFINE Eq(f) == f = [n \in Nodes |-> IF n = 1 THEN 0 ELSE f[Parent(n)] + 1]
<1>1. PICK b \in Builds : tree = b.tree /\ cellOf = b.cellOf
  BY DEF Shape
<1>2. IsTree(tree) /\ cellOf \in [LeavesOf(tree) -> Cells]
  BY <1>1, BvhAssumption
<1>3. Nodes = NodesOf(tree)
  BY <1>2 DEF Leaves, LeavesOf, Nodes, Inner, IsTree
<1>4. PICK depth \in [Nodes -> 0 .. MaxLevel] :
          /\ depth[1] = 0
          /\ \A n \in Inner : \A i \in {1, 2} : depth[tree[n][i]] = depth[n] + 1
  BY <1>2, <1>3 DEF IsTree, Inner
<1>5. \A n \in Nodes \ {1} : Parent(n) \in Nodes /\ depth[n] = depth[Parent(n)] + 1
  BY <1>4, TreeFacts DEF IsChild, Nodes
<1>6. Eq(depth)
  <2>1. \A n \in Nodes : depth[n] = IF n = 1 THEN 0 ELSE depth[Parent(n)] + 1
    BY <1>4, <1>5
  <2> QED
    BY <2>1, <1>4
<1>7. Eq(LevelOf)
  BY <1>6 DEF LevelOf
<1> HIDE DEF Eq
<1> DEFINE Off == {d \in Nat : \E n \in Nodes : depth[n] = d /\ LevelOf[n] # d}
<1>8. ASSUME Off # {} PROVE FALSE
  <2>1. Off \in SUBSET Nat
    OBVIOUS
  <2>2. PICK d \in Off : \A e \in Off : d <= e
    <3> HIDE DEF Off
    <3> QED
      BY <1>8, <2>1, LeastNat
  <2>3. PICK n \in Nodes : depth[n] = d /\ LevelOf[n] # d
    BY <2>2
  <2>4. n # 1
    BY <1>4, <1>7, <2>3 DEF Eq
  <2>5. LevelOf[n] = LevelOf[Parent(n)] + 1
    BY <1>7, <2>4 DEF Eq
  <2>6. Parent(n) \in Nodes /\ d = depth[Parent(n)] + 1 /\ depth[Parent(n)] \in Nat
    BY <1>4, <1>5, <2>3, <2>4
  <2>7. depth[Parent(n)] \notin Off
    <3> HIDE DEF Off
    <3> QED
      BY <2>2, <2>6
  <2> QED
    BY <2>3, <2>5, <2>6, <2>7
<1>9. \A n \in Nodes : LevelOf[n] = depth[n]
  BY <1>4, <1>8
<1>10. LevelOf = depth
  BY <1>4, <1>7, <1>9 DEF Eq
<1> QED
  BY <1>4, <1>10

(* Downwards: among some nodes, one is the root or has a parent elsewhere. *)
LEMMA TopMost ==
  ASSUME Shape, NEW S, S \subseteq Nodes, S # {}
  PROVE  \E n \in S : n = 1 \/ Parent(n) \notin S
<1> DEFINE T == {LevelOf[n] : n \in S}
<1>1. T \in SUBSET Nat /\ T # {}
  BY Levels
<1>2. PICK d \in T : \A e \in T : d <= e
  <2> HIDE DEF T
  <2> QED
    BY <1>1, LeastNat
<1>3. PICK n \in S : d = LevelOf[n]
  OBVIOUS
<1>4. ASSUME n # 1, Parent(n) \in S PROVE FALSE
  <2>1. IsChild(n, Parent(n))
    BY <1>3, <1>4, TreeFacts
  <2>2. LevelOf[n] = LevelOf[Parent(n)] + 1
    BY <2>1, Levels DEF IsChild
  <2>3. d <= LevelOf[Parent(n)] /\ LevelOf[Parent(n)] \in Nat
    BY <1>2, <1>4, Levels
  <2> QED
    BY <1>3, <2>2, <2>3
<1> QED
  BY <1>3, <1>4

(* Upwards: among some nodes, one is a leaf or has its children elsewhere. *)
LEMMA BottomMost ==
  ASSUME Shape, NEW S, S \subseteq Nodes, S # {}
  PROVE  \E n \in S : n \in Inner => tree[n][1] \notin S /\ tree[n][2] \notin S
<1> DEFINE T == {LevelOf[n] : n \in S}
<1>1. T \subseteq 0 .. MaxLevel /\ T # {}
  BY Levels
<1>2. PICK d \in T : \A e \in T : e <= d
  <2> HIDE DEF T
  <2> QED
    BY <1>1, GreatestNat, BvhAssumption
<1>3. PICK n \in S : d = LevelOf[n]
  OBVIOUS
<1>4. ASSUME n \in Inner, NEW i \in {1, 2}, tree[n][i] \in S PROVE FALSE
  <2>1. LevelOf[tree[n][i]] = LevelOf[n] + 1 /\ LevelOf[n] \in Nat
    BY <1>4, <1>3, Levels
  <2>2. LevelOf[tree[n][i]] <= d
    BY <1>2, <1>4
  <2> QED
    BY <1>3, <2>1, <2>2
<1> QED
  BY <1>3, <1>4

(* A value can be computed for every node from its children's.             *)
Computes(f, leaf, op) ==
    f = [n \in Nodes |-> IF n \in Leaves THEN leaf[n]
                         ELSE op[<<f[tree[n][1]], f[tree[n][2]]>>]]

(* A function defined from the leaves up satisfies its equation. *)
LEMMA TreeRecursion ==
  ASSUME Shape, NEW A, NEW leaf \in [Leaves -> A], NEW op \in [A \X A -> A]
  PROVE  \E f \in [Nodes -> A] : Computes(f, leaf, op)
<1> DEFINE From(k) == {n \in Nodes : LevelOf[n] >= k}
           Part(f, k) == /\ f \in [From(k) -> A]
                         /\ \A n \in From(k) :
                               f[n] = IF n \in Leaves THEN leaf[n]
                                      ELSE op[<<f[tree[n][1]], f[tree[n][2]]>>]
           Some(k) == \E f : Part(f, k)
           Stuck == {k \in 0 .. MaxLevel + 1 : ~Some(k)}
<1>1. Some(MaxLevel + 1)
  <2>1. From(MaxLevel + 1) = {}
    BY Levels, BvhAssumption
  <2>2. Part([n \in {} |-> n], MaxLevel + 1)
    BY <2>1
  <2> QED
    BY <2>2
<1>2. ASSUME NEW k \in 0 .. MaxLevel, Some(k + 1) PROVE Some(k)
  <2>1. PICK f : Part(f, k + 1)
    BY <1>2
  <2> DEFINE g == [n \in From(k) |->
                      IF n \in From(k + 1) THEN f[n]
                      ELSE IF n \in Leaves THEN leaf[n]
                      ELSE op[<<f[tree[n][1]], f[tree[n][2]]>>]]
  <2>2. ASSUME NEW n \in From(k), n \notin Leaves
        PROVE  tree[n][1] \in From(k + 1) /\ tree[n][2] \in From(k + 1)
    <3>1. n \in Inner /\ tree[n][1] \in Nodes /\ tree[n][2] \in Nodes
      BY <2>2, TreeFacts DEF Nodes
    <3>2. /\ LevelOf[tree[n][1]] = LevelOf[n] + 1 /\ LevelOf[tree[n][2]] = LevelOf[n] + 1
          /\ LevelOf[n] \in Nat /\ LevelOf[n] >= k
      BY <2>2, <3>1, Levels
    <3> QED
      BY <3>1, <3>2
  <2>3. From(k + 1) \subseteq From(k)
    BY Levels
  <2>4. \A n \in From(k + 1) : f[n] \in A
    BY <2>1
  <2>5. g \in [From(k) -> A]
    <3> SUFFICES ASSUME NEW n \in From(k) PROVE g[n] \in A
      OBVIOUS
    <3>1. CASE n \in From(k + 1)
      BY <2>4, <3>1
    <3>2. CASE n \notin From(k + 1) /\ n \in Leaves
      BY <3>2
    <3>3. CASE n \notin From(k + 1) /\ n \notin Leaves
      <4>1. f[tree[n][1]] \in A /\ f[tree[n][2]] \in A
        BY <2>2, <2>4, <3>3
      <4>2. g[n] = op[<<f[tree[n][1]], f[tree[n][2]]>>]
        BY <3>3
      <4> HIDE DEF g, From
      <4> QED
        BY <4>1, <4>2
    <3> QED
      BY <3>1, <3>2, <3>3
  <2>6. ASSUME NEW n \in From(k)
        PROVE  g[n] = IF n \in Leaves THEN leaf[n] ELSE op[<<g[tree[n][1]], g[tree[n][2]]>>]
    <3>1. CASE n \in Leaves
      BY <2>1, <3>1
    <3>2. CASE n \notin Leaves
      <4>1. tree[n][1] \in From(k + 1) /\ tree[n][2] \in From(k + 1)
        BY <2>2, <3>2
      <4>2. g[tree[n][1]] = f[tree[n][1]] /\ g[tree[n][2]] = f[tree[n][2]]
        BY <2>3, <4>1
      <4>3. g[n] = op[<<f[tree[n][1]], f[tree[n][2]]>>]
        BY <2>1, <3>2
      <4> QED
        BY <3>2, <4>2, <4>3
    <3> QED
      BY <3>1, <3>2
  <2>7. Part(g, k)
    <3> HIDE DEF g
    <3> QED
      BY <2>5, <2>6
  <2> QED
    BY <2>7
<1>3. ASSUME Stuck # {} PROVE FALSE
  <2> HIDE DEF Some
  <2>1. Stuck \subseteq 0 .. MaxLevel + 1 /\ MaxLevel + 1 \in Nat
    BY BvhAssumption
  <2>2. PICK k \in Stuck : \A j \in Stuck : j <= k
    <3> HIDE DEF Stuck
    <3> QED
      BY <1>3, <2>1, GreatestNat
  <2>3. k \in 0 .. MaxLevel + 1 /\ ~Some(k) /\ k # MaxLevel + 1
    BY <1>1, <2>2
  <2>4. k \in 0 .. MaxLevel /\ k + 1 \in 0 .. MaxLevel + 1 /\ ~(k + 1 <= k)
    BY <2>3, BvhAssumption
  <2>5. k + 1 \notin Stuck
    <3> HIDE DEF Stuck
    <3> QED
      BY <2>2, <2>4
  <2>6. Some(k + 1)
    BY <2>4, <2>5
  <2> QED
    BY <1>2, <2>3, <2>4, <2>6
<1>4. Some(0)
  <2> HIDE DEF Some
  <2>1. 0 \in 0 .. MaxLevel + 1
    BY BvhAssumption
  <2> QED
    BY <1>3, <2>1
<1>5. PICK f : Part(f, 0)
  BY <1>4
<1>6. From(0) = Nodes
  BY Levels
<1> HIDE DEF From
<1> QED
  BY <1>5, <1>6 DEF Computes

-----------------------------------------------------------------------------
Boxes == [x : Ranges, y : Ranges]
Metas == [range : Ranges, len : Int]

(* Hulls and intersections of ranges are ranges. *)
LEMMA RangeArithmetic ==
  /\ \A a, b \in Int : Least(a, b) \in Int /\ Greatest(a, b) \in Int /\ Abs(a) \in Int
  /\ \A r, s \in Ranges : Extend(r, s) \in Ranges /\ Clip(r, s) \in Ranges
  /\ \A r, s \in Ranges : CoversRange(Extend(r, s), r) /\ CoversRange(Extend(r, s), s)
  /\ \A r \in Ranges : CoversRange(r, r)
  /\ \A r, s, t \in Ranges : CoversRange(r, s) /\ CoversRange(s, t) => CoversRange(r, t)
BY DEF Least, Greatest, Abs, Extend, Clip, Ranges, CoversRange

(* The fields of a cell are ranges. *)
LEMMA CellFacts ==
  ASSUME Shape, NEW l \in Leaves
  PROVE  /\ cellOf[l].x \in Ranges /\ cellOf[l].y \in Ranges
         /\ cellOf[l].cell \in Ranges /\ cellOf[l].range \in Ranges
         /\ cellOf[l].x.lo - cellOf[l].x.hi \in Int
<1>1. cellOf[l] \in Cells
  BY TreeFacts
<1>2. /\ cellOf[l].x \in Ranges /\ cellOf[l].y \in Ranges
      /\ cellOf[l].cell \in Ranges /\ cellOf[l].range \in Ranges
  BY <1>1 DEF Cells
<1>3. cellOf[l].x.lo \in Int /\ cellOf[l].x.hi \in Int
  BY <1>2 DEF Ranges
<1> QED
  BY <1>2, <1>3

(* getNodeBounds: the box of a leaf, and of an inner node the hull of its  *)
(* children's.                                                             *)
LEMMA BoundsFacts ==
  ASSUME Shape
  PROVE  /\ Bounds \in [Nodes -> Boxes]
         /\ \A l \in Leaves : Bounds[l] = [x |-> cellOf[l].x, y |-> cellOf[l].y]
         /\ \A n \in Inner : Bounds[n] =
               [x |-> Extend(Bounds[tree[n][1]].x, Bounds[tree[n][2]].x),
                y |-> Extend(Bounds[tree[n][1]].y, Bounds[tree[n][2]].y)]
<1> DEFINE Eq(f) == f = [n \in Nodes |->
                IF n \in Leaves THEN [x |-> cellOf[n].x, y |-> cellOf[n].y]
                ELSE LET a == f[tree[n][1]]
                         b == f[tree[n][2]]
                     IN  [x |-> Extend(a.x, b.x), y |-> Extend(a.y, b.y)]]
           leaf == [l \in Leaves |-> [x |-> cellOf[l].x, y |-> cellOf[l].y]]
           op   == [p \in Boxes \X Boxes |->
                       [x |-> Extend(p[1].x, p[2].x), y |-> Extend(p[1].y, p[2].y)]]
<1>1. leaf \in [Leaves -> Boxes]
  BY TreeFacts DEF Cells, Boxes
<1>2. op \in [Boxes \X Boxes -> Boxes]
  BY RangeArithmetic DEF Boxes
<1>3. PICK f \in [Nodes -> Boxes] : Computes(f, leaf, op)
  <2> HIDE DEF leaf, op
  <2> QED
    BY <1>1, <1>2, TreeRecursion
<1>4. ASSUME NEW n \in Inner
      PROVE  tree[n][1] \in Nodes /\ tree[n][2] \in Nodes /\ n \in Nodes /\ n \notin Leaves
  BY TreeFacts DEF Nodes
<1>5. Eq(f)
  <2>1. ASSUME NEW n \in Nodes
        PROVE  f[n] = IF n \in Leaves THEN [x |-> cellOf[n].x, y |-> cellOf[n].y]
                      ELSE [x |-> Extend(f[tree[n][1]].x, f[tree[n][2]].x),
                            y |-> Extend(f[tree[n][1]].y, f[tree[n][2]].y)]
    <3>1. CASE n \in Leaves
      BY <1>3, <3>1 DEF Computes
    <3>2. CASE n \notin Leaves
      <4>1. n \in Inner
        BY <3>2 DEF Nodes
      <4>2. f[tree[n][1]] \in Boxes /\ f[tree[n][2]] \in Boxes
        BY <1>3, <1>4, <4>1
      <4>3. f[n] = op[<<f[tree[n][1]], f[tree[n][2]]>>]
        <5> HIDE DEF leaf, op
        <5> QED
          BY <1>3, <3>2 DEF Computes
      <4> QED
        BY <3>2, <4>2, <4>3
    <3> QED
      BY <3>1, <3>2
  <2> QED
    BY <2>1, <1>3
<1>6. Eq(Bounds)
  BY <1>5 DEF Bounds
<1> HIDE DEF leaf, op
<1>7. \A l \in Leaves : Bounds[l] = [x |-> cellOf[l].x, y |-> cellOf[l].y]
  BY <1>6 DEF Nodes
<1>8. \A n \in Inner : Bounds[n] =
               [x |-> Extend(Bounds[tree[n][1]].x, Bounds[tree[n][2]].x),
                y |-> Extend(Bounds[tree[n][1]].y, Bounds[tree[n][2]].y)]
  BY <1>4, <1>6
<1> HIDE DEF Eq
<1> DEFINE Ill == {n \in Nodes : Bounds[n] \notin Boxes}
<1>9. ASSUME Ill # {} PROVE FALSE
  <2>1. PICK n \in Ill : n \in Inner => tree[n][1] \notin Ill /\ tree[n][2] \notin Ill
    <3>1. Ill \subseteq Nodes
      OBVIOUS
    <3> HIDE DEF Ill
    <3> QED
      BY <1>9, <3>1, BottomMost
  <2>2. CASE n \in Leaves
    <3>1. Bounds[n] = [x |-> cellOf[n].x, y |-> cellOf[n].y]
      BY <1>7, <2>2
    <3>2. Bounds[n] \in Boxes
      BY <3>1, <2>2, CellFacts DEF Boxes
    <3> QED
      BY <2>1, <3>2
  <2>3. CASE n \in Inner
    <3>1. Bounds[tree[n][1]] \in Boxes /\ Bounds[tree[n][2]] \in Boxes
      BY <1>4, <2>1, <2>3
    <3>2. /\ Extend(Bounds[tree[n][1]].x, Bounds[tree[n][2]].x) \in Ranges
          /\ Extend(Bounds[tree[n][1]].y, Bounds[tree[n][2]].y) \in Ranges
      BY <3>1, RangeArithmetic DEF Boxes
    <3>3. Bounds[n] \in Boxes
      <4>1. Bounds[n] = [x |-> Extend(Bounds[tree[n][1]].x, Bounds[tree[n][2]].x),
                         y |-> Extend(Bounds[tree[n][1]].y, Bounds[tree[n][2]].y)]
        BY <1>8, <2>3
      <4>2. \A u, v \in Ranges : [x |-> u, y |-> v] \in Boxes
        BY DEF Boxes
      <4> QED
        BY <3>2, <4>1, <4>2, Zenon
    <3> QED
      BY <2>1, <3>3
  <2> QED
    BY <2>1, <2>2, <2>3 DEF Nodes
<1>10. Bounds \in [Nodes -> Boxes]
  BY <1>6, <1>9 DEF Eq
<1> QED
  BY <1>7, <1>8, <1>10

(* The metadata of a leaf, and of an inner node combined from its          *)
(* children's.                                                             *)
LEMMA BuiltFacts ==
  ASSUME Shape
  PROVE  /\ Built \in [Nodes -> Metas]
         /\ \A l \in Leaves : Built[l].range = cellOf[l].range
         /\ \A n \in Inner : Built[n].range =
               Extend(Built[tree[n][1]].range, Built[tree[n][2]].range)
<1> DEFINE Eq(f) == f = [n \in Nodes |->
                IF n \in Leaves
                THEN [range |-> cellOf[n].range, len |-> cellOf[n].x.lo - cellOf[n].x.hi]
                ELSE Combine(f[tree[n][1]], f[tree[n][2]])]
           leaf == [l \in Leaves |->
                    [range |-> cellOf[l].range, len |-> cellOf[l].x.lo - cellOf[l].x.hi]]
           op   == [p \in Metas \X Metas |-> Combine(p[1], p[2])]
<1>0. \A a, b \in Metas : /\ Combine(a, b) \in Metas
                          /\ Combine(a, b).range = Extend(a.range, b.range)
  BY RangeArithmetic DEF Metas, Combine
<1>1. leaf \in [Leaves -> Metas]
  BY TreeFacts DEF Cells, Metas, Ranges
<1>2. op \in [Metas \X Metas -> Metas]
  BY <1>0
<1>3. PICK f \in [Nodes -> Metas] : Computes(f, leaf, op)
  <2> HIDE DEF leaf, op
  <2> QED
    BY <1>1, <1>2, TreeRecursion
<1>4. ASSUME NEW n \in Inner
      PROVE  tree[n][1] \in Nodes /\ tree[n][2] \in Nodes /\ n \in Nodes /\ n \notin Leaves
  BY TreeFacts DEF Nodes
<1>5. Eq(f)
  <2>1. ASSUME NEW n \in Nodes
        PROVE  f[n] = IF n \in Leaves
                      THEN [range |-> cellOf[n].range, len |-> cellOf[n].x.lo - cellOf[n].x.hi]
                      ELSE Combine(f[tree[n][1]], f[tree[n][2]])
    <3>1. CASE n \in Leaves
      BY <1>3, <3>1 DEF Computes
    <3>2. CASE n \notin Leaves
      <4>1. n \in Inner
        BY <3>2 DEF Nodes
      <4>2. f[tree[n][1]] \in Metas /\ f[tree[n][2]] \in Metas
        BY <1>3, <1>4, <4>1
      <4>3. f[n] = op[<<f[tree[n][1]], f[tree[n][2]]>>]
        <5> HIDE DEF leaf, op
        <5> QED
          BY <1>3, <3>2 DEF Computes
      <4> QED
        BY <3>2, <4>2, <4>3
    <3> QED
      BY <3>1, <3>2
  <2> QED
    BY <2>1, <1>3
<1>6. Eq(Built)
  BY <1>5 DEF Built
<1> HIDE DEF leaf, op
<1>7. \A l \in Leaves : Built[l] =
         [range |-> cellOf[l].range, len |-> cellOf[l].x.lo - cellOf[l].x.hi]
  BY <1>6 DEF Nodes
<1>8. \A n \in Inner : Built[n] = Combine(Built[tree[n][1]], Built[tree[n][2]])
  BY <1>4, <1>6
<1> HIDE DEF Eq
<1> DEFINE Ill == {n \in Nodes : Built[n] \notin Metas}
<1>9. ASSUME Ill # {} PROVE FALSE
  <2>1. PICK n \in Ill : n \in Inner => tree[n][1] \notin Ill /\ tree[n][2] \notin Ill
    <3>1. Ill \subseteq Nodes
      OBVIOUS
    <3> HIDE DEF Ill
    <3> QED
      BY <1>9, <3>1, BottomMost
  <2>2. CASE n \in Leaves
    <3>1. Built[n] = [range |-> cellOf[n].range, len |-> cellOf[n].x.lo - cellOf[n].x.hi]
      BY <1>7, <2>2
    <3>2. Built[n] \in Metas
      BY <3>1, <2>2, CellFacts DEF Metas
    <3> QED
      BY <2>1, <3>2
  <2>3. CASE n \in Inner
    <3>1. Built[tree[n][1]] \in Metas /\ Built[tree[n][2]] \in Metas
      BY <1>4, <2>1, <2>3
    <3> QED
      BY <1>0, <1>8, <2>1, <2>3, <3>1
  <2> QED
    BY <2>1, <2>2, <2>3 DEF Nodes
<1>10. Built \in [Nodes -> Metas]
  BY <1>6, <1>9 DEF Eq
<1>11. \A n \in Inner : Built[n].range =
               Extend(Built[tree[n][1]].range, Built[tree[n][2]].range)
  BY <1>0, <1>4, <1>8, <1>10
<1>12. \A l \in Leaves : Built[l].range = cellOf[l].range
  <2> TAKE l \in Leaves
  <2>1. Built[l] = [range |-> cellOf[l].range, len |-> cellOf[l].x.lo - cellOf[l].x.hi]
    BY <1>7
  <2> QED
    BY <2>1
<1> QED
  BY <1>10, <1>11, <1>12

-----------------------------------------------------------------------------
(* the leaves of the tree below a node *)
Below[n \in Nodes] ==
    IF n \in Leaves THEN {n} ELSE Below[tree[n][1]] \cup Below[tree[n][2]]

(* The leaves below a node are those below its children. *)
LEMMA BelowFacts ==
  ASSUME Shape
  PROVE  /\ \A l \in Leaves : Below[l] = {l}
         /\ \A n \in Inner : Below[n] = Below[tree[n][1]] \cup Below[tree[n][2]]
<1> DEFINE Eq(f) == f = [n \in Nodes |->
                IF n \in Leaves THEN {n} ELSE f[tree[n][1]] \cup f[tree[n][2]]]
           leaf == [l \in Leaves |-> {l}]
           op   == [p \in (SUBSET Leaves) \X (SUBSET Leaves) |-> p[1] \cup p[2]]
<1>1. leaf \in [Leaves -> SUBSET Leaves]
  OBVIOUS
<1>2. op \in [(SUBSET Leaves) \X (SUBSET Leaves) -> SUBSET Leaves]
  OBVIOUS
<1>3. PICK f \in [Nodes -> SUBSET Leaves] : Computes(f, leaf, op)
  <2> HIDE DEF leaf, op
  <2> QED
    BY <1>1, <1>2, TreeRecursion
<1>4. ASSUME NEW n \in Inner
      PROVE  tree[n][1] \in Nodes /\ tree[n][2] \in Nodes /\ n \in Nodes /\ n \notin Leaves
  BY TreeFacts DEF Nodes
<1>5. Eq(f)
  <2>1. ASSUME NEW n \in Nodes
        PROVE  f[n] = IF n \in Leaves THEN {n} ELSE f[tree[n][1]] \cup f[tree[n][2]]
    <3>1. CASE n \in Leaves
      BY <1>3, <3>1 DEF Computes
    <3>2. CASE n \notin Leaves
      <4>1. n \in Inner
        BY <3>2 DEF Nodes
      <4>2. f[tree[n][1]] \in SUBSET Leaves /\ f[tree[n][2]] \in SUBSET Leaves
        BY <1>3, <1>4, <4>1
      <4>3. f[n] = op[<<f[tree[n][1]], f[tree[n][2]]>>]
        <5> HIDE DEF leaf, op
        <5> QED
          BY <1>3, <3>2 DEF Computes
      <4> QED
        BY <3>2, <4>2, <4>3
    <3> QED
      BY <3>1, <3>2
  <2> QED
    BY <2>1, <1>3
<1>6. Eq(Below)
  BY <1>5 DEF Below
<1> HIDE DEF leaf, op
<1> QED
  BY <1>4, <1>6 DEF Nodes

(* a box within another one *)
WithinBox(a, b) == CoversRange(b.x, a.x) /\ CoversRange(b.y, a.y)

(* A child's box and values are within those of its parent. *)
LEMMA ChildIsWithin ==
  ASSUME Shape, NEW n \in Inner, NEW i \in {1, 2}
  PROVE  /\ WithinBox(Bounds[tree[n][i]], Bounds[n])
         /\ CoversRange(Built[n].range, Built[tree[n][i]].range)
<1>1. tree[n][1] \in Nodes /\ tree[n][2] \in Nodes
  BY TreeFacts
<1>2. /\ Bounds[tree[n][1]].x \in Ranges /\ Bounds[tree[n][1]].y \in Ranges
      /\ Bounds[tree[n][2]].x \in Ranges /\ Bounds[tree[n][2]].y \in Ranges
  BY <1>1, BoundsFacts DEF Boxes
<1>3. Built[tree[n][1]].range \in Ranges /\ Built[tree[n][2]].range \in Ranges
  BY <1>1, BuiltFacts DEF Metas
<1>4. /\ Bounds[n].x = Extend(Bounds[tree[n][1]].x, Bounds[tree[n][2]].x)
      /\ Bounds[n].y = Extend(Bounds[tree[n][1]].y, Bounds[tree[n][2]].y)
      /\ Built[n].range = Extend(Built[tree[n][1]].range, Built[tree[n][2]].range)
  <2>1. Bounds[n] = [x |-> Extend(Bounds[tree[n][1]].x, Bounds[tree[n][2]].x),
                     y |-> Extend(Bounds[tree[n][1]].y, Bounds[tree[n][2]].y)]
    BY BoundsFacts
  <2> QED
    BY <2>1, BuiltFacts
<1>5. i = 1 \/ i = 2
  OBVIOUS
<1>6. \A r, s \in Ranges : CoversRange(Extend(r, s), r) /\ CoversRange(Extend(r, s), s)
  BY RangeArithmetic
<1> QED
  BY <1>2, <1>3, <1>4, <1>5, <1>6, Zenon DEF WithinBox

(* Boxes and metadata have their types. *)
LEMMA NodeTypes ==
  ASSUME Shape, NEW n \in Nodes
  PROVE  /\ Bounds[n].x \in Ranges /\ Bounds[n].y \in Ranges
         /\ Built[n].range \in Ranges /\ Built[n].len \in Int
         /\ LevelOf[n] \in 0 .. MaxLevel /\ LevelOf[n] \in Nat
BY BoundsFacts, BuiltFacts, Levels DEF Boxes, Metas

(* A node's box and values cover those of the leaves below it.             *)
LEMMA LeavesAreWithin ==
  ASSUME Shape, NEW n \in Nodes, NEW l \in Below[n]
  PROVE  /\ l \in Leaves /\ WithinBox(Bounds[l], Bounds[n])
         /\ CoversRange(Built[n].range, cellOf[l].range)
<1> DEFINE Good(m) == \A k \in Below[m] :
                         /\ k \in Leaves /\ WithinBox(Bounds[k], Bounds[m])
                         /\ CoversRange(Built[m].range, cellOf[k].range)
           Bad == {m \in Nodes : ~Good(m)}
<1>1. ASSUME Bad # {} PROVE FALSE
  <2>1. PICK m \in Bad : m \in Inner => tree[m][1] \notin Bad /\ tree[m][2] \notin Bad
    <3>1. Bad \subseteq Nodes
      OBVIOUS
    <3> HIDE DEF Bad
    <3> QED
      BY <1>1, <3>1, BottomMost
  <2>2. m \in Nodes /\ ~Good(m)
    BY <2>1
  <2>3. CASE m \in Leaves
    <3>1. Below[m] = {m} /\ Built[m].range = cellOf[m].range
      BY <2>3, BelowFacts, BuiltFacts
    <3>2. WithinBox(Bounds[m], Bounds[m]) /\ CoversRange(Built[m].range, Built[m].range)
      BY <2>2, NodeTypes, RangeArithmetic DEF WithinBox
    <3> QED
      BY <2>2, <2>3, <3>1, <3>2
  <2>4. CASE m \in Inner
    <3> HIDE DEF Good
    <3>1. ASSUME NEW i \in {1, 2} PROVE Good(tree[m][i]) /\ tree[m][i] \in Nodes
      BY <2>1, <2>4, TreeFacts
    <3>2. ASSUME NEW i \in {1, 2}, NEW k \in Below[tree[m][i]]
          PROVE  /\ k \in Leaves /\ WithinBox(Bounds[k], Bounds[m])
                 /\ CoversRange(Built[m].range, cellOf[k].range)
      <4>1. /\ k \in Leaves /\ WithinBox(Bounds[k], Bounds[tree[m][i]])
            /\ CoversRange(Built[tree[m][i]].range, cellOf[k].range)
        BY <3>1 DEF Good
      <4>2. /\ WithinBox(Bounds[tree[m][i]], Bounds[m])
            /\ CoversRange(Built[m].range, Built[tree[m][i]].range)
        BY <2>4, ChildIsWithin
      <4>3. k \in Nodes
        BY <4>1 DEF Nodes
      <4>4. /\ Bounds[k].x \in Ranges /\ Bounds[k].y \in Ranges
            /\ Bounds[m].x \in Ranges /\ Bounds[m].y \in Ranges
            /\ Bounds[tree[m][i]].x \in Ranges /\ Bounds[tree[m][i]].y \in Ranges
            /\ Built[m].range \in Ranges /\ Built[tree[m][i]].range \in Ranges
        BY <2>2, <3>1, <4>3, NodeTypes
      <4>5. cellOf[k].range \in Ranges
        BY <4>1, CellFacts
      <4>6. \A r, s, t \in Ranges : CoversRange(r, s) /\ CoversRange(s, t) => CoversRange(r, t)
        BY RangeArithmetic
      <4>7. WithinBox(Bounds[k], Bounds[m])
        BY <4>1, <4>2, <4>4, <4>6, Zenon DEF WithinBox
      <4>8. CoversRange(Built[m].range, cellOf[k].range)
        BY <4>1, <4>2, <4>4, <4>5, <4>6, Zenon
      <4> QED
        BY <4>1, <4>7, <4>8
    <3>3. Below[m] = Below[tree[m][1]] \cup Below[tree[m][2]]
      BY <2>4, BelowFacts
    <3>4. Good(m)
      BY <3>2, <3>3 DEF Good
    <3> QED
      BY <2>2, <3>4
  <2> QED
    BY <2>2, <2>3, <2>4 DEF Nodes
<1>2. Good(n)
  BY <1>1
<1> QED
  BY <1>2

(* Nothing of the tree changes after it is built. *)
LEMMA VolumeUnchanged ==
  ASSUME UNCHANGED <<tree, cellOf>>
  PROVE  /\ Shape' = Shape /\ Nodes' = Nodes /\ Inner' = Inner /\ Leaves' = Leaves
         /\ LevelOf' = LevelOf /\ Bounds' = Bounds /\ Built' = Built /\ Below' = Below
         /\ \A n : Parent(n)' = Parent(n) /\ Sibling(n)' = Sibling(n)
<1>1. Nodes' = Nodes /\ Inner' = Inner /\ Leaves' = Leaves /\ Shape' = Shape
  BY DEF Nodes, Inner, Leaves, Shape
<1>2. \A n : Parent(n)' = Parent(n) /\ Sibling(n)' = Sibling(n)
  BY <1>1 DEF Parent, Sibling
<1>3. LevelOf' = LevelOf
  BY <1>1 DEF LevelOf, Parent
<1>4. Bounds' = Bounds
  BY <1>1 DEF Bounds
<1>5. Built' = Built
  BY <1>1 DEF Built
<1>6. Below' = Below
  BY <1>1 DEF Below
<1> QED
  BY <1>1, <1>2, <1>3, <1>4, <1>5, <1>6

-----------------------------------------------------------------------------
(* A merged node has the hull of the values of the nodes of its level that *)
(* it overlaps, as they were built.                                        *)
IsMerged(n) ==
    /\ \A m \in Overlapping(n) : CoversRange(meta[n].range, Built[m].range)
    /\ \E m \in Overlapping(n) : meta[n].range.lo = Built[m].range.lo
    /\ \E m \in Overlapping(n) : meta[n].range.hi = Built[m].range.hi

MergedBelow(k) ==
    \A n \in Nodes : IF LevelOf[n] < k THEN IsMerged(n) ELSE meta[n] = Built[n]

LevelsAreMerged ==
    IF phase = "merge" THEN MergedBelow(level) ELSE \A n \in Nodes : IsMerged(n)

(* Merging nodes that are as they were built. *)
LEMMA MergedFacts ==
  ASSUME Shape, NEW n \in Nodes, \A m \in Overlapping(n) : meta[m] = Built[m]
  PROVE  /\ Merged(n) \in Metas
         /\ \A m \in Overlapping(n) : CoversRange(Merged(n).range, Built[m].range)
         /\ \E m \in Overlapping(n) : Merged(n).range.lo = Built[m].range.lo
         /\ \E m \in Overlapping(n) : Merged(n).range.hi = Built[m].range.hi
<1> DEFINE over == Overlapping(n)
           los  == {meta[m].range.lo : m \in over}
           his  == {meta[m].range.hi : m \in over}
           lens == {Abs(meta[m].len) : m \in over}
           lo   == CHOOSE v \in los : \A m \in over : v <= meta[m].range.lo
           hi   == CHOOSE v \in his : \A m \in over : v >= meta[m].range.hi
           len  == CHOOSE l \in lens : \A k \in lens : l <= k
<1>1. over \subseteq Nodes /\ n \in over
  BY DEF Overlapping
<1>2. IsFiniteSet(over) /\ over # {}
  BY <1>1, TreeFacts, FS_Subset
<1>3. \A m \in over : /\ meta[m].range.lo \in Int /\ meta[m].range.hi \in Int
                      /\ Abs(meta[m].len) \in Int
  <2> TAKE m \in over
  <2>1. meta[m] = Built[m] /\ m \in Nodes
    BY <1>1
  <2> QED
    BY <2>1, NodeTypes, RangeArithmetic DEF Ranges
<1> HIDE DEF over
<1>4. \E m \in over : \A k \in over : meta[m].range.lo <= meta[k].range.lo
  <2> DEFINE h == [m \in over |-> meta[m].range.lo]
  <2>1. h \in [over -> Int]
    BY <1>3
  <2>2. PICK m \in over : \A k \in over : h[m] <= h[k]
    <3> HIDE DEF h
    <3> QED
      BY <1>2, <2>1, LeastOfFinite
  <2> QED
    BY <2>2
<1>5. \E m \in over : \A k \in over : meta[k].range.hi <= meta[m].range.hi
  <2> DEFINE h == [m \in over |-> meta[m].range.hi]
  <2>1. h \in [over -> Int]
    BY <1>3
  <2>2. PICK m \in over : \A k \in over : h[k] <= h[m]
    <3> HIDE DEF h
    <3> QED
      BY <1>2, <2>1, GreatestOfFinite
  <2> QED
    BY <2>2
<1>6. \E m \in over : \A k \in over : Abs(meta[m].len) <= Abs(meta[k].len)
  <2> DEFINE h == [m \in over |-> Abs(meta[m].len)]
  <2>1. h \in [over -> Int]
    BY <1>3
  <2>2. PICK m \in over : \A k \in over : h[m] <= h[k]
    <3> HIDE DEF h
    <3> QED
      BY <1>2, <2>1, LeastOfFinite
  <2> QED
    BY <2>2
<1>7. lo \in los /\ \A m \in over : lo <= meta[m].range.lo
  BY <1>4
<1>8. hi \in his /\ \A m \in over : hi >= meta[m].range.hi
  BY <1>3, <1>5
<1>9. len \in lens
  BY <1>6
<1>10. Merged(n) = [range |-> [lo |-> lo, hi |-> hi],
                    len |-> IF IsLeafNode(n) THEN -len ELSE len]
  BY DEF Merged, over
<1>11. lo \in Int /\ hi \in Int /\ len \in Int
  BY <1>3, <1>7, <1>8, <1>9
<1>12. PICK m1 \in over : lo = meta[m1].range.lo
  BY <1>7
<1>13. PICK m2 \in over : hi = meta[m2].range.hi
  BY <1>8
<1> HIDE DEF lo, hi, len, los, his, lens
<1>14. Merged(n) \in Metas
  <2>1. [lo |-> lo, hi |-> hi] \in Ranges
    BY <1>11 DEF Ranges
  <2>2. (IF IsLeafNode(n) THEN -len ELSE len) \in Int
    BY <1>11
  <2> QED
    BY <1>10, <2>1, <2>2 DEF Metas
<1>15. Merged(n).range.lo = lo /\ Merged(n).range.hi = hi
  BY <1>10
<1>16. \A m \in over : meta[m] = Built[m]
  BY DEF over
<1>17. \A m \in over : CoversRange(Merged(n).range, Built[m].range)
  BY <1>3, <1>7, <1>8, <1>11, <1>15, <1>16 DEF CoversRange
<1> QED
  BY <1>12, <1>13, <1>14, <1>15, <1>16, <1>17 DEF over

(* Larger boxes overlap where smaller ones did. *)
LEMMA OverlapGrows ==
  ASSUME Shape, NEW a \in Nodes, NEW b \in Nodes, NEW c \in Nodes, NEW d \in Nodes,
         WithinBox(Bounds[a], Bounds[c]), WithinBox(Bounds[b], Bounds[d]),
         NodesOverlap(a, b)
  PROVE  NodesOverlap(c, d)
<1>1. \A m \in Nodes : /\ Bounds[m].x.lo \in Int /\ Bounds[m].x.hi \in Int
                       /\ Bounds[m].y.lo \in Int /\ Bounds[m].y.hi \in Int
  BY NodeTypes DEF Ranges
<1>2. /\ Bounds[c].x.lo <= Bounds[a].x.lo /\ Bounds[a].x.hi <= Bounds[c].x.hi
      /\ Bounds[c].y.lo <= Bounds[a].y.lo /\ Bounds[a].y.hi <= Bounds[c].y.hi
      /\ Bounds[d].x.lo <= Bounds[b].x.lo /\ Bounds[b].x.hi <= Bounds[d].x.hi
      /\ Bounds[d].y.lo <= Bounds[b].y.lo /\ Bounds[b].y.hi <= Bounds[d].y.hi
  BY DEF WithinBox, CoversRange
<1> QED
  BY <1>1, <1>2 DEF NodesOverlap

(* A node below the root, seen from its parent. *)
LEMMA ParentFacts ==
  ASSUME Shape, NEW n \in Nodes \ {1}
  PROVE  /\ Parent(n) \in Inner /\ Parent(n) \in Nodes
         /\ LevelOf[n] = LevelOf[Parent(n)] + 1
         /\ WithinBox(Bounds[n], Bounds[Parent(n)])
         /\ CoversRange(Built[Parent(n)].range, Built[n].range)
<1>1. IsChild(n, Parent(n))
  BY TreeFacts
<1>2. PICK i \in {1, 2} : n = tree[Parent(n)][i]
  BY <1>1 DEF IsChild
<1>3. Parent(n) \in Inner /\ Parent(n) \in Nodes
  BY <1>1 DEF IsChild, Nodes
<1> QED
  BY <1>2, <1>3, ChildIsWithin, Levels

(* After the merge: parents cover their children, and nodes the leaves of  *)
(* their level or a deeper one that they overlap.                          *)
LEMMA MergedCovers ==
  ASSUME Shape, \A n \in Nodes : IsMerged(n) /\ meta[n] \in Metas
  PROVE  /\ \A n \in Nodes \ {1} : CoversRange(meta[Parent(n)].range, meta[n].range)
         /\ \A n \in Nodes, l \in Leaves :
               LevelOf[l] >= LevelOf[n] /\ NodesOverlap(n, l) =>
                  CoversRange(meta[n].range, cellOf[l].range)
<1>1. \A n \in Nodes : /\ meta[n].range \in Ranges /\ Built[n].range \in Ranges
                       /\ LevelOf[n] \in Nat
  BY NodeTypes DEF Metas
<1>2. ASSUME NEW n \in Nodes \ {1}, NEW m \in Overlapping(n)
      PROVE  CoversRange(meta[Parent(n)].range, Built[m].range)
  <2>1. m \in Nodes /\ LevelOf[m] = LevelOf[n] /\ (m = n \/ NodesOverlap(n, m))
    BY DEF Overlapping
  <2>2. m # 1
    <3>1. LevelOf[n] = LevelOf[Parent(n)] + 1 /\ Parent(n) \in Nodes
      BY ParentFacts
    <3> QED
      BY <1>1, <2>1, <3>1, Levels
  <2>3. Parent(m) \in Overlapping(Parent(n))
    <3>1. LevelOf[Parent(m)] = LevelOf[Parent(n)]
      <4>1. /\ LevelOf[n] = LevelOf[Parent(n)] + 1 /\ Parent(n) \in Nodes
            /\ LevelOf[m] = LevelOf[Parent(m)] + 1 /\ Parent(m) \in Nodes
        BY <2>1, <2>2, ParentFacts
      <4> QED
        BY <4>1, <2>1, <1>1
    <3>2. m = n \/ NodesOverlap(Parent(n), Parent(m))
      BY <2>1, <2>2, ParentFacts, OverlapGrows
    <3> QED
      BY <3>1, <3>2, <2>1, <2>2, ParentFacts DEF Overlapping
  <2>4. CoversRange(meta[Parent(n)].range, Built[Parent(m)].range)
    BY <2>3, ParentFacts DEF IsMerged
  <2>5. CoversRange(Built[Parent(m)].range, Built[m].range)
    BY <2>1, <2>2, ParentFacts
  <2>6. Parent(n) \in Nodes /\ Parent(m) \in Nodes
    BY <2>1, <2>2, ParentFacts
  <2>7. \A r, s, t \in Ranges : CoversRange(r, s) /\ CoversRange(s, t) => CoversRange(r, t)
    BY RangeArithmetic
  <2> QED
    BY <1>1, <2>1, <2>4, <2>5, <2>6, <2>7, Zenon
<1>3. ASSUME NEW n \in Nodes \ {1}
      PROVE  CoversRange(meta[Parent(n)].range, meta[n].range)
  <2>1. PICK m1 \in Overlapping(n) : meta[n].range.lo = Built[m1].range.lo
    BY DEF IsMerged
  <2>2. PICK m2 \in Overlapping(n) : meta[n].range.hi = Built[m2].range.hi
    BY DEF IsMerged
  <2> QED
    BY <1>2, <2>1, <2>2 DEF CoversRange
<1>4. ASSUME NEW n \in Nodes, NEW l \in Leaves,
             LevelOf[l] >= LevelOf[n], NodesOverlap(n, l)
      PROVE  CoversRange(meta[n].range, cellOf[l].range)
  <2> DEFINE Deeper(m) == LevelOf[m] >= LevelOf[n] /\ (m = n \/ NodesOverlap(n, m))
             Bad == {m \in Nodes : Deeper(m) /\ ~CoversRange(meta[n].range, Built[m].range)}
  <2>1. ASSUME Bad # {} PROVE FALSE
    <3>1. PICK m \in Bad : m = 1 \/ Parent(m) \notin Bad
      <4>1. Bad \subseteq Nodes
        OBVIOUS
      <4> HIDE DEF Bad
      <4> QED
        BY <2>1, <4>1, TopMost
    <3>2. m \in Nodes /\ Deeper(m) /\ ~CoversRange(meta[n].range, Built[m].range)
      BY <3>1
    <3>3. LevelOf[m] # LevelOf[n]
      <4>1. ASSUME LevelOf[m] = LevelOf[n] PROVE m \in Overlapping(n)
        BY <4>1, <3>2 DEF Overlapping
      <4> QED
        BY <4>1, <3>2 DEF IsMerged
    <3>4. m # 1 /\ m # n /\ NodesOverlap(n, m)
      BY <3>2, <3>3, <1>1, Levels
    <3>5. /\ Parent(m) \in Nodes /\ LevelOf[m] = LevelOf[Parent(m)] + 1
          /\ WithinBox(Bounds[m], Bounds[Parent(m)])
          /\ CoversRange(Built[Parent(m)].range, Built[m].range)
      BY <3>2, <3>4, ParentFacts
    <3>6. Deeper(Parent(m))
      <4>1. LevelOf[Parent(m)] >= LevelOf[n]
        BY <3>2, <3>3, <3>5, <1>1
      <4>2. WithinBox(Bounds[n], Bounds[n])
        BY NodeTypes, RangeArithmetic DEF WithinBox
      <4>3. NodesOverlap(n, Parent(m))
        BY <3>2, <3>4, <3>5, <4>2, OverlapGrows
      <4> QED
        BY <4>1, <4>3
    <3>7. CoversRange(meta[n].range, Built[Parent(m)].range)
      BY <3>1, <3>4, <3>5, <3>6
    <3>8. \A r, s, t \in Ranges : CoversRange(r, s) /\ CoversRange(s, t) => CoversRange(r, t)
      BY RangeArithmetic
    <3> QED
      BY <1>1, <3>2, <3>5, <3>7, <3>8, Zenon
  <2>2. l \in Nodes /\ l \notin Bad
    BY <2>1 DEF Nodes
  <2>3. CoversRange(meta[n].range, Built[l].range)
    BY <1>4, <2>2
  <2> QED
    BY <2>3, BuiltFacts
<1> QED
  BY <1>3, <1>4

-----------------------------------------------------------------------------
(* TwoTo is the power of two. *)
LEMMA TwoToFacts ==
  /\ \A k \in 0 .. MaxLevel : TwoTo[k] \in Nat
  /\ TwoTo[0] = 1
  /\ \A k \in 0 .. MaxLevel : k + 1 \in 0 .. MaxLevel => TwoTo[k + 1] = 2 * TwoTo[k]
<1> DEFINE Powers(f, m) == f = [k \in 0 .. m |-> IF k = 0 THEN 1 ELSE 2 * f[k - 1]]
           Some(m) == \E f : Powers(f, m)
           Stuck == {m \in Nat : ~Some(m)}
<1>1. Some(0)
  <2> DEFINE f == [k \in 0 .. 0 |-> 1]
  <2>1. Powers(f, 0)
    OBVIOUS
  <2> QED
    BY <2>1
<1>2. ASSUME NEW m \in Nat \ {0}, Some(m - 1) PROVE Some(m)
  <2>1. PICK f : Powers(f, m - 1)
    BY <1>2
  <2> DEFINE g == [k \in 0 .. m |-> IF k < m THEN f[k] ELSE 2 * f[m - 1]]
  <2>2. \A k \in 0 .. m : g[k] = IF k = 0 THEN 1 ELSE 2 * g[k - 1]
    <3> TAKE k \in 0 .. m
    <3>1. CASE k = 0
      BY <2>1, <3>1
    <3>2. CASE k # 0 /\ k < m
      BY <2>1, <3>2
    <3>3. CASE k = m
      BY <3>3
    <3> QED
      BY <3>1, <3>2, <3>3
  <2>3. Powers(g, m)
    BY <2>2
  <2>4. \E e : Powers(e, m)
    <3> HIDE DEF Powers, g
    <3> QED
      BY <2>3
  <2> QED
    BY <2>4
<1> HIDE DEF Some
<1>3. ASSUME Stuck # {} PROVE FALSE
  <2>1. PICK m \in Stuck : \A k \in Stuck : m <= k
    BY <1>3, LeastNat
  <2>2. m \in Nat /\ ~Some(m) /\ m # 0
    BY <1>1, <2>1
  <2>3. m - 1 \notin Stuck
    <3>1. ~(m <= m - 1)
      BY <2>2
    <3> HIDE DEF Stuck
    <3> QED
      BY <2>1, <3>1
  <2> QED
    BY <1>2, <2>2, <2>3
<1>4. MaxLevel \in Nat
  BY BvhAssumption
<1>5. Powers(TwoTo, MaxLevel)
  <2>1. \E f : Powers(f, MaxLevel)
    BY <1>3, <1>4 DEF Some
  <2> QED
    BY <2>1 DEF TwoTo
<1>6. /\ TwoTo[0] = 1
      /\ \A k \in 0 .. MaxLevel : k # 0 => TwoTo[k] = 2 * TwoTo[k - 1]
  BY <1>4, <1>5
<1> DEFINE Ill == {k \in 0 .. MaxLevel : TwoTo[k] \notin Nat}
<1>7. ASSUME Ill # {} PROVE FALSE
  <2>1. Ill \in SUBSET Nat
    OBVIOUS
  <2>2. PICK m \in Ill : \A k \in Ill : m <= k
    <3> HIDE DEF Ill
    <3> QED
      BY <1>7, <2>1, LeastNat
  <2>3. m \in 0 .. MaxLevel /\ TwoTo[m] \notin Nat /\ m # 0
    BY <1>6, <2>2
  <2>4. m - 1 \in 0 .. MaxLevel /\ ~(m <= m - 1)
    <3> HIDE DEF Ill
    <3> QED
      BY <1>4, <2>3
  <2>5. m - 1 \notin Ill
    <3> HIDE DEF Ill
    <3> QED
      BY <2>2, <2>4
  <2>6. TwoTo[m - 1] \in Nat
    BY <2>4, <2>5
  <2> QED
    BY <1>6, <2>3, <2>6
<1>8. ASSUME NEW k \in 0 .. MaxLevel, k + 1 \in 0 .. MaxLevel
      PROVE  TwoTo[k + 1] = 2 * TwoTo[k]
  <2>1. k + 1 # 0 /\ (k + 1) - 1 = k
    OBVIOUS
  <2> QED
    BY <1>6, <1>8, <2>1
<1> QED
  BY <1>6, <1>7, <1>8

(* The commit of a context chooses a level of the tree, whatever the hint. *)
LEMMA DepthIsALevel ==
  ASSUME NEW bvhDepth \in Nat, NEW hint \in Int
  PROVE  BvhMaxIteratorDepth(bvhDepth, hint) \in 0 .. bvhDepth
<1> DEFINE h == ClampHint(hint)
           default == DefaultDepth(bvhDepth)
           depths == BvhDepths(bvhDepth, h)
<1>1. h \in 0 .. 100
  BY DEF ClampHint
<1>2. default \in 0 .. bvhDepth
  BY DEF DefaultDepth
<1> HIDE DEF h, default
<1>3. depths \subseteq 0 .. bvhDepth
  BY <1>2 DEF BvhDepths, default
<1>4. 0 \in depths
  <2>1. 0 \in {d \in 0 .. default : h * default >= d * 45}
    BY <1>1, <1>2
  <2> QED
    BY <2>1 DEF BvhDepths, default
<1> HIDE DEF depths
<1>5. \E d \in depths : \A e \in depths : e <= d
  BY <1>3, <1>4, GreatestNat
<1>6. Deepest(depths) \in depths
  BY <1>5 DEF Deepest
<1> QED
  BY <1>3, <1>6 DEF BvhMaxIteratorDepth, depths, h

(* The depth of the hierarchy is the level of a node. *)
LEMMA BvhDepthIsALevel ==
  ASSUME Shape
  PROVE  BvhDepth \in 0 .. MaxLevel
<1> DEFINE T == {LevelOf[n] : n \in Nodes}
<1>1. T \subseteq 0 .. MaxLevel /\ T # {}
  BY Levels, TreeFacts
<1>2. \E d \in T : \A e \in T : e <= d
  <2> HIDE DEF T
  <2> QED
    BY <1>1, GreatestNat, BvhAssumption
<1>3. \E d \in T : \A n \in Nodes : LevelOf[n] <= d
  BY <1>2
<1> QED
  BY <1>1, <1>3 DEF BvhDepth

-----------------------------------------------------------------------------
(* a place in the tree whose bit stack has at most a bit for every level   *)
IsPlace(n, b) == b < TwoTo[LevelOf[n]]

Stacks == RestartsInsideTheTree /\ IsPlace(first.node, first.bitstack)

(* the closest node found in a call lies on the rest of the ray *)
HitIsAhead ==
    phase \in {"traverse", "backtrack"} =>
        hit.lo = Inf \/ (tLower <= hit.lo /\ hit.lo < hit.hi /\ hit.hi < Inf)

InTree == Shape /\ TypeOK /\ LevelsAreMerged /\ Stacks /\ HitIsAhead

(* A hierarchy that was just built has the invariant of the tree. *)
LEMMA InitInTree == Init => InTree
<1> SUFFICES ASSUME Init PROVE InTree
  OBVIOUS
<1>1. Shape
  BY DEF Init, Shape
<1>2. meta = Built /\ phase = "merge" /\ level = 0
  BY DEF Init
<1>3. LevelsAreMerged
  BY <1>1, <1>2, NodeTypes DEF LevelsAreMerged, MergedBelow
<1>4. LevelOf[1] = 0 /\ TwoTo[0] = 1 /\ 1 \in Nodes
  BY <1>1, Levels, TwoToFacts, TreeFacts
<1>5. Stacks
  BY <1>4 DEF Init, Stacks, RestartsInsideTheTree, IsPlace
<1>6. HitIsAhead
  BY <1>2 DEF HitIsAhead
<1>7. cellOf \in [Leaves -> Cells] /\ meta \in [Nodes -> [range : Ranges, len : Int]]
  BY <1>1, <1>2, TreeFacts, BuiltFacts DEF Metas
<1>8. LevelOf \in [Nodes -> 0 .. MaxLevel] /\ level \in 0 .. MaxLevel
  BY <1>1, <1>2, Levels, BvhAssumption
<1>9. TypeOK
  <2>1. /\ 0 \in 0 .. MaxLevel /\ 0 \in 0 .. Inf /\ Inf \in Int
        /\ [lo |-> 0, hi |-> 0] \in Ranges /\ [lo |-> Inf, hi |-> Inf] \in Ranges
    BY BvhAssumption DEF Ranges
  <2>2. start \in [node : Nodes, bitstack : Nat] /\ first \in [node : Nodes, bitstack : Nat]
    BY <1>4 DEF Init
  <2>3. hit \in Ranges /\ interval \in Ranges /\ query \in Ranges
    BY <2>1 DEF Init
  <2> QED
    BY <1>4, <1>7, <1>8, <2>1, <2>2, <2>3 DEF Init, TypeOK
<1> QED
  BY <1>1, <1>3, <1>5, <1>6, <1>9 DEF InTree

(* What is merged stays merged while the metadata does. *)
LEMMA IsMergedUnchanged ==
  ASSUME UNCHANGED <<tree, cellOf>>, NEW n, meta'[n] = meta[n]
  PROVE  IsMerged(n)' = IsMerged(n)
<1>1. Overlapping(n)' = Overlapping(n)
  BY VolumeUnchanged DEF Overlapping, NodesOverlap
<1> QED
  BY <1>1, VolumeUnchanged DEF IsMerged

(* What a step after the merge keeps. *)
LEMMA VolumeStays ==
  ASSUME InTree, UNCHANGED volume, phase # "merge", phase' # "merge"
  PROVE  /\ Shape' /\ LevelsAreMerged'
         /\ (cellOf \in [Leaves -> Cells])'
         /\ (meta \in [Nodes -> [range : Ranges, len : Int]])'
         /\ (LevelOf \in [Nodes -> 0 .. MaxLevel])' /\ (level \in 0 .. MaxLevel)'
         /\ Nodes' = Nodes /\ Inner' = Inner /\ Leaves' = Leaves /\ LevelOf' = LevelOf
         /\ \A n : Parent(n)' = Parent(n) /\ Sibling(n)' = Sibling(n)
<1>1. UNCHANGED <<tree, cellOf>> /\ UNCHANGED <<meta, level>>
  BY DEF volume
<1>2. \A n \in Nodes : IsMerged(n)' = IsMerged(n)
  BY <1>1, IsMergedUnchanged
<1>3. \A n \in Nodes : IsMerged(n)
  BY DEF InTree, LevelsAreMerged
<1>4. LevelsAreMerged'
  BY <1>1, <1>2, <1>3, VolumeUnchanged DEF LevelsAreMerged
<1> QED
  BY <1>1, <1>4, VolumeUnchanged DEF InTree, TypeOK

(* Merging a level leaves the levels below as they were built. *)
LEMMA MergeLevelInTree ==
  ASSUME InTree, MergeLevel
  PROVE  InTree'
<1>1. /\ phase = "merge" /\ MergedBelow(level) /\ Shape /\ TypeOK
      /\ UNCHANGED <<tree, cellOf>>
  BY DEF InTree, MergeLevel, LevelsAreMerged
<1>2. meta' = [n \in Nodes |-> IF LevelOf[n] = level THEN Merged(n) ELSE meta[n]]
  BY DEF MergeLevel
<1>3. /\ \A n \in Nodes : LevelOf[n] \in 0 .. MaxLevel /\ meta[n] \in Metas
      /\ level \in 0 .. MaxLevel
  BY <1>1 DEF TypeOK, Metas
<1>4. ASSUME NEW n \in Nodes, LevelOf[n] = level
      PROVE  meta'[n] \in Metas /\ IsMerged(n)'
  <2>1. meta'[n] = Merged(n)
    BY <1>2, <1>4
  <2>2. \A m \in Overlapping(n) : meta[m] = Built[m]
    BY <1>1, <1>3, <1>4 DEF Overlapping, MergedBelow
  <2>3. Overlapping(n)' = Overlapping(n)
    BY <1>1, VolumeUnchanged DEF Overlapping, NodesOverlap
  <2> QED
    BY <1>1, <2>1, <2>2, <2>3, MergedFacts, VolumeUnchanged DEF IsMerged
<1>5. ASSUME NEW n \in Nodes, LevelOf[n] # level
      PROVE  /\ meta'[n] = meta[n]
             /\ LevelOf[n] < level => IsMerged(n)'
             /\ LevelOf[n] > level => meta'[n] = Built[n]
  <2>1. meta'[n] = meta[n]
    BY <1>2, <1>5
  <2>2. IsMerged(n)' = IsMerged(n)
    BY <1>1, <2>1, IsMergedUnchanged
  <2> QED
    BY <1>1, <1>3, <2>1, <2>2 DEF MergedBelow
<1>6. meta' \in [Nodes -> Metas]
  BY <1>2, <1>3, <1>4, <1>5
<1>7. /\ Nodes' = Nodes /\ LevelOf' = LevelOf /\ Built' = Built /\ Inner' = Inner
      /\ Leaves' = Leaves /\ Shape'
  BY <1>1, VolumeUnchanged
<1>8. LevelsAreMerged' /\ level' \in 0 .. MaxLevel /\ phase' \in {"merge", "committed"}
  <2>1. CASE \E n \in Nodes : LevelOf[n] > level
    <3>1. level' = level + 1 /\ phase' = "merge"
      BY <1>1, <2>1 DEF MergeLevel
    <3>2. level + 1 \in 0 .. MaxLevel
      <4>1. PICK n \in Nodes : LevelOf[n] > level
        BY <2>1
      <4>2. LevelOf[n] \in 0 .. MaxLevel /\ level \in 0 .. MaxLevel
        BY <1>3
      <4> QED
        BY <4>1, <4>2, BvhAssumption
    <3>3. \A n \in Nodes : IF LevelOf[n] < level + 1 THEN IsMerged(n)' ELSE meta'[n] = Built[n]
      BY <1>3, <1>4, <1>5
    <3> QED
      BY <1>7, <3>1, <3>2, <3>3 DEF LevelsAreMerged, MergedBelow
  <2>2. CASE ~\E n \in Nodes : LevelOf[n] > level
    <3>1. level' = level /\ phase' = "committed"
      BY <2>2 DEF MergeLevel
    <3>2. \A n \in Nodes : IsMerged(n)'
      BY <1>3, <1>4, <1>5, <2>2
    <3> QED
      BY <1>3, <1>7, <3>1, <3>2 DEF LevelsAreMerged
  <2> QED
    BY <2>1, <2>2
<1>9. Stacks' /\ HitIsAhead'
  BY <1>7, <1>8 DEF InTree, MergeLevel, call, results, Stacks, RestartsInsideTheTree,
                    IsPlace, HitIsAhead
<1>10. TypeOK'
  BY <1>1, <1>6, <1>7, <1>8 DEF TypeOK, Metas, MergeLevel, call, results, context
<1> QED
  BY <1>7, <1>8, <1>9, <1>10 DEF InTree

(* A context chooses a depth of the tree. *)
LEMMA CommitContextInTree ==
  ASSUME InTree, CommitContext
  PROVE  InTree'
<1>1. /\ phase = "committed" /\ phase' = "context" /\ query' \in Queries
      /\ UNCHANGED volume /\ UNCHANGED call /\ UNCHANGED results
  BY DEF CommitContext
<1>2. PICK kind \in {"interval", "hit"}, hint \in Hints, cellsSupported \in BOOLEAN :
          /\ maxIteratorDepth' = BvhMaxIteratorDepth(BvhDepth, hint)
          /\ elementary' = (cellsSupported /\ AsksForCells(kind, hint))
  BY DEF CommitContext
<1>3. maxIteratorDepth' \in 0 .. MaxLevel
  <2>1. BvhDepth \in 0 .. MaxLevel /\ hint \in Int /\ MaxLevel \in Nat
    BY BvhDepthIsALevel, BvhAssumption DEF InTree
  <2>2. maxIteratorDepth' \in 0 .. BvhDepth
    BY <1>2, <2>1, DepthIsALevel
  <2> QED
    BY <2>1, <2>2
<1>4. elementary' \in BOOLEAN /\ query' \in Ranges
  BY <1>1, <1>2, BvhAssumption DEF AsksForCells
<1>5. TypeOK'
  BY <1>1, <1>3, <1>4, VolumeStays DEF InTree, TypeOK, call, results
<1>6. Stacks' /\ HitIsAhead'
  BY <1>1, VolumeStays DEF InTree, call, results, Stacks, RestartsInsideTheTree, IsPlace,
                           HitIsAhead
<1> QED
  BY <1>1, <1>5, <1>6, VolumeStays DEF InTree

(* the t of a leaf that the context asks for *)
Asked ==
    [l \in Leaves |-> IF Meet(query, cellOf[l].range)
                      THEN IF elementary THEN Inside(l) ELSE InBox(l)
                      ELSE {}]

(* What is asked of a leaf is in its box, on the ray. *)
LEMMA AskedIsOnTheRay ==
  ASSUME Shape, NEW l \in Leaves
  PROVE  /\ Asked[l] \subseteq 0 .. Inf - 1
         /\ Asked[l] \subseteq InBox(l)
         /\ elementary => Asked[l] \subseteq Inside(l)
         /\ Asked[l] # {} => Meet(query, cellOf[l].range)
<1>1. /\ cellOf[l].x.lo <= cellOf[l].cell.lo
      /\ cellOf[l].cell.hi <= cellOf[l].x.hi /\ cellOf[l].x.hi < Inf
      /\ cellOf[l].cell \in Ranges /\ cellOf[l].x \in Ranges
  BY TreeFacts, CellFacts
<1>2. Inside(l) \subseteq InBox(l) /\ InBox(l) \subseteq 0 .. Inf - 1
  BY <1>1, BvhAssumption DEF Inside, InBox, Along, Ranges
<1>3. Asked[l] = IF Meet(query, cellOf[l].range)
                 THEN IF elementary THEN Inside(l) ELSE InBox(l)
                 ELSE {}
  BY DEF Asked
<1> QED
  BY <1>2, <1>3

(* An iterator has to find what is asked of the leaves. *)
LEMMA RequiredIsAsked ==
  ASSUME Initialize
  PROVE  required' = UNION {Asked[l] : l \in Leaves}
<1>1. required' = UNION {IF elementary THEN Inside(l) ELSE InBox(l) :
                             l \in {m \in Leaves : Meet(query, cellOf[m].range)}}
  BY DEF Initialize
<1>2. ASSUME NEW l \in Leaves
      PROVE  Asked[l] = IF Meet(query, cellOf[l].range)
                        THEN IF elementary THEN Inside(l) ELSE InBox(l)
                        ELSE {}
  BY DEF Asked
<1> QED
  BY <1>1, <1>2

(* An iterator begins at the root with no bits. *)
LEMMA InitializeInTree ==
  ASSUME InTree, Initialize
  PROVE  InTree'
<1>1. /\ phase = "context" /\ phase' = "ready" /\ tLower' = 0
      /\ start' = [node |-> 1, bitstack |-> 0]
      /\ UNCHANGED interval /\ UNCHANGED volume /\ UNCHANGED call /\ UNCHANGED context
  BY DEF Initialize
<1>2. required' \subseteq 0 .. Inf
  <2>1. \A l \in Leaves : Asked[l] \subseteq 0 .. Inf - 1
    BY AskedIsOnTheRay DEF InTree
  <2>2. 0 .. Inf - 1 \subseteq 0 .. Inf
    BY BvhAssumption
  <2> QED
    BY <2>1, <2>2, RequiredIsAsked
<1>3. 1 \in Nodes /\ LevelOf[1] = 0 /\ TwoTo[0] = 1 /\ 0 \in 0 .. Inf
  BY TreeFacts, Levels, TwoToFacts, BvhAssumption DEF InTree
<1>4. TypeOK'
  <2>1. start' \in [node : Nodes, bitstack : Nat]
    BY <1>1, <1>3
  <2> QED
    BY <1>1, <1>2, <1>3, <2>1, VolumeStays DEF InTree, TypeOK, call, context
<1>5. Stacks' /\ HitIsAhead'
  BY <1>1, <1>3, VolumeStays DEF InTree, call, Stacks, RestartsInsideTheTree, IsPlace,
                                HitIsAhead
<1> QED
  BY <1>1, <1>4, <1>5, VolumeStays DEF InTree

(* A call begins at the place where the last one had its first hit. *)
LEMMA CallIterateInTree ==
  ASSUME InTree, CallIterate
  PROVE  InTree'
<1>1. /\ phase = "ready" /\ phase' = "traverse"
      /\ node' = start.node /\ bitstack' = start.bitstack
      /\ hit' = [lo |-> Inf, hi |-> Inf] /\ UNCHANGED first
      /\ UNCHANGED volume /\ UNCHANGED context /\ UNCHANGED results
  BY DEF CallIterate
<1>2. TypeOK'
  <2>1. hit' \in Ranges /\ node' \in Nodes /\ bitstack' \in Nat
    BY <1>1, BvhAssumption DEF InTree, TypeOK, Ranges
  <2> QED
    BY <1>1, <2>1, VolumeStays DEF InTree, TypeOK, context, results
<1>3. Stacks' /\ HitIsAhead'
  BY <1>1, VolumeStays DEF InTree, results, Stacks, RestartsInsideTheTree, IsPlace,
                           HitIsAhead
<1> QED
  BY <1>1, <1>2, <1>3, VolumeStays DEF InTree

(* The nearer of the children that the ray enters. *)
Choice == CHOOSE i \in Entered : \A j \in Entered \ {i} : Nearer(i, j)

(* The child that is visited first is one of those entered. *)
LEMMA ChoiceFacts ==
  ASSUME InTree, node \in Inner, Entered # {}
  PROVE  Choice \in Entered /\ Choice \in {1, 2}
<1>1. Entered \subseteq {1, 2}
  BY DEF Entered
<1>2. \A i \in {1, 2} : ChildRange(i).lo \in Int
  <2> TAKE i \in {1, 2}
  <2>1. tree[node][i] \in Nodes
    BY TreeFacts DEF InTree
  <2>2. Bounds[tree[node][i]].x \in Ranges
    BY <2>1, NodeTypes DEF InTree
  <2>3. [lo |-> tLower, hi |-> hit.lo] \in Ranges
    BY BvhAssumption DEF InTree, TypeOK, Ranges
  <2>4. Clip(Bounds[tree[node][i]].x, [lo |-> tLower, hi |-> hit.lo]) \in Ranges
    BY <2>2, <2>3, RangeArithmetic
  <2>5. Nothing \in Ranges
    BY BvhAssumption DEF Nothing, Ranges
  <2> QED
    BY <2>4, <2>5 DEF ChildRange, Intersect, Ranges
<1>3. \E i \in Entered : \A j \in Entered \ {i} : Nearer(i, j)
  <2>1. CASE Entered = {1}
    BY <2>1
  <2>2. CASE Entered = {2}
    BY <2>2
  <2>3. CASE Entered = {1, 2}
    <3>1. Nearer(1, 2) \/ Nearer(2, 1)
      BY <1>2 DEF Nearer
    <3> QED
      BY <2>3, <3>1
  <2> QED
    BY <1>1, <2>1, <2>2, <2>3
<1>4. Choice \in Entered
  BY <1>3 DEF Choice
<1> QED
  BY <1>1, <1>4

(* A turn is recorded for the level that is entered. *)
LEMMA PlaceOfChild ==
  ASSUME Shape, NEW n \in Inner, NEW i \in {1, 2}, NEW b \in Nat, IsPlace(n, b)
  PROVE  IsPlace(tree[n][i], 2 * b) /\ IsPlace(tree[n][i], 2 * b + 1)
<1>1. n \in Nodes /\ tree[n][i] \in Nodes
  BY TreeFacts DEF Nodes
<1>2. /\ LevelOf[n] \in 0 .. MaxLevel /\ LevelOf[n] + 1 \in 0 .. MaxLevel
      /\ LevelOf[tree[n][i]] = LevelOf[n] + 1
  BY <1>1, Levels
<1>3. TwoTo[LevelOf[n]] \in Nat /\ TwoTo[LevelOf[tree[n][i]]] = 2 * TwoTo[LevelOf[n]]
  BY <1>2, TwoToFacts
<1> QED
  BY <1>3 DEF IsPlace

(* Descending adds a bit and a level. *)
LEMMA DescendInTree ==
  ASSUME InTree, Descend
  PROVE  InTree'
<1>1. /\ phase = "traverse" /\ node \in Inner
      /\ UNCHANGED <<hit, first>>
      /\ UNCHANGED volume /\ UNCHANGED context /\ UNCHANGED results
  BY DEF Descend, Descends
<1>2. phase' \in {"traverse", "backtrack"} /\ node' \in Nodes /\ bitstack' \in Nat
       /\ IsPlace(node', bitstack')
  <2>1. CASE Entered = {}
    BY <1>1, <2>1 DEF Descend, InTree, TypeOK, Stacks, RestartsInsideTheTree, IsPlace
  <2>2. CASE Entered # {}
    <3>1. /\ node' = tree[node][Choice] /\ phase' = phase
          /\ bitstack' = 2 * bitstack + IF Entered = {1, 2} THEN 1 ELSE 0
      BY <2>2 DEF Descend, Choice
    <3>2. Choice \in {1, 2} /\ node' \in Nodes /\ bitstack \in Nat
      BY <1>1, <2>2, <3>1, ChoiceFacts, TreeFacts DEF InTree, TypeOK
    <3>3. bitstack' = 2 * bitstack \/ bitstack' = 2 * bitstack + 1
      BY <3>1, <3>2
    <3>4. IsPlace(node, bitstack)
      BY DEF InTree, Stacks, RestartsInsideTheTree, IsPlace
    <3>5. IsPlace(node', bitstack')
      BY <1>1, <3>1, <3>2, <3>3, <3>4, PlaceOfChild DEF InTree
    <3> QED
      BY <1>1, <3>1, <3>2, <3>3, <3>5
  <2> QED
    BY <2>1, <2>2
<1>3. phase # "merge" /\ phase' # "merge"
  BY <1>1, <1>2
<1>4. TypeOK'
  BY <1>1, <1>2, <1>3, VolumeStays DEF InTree, TypeOK, context, results
<1>5. Stacks' /\ HitIsAhead'
  BY <1>1, <1>2, <1>3, VolumeStays DEF InTree, results, Stacks, RestartsInsideTheTree,
                                       IsPlace, HitIsAhead
<1> QED
  BY <1>1, <1>3, <1>4, <1>5, VolumeStays DEF InTree

(* The part of the ray in a node that is tested lies ahead. *)
LEMMA NodeRangeFacts ==
  ASSUME InTree
  PROVE  /\ NodeRange \in Ranges
         /\ ~IsEmpty(NodeRange) => /\ tLower <= NodeRange.lo /\ NodeRange.lo < NodeRange.hi
                                   /\ NodeRange.hi < Inf
<1> DEFINE ray == [lo |-> tLower, hi |-> Inf - 1]
<1>1. ray \in Ranges /\ Nothing \in Ranges /\ IsEmpty(Nothing)
  BY BvhAssumption DEF InTree, TypeOK, Ranges, Nothing, IsEmpty
<1>2. PICK box : NodeRange = Intersect(box, ray, meta[node].range) /\ box.x \in Ranges
  <2>1. node \in Nodes
    BY DEF InTree, TypeOK
  <2>2. CASE node \in Leaves /\ elementary
    <3>1. cellOf[node].cell \in Ranges
      BY <2>2, CellFacts DEF InTree
    <3> QED
      BY <2>2, <3>1 DEF NodeRange
  <2>3. CASE ~(node \in Leaves /\ elementary)
    BY <2>1, <2>3, NodeTypes DEF NodeRange, InTree
  <2> QED
    BY <2>2, <2>3
<1>3. NodeRange = Nothing \/ NodeRange = Clip(box.x, ray)
  BY <1>2 DEF Intersect
<1>4. Clip(box.x, ray) \in Ranges
  BY <1>1, <1>2, RangeArithmetic
<1>5. Clip(box.x, ray).lo >= tLower /\ Clip(box.x, ray).hi <= Inf - 1
  BY <1>1, <1>2, BvhAssumption DEF Clip, Least, Greatest, Ranges
<1> QED
  BY <1>1, <1>3, <1>4, <1>5, BvhAssumption DEF IsEmpty, Ranges

(* A hit replaces one that is farther, and lies ahead. *)
LEMMA TestNodeInTree ==
  ASSUME InTree, TestNode
  PROVE  InTree'
<1>1. /\ phase = "traverse" /\ phase' = "backtrack"
      /\ UNCHANGED <<node, bitstack>>
      /\ UNCHANGED volume /\ UNCHANGED context /\ UNCHANGED results
  BY DEF TestNode
<1>2. /\ hit' \in Ranges /\ first' \in [node : Nodes, bitstack : Nat]
      /\ IsPlace(first'.node, first'.bitstack)
      /\ hit'.lo = Inf \/ (tLower <= hit'.lo /\ hit'.lo < hit'.hi /\ hit'.hi < Inf)
  <2>1. CASE ~IsEmpty(NodeRange) /\ NodeRange.lo < hit.lo
    <3>1. first' = RestartPoint(first, hit, node, bitstack) /\ hit' = NodeRange
      BY <2>1 DEF TestNode
    <3> QED
      BY <2>1, <3>1, NodeRangeFacts DEF RestartPoint, InTree, TypeOK, Stacks,
                                        RestartsInsideTheTree, IsPlace
  <2>2. CASE ~(~IsEmpty(NodeRange) /\ NodeRange.lo < hit.lo)
    BY <1>1, <2>2 DEF TestNode, InTree, TypeOK, Stacks, HitIsAhead
  <2> QED
    BY <2>1, <2>2
<1>3. TypeOK'
  BY <1>1, <1>2, VolumeStays DEF InTree, TypeOK, context, results
<1>4. Stacks' /\ HitIsAhead'
  BY <1>1, <1>2, VolumeStays DEF InTree, results, Stacks, RestartsInsideTheTree,
                                 IsPlace, HitIsAhead
<1> QED
  BY <1>1, <1>3, <1>4, VolumeStays DEF InTree

(* Backtracking never leaves the root: a bit is a level. *)
LEMMA TurnsAreLevels ==
  ASSUME Shape, NEW n \in Nodes, NEW b \in Nat, b # 0, IsPlace(n, b)
  PROVE  /\ n # 1
         /\ Parent(n) \in Nodes /\ IsPlace(Parent(n), b \div 2) /\ b \div 2 \in Nat
         /\ Sibling(n) \in Nodes /\ IsPlace(Sibling(n), b - 1)
<1>1. n # 1
  BY Levels, TwoToFacts DEF IsPlace
<1>2. /\ Parent(n) \in Nodes /\ LevelOf[n] = LevelOf[Parent(n)] + 1
      /\ LevelOf[n] \in 0 .. MaxLevel /\ LevelOf[Parent(n)] \in 0 .. MaxLevel
  BY <1>1, ParentFacts, NodeTypes
<1>3. TwoTo[LevelOf[Parent(n)]] \in Nat /\ TwoTo[LevelOf[n]] = 2 * TwoTo[LevelOf[Parent(n)]]
  BY <1>2, TwoToFacts
<1>4. /\ Sibling(n) \in Nodes \ {1} /\ Parent(Sibling(n)) = Parent(n)
  BY <1>1, Family
<1>5. LevelOf[Sibling(n)] = LevelOf[n]
  BY <1>2, <1>4, ParentFacts
<1> QED
  BY <1>1, <1>2, <1>3, <1>4, <1>5 DEF IsPlace

(* Backtracking takes a bit and a level, or turns at a bit that is set. *)
LEMMA BacktrackInTree ==
  ASSUME InTree, Backtrack
  PROVE  InTree'
<1>1. /\ phase = "backtrack" /\ bitstack # 0 /\ UNCHANGED <<hit, first>>
      /\ UNCHANGED volume /\ UNCHANGED context /\ UNCHANGED results
  BY DEF Backtrack
<1>2. node \in Nodes /\ bitstack \in Nat /\ IsPlace(node, bitstack) /\ Shape
  BY DEF InTree, TypeOK, Stacks, RestartsInsideTheTree, IsPlace
<1>3. /\ phase' \in {"traverse", "backtrack"} /\ node' \in Nodes /\ bitstack' \in Nat
      /\ IsPlace(node', bitstack')
  <2>1. CASE bitstack % 2 = 0
    <3>1. node' = Parent(node) /\ bitstack' = bitstack \div 2 /\ phase' = phase
      BY <2>1 DEF Backtrack
    <3> QED
      BY <1>1, <1>2, <3>1, TurnsAreLevels
  <2>2. CASE bitstack % 2 # 0
    <3>1. node' = Sibling(node) /\ bitstack' = bitstack - 1 /\ phase' = "traverse"
      BY <2>2 DEF Backtrack
    <3>2. bitstack' \in Nat
      BY <1>1, <1>2, <3>1
    <3> QED
      BY <1>1, <1>2, <3>1, <3>2, TurnsAreLevels
  <2> QED
    BY <2>1, <2>2
<1>4. phase # "merge" /\ phase' # "merge"
  BY <1>1, <1>3
<1>5. TypeOK'
  BY <1>1, <1>3, <1>4, VolumeStays DEF InTree, TypeOK, context, results
<1>6. Stacks' /\ HitIsAhead'
  BY <1>1, <1>3, <1>4, VolumeStays DEF InTree, results, Stacks, RestartsInsideTheTree,
                                       IsPlace, HitIsAhead
<1> QED
  BY <1>1, <1>4, <1>5, <1>6, VolumeStays DEF InTree

(* The next call continues at a place in the tree. *)
LEMMA ReturnInTree ==
  ASSUME InTree, Return
  PROVE  InTree'
<1>1. /\ phase = "backtrack" /\ phase' \in {"done", "ready"}
      /\ UNCHANGED volume /\ UNCHANGED context /\ UNCHANGED call
  BY DEF Return
<1>2. /\ tLower' \in 0 .. Inf /\ start' \in {start, first} /\ interval' \in Ranges
      /\ required' = required
  <2>1. CASE hit.lo = Inf \/ IsEmpty(hit)
    BY <2>1 DEF Return, results, InTree, TypeOK
  <2>2. CASE ~(hit.lo = Inf \/ IsEmpty(hit))
    <3>1. /\ tLower' = hit.hi /\ start' = first /\ interval' = hit /\ required' = required
      BY <2>2 DEF Return, NextLower
    <3>2. tLower <= hit.lo /\ hit.lo < hit.hi /\ hit.hi < Inf
      BY <1>1, <2>2 DEF InTree, HitIsAhead
    <3>3. tLower \in 0 .. Inf /\ hit.lo \in Int /\ hit.hi \in Int /\ hit \in Ranges
      BY DEF InTree, TypeOK, Ranges
    <3> QED
      BY <3>1, <3>2, <3>3, BvhAssumption
  <2> QED
    BY <2>1, <2>2
<1>3. TypeOK'
  BY <1>1, <1>2, VolumeStays DEF InTree, TypeOK, context, call
<1>4. Stacks' /\ HitIsAhead'
  BY <1>1, <1>2, VolumeStays DEF InTree, call, Stacks, RestartsInsideTheTree,
                                 IsPlace, HitIsAhead
<1> QED
  BY <1>1, <1>3, <1>4, VolumeStays DEF InTree

(* Every step keeps the invariant of the tree. *)
LEMMA NextInTree == InTree /\ [Next]_vars => InTree'
<1> SUFFICES ASSUME InTree, [Next]_vars PROVE InTree'
  OBVIOUS
<1>1. CASE UNCHANGED vars
  <2>1. UNCHANGED <<tree, cellOf, meta>>
    BY <1>1 DEF vars
  <2>2. \A n \in Nodes : IsMerged(n)' = IsMerged(n)
    BY <2>1, IsMergedUnchanged
  <2>3. LevelsAreMerged'
    BY <1>1, <2>1, <2>2, VolumeUnchanged DEF vars, InTree, LevelsAreMerged, MergedBelow
  <2>4. TypeOK'
    BY <1>1, <2>1, VolumeUnchanged DEF vars, InTree, TypeOK
  <2>5. Stacks' /\ HitIsAhead' /\ Shape'
    BY <1>1, <2>1, VolumeUnchanged DEF vars, InTree, Stacks, RestartsInsideTheTree, IsPlace,
                                       HitIsAhead
  <2> QED
    BY <2>3, <2>4, <2>5 DEF InTree
<1> QED
  BY <1>1, MergeLevelInTree, CommitContextInTree, InitializeInTree, CallIterateInTree,
     DescendInTree, TestNodeInTree, BacktrackInTree, ReturnInTree
     DEF Next, Traversal, Done
-----------------------------------------------------------------------------
(* a road from node n with bit stack b upwards, k levels *)
IsRoad(up, bits, k, n, b) ==
    /\ up \in [0 .. k -> Nodes] /\ bits \in [0 .. k -> Nat]
    /\ up[0] = n /\ bits[0] = b
    /\ \A i \in 0 .. k - 1 : /\ up[i] # 1 /\ up[i + 1] = Parent(up[i])
                             /\ bits[i + 1] = bits[i] \div 2

(* with a turn at its end, to a sibling above the leaf l *)
IsTurn(up, bits, k, n, b, l) ==
    /\ IsRoad(up, bits, k, n, b)
    /\ bits[k] % 2 = 1 /\ up[k] # 1 /\ l \in Below[Sibling(up[k])]

TurnsTo(n, b, l) == \E k \in Nat : \E up, bits : IsTurn(up, bits, k, n, b, l)

(* the leaves that backtracking from a place in the tree will still reach *)
Pending ==
    [p \in Nodes \X Nat |-> {l \in Leaves : TurnsTo(p[1], p[2], l)}]

(* A set lowest bit is a turn to the sibling. *)
LEMMA TurnHere ==
  ASSUME Shape, NEW n \in Nodes \ {1}, NEW b \in Nat, NEW l,
         b % 2 = 1, l \in Below[Sibling(n)]
  PROVE  TurnsTo(n, b, l)
<1> DEFINE up == [i \in 0 .. 0 |-> n]
           bits == [i \in 0 .. 0 |-> b]
<1>1. IsTurn(up, bits, 0, n, b, l)
  BY DEF IsTurn, IsRoad
<1> HIDE DEF up, bits
<1> QED
  BY <1>1 DEF TurnsTo

(* A turn on the way from the parent is one on the way from the child. *)
LEMMA TurnAbove ==
  ASSUME Shape, NEW n \in Nodes \ {1}, NEW b \in Nat, NEW l,
         TurnsTo(Parent(n), b \div 2, l)
  PROVE  TurnsTo(n, b, l)
<1>1. PICK k \in Nat : \E up, bits : IsTurn(up, bits, k, Parent(n), b \div 2, l)
  BY DEF TurnsTo
<1>2. PICK up, bits : IsTurn(up, bits, k, Parent(n), b \div 2, l)
  BY <1>1
<1> DEFINE u == [i \in 0 .. k + 1 |-> IF i = 0 THEN n ELSE up[i - 1]]
           c == [i \in 0 .. k + 1 |-> IF i = 0 THEN b ELSE bits[i - 1]]
<1>3. /\ up \in [0 .. k -> Nodes] /\ bits \in [0 .. k -> Nat]
      /\ up[0] = Parent(n) /\ bits[0] = b \div 2
      /\ \A i \in 0 .. k - 1 : /\ up[i] # 1 /\ up[i + 1] = Parent(up[i])
                               /\ bits[i + 1] = bits[i] \div 2
      /\ bits[k] % 2 = 1 /\ up[k] # 1 /\ l \in Below[Sibling(up[k])]
  BY <1>2 DEF IsTurn, IsRoad
<1>4. \A i \in 0 .. k : u[i + 1] = up[i] /\ c[i + 1] = bits[i]
  OBVIOUS
<1>5. u[0] = n /\ c[0] = b
  OBVIOUS
<1>6. u \in [0 .. k + 1 -> Nodes] /\ c \in [0 .. k + 1 -> Nat]
  <2>1. \A i \in 0 .. k + 1 : u[i] \in Nodes /\ c[i] \in Nat
    BY <1>3
  <2> QED
    BY <2>1
<1> HIDE DEF u, c
<1>7. ASSUME NEW i \in 0 .. k
      PROVE  /\ u[i] # 1 /\ u[i + 1] = Parent(u[i])
             /\ c[i + 1] = c[i] \div 2
  <2>1. CASE i = 0
    BY <1>3, <1>4, <1>5, <2>1
  <2>2. CASE i # 0
    <3>1. i - 1 \in 0 .. k - 1 /\ (i - 1) + 1 = i
      BY <2>2
    <3>2. u[i] = up[i - 1] /\ c[i] = bits[i - 1] /\ i - 1 \in 0 .. k
      BY <1>4, <3>1
    <3>3. u[i + 1] = up[i] /\ c[i + 1] = bits[i]
      BY <1>4
    <3> QED
      BY <1>3, <3>1, <3>2, <3>3
  <2> QED
    BY <2>1, <2>2
<1>8. IsTurn(u, c, k + 1, n, b, l)
  <2>1. (k + 1) - 1 = k /\ u[k + 1] = up[k] /\ c[k + 1] = bits[k]
    BY <1>4
  <2> QED
    BY <1>3, <1>5, <1>6, <1>7, <2>1 DEF IsTurn, IsRoad
<1> QED
  BY <1>8 DEF TurnsTo

(* ... and there are no others. *)
LEMMA TurnIsHereOrAbove ==
  ASSUME Shape, NEW n \in Nodes, NEW b \in Nat, NEW l, TurnsTo(n, b, l)
  PROVE  /\ n # 1
         /\ (b % 2 = 1 /\ l \in Below[Sibling(n)]) \/ TurnsTo(Parent(n), b \div 2, l)
<1>1. PICK k \in Nat : \E up, bits : IsTurn(up, bits, k, n, b, l)
  BY DEF TurnsTo
<1>2. PICK up, bits : IsTurn(up, bits, k, n, b, l)
  BY <1>1
<1>3. /\ up \in [0 .. k -> Nodes] /\ bits \in [0 .. k -> Nat]
      /\ up[0] = n /\ bits[0] = b
      /\ \A i \in 0 .. k - 1 : /\ up[i] # 1 /\ up[i + 1] = Parent(up[i])
                               /\ bits[i + 1] = bits[i] \div 2
      /\ bits[k] % 2 = 1 /\ up[k] # 1 /\ l \in Below[Sibling(up[k])]
  BY <1>2 DEF IsTurn, IsRoad
<1>4. CASE k = 0
  BY <1>3, <1>4
<1>5. CASE k # 0
  <2> DEFINE u == [i \in 0 .. k - 1 |-> up[i + 1]]
             c == [i \in 0 .. k - 1 |-> bits[i + 1]]
  <2>1. n # 1 /\ up[1] = Parent(n) /\ bits[1] = b \div 2
    BY <1>3, <1>5
  <2>2. u \in [0 .. k - 1 -> Nodes] /\ c \in [0 .. k - 1 -> Nat]
    BY <1>3, <1>5
  <2>3. u[0] = Parent(n) /\ c[0] = b \div 2
    BY <1>5, <2>1
  <2>4. \A i \in 0 .. (k - 1) - 1 : /\ u[i] # 1 /\ u[i + 1] = Parent(u[i])
                                    /\ c[i + 1] = c[i] \div 2
    <3> TAKE i \in 0 .. (k - 1) - 1
    <3>1. i + 1 \in 0 .. k - 1 /\ i \in 0 .. k - 1
      BY <1>5
    <3> QED
      BY <1>3, <3>1
  <2>5. u[k - 1] = up[k] /\ c[k - 1] = bits[k] /\ k - 1 \in Nat
    BY <1>5
  <2> HIDE DEF u, c
  <2>6. IsTurn(u, c, k - 1, Parent(n), b \div 2, l)
    BY <1>3, <2>2, <2>3, <2>4, <2>5 DEF IsTurn, IsRoad
  <2> QED
    BY <2>1, <2>5, <2>6 DEF TurnsTo
<1> QED
  BY <1>4, <1>5

(* Without bits the way to the root has no turn. *)
LEMMA NoTurnWithoutBits ==
  ASSUME NEW n, NEW l, TurnsTo(n, 0, l)
  PROVE  FALSE
<1>1. PICK k \in Nat : \E up, bits : IsTurn(up, bits, k, n, 0, l)
  BY DEF TurnsTo
<1>2. PICK up, bits : IsTurn(up, bits, k, n, 0, l)
  BY <1>1
<1>3. /\ bits \in [0 .. k -> Nat] /\ bits[0] = 0 /\ bits[k] % 2 = 1
      /\ \A i \in 0 .. k - 1 : bits[i + 1] = bits[i] \div 2
  BY <1>2 DEF IsTurn, IsRoad
<1> DEFINE Bit == {i \in 0 .. k : bits[i] # 0}
<1>4. Bit \in SUBSET Nat /\ k \in Bit
  BY <1>3
<1>5. PICK m \in Bit : \A i \in Bit : m <= i
  <2> HIDE DEF Bit
  <2> QED
    BY <1>4, LeastNat
<1>6. m \in 0 .. k /\ bits[m] # 0
  BY <1>5
<1>7. m # 0
  BY <1>3, <1>6
<1>8. m - 1 \in 0 .. k - 1 /\ m - 1 \in 0 .. k /\ (m - 1) + 1 = m /\ ~(m <= m - 1)
  <2> HIDE DEF Bit
  <2> QED
    BY <1>6, <1>7
<1>9. m - 1 \notin Bit
  <2> HIDE DEF Bit
  <2> QED
    BY <1>5, <1>8
<1>10. bits[m - 1] = 0
  BY <1>8, <1>9
<1>11. bits[m] = bits[m - 1] \div 2
  <2> HIDE DEF Bit
  <2> QED
    BY <1>3, <1>8
<1> QED
  BY <1>6, <1>10, <1>11

(* The boxes of the tree end before Inf. *)
LEMMA BoxesEndBeforeInf ==
  ASSUME Shape, NEW n \in Nodes
  PROVE  Bounds[n].x.hi < Inf
<1> DEFINE Bad == {m \in Nodes : ~(Bounds[m].x.hi < Inf)}
<1>1. ASSUME Bad # {} PROVE FALSE
  <2>1. PICK m \in Bad : m \in Inner => tree[m][1] \notin Bad /\ tree[m][2] \notin Bad
    <3>1. Bad \subseteq Nodes
      OBVIOUS
    <3> HIDE DEF Bad
    <3> QED
      BY <1>1, <3>1, BottomMost
  <2>2. m \in Nodes /\ ~(Bounds[m].x.hi < Inf)
    BY <2>1
  <2>3. CASE m \in Leaves
    <3>1. Bounds[m].x = cellOf[m].x
      <4>1. Bounds[m] = [x |-> cellOf[m].x, y |-> cellOf[m].y]
        BY <2>3, BoundsFacts
      <4> QED
        BY <4>1
    <3> QED
      BY <2>2, <2>3, <3>1, TreeFacts
  <2>4. CASE m \in Inner
    <3>1. ASSUME NEW i \in {1, 2}
          PROVE  Bounds[tree[m][i]].x.hi < Inf /\ Bounds[tree[m][i]].x \in Ranges
      <4>1. tree[m][i] \in Nodes /\ tree[m][i] \notin Bad
        BY <2>1, <2>4, TreeFacts
      <4> QED
        BY <4>1, NodeTypes
    <3>2. Bounds[m] = [x |-> Extend(Bounds[tree[m][1]].x, Bounds[tree[m][2]].x),
                       y |-> Extend(Bounds[tree[m][1]].y, Bounds[tree[m][2]].y)]
      BY <2>4, BoundsFacts
    <3>3. Bounds[m].x.hi = Greatest(Bounds[tree[m][1]].x.hi, Bounds[tree[m][2]].x.hi)
      BY <3>2 DEF Extend
    <3>4. Bounds[m].x.hi < Inf
      BY <3>1, <3>3 DEF Greatest
    <3> QED
      BY <2>2, <3>4
  <2> QED
    BY <2>2, <2>3, <2>4 DEF Nodes
<1> QED
  BY <1>1

(* What is pending after a step down or up the tree. *)
LEMMA PendingFacts ==
  ASSUME Shape
  PROVE  /\ \A n \in Nodes : Pending[<<n, 0>>] = {}
         /\ \A n \in Nodes \ {1}, b \in Nat :
               Pending[<<n, b>>] = (IF b % 2 = 1 THEN Below[Sibling(n)] ELSE {})
                                     \cup Pending[<<Parent(n), b \div 2>>]
<1>1. ASSUME NEW n \in Nodes, NEW b \in Nat
      PROVE  Pending[<<n, b>>] = {l \in Leaves : TurnsTo(n, b, l)}
  BY DEF Pending
<1>2. ASSUME NEW n \in Nodes PROVE Pending[<<n, 0>>] = {}
  BY <1>1, NoTurnWithoutBits
<1>3. ASSUME NEW n \in Nodes \ {1}, NEW b \in Nat
      PROVE  Pending[<<n, b>>] = (IF b % 2 = 1 THEN Below[Sibling(n)] ELSE {})
                                     \cup Pending[<<Parent(n), b \div 2>>]
  <2>1. /\ Parent(n) \in Nodes /\ b \div 2 \in Nat /\ Sibling(n) \in Nodes
        /\ b % 2 = 1 \/ b % 2 = 0
    BY ParentFacts, Family
  <2>2. /\ Pending[<<n, b>>] = {l \in Leaves : TurnsTo(n, b, l)}
        /\ Pending[<<Parent(n), b \div 2>>] = {l \in Leaves : TurnsTo(Parent(n), b \div 2, l)}
    BY <1>1, <2>1
  <2>3. Below[Sibling(n)] \subseteq Leaves
    BY <2>1, LeavesAreWithin
  <2>4. \A l \in Leaves :
           TurnsTo(n, b, l) <=> \/ b % 2 = 1 /\ l \in Below[Sibling(n)]
                                \/ TurnsTo(Parent(n), b \div 2, l)
    BY TurnHere, TurnAbove, TurnIsHereOrAbove
  <2> QED
    BY <2>2, <2>3, <2>4
<1> QED
  BY <1>2, <1>3

(* What is pending at a child: a bit adds the sibling. *)
LEMMA PendingOfChild ==
  ASSUME Shape, NEW n \in Inner, NEW i \in {1, 2}, NEW b \in Nat
  PROVE  /\ Pending[<<tree[n][i], 2 * b>>] = Pending[<<n, b>>]
         /\ Pending[<<tree[n][i], 2 * b + 1>>] = Below[tree[n][3 - i]] \cup Pending[<<n, b>>]
<1> DEFINE c == tree[n][i]
<1>1. /\ c \in Nodes \ {1} /\ Parent(c) = n /\ Sibling(c) = tree[n][3 - i]
      /\ n \in Nodes
  <2>1. CASE i = 1
    BY <2>1, TreeFacts, Family DEF Nodes
  <2>2. CASE i = 2
    BY <2>2, TreeFacts, Family DEF Nodes
  <2> QED
    BY <2>1, <2>2
<1>2. /\ 2 * b \in Nat /\ 2 * b + 1 \in Nat
      /\ (2 * b) % 2 = 0 /\ (2 * b + 1) % 2 = 1
      /\ (2 * b) \div 2 = b /\ (2 * b + 1) \div 2 = b
  OBVIOUS
<1> HIDE DEF c
<1>3. Pending[<<c, 2 * b>>] = {} \cup Pending[<<n, b>>]
  <2>1. Pending[<<c, 2 * b>>] = (IF (2 * b) % 2 = 1 THEN Below[Sibling(c)] ELSE {})
                                   \cup Pending[<<Parent(c), (2 * b) \div 2>>]
    BY <1>1, <1>2, PendingFacts
  <2> QED
    BY <1>1, <1>2, <2>1
<1>4. Pending[<<c, 2 * b + 1>>] = Below[tree[n][3 - i]] \cup Pending[<<n, b>>]
  <2>1. Pending[<<c, 2 * b + 1>>] = (IF (2 * b + 1) % 2 = 1 THEN Below[Sibling(c)] ELSE {})
                                   \cup Pending[<<Parent(c), (2 * b + 1) \div 2>>]
    BY <1>1, <1>2, PendingFacts
  <2> QED
    BY <1>1, <1>2, <2>1
<1> QED
  BY <1>3, <1>4 DEF c

(* All leaves are below the root. *)
LEMMA RootIsAboveAll ==
  ASSUME Shape
  PROVE  Below[1] = Leaves
<1> DEFINE Bad == {n \in Nodes : ~(Below[n] \subseteq Below[1])}
<1>1. ASSUME Bad # {} PROVE FALSE
  <2>1. PICK n \in Bad : n = 1 \/ Parent(n) \notin Bad
    <3>1. Bad \subseteq Nodes
      OBVIOUS
    <3> HIDE DEF Bad
    <3> QED
      BY <1>1, <3>1, TopMost
  <2>2. n \in Nodes \ {1} /\ ~(Below[n] \subseteq Below[1])
    BY <2>1
  <2>3. Parent(n) \in Nodes /\ Below[Parent(n)] \subseteq Below[1]
    BY <2>1, <2>2, ParentFacts
  <2>4. Below[n] \subseteq Below[Parent(n)]
    BY <2>2, TreeFacts, BelowFacts DEF IsChild
  <2> QED
    BY <2>2, <2>3, <2>4
<1>2. \A l \in Leaves : l \in Nodes /\ l \in Below[l] /\ l \notin Bad
  BY <1>1, BelowFacts DEF Nodes
<1>3. Leaves \subseteq Below[1]
  BY <1>2
<1>4. Below[1] \subseteq Leaves
  BY TreeFacts, LeavesAreWithin
<1> QED
  BY <1>3, <1>4

-----------------------------------------------------------------------------
(***************************************************************************)
(* What the traversal has still to see.  A leaf that the context asks for  *)
(* on the rest of the ray lies below the place where the next call starts, *)
(* or is pending there.  During a call the same is true of the node that   *)
(* is visited, for what lies in front of the closest hit, and of the place *)
(* of the first hit for all of the rest.                                   *)
(***************************************************************************)
AskedBetween(lo, hi) == {l \in Leaves : \E t \in Asked[l] : lo <= t /\ t < hi}

Rest(n, b) == Below[n] \cup Pending[<<n, b>>]

StartSeesAll ==
    phase \in {"ready", "traverse", "backtrack"} =>
        /\ interval.hi = tLower
        /\ required = UNION {Asked[l] : l \in Leaves}
        /\ AskedBetween(tLower, Inf) \subseteq Rest(start.node, start.bitstack)

CallSeesAll ==
    /\ phase = "traverse" =>
          AskedBetween(tLower, hit.lo) \subseteq Rest(node, bitstack)
    /\ phase = "backtrack" =>
          AskedBetween(tLower, hit.lo) \subseteq Pending[<<node, bitstack>>]

FirstSeesAll ==
    phase \in {"traverse", "backtrack"} /\ hit.lo # Inf =>
        AskedBetween(tLower, Inf) \subseteq Rest(first.node, first.bitstack)

NotBegun ==
    phase \in {"merge", "committed", "context"} => interval = [lo |-> 0, hi |-> 0]

SeesAll == StartSeesAll /\ CallSeesAll /\ FirstSeesAll /\ NotBegun

(* Neither a call nor its steps change what is asked. *)
LEMMA AskedUnchanged ==
  ASSUME UNCHANGED volume, UNCHANGED context
  PROVE  /\ Asked' = Asked /\ Below' = Below /\ Pending' = Pending
         /\ Leaves' = Leaves /\ Nodes' = Nodes /\ Inner' = Inner
<1>1. UNCHANGED <<tree, cellOf>> /\ query' = query /\ elementary' = elementary
  BY DEF volume, context
<1>2. Asked' = Asked
  BY <1>1, VolumeUnchanged DEF Asked, Inside, InBox, Along
<1>3. ASSUME NEW n, NEW b, NEW l PROVE TurnsTo(n, b, l)' <=> TurnsTo(n, b, l)
  <2>1. ASSUME NEW up, NEW bits, NEW k
        PROVE  IsRoad(up, bits, k, n, b)' <=> IsRoad(up, bits, k, n, b)
    BY <1>1, VolumeUnchanged DEF IsRoad
  <2>2. ASSUME NEW up, NEW bits, NEW k
        PROVE  IsTurn(up, bits, k, n, b, l)' <=> IsTurn(up, bits, k, n, b, l)
    BY <1>1, <2>1, VolumeUnchanged DEF IsTurn
  <2> QED
    BY <2>2 DEF TurnsTo
<1>4. Pending' = Pending
  BY <1>1, <1>3, VolumeUnchanged DEF Pending
<1> QED
  BY <1>1, <1>2, <1>4, VolumeUnchanged

(* The values of a leaf that is asked for are among those of the nodes     *)
(* above it, and its part of the ray in their boxes.                       *)
LEMMA SeenFromAbove ==
  ASSUME InTree, phase # "merge", NEW n \in Nodes, NEW m \in Nodes, NEW l \in Below[m],
         m = n \/ (n \in Inner /\ m \in {tree[n][1], tree[n][2]}),
         NEW t \in Asked[l]
  PROVE  /\ Meet(query, meta[n].range)
         /\ OnRay(Bounds[m].y) /\ Bounds[m].x.lo <= t /\ t < Bounds[m].x.hi
<1>1. Shape /\ l \in Leaves /\ WithinBox(Bounds[l], Bounds[m])
  BY LeavesAreWithin DEF InTree
<1>2. l \in Below[n]
  BY <1>1, BelowFacts
<1>3. CoversRange(Built[n].range, cellOf[l].range)
  BY <1>1, <1>2, LeavesAreWithin
<1>4. CoversRange(meta[n].range, Built[n].range)
  BY DEF InTree, LevelsAreMerged, IsMerged, Overlapping
<1>5. /\ meta[n].range \in Ranges /\ Built[n].range \in Ranges
      /\ cellOf[l].range \in Ranges /\ query \in Ranges
  BY <1>1, NodeTypes, CellFacts DEF InTree, TypeOK
<1>6. Meet(query, cellOf[l].range) /\ t \in InBox(l)
  BY <1>1, AskedIsOnTheRay
<1>7. Meet(query, meta[n].range)
  BY <1>3, <1>4, <1>5, <1>6 DEF Meet, CoversRange, Ranges
<1>8. Bounds[l].x = cellOf[l].x /\ Bounds[l].y = cellOf[l].y
  <2>1. Bounds[l] = [x |-> cellOf[l].x, y |-> cellOf[l].y]
    BY <1>1, BoundsFacts
  <2> QED
    BY <2>1
<1>9. /\ Bounds[m].x \in Ranges /\ Bounds[m].y \in Ranges
      /\ cellOf[l].x \in Ranges /\ cellOf[l].y \in Ranges
  BY <1>1, NodeTypes, CellFacts
<1>10. /\ OnRay(cellOf[l].y) /\ t \in Int
       /\ cellOf[l].x.lo <= t /\ t < cellOf[l].x.hi
  BY <1>6, <1>9 DEF InBox, Along, Ranges
<1> QED
  BY <1>1, <1>7, <1>8, <1>9, <1>10 DEF WithinBox, CoversRange, OnRay, Ranges

(* No child is pruned that has something to show in front of the hit. *)
LEMMA PruningIsSafe ==
  ASSUME InTree, phase = "traverse", node \in Inner, NEW i \in {1, 2},
         NEW l \in Below[tree[node][i]], l \in AskedBetween(tLower, hit.lo)
  PROVE  i \in Entered
<1>1. PICK t \in Asked[l] : tLower <= t /\ t < hit.lo
  BY DEF AskedBetween
<1> DEFINE c == tree[node][i]
<1>2. c \in Nodes /\ node \in Nodes /\ Shape
  BY TreeFacts DEF InTree, TypeOK
<1>3. /\ Meet(query, meta[node].range)
      /\ OnRay(Bounds[c].y) /\ Bounds[c].x.lo <= t /\ t < Bounds[c].x.hi
  BY <1>2, SeenFromAbove
<1>4. t \in Int
  BY <1>2, AskedIsOnTheRay, LeavesAreWithin, BvhAssumption
<1>5. /\ Bounds[c].x.lo \in Int /\ Bounds[c].x.hi \in Int /\ tLower \in Int /\ hit.lo \in Int
  BY <1>2, NodeTypes DEF InTree, TypeOK, Ranges
<1>6. ChildRange(i) = Clip(Bounds[c].x, [lo |-> tLower, hi |-> hit.lo])
  BY <1>3 DEF ChildRange, Intersect
<1> HIDE DEF c
<1>7. ~IsEmpty(ChildRange(i))
  BY <1>1, <1>3, <1>4, <1>5, <1>6 DEF Clip, IsEmpty, Least, Greatest
<1> QED
  BY <1>7 DEF Entered

(* What a node that is not descended into has to show is in its range. *)
LEMMA TestingIsSafe ==
  ASSUME InTree, phase = "traverse", ~Descends(node),
         NEW l \in Below[node], NEW t \in Asked[l], tLower <= t
  PROVE  ~IsEmpty(NodeRange) /\ NodeRange.lo <= t
<1> DEFINE ray == [lo |-> tLower, hi |-> Inf - 1]
<1>1. node \in Nodes /\ Shape /\ l \in Leaves
  BY LeavesAreWithin DEF InTree, TypeOK
<1>2. t \in 0 .. Inf - 1 /\ Inf \in Nat /\ tLower \in Int
  BY <1>1, AskedIsOnTheRay, BvhAssumption DEF InTree, TypeOK
<1>3. /\ Meet(query, meta[node].range)
      /\ OnRay(Bounds[node].y) /\ Bounds[node].x.lo <= t /\ t < Bounds[node].x.hi
  BY <1>1, SeenFromAbove
<1>4. PICK box : /\ NodeRange = Intersect(box, ray, meta[node].range) /\ box.x \in Ranges
                 /\ OnRay(box.y) /\ box.x.lo <= t /\ t < box.x.hi /\ box.x.hi < Inf
  <2>1. CASE node \in Leaves /\ elementary
    <3>1. l = node
      BY <1>1, <2>1, BelowFacts
    <3>2. t \in Inside(node)
      BY <1>1, <2>1, <3>1, AskedIsOnTheRay
    <3>3. cellOf[node].cell \in Ranges
      BY <1>1, <2>1, CellFacts
    <3>4. /\ OnRay(cellOf[node].y)
          /\ cellOf[node].cell.lo <= t /\ t < cellOf[node].cell.hi
      BY <3>2, <3>3 DEF Inside, Along, Ranges
    <3>5. cellOf[node].cell.hi < Inf
      BY <1>1, <2>1, <3>3, <1>2, TreeFacts, CellFacts DEF Ranges
    <3> QED
      BY <2>1, <3>3, <3>4, <3>5 DEF NodeRange
  <2>2. CASE ~(node \in Leaves /\ elementary)
    <3>1. NodeRange = Intersect(Bounds[node], ray, meta[node].range)
      BY <2>2 DEF NodeRange
    <3>2. Bounds[node].x \in Ranges
      BY <1>1, NodeTypes
    <3>3. Bounds[node].x.hi < Inf
      BY <1>1, BoxesEndBeforeInf
    <3> QED
      BY <1>3, <3>1, <3>2, <3>3
  <2> QED
    BY <2>1, <2>2
<1>5. NodeRange = Clip(box.x, ray)
  BY <1>3, <1>4 DEF Intersect
<1> QED
  BY <1>2, <1>4, <1>5 DEF Clip, IsEmpty, Least, Greatest, Ranges

-----------------------------------------------------------------------------
(* A shorter part of the ray has fewer leaves. *)
LEMMA BetweenShrinks ==
  ASSUME Shape, NEW a \in Int, NEW b \in Int, NEW c \in Int, NEW d \in Int,
         a <= c, d <= b
  PROVE  AskedBetween(c, d) \subseteq AskedBetween(a, b)
<1>1. \A l \in Leaves : Asked[l] \subseteq Int
  BY AskedIsOnTheRay, BvhAssumption
<1>2. \A t \in Int : c <= t /\ t < d => a <= t /\ t < b
  OBVIOUS
<1> QED
  BY <1>1, <1>2 DEF AskedBetween

(* The types of what the traversal calculates with. *)
LEMMA Numbers ==
  ASSUME InTree
  PROVE  /\ tLower \in Int /\ Inf \in Int /\ Inf \in Nat
         /\ hit.lo \in Int /\ hit.hi \in Int
         /\ interval.lo \in Int /\ interval.hi \in Int
         /\ node \in Nodes /\ bitstack \in Nat /\ Shape
  BY BvhAssumption DEF InTree, TypeOK, Ranges

(* From the root all is seen. *)
LEMMA InitializeSees ==
  ASSUME InTree, SeesAll, Initialize
  PROVE  SeesAll'
<1>1. /\ phase = "context" /\ phase' = "ready" /\ tLower' = 0
      /\ start' = [node |-> 1, bitstack |-> 0]
      /\ interval' = interval /\ UNCHANGED volume /\ UNCHANGED context
  BY DEF Initialize
<1>2. interval = [lo |-> 0, hi |-> 0]
  BY <1>1 DEF SeesAll, NotBegun
<1>3. AskedBetween(0, Inf) \subseteq Below[1]
  BY RootIsAboveAll, Numbers DEF AskedBetween
<1>4. StartSeesAll'
  BY <1>1, <1>2, <1>3, RequiredIsAsked, AskedUnchanged DEF StartSeesAll, AskedBetween, Rest
<1> QED
  BY <1>1, <1>4 DEF SeesAll, CallSeesAll, FirstSeesAll, NotBegun

(* A call sees what its starting place does. *)
LEMMA CallIterateSees ==
  ASSUME InTree, SeesAll, CallIterate
  PROVE  SeesAll'
<1>1. /\ phase = "ready" /\ phase' = "traverse"
      /\ node' = start.node /\ bitstack' = start.bitstack
      /\ hit' = [lo |-> Inf, hi |-> Inf]
      /\ UNCHANGED volume /\ UNCHANGED context /\ UNCHANGED results
  BY DEF CallIterate
<1>2. /\ StartSeesAll' /\ CallSeesAll'
  BY <1>1, AskedUnchanged DEF SeesAll, StartSeesAll, CallSeesAll, AskedBetween, Rest, results
<1> QED
  BY <1>1, <1>2 DEF SeesAll, FirstSeesAll, NotBegun

(* A step of a call that leaves the results alone keeps what the start     *)
(* sees.                                                                   *)
LEMMA StartStays ==
  ASSUME SeesAll, UNCHANGED volume, UNCHANGED context, UNCHANGED results,
         phase \in {"traverse", "backtrack"}, phase' \in {"traverse", "backtrack"}
  PROVE  StartSeesAll' /\ NotBegun'
BY AskedUnchanged DEF SeesAll, StartSeesAll, NotBegun, AskedBetween, Rest, results

(* A child that is not entered has nothing in front of the hit. *)
LEMMA DescendSees ==
  ASSUME InTree, SeesAll, Descend
  PROVE  SeesAll'
<1>1. /\ phase = "traverse" /\ node \in Inner
      /\ UNCHANGED <<hit, first>> /\ UNCHANGED volume /\ UNCHANGED context
      /\ UNCHANGED results /\ tLower' = tLower
  BY DEF Descend, Descends, results
<1> DEFINE L == AskedBetween(tLower, hit.lo)
<1>2. L \subseteq Below[node] \cup Pending[<<node, bitstack>>]
  BY <1>1 DEF SeesAll, CallSeesAll, Rest
<1>3. Below[node] = Below[tree[node][1]] \cup Below[tree[node][2]]
  BY <1>1, Numbers, BelowFacts
<1>4. \A i \in {1, 2} : i \notin Entered => L \cap Below[tree[node][i]] = {}
  BY <1>1, PruningIsSafe
<1>5. L' = L
  BY <1>1, AskedUnchanged DEF AskedBetween
<1> HIDE DEF L
<1>6. /\ phase' = "traverse" => L \subseteq Below[node'] \cup Pending[<<node', bitstack'>>]
      /\ phase' = "backtrack" => L \subseteq Pending[<<node', bitstack'>>]
      /\ phase' \in {"traverse", "backtrack"}
  <2>1. CASE Entered = {}
    <3>1. phase' = "backtrack" /\ node' = node /\ bitstack' = bitstack
      BY <2>1 DEF Descend
    <3> QED
      BY <1>2, <1>3, <1>4, <2>1, <3>1
  <2>2. CASE Entered # {}
    <3>1. /\ node' = tree[node][Choice] /\ phase' = "traverse"
          /\ bitstack' = 2 * bitstack + IF Entered = {1, 2} THEN 1 ELSE 0
      BY <1>1, <2>2 DEF Descend, Choice
    <3>2. Choice \in Entered /\ Choice \in {1, 2} /\ Entered \subseteq {1, 2}
      BY <1>1, <2>2, ChoiceFacts DEF Entered
    <3>3. CASE Entered = {1, 2}
      <4>1. bitstack' = 2 * bitstack + 1
        BY <3>1, <3>3
      <4>2. Pending[<<tree[node][Choice], 2 * bitstack + 1>>] =
               Below[tree[node][3 - Choice]] \cup Pending[<<node, bitstack>>]
        <5>1. node \in Inner /\ Choice \in {1, 2} /\ bitstack \in Nat /\ Shape
          BY <1>1, <3>2, Numbers
        <5> QED
          BY <5>1, PendingOfChild, ZenonT(30)
      <4>3. Below[node] = Below[tree[node][Choice]] \cup Below[tree[node][3 - Choice]]
        BY <1>3, <3>2
      <4> QED
        BY <1>2, <3>1, <4>1, <4>2, <4>3
    <3>4. CASE Entered # {1, 2}
      <4>1. bitstack' = 2 * bitstack
        BY <3>1, <3>4, Numbers
      <4>2. Pending[<<tree[node][Choice], 2 * bitstack>>] = Pending[<<node, bitstack>>]
        BY <1>1, <3>2, Numbers, PendingOfChild, ZenonT(30)
      <4>3. L \cap Below[node] \subseteq Below[tree[node][Choice]]
        BY <1>3, <1>4, <3>2, <3>4
      <4> QED
        BY <1>2, <3>1, <4>1, <4>2, <4>3
    <3> QED
      BY <3>3, <3>4
  <2> QED
    BY <2>1, <2>2
<1>7. CallSeesAll'
  BY <1>5, <1>6, <1>1, AskedUnchanged DEF CallSeesAll, Rest, L
<1>8. FirstSeesAll'
  BY <1>1, <1>6, AskedUnchanged DEF SeesAll, FirstSeesAll, AskedBetween, Rest
<1> QED
  BY <1>1, <1>6, <1>7, <1>8, StartStays DEF SeesAll

(* A tested node is behind the ray, or not in front of the new hit. *)
LEMMA TestNodeSees ==
  ASSUME InTree, SeesAll, TestNode
  PROVE  SeesAll'
<1>1. /\ phase = "traverse" /\ ~Descends(node) /\ phase' = "backtrack"
      /\ UNCHANGED <<node, bitstack>> /\ UNCHANGED volume /\ UNCHANGED context
      /\ UNCHANGED results /\ tLower' = tLower
  BY DEF TestNode, results
<1>2. AskedBetween(tLower, hit.lo) \subseteq Below[node] \cup Pending[<<node, bitstack>>]
  BY <1>1 DEF SeesAll, CallSeesAll, Rest
<1>3. ASSUME NEW l \in Below[node], NEW t \in Asked[l], tLower <= t
      PROVE  /\ ~IsEmpty(NodeRange) /\ NodeRange.lo <= t
             /\ t \in Int /\ NodeRange.lo \in Int
  <2>1. l \in Leaves /\ t \in 0 .. Inf - 1
    BY Numbers, LeavesAreWithin, AskedIsOnTheRay
  <2> QED
    BY <1>1, <1>3, <2>1, TestingIsSafe, NodeRangeFacts, Numbers DEF Ranges
<1>4. /\ hit'.lo \in Int /\ hit'.lo <= hit.lo
      /\ AskedBetween(tLower, hit'.lo) \cap Below[node] = {}
      /\ hit'.lo # Inf => \/ hit.lo = Inf /\ first' = [node |-> node, bitstack |-> bitstack]
                          \/ hit.lo # Inf /\ first' = first
  <2>1. CASE ~IsEmpty(NodeRange) /\ NodeRange.lo < hit.lo
    <3>1. first' = RestartPoint(first, hit, node, bitstack) /\ hit' = NodeRange
      BY <2>1 DEF TestNode
    <3>2. hit'.lo \in Int /\ hit'.lo <= hit.lo
      BY <2>1, <3>1, NodeRangeFacts, Numbers DEF Ranges
    <3>3. AskedBetween(tLower, hit'.lo) \cap Below[node] = {}
      BY <1>3, <3>1 DEF AskedBetween
    <3> QED
      BY <3>1, <3>2, <3>3 DEF RestartPoint
  <2>2. CASE ~(~IsEmpty(NodeRange) /\ NodeRange.lo < hit.lo)
    <3>1. first' = first /\ hit' = hit
      BY <2>2 DEF TestNode
    <3>2. AskedBetween(tLower, hit'.lo) \cap Below[node] = {}
      BY <1>3, <2>2, <3>1, Numbers DEF AskedBetween
    <3> QED
      BY <3>1, <3>2, Numbers
  <2> QED
    BY <2>1, <2>2
<1>5. AskedBetween(tLower, hit'.lo) \subseteq Pending[<<node, bitstack>>]
  <2>1. AskedBetween(tLower, hit'.lo) \subseteq AskedBetween(tLower, hit.lo)
    BY <1>4, Numbers, BetweenShrinks
  <2> QED
    BY <1>2, <1>4, <2>1
<1>6. CallSeesAll'
  BY <1>1, <1>5, AskedUnchanged DEF CallSeesAll, AskedBetween
<1>7. hit'.lo # Inf =>
         AskedBetween(tLower, Inf) \subseteq Rest(first'.node, first'.bitstack)
  <2>1. CASE hit.lo = Inf /\ first' = [node |-> node, bitstack |-> bitstack]
    BY <1>2, <2>1 DEF Rest
  <2>2. CASE hit.lo # Inf /\ first' = first
    BY <1>1, <2>2 DEF SeesAll, FirstSeesAll
  <2> QED
    BY <1>4, <2>1, <2>2
<1>8. FirstSeesAll'
  BY <1>1, <1>7, AskedUnchanged DEF FirstSeesAll, AskedBetween, Rest
<1> QED
  BY <1>1, <1>6, <1>8, StartStays DEF SeesAll

(* A sibling that is turned to is no longer pending. *)
LEMMA BacktrackSees ==
  ASSUME InTree, SeesAll, Backtrack
  PROVE  SeesAll'
<1>1. /\ phase = "backtrack" /\ bitstack # 0 /\ UNCHANGED <<hit, first>>
      /\ UNCHANGED volume /\ UNCHANGED context /\ UNCHANGED results /\ tLower' = tLower
  BY DEF Backtrack, results
<1> DEFINE L == AskedBetween(tLower, hit.lo)
<1>2. L \subseteq Pending[<<node, bitstack>>]
  BY <1>1 DEF SeesAll, CallSeesAll
<1>3. L' = L
  BY <1>1, AskedUnchanged DEF AskedBetween
<1>4. /\ node \in Nodes \ {1} /\ bitstack \in Nat /\ Shape
      /\ Sibling(node) \in Nodes \ {1} /\ Parent(Sibling(node)) = Parent(node)
  <2>1. node # 1
    BY <1>1, Numbers, TurnsAreLevels DEF InTree, Stacks, RestartsInsideTheTree, IsPlace
  <2> QED
    BY <2>1, Numbers, Family
<1>5. Pending[<<node, bitstack>>] = (IF bitstack % 2 = 1 THEN Below[Sibling(node)] ELSE {})
                                      \cup Pending[<<Parent(node), bitstack \div 2>>]
  BY <1>4, PendingFacts
<1> HIDE DEF L
<1>6. /\ phase' = "traverse" => L \subseteq Below[node'] \cup Pending[<<node', bitstack'>>]
      /\ phase' = "backtrack" => L \subseteq Pending[<<node', bitstack'>>]
      /\ phase' \in {"traverse", "backtrack"}
  <2>1. CASE bitstack % 2 = 0
    <3>1. node' = Parent(node) /\ bitstack' = bitstack \div 2 /\ phase' = phase
      BY <2>1 DEF Backtrack
    <3> QED
      BY <1>1, <1>2, <1>5, <2>1, <3>1
  <2>2. CASE bitstack % 2 # 0
    <3>1. node' = Sibling(node) /\ bitstack' = bitstack - 1 /\ phase' = "traverse"
      BY <2>2 DEF Backtrack
    <3>2. /\ bitstack % 2 = 1 /\ bitstack - 1 \in Nat /\ (bitstack - 1) % 2 = 0
          /\ (bitstack - 1) \div 2 = bitstack \div 2
      BY <1>1, <1>4, <2>2
    <3>3. Pending[<<node', bitstack'>>] =
             (IF (bitstack - 1) % 2 = 1 THEN Below[Sibling(Sibling(node))] ELSE {})
                \cup Pending[<<Parent(Sibling(node)), (bitstack - 1) \div 2>>]
      BY <1>4, <3>1, <3>2, PendingFacts
    <3>4. Pending[<<node', bitstack'>>] = Pending[<<Parent(node), bitstack \div 2>>]
      BY <1>4, <3>2, <3>3
    <3> QED
      BY <1>2, <1>5, <3>1, <3>2, <3>4
  <2> QED
    BY <2>1, <2>2
<1>7. CallSeesAll'
  BY <1>3, <1>6, <1>1, AskedUnchanged DEF CallSeesAll, Rest, L
<1>8. FirstSeesAll'
  BY <1>1, <1>6, AskedUnchanged DEF SeesAll, FirstSeesAll, AskedBetween, Rest
<1> QED
  BY <1>1, <1>6, <1>7, <1>8, StartStays DEF SeesAll

(* When a call ends, nothing in front of its hit was skipped.              *)
LEMMA NothingSkipped ==
  ASSUME InTree, SeesAll, phase = "backtrack", bitstack = 0
  PROVE  AskedBetween(tLower, hit.lo) = {}
<1>1. Pending[<<node, 0>>] = {}
  BY Numbers, PendingFacts
<1> QED
  BY <1>1 DEF SeesAll, CallSeesAll

(* The place of the first hit sees what is behind the interval returned. *)
LEMMA ReturnSees ==
  ASSUME InTree, SeesAll, Return
  PROVE  SeesAll'
<1>1. /\ phase = "backtrack" /\ phase' \in {"done", "ready"}
      /\ UNCHANGED volume /\ UNCHANGED context /\ UNCHANGED call
  BY DEF Return
<1>2. CASE hit.lo = Inf \/ IsEmpty(hit)
  <2>1. phase' = "done"
    BY <1>2 DEF Return
  <2> QED
    BY <2>1 DEF SeesAll, StartSeesAll, CallSeesAll, FirstSeesAll, NotBegun
<1>3. CASE ~(hit.lo = Inf \/ IsEmpty(hit))
  <2>1. /\ tLower' = hit.hi /\ start' = first /\ interval' = hit /\ required' = required
        /\ phase' = "ready"
    BY <1>3 DEF Return, NextLower
  <2>2. tLower <= hit.hi
    BY <1>1, <1>3, Numbers DEF InTree, HitIsAhead
  <2>3. AskedBetween(hit.hi, Inf) \subseteq AskedBetween(tLower, Inf)
    BY <2>2, Numbers, BetweenShrinks
  <2>4. AskedBetween(hit.hi, Inf) \subseteq Rest(first.node, first.bitstack)
    BY <1>1, <1>3, <2>3 DEF SeesAll, FirstSeesAll
  <2>5. required = UNION {Asked[l] : l \in Leaves}
    BY <1>1 DEF SeesAll, StartSeesAll
  <2>6. StartSeesAll'
    BY <1>1, <2>1, <2>4, <2>5, AskedUnchanged DEF StartSeesAll, AskedBetween, Rest
  <2> QED
    BY <2>1, <2>6 DEF SeesAll, CallSeesAll, FirstSeesAll, NotBegun
<1> QED
  BY <1>2, <1>3

IInv == InTree /\ SeesAll

(* No iterator has begun. *)
LEMMA InitInvariant == Init => IInv
<1> SUFFICES ASSUME Init PROVE SeesAll
  BY InitInTree DEF IInv
<1> QED
  BY DEF Init, SeesAll, StartSeesAll, CallSeesAll, FirstSeesAll, NotBegun

(* The traversal's steps keep in sight what it has to find. *)
LEMMA NextInvariant == IInv /\ [Next]_vars => IInv'
<1> SUFFICES ASSUME InTree, SeesAll, [Next]_vars PROVE SeesAll'
  BY NextInTree DEF IInv
<1>1. CASE UNCHANGED vars
  <2>1. UNCHANGED volume /\ UNCHANGED context
    BY <1>1 DEF vars, volume, context
  <2> QED
    BY <1>1, <2>1, AskedUnchanged
       DEF vars, SeesAll, StartSeesAll, CallSeesAll, FirstSeesAll, NotBegun, AskedBetween, Rest
<1>2. CASE MergeLevel
  BY <1>2 DEF MergeLevel, results, SeesAll, StartSeesAll, CallSeesAll, FirstSeesAll, NotBegun
<1>3. CASE CommitContext
  BY <1>3 DEF CommitContext, results, SeesAll, StartSeesAll, CallSeesAll, FirstSeesAll, NotBegun
<1> QED
  BY <1>1, <1>2, <1>3, InitializeSees, CallIterateSees, DescendSees, TestNodeSees,
     BacktrackSees, ReturnSees DEF Next, Traversal, Done

(* The inductive invariant. *)
THEOREM Invariance == Spec => []IInv
<1> QED
  BY InitInvariant, NextInvariant, PTL DEF Spec

(* The iterator is in the tree and its numbers are in their ranges,        *)
(* whatever tree the builder returns.                                      *)
THEOREM TypeCorrect == Spec => []TypeOK
<1>1. IInv => TypeOK
  BY DEF IInv, InTree
<1> QED
  BY <1>1, Invariance, PTL

(* Backtracking stays in the tree: there is a level for every bit of the   *)
(* bit stacks, during a call and between calls (evalNodeStacklessV).       *)
THEOREM RestartsInside == Spec => []RestartsInsideTheTree
<1>1. IInv => RestartsInsideTheTree
  BY DEF IInv, InTree, Stacks
<1> QED
  BY <1>1, Invariance, PTL

(* A node that is tested alone speaks for all cells that are below it, or  *)
(* that lie in its box on its level or a deeper one                        *)
(* (computeOverlappingNodeMetadata).                                       *)
THEOREM NodesCover == Spec => []NodesCoverDeeperCells
<1>1. IInv => NodesCoverDeeperCells
  <2> SUFFICES ASSUME InTree, phase = "committed"
               PROVE  /\ \A n \in Nodes \ {1} : CoversRange(meta[Parent(n)].range, meta[n].range)
                      /\ \A n \in Nodes, l \in Leaves :
                            LevelOf[l] >= LevelOf[n] /\ NodesOverlap(n, l) =>
                               CoversRange(meta[n].range, cellOf[l].range)
    BY DEF IInv, NodesCoverDeeperCells
  <2>1. \A n \in Nodes : IsMerged(n) /\ meta[n] \in Metas
    BY DEF InTree, TypeOK, LevelsAreMerged, Metas
  <2> QED
    BY <2>1, MergedCovers DEF InTree
<1> QED
  BY <1>1, Invariance, PTL

-----------------------------------------------------------------------------
(* The iterator implements the promise of the interval iterators.          *)
LEMMA InitImplements == Init => Promise!Init
BY DEF Init, Promise!Init

(* What an iterator has to find lies ahead when it begins.                 *)
LEMMA InitializeBegins ==
  ASSUME InTree, SeesAll, Initialize
  PROVE  Promise!Begin
<1>1. phase = "context" /\ phase' = "ready" /\ interval' = interval
  BY DEF Initialize
<1>2. interval = [lo |-> 0, hi |-> 0]
  BY <1>1 DEF SeesAll, NotBegun
<1>3. required' \subseteq 0 .. Inf - 1
  <2>1. \A l \in Leaves : Asked[l] \subseteq 0 .. Inf - 1
    BY AskedIsOnTheRay DEF InTree
  <2> QED
    BY <2>1, RequiredIsAsked
<1>4. Inf' = Inf
  OBVIOUS
<1> QED
  BY <1>1, <1>2, <1>3, <1>4 DEF Promise!Begin

(* ... so that no t that is required was skipped. *)
LEMMA NothingRequiredSkipped ==
  ASSUME InTree, SeesAll, phase = "backtrack", bitstack = 0
  PROVE  /\ interval.hi = tLower
         /\ required \cap tLower .. hit.lo - 1 = {}
<1>1. interval.hi = tLower /\ required = UNION {Asked[l] : l \in Leaves}
  BY DEF SeesAll, StartSeesAll
<1>2. AskedBetween(tLower, hit.lo) = {}
  BY NothingSkipped
<1>3. ASSUME NEW t \in required, t \in tLower .. hit.lo - 1 PROVE FALSE
  <2>1. PICK l \in Leaves : t \in Asked[l]
    BY <1>1, <1>3
  <2>2. tLower <= t /\ t < hit.lo
    BY <1>3, Numbers
  <2> QED
    BY <1>2, <2>1, <2>2 DEF AskedBetween
<1> QED
  BY <1>1, <1>3

(* A return is an interval or the end of the abstract iteration. *)
LEMMA ReturnImplements ==
  ASSUME InTree, SeesAll, Return
  PROVE  Promise!Return \/ Promise!End
<1>1. /\ phase = "backtrack" /\ bitstack = 0
      /\ interval.hi = tLower /\ required \cap tLower .. hit.lo - 1 = {}
  BY NothingRequiredSkipped DEF Return
<1>2. CASE hit.lo = Inf \/ IsEmpty(hit)
  <2>1. /\ phase' = "done" /\ UNCHANGED <<required, interval>>
    BY <1>2 DEF Return, results
  <2>2. hit.lo = Inf
    BY <1>1, <1>2, Numbers DEF InTree, HitIsAhead, IsEmpty
  <2>3. Promise!End
    BY <1>1, <2>1, <2>2 DEF Promise!End, Promise!NothingRequired
  <2> QED
    BY <2>3
<1>3. CASE ~(hit.lo = Inf \/ IsEmpty(hit))
  <2>1. phase' = "ready" /\ interval' = hit /\ required' = required
    BY <1>3 DEF Return
  <2>2. tLower <= hit.lo /\ hit.lo <= hit.hi /\ hit.hi <= Inf
    BY <1>1, <1>3, Numbers DEF InTree, HitIsAhead, IsEmpty
  <2>3. Promise!Return
    BY <1>1, <2>1, <2>2 DEF Promise!Return, Promise!NothingRequired
  <2> QED
    BY <2>3
<1> QED
  BY <1>2, <1>3

(* The steps of a traversal between a call and its return are not seen.    *)
LEMMA OtherStepsStutter ==
  ASSUME MergeLevel \/ CommitContext \/ CallIterate \/ Descend \/ TestNode \/ Backtrack
         \/ Done \/ UNCHANGED vars
  PROVE  Promise!Unused \/ UNCHANGED Promise!vars
<1>1. CASE MergeLevel \/ CommitContext
  BY <1>1 DEF MergeLevel, CommitContext, Promise!Unused
<1>2. CASE CallIterate \/ Descend \/ TestNode \/ Backtrack
  <2>1. /\ phase \in {"ready", "traverse", "backtrack"}
        /\ phase' \in {"ready", "traverse", "backtrack"}
        /\ UNCHANGED <<required, interval>>
    BY <1>2 DEF CallIterate, Descend, TestNode, Backtrack, results
  <2> QED
    BY <2>1 DEF Promise!vars
<1>3. CASE Done \/ UNCHANGED vars
  BY <1>3 DEF Done, vars, Promise!vars
<1> QED
  BY <1>1, <1>2, <1>3

(* Every BVH iterator is an interval iterator: its intervals come in       *)
(* order, and what they leave out holds no value the context asks for,     *)
(* for every tree, query, depth and ray.                                   *)
THEOREM Implements == Spec => ImplementsIteration
<1>1. IInv /\ [Next]_vars => [Promise!Next]_(Promise!vars)
  <2> SUFFICES ASSUME InTree, SeesAll, [Next]_vars
               PROVE  Promise!Next \/ UNCHANGED Promise!vars
    BY DEF IInv
  <2> QED
    BY InitializeBegins, ReturnImplements, OtherStepsStutter
       DEF Next, Traversal, Promise!Next
<1> QED
  BY <1>1, InitImplements, Invariance, PTL DEF Spec, ImplementsIteration, Promise!Spec
=============================================================================
