--------------------------- MODULE IteratorContext ---------------------------
(***************************************************************************)
(* What the commit of an iterator context makes of the interval resolution *)
(* hint: the depth to which iterators descend, by the kind of volume.      *)
(* Hints are in hundredths.                                                *)
(***************************************************************************)
EXTENDS Integers

ClampHint(hint) == IF hint < 0 THEN 0 ELSE IF hint > 100 THEN 100 ELSE hint

DefaultHint == 50

Deepest(depths) == CHOOSE d \in depths : \A e \in depths : e <= d

(* the depths a hint is large enough for; the last one counts *)
VdbDepths(hint) == {0} \cup {d \in 1 .. 3 : hint >= <<20, 40, 80>>[d]}

DefaultDepth(bvhDepth) == IF bvhDepth > 6 THEN 6 ELSE bvhDepth \div 2

(* [0, 45] is divided among the levels up to the default depth, [55, 100)
   among the deeper ones, 100 stands for the deepest *)
BvhDepths(bvhDepth, hint) ==
    LET default == DefaultDepth(bvhDepth)
        deeper  == bvhDepth - (default + 1)
    IN  {d \in 0 .. default : hint * default >= d * 45}
          \cup {d \in default + 1 .. bvhDepth - 1 :
                   (hint - 55) * deeper >= (d - (default + 1)) * 45}
          \cup {d \in {bvhDepth} : hint >= 100}

VdbMaxIteratorDepth(hint) == Deepest(VdbDepths(ClampHint(hint)))

BvhMaxIteratorDepth(bvhDepth, hint) == Deepest(BvhDepths(bvhDepth, ClampHint(hint)))

(* elementary cells are asked for by the largest hint, and by every hit
   iterator context *)
AsksForCells(kind, hint) == kind = "hit" \/ ClampHint(hint) = 100
=============================================================================
