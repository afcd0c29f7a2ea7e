--------------------------- MODULE MCHitIterator ---------------------------
(***************************************************************************)
(* Small rays for TLC: piecewise linear fields with a knot every eight     *)
(* units, in intervals of one or several steps, with and without a NaN at  *)
(* an interval boundary or inside of an interval.                          *)
(***************************************************************************)
EXTENDS HitIterator

(* the third knot is held from 16 to 32; then the field turns back *)
Linear(a, b, c) ==
    [p \in 0 .. Horizon |->
        CASE p <= 8  -> a + p * ((b - a) \div 8)
          [] p > 8 /\ p <= 16 -> b + (p - 8) * ((c - b) \div 8)
          [] p > 16 /\ p <= 32 -> c
          [] OTHER   -> c + (p - 32) * ((a - c) \div 8)]

Heights == {0, 8, 16}

Holes == {{}, {4}, {7, 8}, {0, 16}, {14, 15, 16}}

FieldOf(a, b, c, holes) ==
    [p \in 0 .. Horizon |-> IF p \in holes THEN NaN ELSE Linear(a, b, c)[p]]

Iv(a, b, s) == [lo |-> a, hi |-> b, step |-> s]

Splits == {<<Iv(0, 16, 16)>>, <<Iv(0, 8, 16), Iv(8, 16, 8)>>,
           <<Iv(0, 13, 8), Iv(13, 14, 8), Iv(14, 16, 16)>>}

ValueLists == {<<>>, <<8>>, <<11, 5>>, <<4, 16>>}

GivenRays ==
    {[field |-> FieldOf(a, b, c, holes), values |-> v, length |-> len,
      bounds |-> [lo |-> 0, hi |-> 16], kind |-> "given", intervals |-> s] :
        a \in Heights, b \in Heights, c \in Heights, holes \in Holes,
        v \in ValueLists, s \in Splits, len \in {1, 3}}

(* slices of 32 in a longer bounding box; nothing outside of it *)
Outside(b) == 0 .. Horizon \ b.lo .. b.hi

DefaultRays ==
    {[field |-> FieldOf(a, b, c, Outside(box) \cup hole), values |-> v, length |-> 1,
      bounds |-> box, kind |-> "default", nominalLength |-> 32] :
        a \in Heights, b \in Heights, c \in Heights,
        hole \in {{}, {33}}, v \in {<<8>>, <<11, 5>>, <<99>>},
        box \in {[lo |-> 0, hi |-> 40], [lo |-> 6, hi |-> 38], [lo |-> 9, hi |-> 3]}}

SmallRays == GivenRays \cup DefaultRays
=============================================================================
