----------------------------- MODULE HitIteration -----------------------------
(***************************************************************************)
(* What every hit iterator promises, whatever it searches: the successive  *)
(* calls of vklIterateHit return hits from front to back, and leave out    *)
(* only surfaces within the epsilon of the hit before, an "(object space)  *)
(* epsilon value estimating the error of the intersection".                *)
(***************************************************************************)
EXTENDS Integers

CONSTANT Tolerance    \* a hit may be this far behind its surface

VARIABLES
    stage,       \* "none" before the iterator is initialised, "iterating", "done"
    surfaces,    \* the t of the surfaces that the context asks for
    hit          \* the hit returned last, [t, epsilon]

vars == <<stage, surfaces, hit>>

Passed(s) == s <= hit.t + hit.epsilon

Init == stage = "none"

(* nothing is promised of an iterator that is not in use *)
Unused == stage = "none" /\ UNCHANGED stage

(* an imagined first hit is in front of all surfaces *)
Begin ==
    /\ stage = "none" /\ stage' = "iterating"
    /\ \A s \in surfaces' : hit'.t + hit'.epsilon < s

Return ==
    /\ stage = "iterating"
    /\ hit.t < hit'.t
    /\ \A s \in surfaces : s < hit'.t - Tolerance => Passed(s)
    /\ UNCHANGED <<stage, surfaces>>

End ==
    /\ stage = "iterating" /\ stage' = "done"
    /\ \A s \in surfaces : Passed(s)
    /\ UNCHANGED <<surfaces, hit>>

Next == Unused \/ Begin \/ Return \/ End

Spec == Init /\ [][Next]_vars

(* the application's loop over the hits comes to its end *)
Ends == stage = "iterating" ~> stage = "done"
=============================================================================
