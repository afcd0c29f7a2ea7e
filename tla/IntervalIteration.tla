-------------------------- MODULE IntervalIteration --------------------------
(***************************************************************************)
(* What every interval iterator promises, whatever structure it walks: the *)
(* successive calls of vklIterateInterval return intervals of the ray from *)
(* front to back, and skip only t whose values the context did not ask     *)
(* for ("Intervals not containing any of these values ranges may be        *)
(* skipped").                                                              *)
(***************************************************************************)
EXTENDS Integers

VARIABLES
    stage,       \* "none" before the iterator is initialised, "iterating", "done"
    required,    \* the units of t with values that the context asks for
    limit,       \* the end of the iterator's t range
    interval     \* the interval returned last, [lo, hi]

vars == <<stage, required, limit, interval>>

Init == stage = "none"

(* nothing is promised of an iterator that is not in use *)
Unused == stage = "none" /\ UNCHANGED stage

(* an empty interval stands at the beginning of the ray *)
Begin ==
    /\ stage = "none" /\ stage' = "iterating"
    /\ interval'.lo = interval'.hi
    /\ required' \subseteq interval'.hi .. limit' - 1

NothingRequired(lo, hi) == required \cap lo .. hi - 1 = {}

Return ==
    /\ stage = "iterating"
    /\ interval.hi <= interval'.lo /\ interval'.lo <= interval'.hi
    /\ interval'.hi <= limit
    /\ NothingRequired(interval.hi, interval'.lo)
    /\ UNCHANGED <<stage, required, limit>>

End ==
    /\ stage = "iterating" /\ stage' = "done"
    /\ NothingRequired(interval.hi, limit)
    /\ UNCHANGED <<required, limit, interval>>

Next == Unused \/ Begin \/ Return \/ End

Spec == Init /\ [][Next]_vars

(* the application's loop over the intervals comes to its end *)
Ends == stage = "iterating" ~> stage = "done"
=============================================================================
