---------------------------- MODULE HitIterator ----------------------------
(***************************************************************************)
(* Hit iteration: vklIterateHit of DefaultHitIterator, which takes         *)
(* intervals from an interval iterator and looks for the surfaces of the   *)
(* isovalues in each, bracket by bracket, and the search itself,           *)
(* intersectSurfacesBisection, which bisects a bracket that a surface      *)
(* crosses.  The interval iterator is DefaultIntervalIterator, or another  *)
(* one, whose intervals are given.  One lane of a vector of rays; the      *)
(* lanes do not meet.                                                      *)
(*                                                                         *)
(* The ray parameter t is an integer: tolerances are one unit, so that a   *)
(* bisection ends when its ends are neighbours, and so is the offset by    *)
(* which a NaN is evaded.  Two samples are equal within the value          *)
(* tolerance when they are equal.                                          *)
(***************************************************************************)
EXTENDS Integers, Sequences

CONSTANTS
    Rays,      \* see RayAssumption
    Horizon,   \* bound: no interval ends later
    NaN,       \* what a sampler returns outside of the cells
    BISECT_MAX_BACKTRACK_ITERS,   \* 10 in the code
    maxIter,   \* of a bisection, 10 in the code
    Inf        \* larger than every t

(***************************************************************************)
(* The volume along the ray, the part of the ray in its bounding box, the  *)
(* values of the context, and the length of the direction vector.  An      *)
(* interval iterator of the "default" kind has its nominal length; another *)
(* one has the intervals it returns for the values, in order, which cover  *)
(* the box.                                                                *)
(***************************************************************************)
IntervalsOf(horizon) == [lo : Nat, hi : -1 .. horizon, step : Nat]

ASSUME RayAssumption ==
    /\ Horizon \in Nat /\ Inf \in Nat /\ Horizon < Inf /\ NaN \notin Int
    /\ BISECT_MAX_BACKTRACK_ITERS \in Nat /\ maxIter \in Nat \ {0}
    /\ \A r \in Rays :
          /\ r.field \in [0 .. Horizon -> Int \cup {NaN}]
          /\ r.bounds \in [lo : Nat, hi : 0 .. Horizon]
          /\ r.values \in Seq(Int) /\ r.length \in Nat \ {0}
          /\ r.kind = "default" =>
                /\ r.nominalLength \in Nat /\ r.nominalLength >= 32
                /\ Horizon + r.nominalLength * r.length < Inf
          /\ r.kind # "default" =>
                /\ r.intervals \in Seq(IntervalsOf(Horizon))
                /\ \A k \in 1 .. Len(r.intervals) :
                      LET iv == r.intervals[k]
                      IN  /\ iv.lo < iv.hi /\ iv.hi <= r.bounds.hi /\ iv.step >= 8
                          /\ iv.lo = IF k = 1 THEN r.bounds.lo ELSE r.intervals[k - 1].hi
                          /\ Horizon + iv.step * r.length < Inf
                /\ r.bounds.lo < r.bounds.hi =>
                      \E k \in 1 .. Len(r.intervals) : r.intervals[k].hi = r.bounds.hi

VARIABLES
    ray,
    returned,          \* the interval iterator: its currentInterval
    currentInterval,   \* [lo, hi, step]; lo = Inf when the ray has finished
    lastHitOffsetT,
    pc,                \* where the call is, or between two calls
    t0, sample0,       \* the entrance of the bracket
    t, ts, sample,     \* its end, and the end the sample was taken at
    i,                 \* the loop over the values
    tHit, value,       \* the nearest hit of the bracket so far
    low, high, iter,   \* the bisection: [t, sample] of both ends
    hits,              \* history: the hits returned, [t, value, epsilon]
    required, surfaces \* history: the t the context asks for, the surfaces in sight

vars == <<ray, returned, currentInterval, lastHitOffsetT, pc, t0, sample0,
          t, ts, sample, i, tHit, value, low, high, iter, hits,
          required, surfaces>>

asked == <<ray, required, surfaces>>
iteratorState == <<returned, currentInterval, lastHitOffsetT>>
bracket == <<t0, sample0, t, ts, sample>>
nearest == <<tHit, value>>
bisection == <<low, high, iter>>

field  == ray.field
values == ray.values

Least(a, b)    == IF a <= b THEN a ELSE b
Greatest(a, b) == IF a <= b THEN b ELSE a
Abs(a)         == IF a < 0 THEN -a ELSE a
IsEmpty(iv)    == iv.hi <= iv.lo

(* resetInterval *)
NoInterval == [lo |-> 1, hi |-> -1, step |-> 0]

Init ==
    /\ ray \in Rays
    /\ returned = NoInterval /\ currentInterval = NoInterval
    /\ lastHitOffsetT = -Inf
    /\ pc = "none"
    /\ t0 = 0 /\ sample0 = NaN /\ t = 0 /\ ts = 0 /\ sample = NaN
    /\ i = 1 /\ tHit = Inf /\ value = 0
    /\ low = [t |-> 0, sample |-> 0] /\ high = low /\ iter = 0
    /\ hits = <<>> /\ required = {} /\ surfaces = {}

-----------------------------------------------------------------------------
(***************************************************************************)
(* DefaultIntervalIterator_iterateInterval: slices of the bounding box, of *)
(* the volume's whole value range.  At its end it returns false, which is  *)
(* no interval here.                                                       *)
(***************************************************************************)
InField == {field[p] : p \in 0 .. Horizon} \ {NaN}

ValueRangesOverlap ==
    \/ values = <<>>
    \/ \E n \in 1 .. Len(values) :
          (\E f \in InField : f <= values[n]) /\ (\E f \in InField : values[n] <= f)

SliceStart_Reset == returned.hi

SliceStart == Greatest(returned.hi, ray.bounds.lo)

Slice == [lo |-> SliceStart, hi |-> Least(SliceStart + ray.nominalLength, ray.bounds.hi),
          step |-> ray.nominalLength \div 4]

NextIntervals ==
    IF ray.kind # "default"
    THEN {iv \in {ray.intervals[k] : k \in 1 .. Len(ray.intervals)} :
             iv.lo = Greatest(returned.hi, ray.bounds.lo)}
    ELSE {iv \in {Slice} : ~IsEmpty(ray.bounds) /\ ValueRangesOverlap /\ ~IsEmpty(iv)}

-----------------------------------------------------------------------------
(* v is strictly between two samples, neither of which is a NaN *)
Between(v, a, b) == a # NaN /\ b # NaN /\ (v - a) * (v - b) < 0

Sampled(p) == p \in 0 .. Horizon /\ field[p] # NaN

(* the next unit with a sample, over a hole of any width *)
Successors(p) ==
    {q \in p + 1 .. Horizon : Sampled(q) /\ \A u \in p + 1 .. q - 1 : ~Sampled(u)}

(* the surfaces of v: the units of t that the field crosses v in *)
Surfaces(v) ==
    {p \in 0 .. Horizon : /\ Sampled(p)
                          /\ \/ field[p] = v
                             \/ \E q \in Successors(p) : Between(v, field[p], field[q])}

Intervals ==
    IF ray.kind # "default" THEN {ray.intervals[k] : k \in 1 .. Len(ray.intervals)}
    ELSE {[lo |-> ray.bounds.lo + n * ray.nominalLength,
           hi |-> Least(ray.bounds.lo + (n + 1) * ray.nominalLength, ray.bounds.hi),
           step |-> ray.nominalLength \div 4] :
             n \in 0 .. (ray.bounds.hi - ray.bounds.lo) \div ray.nominalLength}

Steps == {iv.step : iv \in Intervals}

(***************************************************************************)
(* The surfaces that the search can see: those that the field passes       *)
(* through, inside of an interval, with no other surface of their value    *)
(* and no NaN within a step, except at the ends of intervals.              *)
(***************************************************************************)
PassesThrough(v, p) ==
    \/ Sampled(p) /\ Sampled(p + 1) /\ Between(v, field[p], field[p + 1])
    \/ /\ Sampled(p - 1) /\ Sampled(p) /\ Sampled(p + 1)
       /\ field[p] = v /\ Between(v, field[p - 1], field[p + 1])

Ends == UNION {{iv.lo, iv.hi} : iv \in Intervals}

Visible(v, p) ==
    /\ PassesThrough(v, p)
    /\ \E iv \in Intervals : iv.lo < p /\ p + 1 < iv.hi
    /\ \A q \in Surfaces(v) \ {p} : \A s \in Steps : Abs(q - p) > s
    /\ \A q \in 0 .. Horizon \ Ends : ~Sampled(q) => \A s \in Steps : Abs(q - p) > s

InSight(v) == {p \in Surfaces(v) : Visible(v, p)}

(* the units of t in the bounding box that a value of the context is in *)
Asked(v) == Surfaces(v) \cap (ray.bounds.lo .. ray.bounds.hi - 1)

(* DefaultIntervalIterator_Initialize, DefaultHitIterator_Initialize *)
Initialize ==
    /\ pc = "none" /\ pc' = "idle"
    /\ returned' = NoInterval /\ currentInterval' = NoInterval
    /\ lastHitOffsetT' = -Inf
    /\ required' = UNION {Asked(values[n]) : n \in 1 .. Len(values)}
    /\ surfaces' = UNION {InSight(values[n]) : n \in 1 .. Len(values)}
    /\ UNCHANGED <<ray, i, hits>>
    /\ UNCHANGED bracket /\ UNCHANGED nearest /\ UNCHANGED bisection

-----------------------------------------------------------------------------
(***************************************************************************)
(* DefaultHitIterator_iterateHit.  The application calls it until it       *)
(* returns false.                                                          *)
(***************************************************************************)
CallIterateHit ==
    /\ pc = "idle"
    /\ pc' = IF values = <<>> \/ currentInterval.lo = Inf THEN "done" ELSE "interval"
    /\ UNCHANGED <<asked, i, hits>>
    /\ UNCHANGED iteratorState /\ UNCHANGED bracket /\ UNCHANGED nearest
    /\ UNCHANGED bisection

(***************************************************************************)
(* "it's possible the last hit may have moved us past the beginning of     *)
(* this new interval".                                                     *)
(***************************************************************************)
Resumed_AtStart(iv) == iv

Resumed_AtLastHit(iv) == [iv EXCEPT !.lo = lastHitOffsetT]

Resumed(iv) == [iv EXCEPT !.lo = Greatest(@, lastHitOffsetT)]

NeedInterval ==
    /\ pc = "interval"
    /\ IF ~IsEmpty(currentInterval)
       THEN pc' = "start" /\ UNCHANGED iteratorState
       ELSE IF NextIntervals = {}
       THEN /\ currentInterval' = [currentInterval EXCEPT !.lo = Inf]
            /\ pc' = "done"
            /\ UNCHANGED <<returned, lastHitOffsetT>>
       ELSE /\ returned' \in NextIntervals
            /\ currentInterval' = Resumed(returned')
            /\ pc' = IF IsEmpty(currentInterval') THEN "interval" ELSE "start"
            /\ UNCHANGED lastHitOffsetT
    /\ UNCHANGED <<asked, i, hits>>
    /\ UNCHANGED bracket /\ UNCHANGED nearest /\ UNCHANGED bisection

-----------------------------------------------------------------------------
(***************************************************************************)
(* intersectSurfacesBisection.  A NaN at the entrance or at the end of a   *)
(* bracket is evaded in a few small steps, forward or backward.            *)
(***************************************************************************)
Entrance(a, b) ==
    LET last == Least(b, a + BISECT_MAX_BACKTRACK_ITERS)
    IN  CHOOSE p \in a .. last :
            /\ p = last \/ field[p] # NaN
            /\ \A q \in a .. p - 1 : field[q] = NaN

SampledEnd(a, b) ==
    LET last == Greatest(a, b - BISECT_MAX_BACKTRACK_ITERS)
    IN  CHOOSE p \in last .. b :
            /\ p = last \/ field[p] # NaN
            /\ \A q \in p + 1 .. b : field[q] = NaN

StartSearch ==
    LET entrance == Entrance(currentInterval.lo, currentInterval.hi)
    IN  /\ pc = "start"
        /\ pc' = "bracket"
        /\ t0' = entrance /\ sample0' = field[entrance]
        /\ UNCHANGED <<asked, t, ts, sample, i, hits>>
        /\ UNCHANGED iteratorState /\ UNCHANGED nearest /\ UNCHANGED bisection

(* the next bracket, or the end of the interval without a hit *)
NextBracket ==
    LET end == t0 + Least(currentInterval.step, currentInterval.hi - t0)
    IN  /\ pc = "bracket" /\ t0 < currentInterval.hi
        /\ pc' = "value"
        /\ t' = end
        /\ ts' = SampledEnd(t0, end)
        /\ sample' = field[ts']
        /\ i' = 1 /\ tHit' = Inf /\ UNCHANGED value
        /\ UNCHANGED <<asked, t0, sample0, hits>>
        /\ UNCHANGED iteratorState /\ UNCHANGED bisection

NoHit ==
    /\ pc = "bracket" /\ t0 >= currentInterval.hi
    /\ currentInterval' = [currentInterval EXCEPT !.lo = Inf]
    /\ pc' = "interval"
    /\ UNCHANGED <<asked, returned, lastHitOffsetT, i, hits>>
    /\ UNCHANGED bracket /\ UNCHANGED nearest /\ UNCHANGED bisection

(***************************************************************************)
(* A candidate for the hit counts if it is nearer than the ones of the     *)
(* values before; then the upper limit of the interval is one.             *)
(***************************************************************************)
Nearer_Last(h, c, v) == IF c <= currentInterval.hi THEN [t |-> c, v |-> v] ELSE h

Nearer_ValueKept(h, c, v) ==
    IF c < h.t /\ c <= currentInterval.hi THEN [h EXCEPT !.t = c] ELSE h

Nearer(h, c, v) ==
    IF c < h.t /\ c <= currentInterval.hi THEN [t |-> c, v |-> v] ELSE h

AtLimit(h, v) ==
    IF t = currentInterval.hi /\ sample = v THEN Nearer(h, ts, v) ELSE h

Consider(c) ==
    LET v == values[i]
        h == AtLimit(Nearer([t |-> tHit, v |-> value], c, v), v)
    IN  /\ tHit' = h.t /\ value' = h.v
        /\ i' = i + 1
        /\ pc' = "value"

TestValue ==
    /\ pc = "value" /\ i <= Len(values)
    /\ LET v == values[i]
       IN  IF sample0 # v /\ Between(v, sample0, sample)
           THEN /\ low' = [t |-> t0, sample |-> sample0]
                /\ high' = [t |-> ts, sample |-> sample]
                /\ iter' = 0
                /\ pc' = "bisect"
                /\ UNCHANGED i /\ UNCHANGED nearest
           ELSE Consider(IF sample0 = v THEN t0 ELSE Inf) /\ UNCHANGED bisection
    /\ UNCHANGED <<asked, hits>>
    /\ UNCHANGED iteratorState /\ UNCHANGED bracket

(***************************************************************************)
(* bisect: the crossing is in the half whose ends are on either side of    *)
(* the value.  A third case says "should never get here" in the code: it   *)
(* has no step here, and would be a deadlock.                              *)
(***************************************************************************)
Middle == (low.t + high.t) \div 2

InLowerHalf(v, a, m) == m = v \/ (v - a) * (v - m) < 0

InUpperHalf(v, b, m) == b = v \/ (v - b) * (v - m) < 0

Halve ==
    LET v == values[i]
        m == [t |-> Middle, sample |-> field[Middle]]
    IN  /\ pc = "bisect" /\ iter < maxIter /\ high.t - low.t > 1
        /\ \/ /\ m.sample = NaN
              /\ Consider(IF Abs(v - low.sample) < Abs(v - high.sample)
                          THEN low.t ELSE high.t)
              /\ UNCHANGED bisection
           \/ /\ m.sample # NaN
              /\ InLowerHalf(v, low.sample, m.sample) \/ InUpperHalf(v, high.sample, m.sample)
              /\ IF InLowerHalf(v, low.sample, m.sample)
                 THEN high' = m /\ UNCHANGED low
                 ELSE low' = m /\ UNCHANGED high
              /\ iter' = iter + 1
              /\ UNCHANGED <<i, pc>> /\ UNCHANGED nearest
        /\ UNCHANGED <<asked, hits>>
        /\ UNCHANGED iteratorState /\ UNCHANGED bracket

BisectionEnds ==
    /\ pc = "bisect" /\ (iter = maxIter \/ high.t - low.t <= 1)
    /\ Consider(Middle)
    /\ UNCHANGED <<asked, hits>>
    /\ UNCHANGED iteratorState /\ UNCHANGED bracket /\ UNCHANGED bisection

(***************************************************************************)
(* After the last value: return the nearest hit, and go on from there in   *)
(* the next call; or look at the next bracket.  The offset is a fraction   *)
(* of the step, in object space.                                           *)
(***************************************************************************)
Epsilon == (currentInterval.step \div 8) * ray.length

ReturnHit ==
    /\ pc = "value" /\ i > Len(values) /\ tHit < Inf
    /\ hits' = Append(hits, [t |-> tHit, value |-> value, epsilon |-> Epsilon])
    /\ currentInterval' = [currentInterval EXCEPT !.lo = tHit + Epsilon]
    /\ lastHitOffsetT' = tHit + Epsilon
    /\ pc' = "idle"
    /\ UNCHANGED <<asked, returned, i>>
    /\ UNCHANGED bracket /\ UNCHANGED nearest /\ UNCHANGED bisection

NextEntrance == t

LeaveBracket ==
    /\ pc = "value" /\ i > Len(values) /\ tHit = Inf
    /\ t0' = NextEntrance /\ sample0' = sample
    /\ pc' = "bracket"
    /\ UNCHANGED <<asked, t, ts, sample, i, hits>>
    /\ UNCHANGED iteratorState /\ UNCHANGED nearest /\ UNCHANGED bisection

Iteration ==
    \/ CallIterateHit \/ NeedInterval \/ StartSearch \/ NextBracket \/ NoHit
    \/ TestValue \/ Halve \/ BisectionEnds \/ ReturnHit \/ LeaveBracket

Done == pc = "done" /\ UNCHANGED vars

Next == Initialize \/ Iteration \/ Done

(* A call runs to its end, and the application asks for the next hit. *)
Spec == Init /\ [][Next]_vars /\ WF_vars(Iteration)

-----------------------------------------------------------------------------
TypeOK ==
    /\ ray \in Rays
    /\ {returned, currentInterval} \subseteq IntervalsOf(Horizon)
    /\ lastHitOffsetT \in Nat \cup {-Inf}
    /\ pc \in {"none", "idle", "interval", "start", "bracket", "value", "bisect", "done"}
    /\ {t0, t, ts} \subseteq 0 .. Horizon
    /\ {sample0, sample} \subseteq Int \cup {NaN}
    /\ i \in 1 .. Len(values) + 1
    /\ tHit \in 0 .. Horizon \cup {Inf} /\ value \in Int
    /\ {low, high} \subseteq [t : 0 .. Horizon, sample : Int \cup {NaN}]
    /\ iter \in 0 .. maxIter
    /\ hits \in Seq([t : 0 .. Horizon, value : Int, epsilon : Nat])
    /\ required \cup surfaces \subseteq 0 .. Horizon

(***************************************************************************)
(* No surface is hit twice: the next hit is beyond the last one and its    *)
(* epsilon, also when the last one was on the boundary of two intervals.   *)
(***************************************************************************)
HitsInOrder ==
    \A n \in 1 .. Len(hits) - 1 : hits[n].t + hits[n].epsilon <= hits[n + 1].t

(***************************************************************************)
(* "should never get here" (bisect): while it bisects, one of the halves   *)
(* has its ends on either side of the value, or the value at its far end.  *)
(***************************************************************************)
OneHalfCrosses ==
    pc = "bisect" /\ high.t - low.t > 1 /\ field[Middle] # NaN =>
        \/ InLowerHalf(values[i], low.sample, field[Middle])
        \/ InUpperHalf(values[i], high.sample, field[Middle])

(***************************************************************************)
(* Every hit is on a surface of its value: within the tolerance, or what   *)
(* the bisections leave of a step; or within a step, and the units by      *)
(* which a NaN is evaded, if a NaN is within a step.                       *)
(***************************************************************************)
TwoTo[k \in 0 .. maxIter] == IF k = 0 THEN 1 ELSE 2 * TwoTo[k - 1]

OnSurface(h) ==
    \E p \in Surfaces(h.value), s \in Steps :
        \/ (Abs(h.t - p) - 1) * TwoTo[maxIter] < s
        \/ /\ Abs(h.t - p) <= s + BISECT_MAX_BACKTRACK_ITERS
           /\ \E q \in 0 .. Horizon : field[q] = NaN /\ Abs(h.t - q) <= s

HitsAreOnSurfaces == pc = "idle" /\ hits # <<>> => OnSurface(hits[Len(hits)])

(***************************************************************************)
(* It implements the promise of all hit iterators: each surface in sight   *)
(* is hit, or is in the epsilon of another hit; and the hits end.          *)
(***************************************************************************)
HitPromise == INSTANCE HitIteration WITH
    Tolerance <- 1,
    stage     <- IF pc \in {"none", "done"} THEN pc ELSE "iterating",
    hit       <- IF hits = <<>> THEN [t |-> -Inf, epsilon |-> 0]
                 ELSE [t |-> hits[Len(hits)].t, epsilon |-> hits[Len(hits)].epsilon]

ImplementsHitIteration == HitPromise!Spec /\ HitPromise!Ends

(***************************************************************************)
(* The interval iterator it calls implements the promise of all interval   *)
(* iterators until the last hit iteration asks for no more.                *)
(***************************************************************************)
IntervalPromise == INSTANCE IntervalIteration WITH
    stage    <- IF pc \in {"none", "done"} THEN pc ELSE "iterating",
    limit    <- ray.bounds.hi,
    interval <- IF returned = NoInterval THEN [lo |-> ray.bounds.lo, hi |-> ray.bounds.lo]
                ELSE [lo |-> returned.lo, hi |-> returned.hi]

ImplementsIteration == IntervalPromise!Spec
=============================================================================
