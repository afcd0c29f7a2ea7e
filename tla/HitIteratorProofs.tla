------------------------- MODULE HitIteratorProofs -------------------------
(***************************************************************************)
(* Proofs about DefaultHitIterator, for every ray: any field with any      *)
(* holes, any intervals and values.                                        *)
(*                                                                         *)
(* The inductive invariant has three parts.  InOrder says where a call is: *)
(* in what is left of an interval, beyond the last hit and its epsilon, in *)
(* a bracket of it, in a part of the bracket that only shrinks.            *)
(* OnTheField ties the samples that are kept to the field: the ends of a   *)
(* bisection are on either side of the value, so that there is a surface   *)
(* between them (Crossing), and as near to each other as the halvings so   *)
(* far bring them.  Fetched is about the interval iterator that is called. *)
(*                                                                         *)
(* Induction over the units of t, and over the powers of two, is by a      *)
(* least or a greatest number.                                             *)
(***************************************************************************)
EXTENDS HitIterator, NumberLemmas, SequenceTheorems, TLAPS

(* A product is as large as its factors. *)
LEMMA Times ==
  ASSUME NEW a \in Int, NEW b \in Int, NEW c \in Nat, a <= b
  PROVE  a * c <= b * c /\ a * c \in Int /\ b * c \in Int
OBVIOUS

(* A product of differences is negative between the two numbers. *)
LEMMA OnBothSides ==
  ASSUME NEW v \in Int, NEW a \in Int, NEW b \in Int
  PROVE  (v - a) * (v - b) < 0 <=> (a < v /\ v < b) \/ (b < v /\ v < a)
OBVIOUS

-----------------------------------------------------------------------------
(* What is known of the ray. *)
LEMMA RayFacts ==
  ASSUME ray \in Rays
  PROVE  /\ Horizon \in Nat /\ Inf \in Nat /\ Horizon < Inf /\ NaN \notin Int
         /\ BISECT_MAX_BACKTRACK_ITERS \in Nat /\ maxIter \in Nat \ {0}
         /\ field \in [0 .. Horizon -> Int \cup {NaN}]
         /\ ray.bounds \in [lo : Nat, hi : 0 .. Horizon]
         /\ ray.bounds.lo \in Nat /\ ray.bounds.hi \in 0 .. Horizon
         /\ values \in Seq(Int) /\ Len(values) \in Nat
         /\ \A n \in 1 .. Len(values) : values[n] \in Int
         /\ ray.length \in Nat \ {0}
         /\ ray.kind = "default" =>
               /\ ray.nominalLength \in Nat /\ ray.nominalLength >= 32
               /\ Horizon + ray.nominalLength * ray.length < Inf
BY RayAssumption DEF field, values

(* a step of an interval, or of what is left of it *)
IsStep(s) == s \in Steps /\ s >= 8 /\ Horizon + s * ray.length < Inf

(* The interval iterator goes on where it ended, up to the end of the box. *)
LEMMA NextIntervalFacts ==
  ASSUME TypeOK, NEW iv \in NextIntervals
  PROVE  /\ iv \in [lo : Nat, hi : 0 .. Horizon, step : Nat]
         /\ iv.lo = Greatest(returned.hi, ray.bounds.lo)
         /\ iv.lo < iv.hi /\ iv.hi <= ray.bounds.hi
         /\ IsStep(iv.step)
         /\ ray.kind # "default" => \E k \in 1 .. Len(ray.intervals) : iv = ray.intervals[k]
<1>0. /\ ray \in Rays /\ returned.hi \in Int /\ returned.hi >= -1
      /\ ray.bounds.lo \in Nat /\ ray.bounds.hi \in 0 .. Horizon /\ ray.length \in Nat \ {0}
      /\ Horizon \in Nat
  BY RayFacts DEF TypeOK, IntervalsOf
<1>1. CASE ray.kind # "default"
  <2>1. PICK k \in 1 .. Len(ray.intervals) : iv = ray.intervals[k]
    BY <1>1 DEF NextIntervals
  <2>2. iv.lo = Greatest(returned.hi, ray.bounds.lo)
    BY <1>1 DEF NextIntervals
  <2>3. /\ ray.intervals \in Seq(IntervalsOf(Horizon))
        /\ iv.lo < iv.hi /\ iv.hi <= ray.bounds.hi /\ iv.step >= 8
        /\ Horizon + iv.step * ray.length < Inf
    BY <1>0, <1>1, <2>1, RayAssumption
  <2>4. iv \in IntervalsOf(Horizon)
    BY <2>1, <2>3, ElementOfSeq
  <2>5. iv \in [lo : Nat, hi : 0 .. Horizon, step : Nat]
    BY <1>0, <2>3, <2>4 DEF IntervalsOf
  <2>6. iv.step \in Steps
    BY <1>1, <2>1 DEF Steps, Intervals
  <2> QED
    BY <2>1, <2>2, <2>3, <2>5, <2>6 DEF IsStep
<1>2. CASE ray.kind = "default"
  <2>1. iv = Slice /\ ~IsEmpty(ray.bounds) /\ ~IsEmpty(iv)
    BY <1>2 DEF NextIntervals
  <2> DEFINE n == ray.nominalLength
             s == n \div 4
  <2>2. n \in Nat /\ n >= 32 /\ Horizon + n * ray.length < Inf
    BY <1>0, <1>2, RayFacts
  <2>3. s \in Nat /\ s >= 8 /\ s <= n
    BY <2>2
  <2>4. Inf \in Nat
    BY <1>0, RayFacts
  <2> HIDE DEF n, s
  <2>5. Horizon + s * ray.length < Inf
    <3>1. s * ray.length <= n * ray.length /\ s * ray.length \in Int /\ n * ray.length \in Int
      BY <1>0, <2>2, <2>3, Times
    <3> QED
      BY <1>0, <2>2, <2>4, <3>1
  <2>6. SliceStart = Greatest(returned.hi, ray.bounds.lo) /\ SliceStart \in Nat
    BY <1>0 DEF SliceStart, Greatest
  <2>7. Slice = [lo |-> SliceStart, hi |-> Least(SliceStart + n, ray.bounds.hi), step |-> s]
    BY DEF Slice, n, s
  <2>8. Least(SliceStart + n, ray.bounds.hi) \in Int
        /\ Least(SliceStart + n, ray.bounds.hi) <= ray.bounds.hi
    BY <1>0, <2>2, <2>6 DEF Least
  <2>9. iv.lo = SliceStart /\ iv.hi = Least(SliceStart + n, ray.bounds.hi) /\ iv.step = s
    BY <2>1, <2>7
  <2>10. iv.lo < iv.hi /\ iv.hi \in 0 .. Horizon /\ iv.hi <= ray.bounds.hi
    BY <1>0, <2>1, <2>6, <2>8, <2>9 DEF IsEmpty
  <2>11. s \in Steps
    <3>1. ray.bounds.hi - ray.bounds.lo \in Nat
      BY <1>0, <2>1 DEF IsEmpty
    <3>2. 0 \in 0 .. (ray.bounds.hi - ray.bounds.lo) \div n
      BY <2>2, <3>1
    <3> DEFINE k == (ray.bounds.hi - ray.bounds.lo) \div n
               I(m) == [lo |-> ray.bounds.lo + m * ray.nominalLength,
                        hi |-> Least(ray.bounds.lo + (m + 1) * ray.nominalLength,
                                     ray.bounds.hi),
                        step |-> ray.nominalLength \div 4]
    <3>3. Intervals = {I(m) : m \in 0 .. k}
      BY <1>2 DEF Intervals, n
    <3>4. I(0).step = s
      BY DEF s, n
    <3>5. I(0) \in {I(m) : m \in 0 .. k}
      <4> HIDE DEF I, k
      <4> QED
        BY <3>2 DEF k
    <3> QED
      BY <3>3, <3>4, <3>5 DEF Steps
  <2> QED
    BY <1>2, <2>1, <2>3, <2>5, <2>6, <2>7, <2>9, <2>10, <2>11 DEF IsStep
<1> QED
  BY <1>1, <1>2

(* The sample at the entrance is the first one, unless there is none near. *)
LEMMA EntranceFacts ==
  ASSUME NEW a \in Nat, NEW b \in Nat, a <= b, BISECT_MAX_BACKTRACK_ITERS \in Nat
  PROVE  Entrance(a, b) \in a .. b
<1> DEFINE last == Least(b, a + BISECT_MAX_BACKTRACK_ITERS)
           S == {p \in a .. last : p = last \/ field[p] # NaN}
<1>1. last \in a .. b
  BY DEF Least
<1>2. S \in SUBSET Nat /\ last \in S
  BY <1>1
<1>3. PICK m \in S : \A p \in S : m <= p
  <2> HIDE DEF S
  <2> QED
    BY <1>2, LeastNat
<1>4. \A q \in a .. m - 1 : field[q] = NaN
  <2> SUFFICES ASSUME NEW q \in a .. m - 1, field[q] # NaN PROVE FALSE
    OBVIOUS
  <2>1. m \in a .. last /\ q \in a .. last
    BY <1>1
  <2>2. q \in S /\ ~(m <= q)
    BY <2>1, <1>1
  <2> HIDE DEF S
  <2> QED
    BY <1>3, <2>2
<1>5. /\ m \in a .. last /\ (m = last \/ field[m] # NaN)
  OBVIOUS
<1> HIDE DEF S, last
<1>6. Entrance(a, b) \in a .. last
  BY <1>4, <1>5 DEF Entrance, last
<1> QED
  BY <1>1, <1>6

(* The end is sampled where it is, or a few units of NaN before. *)
LEMMA SampledEndFacts ==
  ASSUME NEW a \in Nat, NEW b \in Nat, a <= b, BISECT_MAX_BACKTRACK_ITERS \in Nat
  PROVE  /\ SampledEnd(a, b) \in a .. b
         /\ b - SampledEnd(a, b) <= BISECT_MAX_BACKTRACK_ITERS
         /\ SampledEnd(a, b) = b \/ field[b] = NaN
<1> DEFINE last == Greatest(a, b - BISECT_MAX_BACKTRACK_ITERS)
           S == {p \in last .. b : p = last \/ field[p] # NaN}
<1>1. last \in a .. b /\ b - last <= BISECT_MAX_BACKTRACK_ITERS
  BY DEF Greatest
<1>2. S \subseteq 0 .. b /\ last \in S
  BY <1>1
<1>3. PICK m \in S : \A p \in S : p <= m
  <2> HIDE DEF S, last
  <2> QED
    BY <1>2, GreatestNat
<1>4. \A q \in m + 1 .. b : field[q] = NaN
  <2> SUFFICES ASSUME NEW q \in m + 1 .. b, field[q] # NaN PROVE FALSE
    OBVIOUS
  <2>1. m \in last .. b /\ q \in last .. b
    BY <1>1
  <2>2. q \in S /\ ~(q <= m)
    BY <2>1, <1>1
  <2> HIDE DEF S
  <2> QED
    BY <1>3, <2>2
<1>5. m \in last .. b /\ (m = last \/ field[m] # NaN)
  OBVIOUS
<1> HIDE DEF S, last
<1>6. /\ SampledEnd(a, b) \in last .. b
      /\ \A q \in SampledEnd(a, b) + 1 .. b : field[q] = NaN
  BY <1>4, <1>5 DEF SampledEnd, last
<1>7. SampledEnd(a, b) = b \/ b \in SampledEnd(a, b) + 1 .. b
  BY <1>1, <1>6
<1> QED
  BY <1>1, <1>6, <1>7

-----------------------------------------------------------------------------
(***************************************************************************)
(* Where a call is: in what is left of an interval, beyond the last hit    *)
(* and its epsilon; in a bracket of it; in a part of the bracket.          *)
(***************************************************************************)
LastHit ==
    lastHitOffsetT =
        IF hits = <<>> THEN -Inf ELSE hits[Len(hits)].t + hits[Len(hits)].epsilon

HasStep ==
    ~IsEmpty(currentInterval) =>
        IsStep(currentInterval.step) /\ lastHitOffsetT <= currentInterval.lo

InInterval ==
    pc \in {"start", "bracket", "value", "bisect"} => ~IsEmpty(currentInterval)

InBracket ==
    /\ pc \in {"bracket", "value", "bisect"} =>
          currentInterval.lo <= t0 /\ t0 <= currentInterval.hi
    /\ pc \in {"value", "bisect"} =>
          /\ t0 < t /\ t <= currentInterval.hi /\ t - t0 <= currentInterval.step
          /\ t0 <= ts /\ ts <= t
          /\ tHit = Inf \/ (t0 <= tHit /\ tHit <= currentInterval.hi)
    /\ pc = "bisect" =>
          i <= Len(values) /\ t0 <= low.t /\ low.t <= high.t /\ high.t <= ts

NotBegun == pc = "none" => hits = <<>>

InOrder ==
    TypeOK /\ LastHit /\ HasStep /\ InInterval /\ InBracket /\ NotBegun /\ HitsInOrder

(* The types of what a call calculates with. *)
LEMMA Numbers ==
  ASSUME InOrder
  PROVE  /\ ray \in Rays /\ Horizon \in Nat /\ Inf \in Nat /\ Horizon < Inf
         /\ currentInterval.lo \in Nat /\ currentInterval.hi \in Int
         /\ -1 <= currentInterval.hi /\ currentInterval.hi <= Horizon
         /\ currentInterval.step \in Nat /\ lastHitOffsetT \in Int
         /\ t0 \in 0 .. Horizon /\ t \in 0 .. Horizon /\ ts \in 0 .. Horizon
         /\ tHit \in 0 .. Horizon \cup {Inf} /\ value \in Int
         /\ low.t \in 0 .. Horizon /\ high.t \in 0 .. Horizon
         /\ i \in 1 .. Len(values) + 1 /\ Len(values) \in Nat
         /\ \A n \in 1 .. Len(values) : values[n] \in Int
         /\ ray.length \in Nat \ {0}
<1>1. /\ ray \in Rays /\ Horizon \in Nat /\ Inf \in Nat /\ Horizon < Inf
      /\ Len(values) \in Nat /\ ray.length \in Nat \ {0}
      /\ \A n \in 1 .. Len(values) : values[n] \in Int
  BY RayFacts DEF InOrder, TypeOK
<1>2. currentInterval \in [lo : Nat, hi : -1 .. Horizon, step : Nat]
  BY DEF InOrder, TypeOK, IntervalsOf
<1>3. {low, high} \subseteq [t : 0 .. Horizon, sample : Int \cup {NaN}]
  BY DEF InOrder, TypeOK
<1>4. low.t \in 0 .. Horizon /\ high.t \in 0 .. Horizon
  BY <1>3
<1>5. lastHitOffsetT \in Int
  BY <1>1 DEF InOrder, TypeOK
<1>6. /\ t0 \in 0 .. Horizon /\ t \in 0 .. Horizon /\ ts \in 0 .. Horizon
      /\ tHit \in 0 .. Horizon \cup {Inf} /\ value \in Int /\ i \in 1 .. Len(values) + 1
  BY DEF InOrder, TypeOK
<1> QED
  BY <1>1, <1>2, <1>4, <1>5, <1>6

(* An interval whose lower limit has moved on. *)
LEMMA IntervalRecord ==
  ASSUME InOrder, NEW a
  PROVE  [currentInterval EXCEPT !.lo = a] =
            [lo |-> a, hi |-> currentInterval.hi, step |-> currentInterval.step]
<1>1. currentInterval \in [lo : Nat, hi : -1 .. Horizon, step : Nat]
  BY DEF InOrder, TypeOK, IntervalsOf
<1> QED
  BY <1>1

(* What is known of the ray stays true. *)
LEMMA RayStays ==
  ASSUME ray' = ray
  PROVE  /\ field' = field /\ values' = values /\ Intervals' = Intervals /\ Steps' = Steps
         /\ \A v : Surfaces(v)' = Surfaces(v)
         /\ \A s : IsStep(s)' = IsStep(s)
BY DEF field, values, Intervals, Steps, Least, Surfaces, Sampled, Successors, Between, IsStep

(* The candidates for the nearest hit. *)
LEMMA ConsiderFacts ==
  ASSUME InOrder, pc \in {"value", "bisect"}, i <= Len(values), NEW c,
         c = Inf \/ (c \in Nat /\ t0 <= c /\ c <= currentInterval.hi), Consider(c)
  PROVE  /\ \/ tHit' = tHit /\ value' = value
            \/ c # Inf /\ tHit' = c /\ value' = values[i]
            \/ sample = values[i] /\ tHit' = ts /\ value' = values[i]
         /\ tHit' = Inf \/ (t0 <= tHit' /\ tHit' <= currentInterval.hi)
         /\ tHit' \in 0 .. Horizon \cup {Inf} /\ value' \in Int
         /\ i' = i + 1 /\ pc' = "value"
<1> DEFINE v == values[i]
           h == Nearer([t |-> tHit, v |-> value], c, v)
<1>1. /\ tHit' = AtLimit(h, v).t /\ value' = AtLimit(h, v).v
      /\ i' = i + 1 /\ pc' = "value"
  BY DEF Consider
<1>2. /\ t0 < t /\ t <= currentInterval.hi /\ t0 <= ts /\ ts <= t
      /\ tHit = Inf \/ (t0 <= tHit /\ tHit <= currentInterval.hi)
  BY DEF InOrder, InBracket
<1>3. v \in Int
  BY Numbers
<1> HIDE DEF v
<1>4. \/ h = [t |-> tHit, v |-> value]
      \/ h = [t |-> c, v |-> v] /\ c # Inf /\ c <= currentInterval.hi
  BY Numbers DEF Nearer
<1> HIDE DEF h
<1>5. \/ AtLimit(h, v) = h
      \/ AtLimit(h, v) = [t |-> ts, v |-> v] /\ sample = v
  BY DEF AtLimit, Nearer
<1>6. \/ tHit' = tHit /\ value' = value
      \/ c # Inf /\ tHit' = c /\ value' = v
      \/ sample = v /\ tHit' = ts /\ value' = v
  BY <1>1, <1>4, <1>5
<1>7. tHit' = Inf \/ (t0 <= tHit' /\ tHit' <= currentInterval.hi)
  BY <1>2, <1>6, Numbers, SMTT(30)
<1>8. tHit' \in 0 .. Horizon \cup {Inf} /\ value' \in Int
  BY <1>3, <1>6, <1>7, Numbers, SMTT(30)
<1> QED
  BY <1>1, <1>6, <1>7, <1>8 DEF v

(* The place of a call that has not begun. *)
LEMMA InitInOrder == Init => InOrder
<1> SUFFICES ASSUME Init PROVE InOrder
  OBVIOUS
<1>1. ray \in Rays /\ Horizon \in Nat /\ Inf \in Nat /\ maxIter \in Nat \ {0}
      /\ Len(values) \in Nat
  BY RayFacts DEF Init
<1>2. NoInterval \in IntervalsOf(Horizon) /\ IsEmpty(NoInterval)
  BY <1>1 DEF NoInterval, IntervalsOf, IsEmpty
<1>3. {low, high} \subseteq [t : 0 .. Horizon, sample : Int \cup {NaN}]
  BY <1>1 DEF Init
<1>4. TypeOK
  BY <1>1, <1>2, <1>3 DEF Init, TypeOK
<1> QED
  BY <1>2, <1>4 DEF Init, InOrder, LastHit, HasStep, InInterval, InBracket, NotBegun, HitsInOrder

(* A new iterator is at the beginning of the ray. *)
LEMMA InitializeInOrder ==
  ASSUME InOrder, Initialize
  PROVE  InOrder'
<1>1. /\ pc = "none" /\ pc' = "idle" /\ ray' = ray /\ i' = i /\ hits' = hits
      /\ returned' = NoInterval /\ currentInterval' = NoInterval /\ lastHitOffsetT' = -Inf
      /\ UNCHANGED bracket /\ UNCHANGED nearest /\ UNCHANGED bisection
  BY DEF Initialize
<1>2. hits = <<>>
  BY <1>1 DEF InOrder, NotBegun
<1>3. NoInterval \in IntervalsOf(Horizon) /\ IsEmpty(NoInterval)
  BY Numbers DEF NoInterval, IntervalsOf, IsEmpty
<1>4. required' \cup surfaces' \subseteq 0 .. Horizon
  BY DEF Initialize, Asked, InSight, Surfaces
<1>5. TypeOK'
  BY <1>1, <1>3, <1>4, RayStays DEF InOrder, TypeOK, bracket, nearest, bisection
<1> QED
  BY <1>1, <1>2, <1>3, <1>5
     DEF InOrder, LastHit, HasStep, InInterval, InBracket, NotBegun, HitsInOrder, IsEmpty

(* A call goes on in the interval that the last one left. *)
LEMMA CallIterateHitInOrder ==
  ASSUME InOrder, CallIterateHit
  PROVE  InOrder'
<1>1. /\ pc = "idle" /\ pc' \in {"done", "interval"} /\ UNCHANGED asked /\ i' = i /\ hits' = hits
      /\ UNCHANGED iteratorState /\ UNCHANGED bracket /\ UNCHANGED nearest
      /\ UNCHANGED bisection
  BY DEF CallIterateHit
<1>2. TypeOK'
  BY <1>1, RayStays DEF InOrder, TypeOK, asked, iteratorState, bracket, nearest, bisection
<1> QED
  BY <1>1, <1>2, RayStays
     DEF InOrder, LastHit, HasStep, InInterval, InBracket, NotBegun, HitsInOrder, IsEmpty,
         asked, iteratorState, bracket, nearest, bisection

(* A new interval is cut off at the end of the last hit. *)
LEMMA NeedIntervalInOrder ==
  ASSUME InOrder, NeedInterval
  PROVE  InOrder'
<1>1. /\ pc = "interval" /\ UNCHANGED asked /\ i' = i /\ hits' = hits
      /\ lastHitOffsetT' = lastHitOffsetT
      /\ UNCHANGED bracket /\ UNCHANGED nearest /\ UNCHANGED bisection
  BY DEF NeedInterval, iteratorState
<1>2. /\ returned' \in IntervalsOf(Horizon) /\ currentInterval' \in IntervalsOf(Horizon)
      /\ pc' \in {"interval", "start", "done"}
      /\ pc' = "start" => ~IsEmpty(currentInterval')
      /\ ~IsEmpty(currentInterval') =>
            IsStep(currentInterval'.step) /\ lastHitOffsetT <= currentInterval'.lo
  <2>1. CASE ~IsEmpty(currentInterval)
    BY <1>1, <2>1 DEF NeedInterval, iteratorState, InOrder, TypeOK, HasStep
  <2>2. CASE IsEmpty(currentInterval) /\ NextIntervals = {}
    <3>1. /\ currentInterval' = [currentInterval EXCEPT !.lo = Inf] /\ pc' = "done"
          /\ returned' = returned
      BY <2>2 DEF NeedInterval
    <3>2. currentInterval' = [lo |-> Inf, hi |-> currentInterval.hi, step |-> currentInterval.step]
      BY <3>1, IntervalRecord
    <3>3. currentInterval' \in IntervalsOf(Horizon) /\ IsEmpty(currentInterval')
      BY <3>2, Numbers DEF IntervalsOf, IsEmpty
    <3> QED
      BY <3>1, <3>3 DEF InOrder, TypeOK
  <2>3. CASE IsEmpty(currentInterval) /\ NextIntervals # {}
    <3>1. /\ returned' \in NextIntervals /\ currentInterval' = Resumed(returned')
          /\ pc' = IF IsEmpty(currentInterval') THEN "interval" ELSE "start"
      BY <2>3 DEF NeedInterval
    <3> DEFINE iv == returned'
    <3>2. iv \in [lo : Nat, hi : 0 .. Horizon, step : Nat] /\ IsStep(iv.step)
      BY <3>1, NextIntervalFacts DEF InOrder
    <3> HIDE DEF iv
    <3>3. Resumed(iv) = [lo |-> Greatest(iv.lo, lastHitOffsetT), hi |-> iv.hi, step |-> iv.step]
      BY <3>2 DEF Resumed
    <3>4. /\ Greatest(iv.lo, lastHitOffsetT) \in Nat
          /\ lastHitOffsetT <= Greatest(iv.lo, lastHitOffsetT)
      <4>1. iv.lo \in Nat /\ lastHitOffsetT \in Int
        BY <3>2, Numbers
      <4> QED
        BY <4>1 DEF Greatest
    <3>5. iv \in IntervalsOf(Horizon) /\ Resumed(iv) \in IntervalsOf(Horizon)
      BY <3>2, <3>3, <3>4, Numbers DEF IntervalsOf
    <3> QED
      BY <3>1, <3>2, <3>3, <3>4, <3>5 DEF iv
  <2> QED
    BY <2>1, <2>2, <2>3
<1>3. TypeOK'
  BY <1>1, <1>2, RayStays DEF InOrder, TypeOK, asked, bracket, nearest, bisection
<1> QED
  BY <1>1, <1>2, <1>3, RayStays
     DEF InOrder, LastHit, HasStep, InInterval, InBracket, NotBegun, HitsInOrder, IsEmpty,
         asked, bracket, nearest, bisection

(* The search begins where the interval does, or after a NaN there. *)
LEMMA StartSearchInOrder ==
  ASSUME InOrder, StartSearch
  PROVE  InOrder'
<1>1. /\ pc = "start" /\ pc' = "bracket"
      /\ t0' = Entrance(currentInterval.lo, currentInterval.hi) /\ sample0' = field[t0']
      /\ UNCHANGED <<asked, t, ts, sample, i, hits>>
      /\ UNCHANGED iteratorState /\ UNCHANGED nearest /\ UNCHANGED bisection
  BY DEF StartSearch
<1>2. currentInterval.lo <= currentInterval.hi
  BY <1>1, Numbers DEF InOrder, InInterval, IsEmpty
<1>3. t0' \in currentInterval.lo .. currentInterval.hi
  <2>1. currentInterval.lo \in Nat /\ currentInterval.hi \in Nat /\ BISECT_MAX_BACKTRACK_ITERS \in Nat
    BY <1>2, Numbers, RayFacts, SMTT(30)
  <2> QED
    BY <1>1, <1>2, <2>1, EntranceFacts
<1>4. t0' \in 0 .. Horizon /\ currentInterval.lo <= t0' /\ t0' <= currentInterval.hi
  BY <1>3, Numbers, SMTT(30)
<1>5. sample0' \in Int \cup {NaN}
  BY <1>1, <1>4, Numbers, RayFacts
<1>6. TypeOK'
  BY <1>1, <1>4, <1>5, RayStays DEF InOrder, TypeOK, asked, iteratorState, nearest, bisection
<1> QED
  BY <1>1, <1>4, <1>6, RayStays
     DEF InOrder, LastHit, HasStep, InInterval, InBracket, NotBegun, HitsInOrder, IsEmpty,
         asked, iteratorState, nearest, bisection

(* A bracket is not empty, and no longer than a step. *)
LEMMA NextBracketInOrder ==
  ASSUME InOrder, NextBracket
  PROVE  InOrder'
<1>1. /\ pc = "bracket" /\ t0 < currentInterval.hi /\ pc' = "value"
      /\ t' = t0 + Least(currentInterval.step, currentInterval.hi - t0)
      /\ ts' = SampledEnd(t0, t') /\ sample' = field[ts']
      /\ i' = 1 /\ tHit' = Inf /\ UNCHANGED value
      /\ UNCHANGED <<asked, t0, sample0, hits>>
      /\ UNCHANGED iteratorState /\ UNCHANGED bisection
  BY DEF NextBracket
<1>2. ~IsEmpty(currentInterval) /\ currentInterval.lo <= t0
  BY <1>1 DEF InOrder, InInterval, InBracket
<1>3. currentInterval.step >= 8
  BY <1>2 DEF InOrder, HasStep, IsStep
<1>4. /\ t' \in 0 .. Horizon /\ t0 < t' /\ t' <= currentInterval.hi
      /\ t' - t0 <= currentInterval.step
  <2>1. t0 \in Nat /\ currentInterval.hi \in Nat /\ currentInterval.step \in Nat
        /\ currentInterval.hi <= Horizon /\ Horizon \in Nat
    BY <1>1, Numbers
  <2> QED
    BY <1>1, <1>3, <2>1 DEF Least
<1>5. ts' \in t0 .. t'
  <2>1. t0 \in Nat /\ t' \in Nat /\ BISECT_MAX_BACKTRACK_ITERS \in Nat
    BY <1>4, Numbers, RayFacts
  <2> QED
    BY <1>1, <1>4, <2>1, SampledEndFacts
<1>6. ts' \in 0 .. Horizon /\ t0 <= ts' /\ ts' <= t'
  BY <1>4, <1>5, Numbers
<1>7. sample' \in Int \cup {NaN}
  BY <1>1, <1>6, Numbers, RayFacts
<1>8. 1 \in 1 .. Len(values) + 1
  BY Numbers
<1>9. TypeOK'
  BY <1>1, <1>4, <1>6, <1>7, <1>8, RayStays
     DEF InOrder, TypeOK, asked, iteratorState, bisection
<1> QED
  BY <1>1, <1>4, <1>6, <1>9, RayStays
     DEF InOrder, LastHit, HasStep, InInterval, InBracket, NotBegun, HitsInOrder, IsEmpty,
         asked, iteratorState, bisection

(* An interval without a hit leaves the place to the next one. *)
LEMMA NoHitInOrder ==
  ASSUME InOrder, NoHit
  PROVE  InOrder'
<1>1. /\ pc = "bracket" /\ pc' = "interval"
      /\ currentInterval' = [currentInterval EXCEPT !.lo = Inf]
      /\ UNCHANGED <<asked, returned, lastHitOffsetT, i, hits>>
      /\ UNCHANGED bracket /\ UNCHANGED nearest /\ UNCHANGED bisection
  BY DEF NoHit
<1>2. currentInterval' = [lo |-> Inf, hi |-> currentInterval.hi, step |-> currentInterval.step]
  BY <1>1, IntervalRecord
<1>3. currentInterval' \in IntervalsOf(Horizon) /\ IsEmpty(currentInterval')
  BY <1>2, Numbers DEF IntervalsOf, IsEmpty
<1>4. TypeOK'
  BY <1>1, <1>3, RayStays DEF InOrder, TypeOK, asked, bracket, nearest, bisection
<1> QED
  BY <1>1, <1>3, <1>4, RayStays
     DEF InOrder, LastHit, HasStep, InInterval, InBracket, NotBegun, HitsInOrder, IsEmpty,
         asked, bracket, nearest, bisection

(* Considering a candidate in the bracket. *)
LEMMA ConsiderInOrder ==
  ASSUME InOrder, pc \in {"value", "bisect"}, i <= Len(values), NEW c,
         c = Inf \/ (c \in Nat /\ t0 <= c /\ c <= currentInterval.hi), Consider(c),
         UNCHANGED <<asked, hits>>, UNCHANGED iteratorState, UNCHANGED bracket,
         UNCHANGED bisection
  PROVE  InOrder'
<1>1. /\ tHit' = Inf \/ (t0 <= tHit' /\ tHit' <= currentInterval.hi)
      /\ tHit' \in 0 .. Horizon \cup {Inf} /\ value' \in Int
      /\ i' = i + 1 /\ pc' = "value"
  BY ConsiderFacts
<1>2. i' \in 1 .. Len(values) + 1
  <2>1. i \in 1 .. Len(values) + 1 /\ Len(values) \in Nat
    BY Numbers
  <2> QED
    BY <1>1, <2>1
<1>3. TypeOK'
  BY <1>1, <1>2, RayStays DEF InOrder, TypeOK, asked, iteratorState, bracket, bisection
<1> QED
  BY <1>1, <1>3, RayStays
     DEF InOrder, LastHit, HasStep, InInterval, InBracket, NotBegun, HitsInOrder, IsEmpty,
         asked, iteratorState, bracket, bisection

(* A bisection begins with the whole bracket. *)
LEMMA TestValueInOrder ==
  ASSUME InOrder, TestValue
  PROVE  InOrder'
<1>1. /\ pc = "value" /\ i <= Len(values)
      /\ UNCHANGED <<asked, hits>> /\ UNCHANGED iteratorState /\ UNCHANGED bracket
  BY DEF TestValue
<1>2. CASE sample0 # values[i] /\ Between(values[i], sample0, sample)
  <2>1. /\ low' = [t |-> t0, sample |-> sample0] /\ high' = [t |-> ts, sample |-> sample]
        /\ iter' = 0 /\ pc' = "bisect" /\ i' = i /\ UNCHANGED nearest
    BY <1>2 DEF TestValue
  <2>2. TypeOK'
    <3>1. {low', high'} \subseteq [t : 0 .. Horizon, sample : Int \cup {NaN}] /\ iter' \in 0 .. maxIter
      BY <2>1, RayFacts DEF InOrder, TypeOK
    <3> QED
      BY <1>1, <2>1, <3>1, RayStays DEF InOrder, TypeOK, asked, iteratorState, bracket, nearest
  <2>3. t0 <= ts /\ ts <= t
    BY <1>1 DEF InOrder, InBracket
  <2>4. InBracket'
    BY <1>1, <2>1, <2>3, Numbers, RayStays
       DEF InOrder, InBracket, asked, iteratorState, bracket, nearest
  <2> QED
    BY <1>1, <2>1, <2>2, <2>4, RayStays
       DEF InOrder, LastHit, HasStep, InInterval, NotBegun, HitsInOrder, IsEmpty,
           asked, iteratorState, bracket, nearest
<1>3. CASE ~(sample0 # values[i] /\ Between(values[i], sample0, sample))
  <2> DEFINE c == IF sample0 = values[i] THEN t0 ELSE Inf
  <2>1. Consider(c) /\ UNCHANGED bisection
    BY <1>3 DEF TestValue
  <2>2. c = Inf \/ (c \in Nat /\ t0 <= c /\ c <= currentInterval.hi)
    BY <1>1, Numbers DEF InOrder, InBracket
  <2> HIDE DEF c
  <2> QED
    BY <1>1, <2>1, <2>2, ConsiderInOrder
<1> QED
  BY <1>2, <1>3

(* The middle of a part of the bracket. *)
LEMMA MiddleFacts ==
  ASSUME InOrder, pc = "bisect"
  PROVE  /\ Middle \in Nat /\ Middle \in 0 .. Horizon
         /\ low.t <= Middle /\ Middle <= high.t
         /\ low.t < high.t => Middle < high.t
         /\ 2 * Middle <= low.t + high.t /\ low.t + high.t <= 2 * Middle + 1
         /\ t0 <= low.t /\ low.t <= high.t /\ high.t <= ts /\ ts <= t
         /\ t <= currentInterval.hi /\ i <= Len(values)
         /\ t - t0 <= currentInterval.step
<1>1. /\ t0 <= low.t /\ low.t <= high.t /\ high.t <= ts /\ ts <= t
      /\ t <= currentInterval.hi /\ i <= Len(values) /\ t - t0 <= currentInterval.step
  BY DEF InOrder, InBracket
<1>2. low.t \in 0 .. Horizon /\ high.t \in 0 .. Horizon /\ Horizon \in Nat
  BY Numbers
<1>3. /\ 2 * Middle <= low.t + high.t /\ low.t + high.t <= 2 * Middle + 1 /\ Middle \in Int
  BY <1>2 DEF Middle
<1> QED
  BY <1>1, <1>2, <1>3

(* Halving keeps an end. *)
LEMMA HalveInOrder ==
  ASSUME InOrder, Halve
  PROVE  InOrder'
<1> DEFINE m == [t |-> Middle, sample |-> field[Middle]]
           v == values[i]
<1>1. /\ pc = "bisect" /\ iter < maxIter
      /\ UNCHANGED <<asked, hits>> /\ UNCHANGED iteratorState /\ UNCHANGED bracket
  BY DEF Halve
<1>2. CASE m.sample = NaN
  <2> DEFINE c == IF Abs(v - low.sample) < Abs(v - high.sample) THEN low.t ELSE high.t
  <2>1. Consider(c) /\ UNCHANGED bisection
    BY <1>2 DEF Halve
  <2>2. c \in Nat /\ t0 <= c /\ c <= currentInterval.hi
    <3>1. t0 \in Nat /\ Horizon \in Nat /\ currentInterval.hi \in Int /\ low.t \in Nat /\ high.t \in Nat
          /\ ts \in Nat /\ t \in Nat
      BY Numbers
    <3> QED
      BY <1>1, <3>1, MiddleFacts, SMTT(30)
  <2> HIDE DEF c
  <2> QED
    BY <1>1, <2>1, <2>2, ConsiderInOrder, MiddleFacts
<1>3. CASE m.sample # NaN
  <2>1. /\ \/ high' = m /\ low' = low
           \/ low' = m /\ high' = high
        /\ iter' = iter + 1 /\ UNCHANGED <<i, pc>> /\ UNCHANGED nearest
    BY <1>3 DEF Halve
  <2>2. m \in [t : 0 .. Horizon, sample : Int \cup {NaN}]
    BY <1>1, MiddleFacts, RayFacts, Numbers
  <2>3. iter' \in 0 .. maxIter
    BY <1>1, <2>1, RayFacts, Numbers DEF InOrder, TypeOK
  <2>4. {low', high'} \subseteq [t : 0 .. Horizon, sample : Int \cup {NaN}]
    BY <2>1, <2>2 DEF InOrder, TypeOK
  <2>5. TypeOK'
    BY <1>1, <2>1, <2>3, <2>4, RayStays
       DEF InOrder, TypeOK, asked, iteratorState, bracket, nearest
  <2>6. t0 <= low'.t /\ low'.t <= high'.t /\ high'.t <= ts /\ i <= Len(values)
    <3>1. t0 \in Nat /\ low.t \in Nat /\ high.t \in Nat /\ ts \in Nat
      BY Numbers
    <3> QED
      BY <1>1, <2>1, <3>1, MiddleFacts
  <2>7. InBracket'
    BY <1>1, <2>1, <2>6, RayStays
       DEF InOrder, InBracket, asked, iteratorState, bracket, nearest
  <2> QED
    BY <1>1, <2>1, <2>5, <2>7, RayStays
       DEF InOrder, LastHit, HasStep, InInterval, NotBegun, HitsInOrder, IsEmpty,
           asked, iteratorState, bracket, nearest
<1> QED
  BY <1>2, <1>3

(* The result is between the ends. *)
LEMMA BisectionEndsInOrder ==
  ASSUME InOrder, BisectionEnds
  PROVE  InOrder'
<1>1. /\ pc = "bisect" /\ Consider(Middle)
      /\ UNCHANGED <<asked, hits>> /\ UNCHANGED iteratorState /\ UNCHANGED bracket
      /\ UNCHANGED bisection
  BY DEF BisectionEnds
<1>2. Middle \in Nat /\ t0 <= Middle /\ Middle <= currentInterval.hi /\ i <= Len(values)
  <2>1. t0 \in Nat /\ Horizon \in Nat /\ currentInterval.hi \in Int /\ low.t \in Nat /\ high.t \in Nat
        /\ ts \in Nat /\ t \in Nat
    BY Numbers
  <2> QED
    BY <1>1, <2>1, MiddleFacts, SMTT(30)
<1> QED
  BY <1>1, <1>2, ConsiderInOrder

(* The hit is beyond the last one, since the bracket is. *)
LEMMA ReturnHitInOrder ==
  ASSUME InOrder, ReturnHit
  PROVE  InOrder'
<1> DEFINE h == [t |-> tHit, value |-> value, epsilon |-> Epsilon]
           resumed == tHit + Epsilon
<1>1. /\ pc = "value" /\ pc' = "idle" /\ tHit < Inf /\ hits' = Append(hits, h)
      /\ currentInterval' = [currentInterval EXCEPT !.lo = resumed]
      /\ lastHitOffsetT' = resumed
      /\ UNCHANGED <<asked, returned, i>>
      /\ UNCHANGED bracket /\ UNCHANGED nearest /\ UNCHANGED bisection
  BY DEF ReturnHit
<1>2. Epsilon \in Nat
  <2>1. currentInterval.step \div 8 \in Nat
    BY Numbers, SMTT(30)
  <2> QED
    BY <2>1, Numbers, SMTT(30) DEF Epsilon
<1>3. tHit \in 0 .. Horizon /\ t0 <= tHit /\ resumed \in Nat
  <2>1. t0 \in Nat /\ Horizon \in Nat /\ tHit \in 0 .. Horizon \cup {Inf} /\ Inf \in Nat
    BY Numbers
  <2> QED
    BY <1>1, <1>2, <2>1 DEF InOrder, InBracket
<1>4. h \in [t : 0 .. Horizon, value : Int, epsilon : Nat]
  BY <1>2, <1>3, Numbers
<1>5. hits \in Seq([t : 0 .. Horizon, value : Int, epsilon : Nat])
  BY DEF InOrder, TypeOK
<1> HIDE DEF h
<1>6. /\ hits' \in Seq([t : 0 .. Horizon, value : Int, epsilon : Nat])
      /\ Len(hits') = Len(hits) + 1 /\ Len(hits) \in Nat /\ hits' # <<>>
      /\ hits'[Len(hits) + 1] = h
      /\ \A n \in 1 .. Len(hits) : hits'[n] = hits[n]
  BY <1>1, <1>4, <1>5, AppendProperties
<1>7. currentInterval' = [lo |-> resumed, hi |-> currentInterval.hi, step |-> currentInterval.step]
  BY <1>1, IntervalRecord
<1>8. currentInterval' \in IntervalsOf(Horizon)
  BY <1>3, <1>7, Numbers DEF IntervalsOf
<1>9. TypeOK'
  BY <1>1, <1>3, <1>6, <1>8, RayStays DEF InOrder, TypeOK, asked, bracket, nearest, bisection
<1>10. LastHit'
  BY <1>1, <1>6 DEF LastHit, h
<1>11. HasStep'
  <2>1. IsStep(currentInterval.step)
    BY <1>1 DEF InOrder, InInterval, HasStep
  <2>2. IsStep(currentInterval.step)'
    BY <1>1, <1>7, <2>1, RayStays DEF asked, IsStep
  <2> QED
    BY <1>1, <1>3, <2>2, <1>7 DEF HasStep
<1>12. HitsInOrder'
  <2>1. ASSUME hits # <<>> PROVE hits[Len(hits)].t + hits[Len(hits)].epsilon <= tHit
    <3>1. lastHitOffsetT = hits[Len(hits)].t + hits[Len(hits)].epsilon
      BY <2>1 DEF InOrder, LastHit
    <3>2. lastHitOffsetT <= currentInterval.lo /\ currentInterval.lo <= t0
      BY <1>1 DEF InOrder, InInterval, HasStep, InBracket
    <3> QED
      BY <1>3, <3>1, <3>2, Numbers, SMTT(30)
  <2> SUFFICES ASSUME NEW n \in 1 .. Len(hits') - 1
               PROVE  hits'[n].t + hits'[n].epsilon <= hits'[n + 1].t
    BY DEF HitsInOrder
  <2>2. n \in 1 .. Len(hits) /\ hits'[n] = hits[n]
    BY <1>6
  <2>3. CASE n = Len(hits)
    <3>1. hits # <<>>
      BY <2>2, <1>5, EmptySeq
    <3> QED
      BY <1>6, <2>1, <2>2, <2>3, <3>1 DEF h
  <2>4. CASE n # Len(hits)
    <3>1. n \in 1 .. Len(hits) - 1 /\ hits'[n + 1] = hits[n + 1]
      <4>1. n + 1 \in 1 .. Len(hits) /\ n \in 1 .. Len(hits) - 1 /\ Len(hits) \in Nat
        BY <1>6, <2>2, <2>4
      <4> QED
        BY <1>6, <4>1
    <3> QED
      BY <2>2, <3>1 DEF InOrder, HitsInOrder
  <2> QED
    BY <2>3, <2>4
<1> QED
  BY <1>1, <1>9, <1>10, <1>11, <1>12
     DEF InOrder, InInterval, InBracket, NotBegun

(* The next bracket begins where this one ended. *)
LEMMA LeaveBracketInOrder ==
  ASSUME InOrder, LeaveBracket
  PROVE  InOrder'
<1>1. /\ pc = "value" /\ pc' = "bracket" /\ t0' = t /\ sample0' = sample
      /\ UNCHANGED <<asked, t, ts, sample, i, hits>>
      /\ UNCHANGED iteratorState /\ UNCHANGED nearest /\ UNCHANGED bisection
  BY DEF LeaveBracket, NextEntrance
<1>2. TypeOK'
  BY <1>1, RayStays DEF InOrder, TypeOK, asked, iteratorState, nearest, bisection
<1>3. currentInterval.lo <= t /\ t <= currentInterval.hi
  BY <1>1, Numbers DEF InOrder, InBracket
<1> QED
  BY <1>1, <1>2, <1>3, RayStays
     DEF InOrder, LastHit, HasStep, InInterval, InBracket, NotBegun, HitsInOrder, IsEmpty,
         asked, iteratorState, nearest, bisection

(* No step leaves the order. *)
LEMMA NextInOrder == InOrder /\ [Next]_vars => InOrder'
<1> SUFFICES ASSUME InOrder, [Next]_vars PROVE InOrder'
  OBVIOUS
<1>1. CASE UNCHANGED vars
  BY <1>1, RayStays
     DEF vars, InOrder, TypeOK, LastHit, HasStep, InInterval, InBracket, NotBegun,
         HitsInOrder, IsEmpty
<1> QED
  BY <1>1, InitializeInOrder, CallIterateHitInOrder, NeedIntervalInOrder, StartSearchInOrder,
     NextBracketInOrder, NoHitInOrder, TestValueInOrder, HalveInOrder, BisectionEndsInOrder,
     ReturnHitInOrder, LeaveBracketInOrder
     DEF Next, Iteration, Done

-----------------------------------------------------------------------------
(***************************************************************************)
(* What the samples say.  A sample at p is the field's, or that of a unit  *)
(* before if the field has a NaN at p.  While it bisects, the two ends are *)
(* on either side of the value, or the value is at the far end.  A hit is  *)
(* on a surface.                                                           *)
(***************************************************************************)
Taken(p, x) ==
    \E e \in 0 .. p : /\ x = field[e] /\ p - e <= BISECT_MAX_BACKTRACK_ITERS
                      /\ e = p \/ field[p] = NaN

Crossed(v) ==
    /\ low.sample # NaN /\ low.sample # v /\ high.sample # NaN
    /\ high.sample = v \/ Between(v, low.sample, high.sample)

Samples ==
    /\ pc \in {"bracket", "value", "bisect"} => Taken(t0, sample0)
    /\ pc \in {"value", "bisect"} =>
          /\ Taken(t, sample) /\ sample = field[ts]
          /\ tHit < Inf => OnSurface([t |-> tHit, value |-> value])
    /\ pc = "bisect" =>
          /\ Taken(low.t, low.sample) /\ high.sample = field[high.t]
          /\ low.t < high.t /\ Crossed(values[i])
          /\ (high.t - low.t - 1) * TwoTo[iter] < currentInterval.step

HitsAreSurfaces == \A n \in 1 .. Len(hits) : OnSurface(hits[n])

OnTheField == Samples /\ HitsAreSurfaces

(* A field that has the value between two samples has a surface there:     *)
(* before the first sample that is not on the side of the one it begins    *)
(* with.                                                                   *)
LEMMA Crossing ==
  ASSUME ray \in Rays, NEW v \in Int, NEW a \in 0 .. Horizon, NEW b \in 0 .. Horizon,
         a <= b, field[a] # NaN, field[b] # NaN, field[a] # v,
         field[b] = v \/ Between(v, field[a], field[b])
  PROVE  \E p \in a .. b : p \in Surfaces(v)
<1>1. /\ Horizon \in Nat /\ NaN \notin Int
      /\ \A q \in 0 .. Horizon : field[q] = NaN \/ field[q] \in Int
  BY RayFacts
<1> DEFINE Across(q) == field[q] = v \/ Between(v, field[a], field[q])
           S == {q \in a .. b : field[q] # NaN /\ Across(q)}
<1>2. S \in SUBSET Nat /\ b \in S
  BY <1>1
<1>3. PICK q \in S : \A p \in S : q <= p
  <2> HIDE DEF S
  <2> QED
    BY <1>2, LeastNat
<1>4. q \in a .. b /\ q \in 0 .. Horizon /\ field[q] \in Int /\ Across(q)
  BY <1>1
<1>5. a \notin S
  BY <1>1, OnBothSides DEF Between
<1>6. a < q
  BY <1>3, <1>4, <1>5
<1> DEFINE T == {p \in a .. q - 1 : field[p] # NaN}
<1>7. a \in T /\ T \subseteq 0 .. q /\ q \in Nat
  BY <1>1, <1>4, <1>6
<1>8. PICK p \in T : \A u \in T : u <= p
  <2> HIDE DEF T, S
  <2> QED
    BY <1>7, GreatestNat
<1>9. /\ p \in a .. q - 1 /\ p \in 0 .. Horizon /\ field[p] \in Int /\ p < q
      /\ p \in a .. b
  BY <1>1, <1>4
<1>10. ASSUME NEW u \in p + 1 .. q - 1 PROVE ~Sampled(u)
  <2>1. u \in a .. q - 1 /\ ~(u <= p)
    BY <1>9
  <2>2. u \notin T
    <3> HIDE DEF T, S
    <3> QED
      BY <1>8, <2>1
  <2> QED
    BY <2>1, <2>2 DEF Sampled
<1>11. q \in Successors(p)
  <2>1. q \in p + 1 .. Horizon /\ Sampled(q)
    BY <1>1, <1>4, <1>9 DEF Sampled
  <2> HIDE DEF T, S
  <2> QED
    BY <1>10, <2>1 DEF Successors
<1>12. ~Across(p)
  <2>1. ~(q <= p)
    BY <1>9, <1>4
  <2>2. p \notin S
    <3> HIDE DEF T, S
    <3> QED
      BY <1>3, <2>1
  <2> QED
    BY <1>1, <1>9, <2>2
<1>13. CASE field[q] = v
  <2>1. q \in Surfaces(v)
    BY <1>1, <1>4, <1>13 DEF Surfaces, Sampled
  <2> QED
    BY <1>4, <2>1
<1>14. CASE field[q] # v
  <2>1. Between(v, field[a], field[q]) /\ ~Between(v, field[a], field[p]) /\ field[p] # v
    BY <1>4, <1>12, <1>14
  <2>2. field[a] \in Int
    BY <1>1
  <2> HIDE DEF T, S, Across
  <2>3. Between(v, field[p], field[q])
    <3>1. (field[a] < v /\ v < field[q]) \/ (field[q] < v /\ v < field[a])
      BY <1>4, <2>1, <2>2, OnBothSides DEF Between
    <3>2. ~((field[a] < v /\ v < field[p]) \/ (field[p] < v /\ v < field[a]))
      BY <1>1, <1>9, <2>1, <2>2, OnBothSides DEF Between
    <3>3. (field[p] < v /\ v < field[q]) \/ (field[q] < v /\ v < field[p])
      BY <1>4, <1>9, <2>1, <2>2, <3>1, <3>2
    <3> QED
      BY <1>1, <1>4, <1>9, <3>3, OnBothSides DEF Between
  <2>4. p \in Surfaces(v)
    BY <1>1, <1>9, <1>11, <2>3 DEF Surfaces, Sampled
  <2> QED
    BY <1>9, <2>4
<1> QED
  BY <1>13, <1>14

(* The powers of two. *)
LEMMA TwoToFacts ==
  /\ \A k \in 0 .. maxIter : TwoTo[k] \in Nat \ {0}
  /\ TwoTo[0] = 1
  /\ \A k \in 0 .. maxIter : k + 1 \in 0 .. maxIter => TwoTo[k + 1] = 2 * TwoTo[k]
<1> DEFINE Powers(f, m) == f = [k \in 0 .. m |-> IF k = 0 THEN 1 ELSE 2 * f[k - 1]]
           Some(m) == \E f : Powers(f, m)
           Stuck == {m \in Nat : ~Some(m)}
<1>1. Some(0)
  <2> DEFINE f == [k \in 0 .. 0 |-> 1]
  <2>1. Powers(f, 0)
    OBVIOUS
  <2> QED
    BY <2>1
<1>2. ASSUME NEW m \in Nat \ {0}, Some(m - 1) PROVE Some(m)
  <2>1. PICK f : Powers(f, m - 1)
    BY <1>2
  <2> DEFINE g == [k \in 0 .. m |-> IF k < m THEN f[k] ELSE 2 * f[m - 1]]
  <2>2. \A k \in 0 .. m : g[k] = IF k = 0 THEN 1 ELSE 2 * g[k - 1]
    <3> TAKE k \in 0 .. m
    <3>1. CASE k = 0
      BY <2>1, <3>1
    <3>2. CASE k # 0 /\ k < m
      BY <2>1, <3>2
    <3>3. CASE k = m
      BY <3>3
    <3> QED
      BY <3>1, <3>2, <3>3
  <2>3. Powers(g, m)
    BY <2>2
  <2>4. \E e : Powers(e, m)
    <3> HIDE DEF Powers, g
    <3> QED
      BY <2>3
  <2> QED
    BY <2>4
<1> HIDE DEF Some
<1>3. ASSUME Stuck # {} PROVE FALSE
  <2>1. PICK m \in Stuck : \A k \in Stuck : m <= k
    BY <1>3, LeastNat
  <2>2. m \in Nat /\ ~Some(m) /\ m # 0
    BY <1>1, <2>1
  <2>3. m - 1 \notin Stuck
    <3>1. ~(m <= m - 1)
      BY <2>2
    <3> HIDE DEF Stuck
    <3> QED
      BY <2>1, <3>1
  <2> QED
    BY <1>2, <2>2, <2>3
<1>4. maxIter \in Nat
  BY RayAssumption
<1>5. Powers(TwoTo, maxIter)
  <2>1. \E f : Powers(f, maxIter)
    BY <1>3, <1>4 DEF Some
  <2> QED
    BY <2>1 DEF TwoTo
<1>6. /\ TwoTo[0] = 1
      /\ \A k \in 0 .. maxIter : k # 0 => TwoTo[k] = 2 * TwoTo[k - 1]
  BY <1>4, <1>5
<1> DEFINE Ill == {k \in 0 .. maxIter : TwoTo[k] \notin Nat \ {0}}
<1>7. ASSUME Ill # {} PROVE FALSE
  <2>1. Ill \in SUBSET Nat
    OBVIOUS
  <2>2. PICK m \in Ill : \A k \in Ill : m <= k
    <3> HIDE DEF Ill
    <3> QED
      BY <1>7, <2>1, LeastNat
  <2>3. m \in 0 .. maxIter /\ TwoTo[m] \notin Nat \ {0} /\ m # 0
    BY <1>6, <2>2
  <2>4. m - 1 \in 0 .. maxIter /\ ~(m <= m - 1)
    <3> HIDE DEF Ill
    <3> QED
      BY <1>4, <2>3
  <2>5. m - 1 \notin Ill
    <3> HIDE DEF Ill
    <3> QED
      BY <2>2, <2>4
  <2>6. TwoTo[m - 1] \in Nat \ {0}
    BY <2>4, <2>5
  <2> QED
    BY <1>6, <2>3, <2>6
<1>8. ASSUME NEW k \in 0 .. maxIter, k + 1 \in 0 .. maxIter
      PROVE  TwoTo[k + 1] = 2 * TwoTo[k]
  <2>1. k + 1 # 0 /\ (k + 1) - 1 = k
    OBVIOUS
  <2> QED
    BY <1>6, <1>8, <2>1
<1> QED
  BY <1>6, <1>7, <1>8

(* What was found so far does not lose its surface. *)
LEMMA FoundStays ==
  ASSUME ray' = ray, OnSurface([t |-> tHit', value |-> value'])
  PROVE  OnSurface([t |-> tHit, value |-> value])'
BY RayStays DEF OnSurface

(* ... nor the hits that were returned. *)
LEMMA HitsStay ==
  ASSUME ray' = ray, hits' = hits, HitsAreSurfaces
  PROVE  HitsAreSurfaces'
BY RayStays DEF OnSurface, HitsAreSurfaces

(* A sample that is the value is a hit. *)
LEMMA SampleIsAHit ==
  ASSUME InOrder, ~IsEmpty(currentInterval), NEW p \in 0 .. Horizon, NEW v \in Int,
         Taken(p, v)
  PROVE  OnSurface([t |-> p, value |-> v])
<1>1. PICK e \in 0 .. p : /\ v = field[e] /\ p - e <= BISECT_MAX_BACKTRACK_ITERS
                          /\ e = p \/ field[p] = NaN
  BY DEF Taken
<1>2. /\ ray \in Rays /\ Horizon \in Nat /\ NaN \notin Int
      /\ BISECT_MAX_BACKTRACK_ITERS \in Nat /\ maxIter \in Nat
  BY Numbers, RayFacts
<1>3. e \in 0 .. Horizon /\ e \in Surfaces(v)
  BY <1>1, <1>2 DEF Surfaces, Sampled
<1>4. PICK s \in Steps : s >= 8 /\ s = currentInterval.step
  BY DEF InOrder, HasStep, IsStep
<1>5. s \in Nat
  BY <1>4, Numbers
<1>6. CASE e = p
  <2>1. TwoTo[maxIter] \in Nat \ {0}
    BY <1>2, TwoToFacts
  <2>2. Abs(p - e) - 1 = -1
    BY <1>2, <1>3, <1>6 DEF Abs
  <2>3. (-1) * TwoTo[maxIter] < s
    BY <1>5, <2>1
  <2> QED
    BY <1>3, <1>4, <2>2, <2>3 DEF OnSurface
<1>7. CASE e # p
  <2>1. field[p] = NaN /\ Abs(p - p) = 0 /\ 0 <= s
    BY <1>1, <1>2, <1>5, <1>7 DEF Abs
  <2>2. Abs(p - e) <= s + BISECT_MAX_BACKTRACK_ITERS
    BY <1>1, <1>2, <1>3, <1>5 DEF Abs
  <2> QED
    BY <1>3, <1>4, <2>1, <2>2 DEF OnSurface
<1> QED
  BY <1>6, <1>7

(* So is a unit between the ends of a bisection that has become narrow, or *)
(* one near a NaN.                                                         *)
LEMMA BisectedIsAHit ==
  ASSUME InOrder, Samples, pc = "bisect", NEW c \in low.t .. high.t,
         \/ (high.t - low.t - 1) * TwoTo[maxIter] < currentInterval.step
         \/ \E q \in low.t .. high.t : field[q] = NaN
  PROVE  OnSurface([t |-> c, value |-> values[i]])
<1> DEFINE v == values[i]
<1>1. /\ ray \in Rays /\ Horizon \in Nat /\ NaN \notin Int
      /\ BISECT_MAX_BACKTRACK_ITERS \in Nat /\ maxIter \in Nat
  BY Numbers, RayFacts
<1>2. /\ low.t \in 0 .. Horizon /\ high.t \in 0 .. Horizon /\ low.t < high.t
      /\ high.t - low.t <= currentInterval.step /\ v \in Int
  <2>1. /\ low.t \in 0 .. Horizon /\ high.t \in 0 .. Horizon /\ t0 \in Nat /\ t \in Nat
        /\ ts \in Nat /\ currentInterval.step \in Nat
    BY Numbers
  <2>2. i \in 1 .. Len(values)
    BY MiddleFacts, Numbers
  <2>3. v \in Int
    BY <2>2, Numbers
  <2>4. low.t < high.t
    BY DEF Samples
  <2> QED
    BY <2>1, <2>3, <2>4, MiddleFacts
<1>3. PICK e \in 0 .. low.t : /\ low.sample = field[e]
                              /\ low.t - e <= BISECT_MAX_BACKTRACK_ITERS
                              /\ e = low.t \/ field[low.t] = NaN
  BY DEF Samples, Taken
<1>4. high.sample = field[high.t] /\ Crossed(v)
  BY DEF Samples
<1>5. e \in 0 .. Horizon /\ e <= high.t
  BY <1>1, <1>2, <1>3
<1> HIDE DEF v
<1>6. PICK p \in e .. high.t : p \in Surfaces(v)
  <2>1. /\ field[e] # NaN /\ field[high.t] # NaN /\ field[e] # v
        /\ field[high.t] = v \/ Between(v, field[e], field[high.t])
    BY <1>3, <1>4 DEF Crossed
  <2> QED
    BY <1>1, <1>2, <1>5, <2>1, Crossing
<1>7. PICK s \in Steps : s = currentInterval.step /\ s \in Nat
  BY Numbers DEF InOrder, InInterval, HasStep, IsStep
<1>8. CASE \E q \in low.t .. high.t : field[q] = NaN
  <2>1. PICK q \in low.t .. high.t : field[q] = NaN
    BY <1>8
  <2>2. q \in 0 .. Horizon /\ Abs(c - q) <= s
    BY <1>1, <1>2, <1>7 DEF Abs
  <2>3. Abs(c - p) <= s + BISECT_MAX_BACKTRACK_ITERS
    BY <1>1, <1>2, <1>3, <1>5, <1>7 DEF Abs
  <2> QED
    BY <1>6, <2>1, <2>2, <2>3 DEF OnSurface, v
<1>9. CASE e # low.t
  <2>1. field[low.t] = NaN /\ low.t \in low.t .. high.t
    BY <1>1, <1>2, <1>3, <1>9
  <2> QED
    BY <1>8, <2>1
<1>10. CASE e = low.t /\ (high.t - low.t - 1) * TwoTo[maxIter] < currentInterval.step
  <2>1. Abs(c - p) - 1 \in Int /\ Abs(c - p) - 1 <= high.t - low.t - 1
    BY <1>1, <1>2, <1>10 DEF Abs
  <2>2. TwoTo[maxIter] \in Nat
    BY <1>1, TwoToFacts
  <2>3. high.t - low.t - 1 \in Int
    BY <1>1, <1>2
  <2>4. /\ (Abs(c - p) - 1) * TwoTo[maxIter] <= (high.t - low.t - 1) * TwoTo[maxIter]
        /\ (Abs(c - p) - 1) * TwoTo[maxIter] \in Int
        /\ (high.t - low.t - 1) * TwoTo[maxIter] \in Int
    BY <2>1, <2>2, <2>3, Times
  <2>5. (Abs(c - p) - 1) * TwoTo[maxIter] < s
    <3> DEFINE x == (Abs(c - p) - 1) * TwoTo[maxIter]
               y == (high.t - low.t - 1) * TwoTo[maxIter]
    <3>1. x \in Int /\ y \in Int /\ x <= y /\ y < s
      BY <1>7, <1>10, <2>4
    <3> HIDE DEF x, y
    <3>2. x < s
      BY <1>7, <3>1
    <3> QED
      BY <3>2 DEF x
  <2> QED
    BY <1>6, <2>5 DEF OnSurface, v
<1> QED
  BY <1>8, <1>9, <1>10

(* A candidate that is a hit, or none, and a hit so far. *)
LEMMA ConsiderOnTheField ==
  ASSUME InOrder, OnTheField, pc \in {"value", "bisect"}, i <= Len(values), NEW c,
         c = Inf \/ (c \in Nat /\ t0 <= c /\ c <= currentInterval.hi),
         c # Inf => OnSurface([t |-> c, value |-> values[i]]), Consider(c),
         UNCHANGED <<asked, hits>>, UNCHANGED iteratorState, UNCHANGED bracket
  PROVE  OnTheField'
<1>1. /\ \/ tHit' = tHit /\ value' = value
         \/ c # Inf /\ tHit' = c /\ value' = values[i]
         \/ sample = values[i] /\ tHit' = ts /\ value' = values[i]
      /\ pc' = "value"
  BY ConsiderFacts
<1>2. /\ Taken(t0, sample0) /\ Taken(t, sample) /\ sample = field[ts]
      /\ tHit < Inf => OnSurface([t |-> tHit, value |-> value])
  BY DEF OnTheField, Samples
<1>3. ASSUME tHit' < Inf PROVE OnSurface([t |-> tHit', value |-> value'])
  <2>1. CASE tHit' = tHit /\ value' = value
    BY <1>2, <1>3, <2>1
  <2>2. CASE c # Inf /\ tHit' = c /\ value' = values[i]
    BY <2>2
  <2>3. CASE sample = values[i] /\ tHit' = ts /\ value' = values[i]
    <3>1. ts \in 0 .. Horizon /\ values[i] \in Int /\ BISECT_MAX_BACKTRACK_ITERS \in Nat
      <4>1. i \in 1 .. Len(values)
        BY Numbers
      <4> QED
        BY <4>1, Numbers, RayFacts
    <3>2. Taken(ts, values[i])
      <4>1. ts \in 0 .. ts /\ ts - ts <= BISECT_MAX_BACKTRACK_ITERS
        BY <3>1, Numbers
      <4>2. values[i] = field[ts]
        BY <1>2, <2>3
      <4> QED
        BY <4>1, <4>2 DEF Taken
    <3>3. ~IsEmpty(currentInterval)
      BY DEF InOrder, InInterval
    <3> QED
      BY <2>3, <3>1, <3>2, <3>3, SampleIsAHit
  <2> QED
    BY <1>1, <2>1, <2>2, <2>3
<1>4. ray' = ray /\ hits' = hits
  BY DEF asked
<1>5. Samples'
  BY <1>1, <1>2, <1>3, <1>4, FoundStays, RayStays DEF Samples, Taken, bracket
<1> QED
  BY <1>4, <1>5, HitsStay DEF OnTheField

(* The first sample is taken where it says. *)
LEMMA StartSearchOnTheField ==
  ASSUME InOrder, OnTheField, StartSearch
  PROVE  OnTheField'
<1>1. /\ pc = "start" /\ pc' = "bracket" /\ ray' = ray /\ hits' = hits
      /\ t0' = Entrance(currentInterval.lo, currentInterval.hi) /\ sample0' = field[t0']
  BY DEF StartSearch, asked
<1>2. t0' \in 0 .. Horizon /\ Horizon \in Nat /\ BISECT_MAX_BACKTRACK_ITERS \in Nat
  BY Numbers, RayFacts, StartSearchInOrder DEF InOrder, TypeOK
<1> DEFINE e == t0'
<1>3. e \in 0 .. e /\ e - e <= BISECT_MAX_BACKTRACK_ITERS
  <2>1. e \in Nat /\ BISECT_MAX_BACKTRACK_ITERS \in Nat
    BY <1>2
  <2> HIDE DEF e
  <2> QED
    BY <2>1
<1>4. sample0' = field'[e]
  BY <1>1, RayStays
<1>5. Taken(t0, sample0)'
  BY <1>3, <1>4 DEF Taken
<1> QED
  BY <1>1, <1>5, HitsStay DEF OnTheField, Samples

(* The sample at the end is the field's, or that of a unit before a NaN. *)
LEMMA NextBracketOnTheField ==
  ASSUME InOrder, OnTheField, NextBracket
  PROVE  OnTheField'
<1>1. /\ pc = "bracket" /\ t0 < currentInterval.hi /\ pc' = "value"
      /\ t' = t0 + Least(currentInterval.step, currentInterval.hi - t0)
      /\ ts' = SampledEnd(t0, t') /\ sample' = field[ts'] /\ tHit' = Inf
      /\ UNCHANGED <<t0, sample0, hits, ray>>
  BY DEF NextBracket, asked
<1>2. InOrder'
  BY NextBracketInOrder
<1>3. t0 \in Nat /\ t' \in Nat /\ t0 <= t' /\ BISECT_MAX_BACKTRACK_ITERS \in Nat
      /\ Inf \in Nat
  <2>1. t0 \in 0 .. Horizon /\ Horizon \in Nat /\ BISECT_MAX_BACKTRACK_ITERS \in Nat
        /\ Inf \in Nat
    BY Numbers, RayFacts
  <2>2. t' \in 0 .. Horizon /\ t0' < t'
    BY <1>1, <1>2 DEF InOrder, TypeOK, InBracket
  <2> QED
    BY <1>1, <2>1, <2>2
<1>4. /\ ts' \in t0 .. t' /\ t' - ts' <= BISECT_MAX_BACKTRACK_ITERS
      /\ ts' = t' \/ field[t'] = NaN
  BY <1>1, <1>3, SampledEndFacts
<1>5. ts' \in 0 .. t'
  BY <1>3, <1>4
<1>6. Taken(t, sample)'
  BY <1>1, <1>4, <1>5, RayStays DEF Taken
<1>7. Taken(t0, sample0)'
  BY <1>1, RayStays DEF OnTheField, Samples, Taken
<1>8. ~(tHit' < Inf)
  BY <1>1, <1>3
<1>9. Samples'
  BY <1>1, <1>6, <1>7, <1>8, RayStays DEF Samples
<1> QED
  BY <1>1, <1>9, HitsStay DEF OnTheField

(* A bisection begins with its ends on either side of the value. *)
LEMMA TestValueOnTheField ==
  ASSUME InOrder, OnTheField, TestValue
  PROVE  OnTheField'
<1>1. /\ pc = "value" /\ i <= Len(values)
      /\ UNCHANGED <<asked, hits>> /\ UNCHANGED iteratorState /\ UNCHANGED bracket
      /\ ray' = ray
  BY DEF TestValue, asked
<1>2. /\ Taken(t0, sample0) /\ Taken(t, sample) /\ sample = field[ts]
      /\ tHit < Inf => OnSurface([t |-> tHit, value |-> value])
  BY <1>1 DEF OnTheField, Samples
<1>3. /\ NaN \notin Int /\ ray \in Rays /\ maxIter \in Nat
      /\ \A q \in 0 .. Horizon : field[q] = NaN \/ field[q] \in Int
  BY Numbers, RayFacts
<1>4. t0 \in 0 .. Horizon /\ ts \in 0 .. Horizon /\ t \in 0 .. Horizon /\ Horizon \in Nat
      /\ currentInterval.step \in Nat
  BY Numbers
<1>5. t0 <= ts /\ ts <= t /\ t - t0 <= currentInterval.step
  BY <1>1 DEF InOrder, InBracket
<1>6. i \in 1 .. Len(values) /\ values[i] \in Int
  BY <1>1, Numbers
<1>7. CASE sample0 # values[i] /\ Between(values[i], sample0, sample)
  <2>1. /\ low' = [t |-> t0, sample |-> sample0] /\ high' = [t |-> ts, sample |-> sample]
        /\ iter' = 0 /\ pc' = "bisect" /\ i' = i /\ UNCHANGED nearest
    BY <1>7 DEF TestValue
  <2>2. t0 # ts
    <3> SUFFICES ASSUME t0 = ts PROVE FALSE
      OBVIOUS
    <3>1. sample = field[t0] /\ sample # NaN /\ sample0 # NaN
      BY <1>2, <1>7 DEF Between
    <3>2. sample0 = sample
      BY <1>2, <3>1 DEF Taken
    <3>3. sample \in Int
      BY <1>3, <1>4, <3>1
    <3>4. ~((values[i] - sample) * (values[i] - sample) < 0)
      BY <1>6, <3>3, OnBothSides
    <3> QED
      BY <1>7, <3>2, <3>4 DEF Between
  <2>3. (ts - t0 - 1) * TwoTo[0] < currentInterval.step
    <3>1. TwoTo[0] = 1 /\ ts - t0 - 1 \in Int /\ ts - t0 - 1 < currentInterval.step
      BY <1>3, <1>4, <1>5, TwoToFacts
    <3> QED
      BY <3>1
  <2>4. t0 < ts
    BY <1>4, <1>5, <2>2
  <2>5. (high.t - low.t - 1)' * TwoTo[iter'] < currentInterval'.step
    BY <1>1, <2>1, <2>3 DEF iteratorState
  <2>6. Crossed(values[i])'
    BY <1>1, <1>7, <2>1, RayStays DEF Crossed, Between
  <2>7. Taken(low.t, low.sample)' /\ Taken(t0, sample0)' /\ Taken(t, sample)'
    BY <1>1, <1>2, <2>1, RayStays DEF Taken, bracket
  <2>8. tHit' < Inf => OnSurface([t |-> tHit, value |-> value])'
    BY <1>1, <1>2, <2>1, FoundStays DEF nearest
  <2>9. sample' = field'[ts'] /\ high'.sample = field'[high'.t] /\ low'.t < high'.t
    BY <1>1, <1>2, <2>1, <2>4, RayStays DEF bracket
  <2>10. Samples'
    BY <2>1, <2>5, <2>6, <2>7, <2>8, <2>9 DEF Samples
  <2> QED
    BY <1>1, <2>10, HitsStay DEF OnTheField
<1>8. CASE ~(sample0 # values[i] /\ Between(values[i], sample0, sample))
  <2> DEFINE c == IF sample0 = values[i] THEN t0 ELSE Inf
  <2>1. Consider(c)
    BY <1>8 DEF TestValue
  <2>2. c = Inf \/ (c \in Nat /\ t0 <= c /\ c <= currentInterval.hi)
    BY <1>1, Numbers DEF InOrder, InBracket
  <2>3. c # Inf => OnSurface([t |-> c, value |-> values[i]])
    <3> SUFFICES ASSUME c # Inf PROVE OnSurface([t |-> c, value |-> values[i]])
      OBVIOUS
    <3>1. sample0 = values[i] /\ c = t0
      OBVIOUS
    <3>2. ~IsEmpty(currentInterval)
      BY <1>1 DEF InOrder, InInterval
    <3> QED
      BY <1>2, <1>4, <1>6, <3>1, <3>2, SampleIsAHit
  <2> HIDE DEF c
  <2> QED
    BY <1>1, <2>1, <2>2, <2>3, ConsiderOnTheField
<1> QED
  BY <1>7, <1>8

(* A call between its brackets has no samples yet. *)
LEMMA NoSamples ==
  ASSUME OnTheField, ray' = ray, hits' = hits, pc' \notin {"bracket", "value", "bisect"}
  PROVE  OnTheField'
<1>1. Samples'
  BY DEF Samples
<1> QED
  BY <1>1, HitsStay DEF OnTheField

(* An end of a half that is the new end. *)
LEMMA MiddleIsTaken ==
  ASSUME InOrder, pc = "bisect"
  PROVE  Taken(Middle, field[Middle])
<1>1. Middle \in Nat /\ BISECT_MAX_BACKTRACK_ITERS \in Nat
  BY Numbers, RayFacts, MiddleFacts
<1> DEFINE m == Middle
<1>2. m \in 0 .. m /\ m - m <= BISECT_MAX_BACKTRACK_ITERS
  <2> HIDE DEF m
  <2> QED
    BY <1>1 DEF m
<1> HIDE DEF m
<1>3. Taken(m, field[m])
  BY <1>2 DEF Taken
<1> QED
  BY <1>3 DEF m

(* Half of what is left after a bisection. *)
LEMMA HalfIsLeft ==
  ASSUME NEW w \in Nat, NEW h \in Nat, 2 * h <= w + 1, NEW p \in Nat, NEW s \in Int,
         (w - 1) * p < s
  PROVE  (h - 1) * (2 * p) < s
<1>1. 2 * h - 2 \in Int /\ w - 1 \in Int /\ 2 * h - 2 <= w - 1
  OBVIOUS
<1>2. /\ (2 * h - 2) * p <= (w - 1) * p
      /\ (2 * h - 2) * p \in Int /\ (w - 1) * p \in Int
  BY <1>1, Times
<1>3. (h - 1) * (2 * p) = (2 * h - 2) * p
  OBVIOUS
<1> QED
  BY <1>2, <1>3

(* The half that is kept has its ends on either side of the value. *)
LEMMA HalveOnTheField ==
  ASSUME InOrder, OnTheField, Halve
  PROVE  OnTheField'
<1> DEFINE m == [t |-> Middle, sample |-> field[Middle]]
           v == values[i]
<1>1. /\ pc = "bisect" /\ iter < maxIter /\ high.t - low.t > 1
      /\ UNCHANGED <<asked, hits>> /\ UNCHANGED iteratorState /\ UNCHANGED bracket
      /\ ray' = ray
  BY DEF Halve, asked
<1>2. /\ Taken(t0, sample0) /\ Taken(t, sample) /\ sample = field[ts]
      /\ tHit < Inf => OnSurface([t |-> tHit, value |-> value])
      /\ Taken(low.t, low.sample) /\ high.sample = field[high.t]
      /\ low.t < high.t /\ Crossed(v)
      /\ (high.t - low.t - 1) * TwoTo[iter] < currentInterval.step
  BY <1>1 DEF OnTheField, Samples
<1>3. /\ low.t \in 0 .. Horizon /\ high.t \in 0 .. Horizon /\ Horizon \in Nat
      /\ currentInterval.step \in Nat /\ Middle \in 0 .. Horizon /\ maxIter \in Nat
      /\ iter \in 0 .. maxIter /\ ray \in Rays
  BY <1>1, Numbers, MiddleFacts, RayFacts DEF InOrder, TypeOK
<1>4. low.t < Middle /\ Middle < high.t
      /\ 2 * Middle <= low.t + high.t /\ low.t + high.t <= 2 * Middle + 1
  <2>1. 2 * Middle <= low.t + high.t /\ low.t + high.t <= 2 * Middle + 1
    BY <1>1, MiddleFacts
  <2> QED
    BY <1>1, <1>3, <2>1
<1>5. i \in 1 .. Len(values) /\ v \in Int
  <2>1. i \in 1 .. Len(values)
    BY <1>1, Numbers, MiddleFacts
  <2> QED
    BY <2>1, Numbers
<1>6. CASE m.sample = NaN
  <2> DEFINE c == IF Abs(v - low.sample) < Abs(v - high.sample) THEN low.t ELSE high.t
  <2>1. Consider(c)
    BY <1>6 DEF Halve
  <2>0. c = low.t \/ c = high.t
    OBVIOUS
  <2> HIDE DEF c
  <2>2. c \in low.t .. high.t /\ c \in Nat /\ c # Inf
    <3>1. Inf \in Nat /\ Horizon < Inf
      BY Numbers
    <3> QED
      BY <1>2, <1>3, <2>0, <3>1
  <2>3. t0 <= c /\ c <= currentInterval.hi
    <3>1. t0 \in Nat /\ ts \in Nat /\ t \in Nat /\ currentInterval.hi \in Int
      BY Numbers
    <3> QED
      BY <1>1, <1>3, <2>2, <3>1, MiddleFacts, SMTT(30)
  <2>4. \E q \in low.t .. high.t : field[q] = NaN
    <3>1. Middle \in low.t .. high.t
      BY <1>3, <1>4
    <3> QED
      BY <1>6, <3>1
  <2>5. OnSurface([t |-> c, value |-> v])
    BY <1>1, <2>2, <2>4, BisectedIsAHit DEF OnTheField
  <2> QED
    BY <1>1, <1>5, <2>1, <2>2, <2>3, <2>5, ConsiderOnTheField
<1>7. CASE m.sample # NaN
  <2>1. /\ \/ /\ high' = m /\ low' = low /\ InLowerHalf(v, low.sample, m.sample)
           \/ /\ low' = m /\ high' = high /\ InUpperHalf(v, high.sample, m.sample)
              /\ ~InLowerHalf(v, low.sample, m.sample)
        /\ iter' = iter + 1 /\ UNCHANGED <<i, pc>> /\ UNCHANGED nearest
    BY <1>7 DEF Halve
  <2>2. m.t = Middle /\ m.sample = field[Middle] /\ Taken(m.t, m.sample)
    BY <1>1, MiddleIsTaken
  <2>3. /\ Taken(low.t, low.sample)' /\ high'.sample = field'[high'.t]
        /\ low'.t < high'.t
    BY <1>1, <1>2, <1>4, <2>1, <2>2, RayStays DEF Taken
  <2>4. Crossed(v)'
    <3>1. field' = field /\ v' = v
      BY <1>1, <2>1, RayStays
    <3> HIDE DEF m, v
    <3>2. CASE high' = m /\ low' = low /\ InLowerHalf(v, low.sample, m.sample)
      BY <1>2, <1>7, <3>1, <3>2 DEF Crossed, InLowerHalf, Between
    <3>3. CASE low' = m /\ high' = high /\ InUpperHalf(v, high.sample, m.sample)
               /\ ~InLowerHalf(v, low.sample, m.sample)
      <4>1. m.sample # v
        BY <3>3 DEF InLowerHalf
      <4>2. m.sample \in Int /\ (high.sample = v \/ high.sample \in Int)
        BY <1>2, <1>3, <1>7, RayFacts DEF Crossed, m
      <4>3. high.sample = v \/ Between(v, m.sample, high.sample)
        <5> SUFFICES ASSUME high.sample # v PROVE Between(v, m.sample, high.sample)
          OBVIOUS
        <5>1. (v - high.sample) * (v - m.sample) < 0
          BY <3>3 DEF InUpperHalf
        <5>2. (v - m.sample) * (v - high.sample) < 0
          BY <1>5, <4>2, <5>1, OnBothSides
        <5> QED
          BY <1>2, <1>7, <5>2 DEF Between, Crossed
      <4> QED
        BY <1>2, <1>7, <3>1, <3>3, <4>1, <4>3 DEF Crossed, Between
    <3> QED
      BY <2>1, <3>2, <3>3
  <2>5. (high'.t - low'.t - 1) * TwoTo[iter'] < currentInterval'.step
    <3> DEFINE w == high.t - low.t
               h == high'.t - low'.t
               p == TwoTo[iter]
    <3>1. w \in Nat /\ h \in Nat /\ 2 * h <= w + 1
      BY <1>3, <1>4, <2>1, <2>2
    <3>2. p \in Nat /\ TwoTo[iter'] = 2 * p
      BY <1>1, <1>3, <2>1, TwoToFacts
    <3>3. (w - 1) * p < currentInterval.step
      BY <1>2
    <3> HIDE DEF w, h, p
    <3>4. (h - 1) * (2 * p) < currentInterval.step
      BY <1>3, <3>1, <3>2, <3>3, HalfIsLeft
    <3> QED
      BY <1>1, <3>2, <3>4 DEF h, iteratorState
  <2>6. Taken(t0, sample0)' /\ Taken(t, sample)' /\ sample' = field'[ts']
    BY <1>1, <1>2, RayStays DEF Taken, bracket
  <2>7. tHit' < Inf => OnSurface([t |-> tHit, value |-> value])'
    BY <1>1, <1>2, <2>1, FoundStays DEF nearest
  <2>8. Crossed(values[i])'
    BY <2>4
  <2>9. Samples'
    BY <2>3, <2>5, <2>6, <2>7, <2>8 DEF Samples
  <2> QED
    BY <1>1, <2>9, HitsStay DEF OnTheField
<1> QED
  BY <1>6, <1>7

(* What is left is narrow enough. *)
LEMMA BisectionEndsOnTheField ==
  ASSUME InOrder, OnTheField, BisectionEnds
  PROVE  OnTheField'
<1>1. /\ pc = "bisect" /\ Consider(Middle)
      /\ iter = maxIter \/ high.t - low.t <= 1
      /\ UNCHANGED <<asked, hits>> /\ UNCHANGED iteratorState /\ UNCHANGED bracket
  BY DEF BisectionEnds
<1>2. /\ low.t < high.t /\ (high.t - low.t - 1) * TwoTo[iter] < currentInterval.step
  BY <1>1 DEF OnTheField, Samples
<1>3. /\ low.t \in 0 .. Horizon /\ high.t \in 0 .. Horizon /\ Horizon \in Nat
      /\ Middle \in Nat /\ low.t <= Middle /\ Middle <= high.t /\ Inf \in Nat
      /\ Horizon < Inf /\ maxIter \in Nat /\ iter \in 0 .. maxIter
      /\ currentInterval.step \in Nat
  BY <1>1, Numbers, MiddleFacts, RayFacts DEF InOrder, TypeOK
<1>4. (high.t - low.t - 1) * TwoTo[maxIter] < currentInterval.step
  <2>1. CASE iter = maxIter
    BY <1>2, <2>1
  <2>2. CASE iter # maxIter
    <3>1. high.t - low.t - 1 = 0
      BY <1>1, <1>2, <1>3, <2>2
    <3>2. TwoTo[iter] \in Nat /\ TwoTo[maxIter] \in Nat
      BY <1>3, TwoToFacts
    <3>3. 0 * TwoTo[iter] < currentInterval.step
      BY <1>2, <3>1
    <3>4. 0 * TwoTo[iter] = 0 /\ 0 * TwoTo[maxIter] = 0
      BY <3>2
    <3> QED
      BY <3>1, <3>3, <3>4
  <2> QED
    BY <2>1, <2>2
<1>5. Middle \in low.t .. high.t /\ Middle # Inf
  BY <1>3
<1>6. OnSurface([t |-> Middle, value |-> values[i]])
  BY <1>1, <1>4, <1>5, BisectedIsAHit DEF OnTheField
<1>7. t0 <= Middle /\ Middle <= currentInterval.hi /\ i <= Len(values)
  <2>1. t0 \in Nat /\ ts \in Nat /\ t \in Nat /\ currentInterval.hi \in Int
    BY Numbers
  <2> QED
    BY <1>1, <1>3, <2>1, MiddleFacts
<1> QED
  BY <1>1, <1>3, <1>6, <1>7, ConsiderOnTheField

(* The hit that is returned is the one that was found. *)
LEMMA ReturnHitOnTheField ==
  ASSUME InOrder, OnTheField, ReturnHit
  PROVE  OnTheField'
<1> DEFINE h == [t |-> tHit, value |-> value, epsilon |-> Epsilon]
<1>1. /\ pc = "value" /\ pc' = "idle" /\ tHit < Inf /\ hits' = Append(hits, h) /\ ray' = ray
  BY DEF ReturnHit, asked
<1>2. OnSurface([t |-> tHit, value |-> value])
  BY <1>1 DEF OnTheField, Samples
<1>3. OnSurface(h)
  BY <1>2 DEF OnSurface
<1> HIDE DEF h
<1>4. hits \in Seq([t : 0 .. Horizon, value : Int, epsilon : Nat])
  BY DEF InOrder, TypeOK
<1>5. /\ Len(hits') = Len(hits) + 1 /\ hits'[Len(hits) + 1] = h /\ Len(hits) \in Nat
      /\ \A n \in 1 .. Len(hits) : hits'[n] = hits[n]
  BY <1>1, <1>4, SMTT(30)
<1>6. \A n \in 1 .. Len(hits') : OnSurface(hits'[n])
  BY <1>3, <1>5 DEF OnTheField, HitsAreSurfaces
<1>7. HitsAreSurfaces'
  BY <1>1, <1>6, RayStays DEF HitsAreSurfaces, OnSurface
<1>8. Samples'
  BY <1>1 DEF Samples
<1> QED
  BY <1>7, <1>8 DEF OnTheField

(* The end of a bracket is the entrance of the next. *)
LEMMA LeaveBracketOnTheField ==
  ASSUME InOrder, OnTheField, LeaveBracket
  PROVE  OnTheField'
<1>1. /\ pc = "value" /\ pc' = "bracket" /\ t0' = t /\ sample0' = sample /\ ray' = ray
      /\ hits' = hits
  BY DEF LeaveBracket, NextEntrance, asked
<1>2. Taken(t0, sample0)'
  BY <1>1, RayStays DEF OnTheField, Samples, Taken
<1> QED
  BY <1>1, <1>2, HitsStay DEF OnTheField, Samples

(* No step loses a surface. *)
LEMMA NextOnTheField == InOrder /\ OnTheField /\ [Next]_vars => OnTheField'
<1> SUFFICES ASSUME InOrder, OnTheField, [Next]_vars PROVE OnTheField'
  OBVIOUS
<1>1. CASE UNCHANGED vars
  <2>1. Samples'
    BY <1>1, RayStays, FoundStays DEF vars, OnTheField, Samples, Taken, Crossed, Between
  <2> QED
    BY <1>1, <2>1, HitsStay DEF vars, OnTheField
<1>2. CASE Initialize \/ CallIterateHit \/ NeedInterval \/ NoHit
  BY <1>2, NoSamples DEF Initialize, CallIterateHit, NeedInterval, NoHit, asked
<1> QED
  BY <1>1, <1>2, StartSearchOnTheField, NextBracketOnTheField, TestValueOnTheField,
     HalveOnTheField, BisectionEndsOnTheField, ReturnHitOnTheField, LeaveBracketOnTheField
     DEF Next, Iteration, Done

(* A call that has not begun has no samples and no hits. *)
LEMMA InitOnTheField == Init => OnTheField
BY DEF Init, OnTheField, Samples, HitsAreSurfaces

-----------------------------------------------------------------------------
(***************************************************************************)
(* What the interval iterator has returned: nothing yet, or an interval in *)
(* the box.  The context asks for units in the box, and for none if it has *)
(* no values, or none of the volume's.                                     *)
(***************************************************************************)
Fetched ==
    /\ pc = "none" => returned = NoInterval
    /\ returned # NoInterval =>
          /\ ray.bounds.lo <= returned.lo /\ returned.lo < returned.hi
          /\ returned.hi <= ray.bounds.hi
          /\ ray.kind # "default" =>
                \E k \in 1 .. Len(ray.intervals) : returned = ray.intervals[k]
    /\ pc # "none" =>
          /\ required \subseteq ray.bounds.lo .. ray.bounds.hi - 1
          /\ values = <<>> \/ (ray.kind = "default" /\ ~ValueRangesOverlap) => required = {}
    /\ pc = "idle" /\ currentInterval.lo = Inf => required = {}

(* A value of the context outside of the volume's range has no surface.    *)
LEMMA NothingAsked ==
  ASSUME ray \in Rays, ~ValueRangesOverlap, NEW n \in 1 .. Len(values)
  PROVE  Asked(values[n]) = {}
<1> DEFINE v == values[n]
<1>1. /\ Horizon \in Nat /\ NaN \notin Int /\ v \in Int
      /\ \A q \in 0 .. Horizon : field[q] = NaN \/ field[q] \in Int
  BY RayFacts
<1>2. ~((\E f \in InField : f <= v) /\ (\E f \in InField : v <= f))
  BY DEF ValueRangesOverlap
<1> HIDE DEF v
<1>3. ASSUME NEW p \in Surfaces(v) PROVE FALSE
  <2>1. p \in 0 .. Horizon /\ Sampled(p)
    BY DEF Surfaces
  <2>2. field[p] \in InField /\ field[p] \in Int
    BY <1>1, <2>1 DEF InField, Sampled
  <2>3. CASE field[p] = v
    BY <1>1, <1>2, <2>2, <2>3
  <2>4. CASE field[p] # v
    <3>1. PICK q \in Successors(p) : Between(v, field[p], field[q])
      BY <2>4 DEF Surfaces
    <3>2. field[q] \in InField /\ field[q] \in Int
      BY <1>1 DEF InField, Successors, Sampled
    <3>3. (field[p] < v /\ v < field[q]) \/ (field[q] < v /\ v < field[p])
      BY <1>1, <2>2, <3>1, <3>2, OnBothSides DEF Between
    <3> QED
      BY <1>1, <1>2, <2>2, <3>2, <3>3
  <2> QED
    BY <2>3, <2>4
<1> QED
  BY <1>3 DEF Asked, v

(* Nothing is fetched at first. *)
LEMMA InitFetched == Init => Fetched
BY DEF Init, Fetched

(* Fetched is about these variables only. *)
LEMMA FetchedStays ==
  ASSUME Fetched, UNCHANGED asked, returned' = returned, pc # "none", pc' # "none", pc' # "idle"
  PROVE  Fetched'
BY DEF Fetched, asked, values, field, ValueRangesOverlap, InField

(* The context asks only for units in the box. *)
LEMMA InitializeFetched ==
  ASSUME InOrder, Initialize
  PROVE  Fetched'
<1>1. /\ pc' = "idle" /\ ray' = ray /\ returned' = NoInterval /\ currentInterval' = NoInterval
      /\ required' = UNION {Asked(values[n]) : n \in 1 .. Len(values)}
  BY DEF Initialize
<1>2. /\ ray \in Rays /\ ray.bounds.lo \in Nat /\ ray.bounds.hi \in 0 .. Horizon
      /\ Horizon \in Nat /\ Inf \in Nat /\ Horizon < Inf /\ Len(values) \in Nat
  BY Numbers, RayFacts
<1>3. required' \subseteq ray.bounds.lo .. ray.bounds.hi - 1
  BY <1>1 DEF Asked
<1>4. ASSUME values = <<>> PROVE required' = {}
  BY <1>1, <1>4
<1>5. ASSUME ~ValueRangesOverlap PROVE required' = {}
  <2>1. \A n \in 1 .. Len(values) : Asked(values[n]) = {}
    BY <1>2, <1>5, NothingAsked
  <2> QED
    BY <1>1, <2>1
<1>6. ASSUME currentInterval'.lo = Inf PROVE required' = {}
  <2>1. Inf = 1
    BY <1>1, <1>6 DEF NoInterval
  <2>2. ray.bounds.lo .. ray.bounds.hi - 1 = {}
    BY <1>2, <2>1
  <2> QED
    BY <1>3, <2>2
<1> QED
  BY <1>1, <1>3, <1>4, <1>5, <1>6
     DEF Fetched, values, field, ValueRangesOverlap, InField

(* An interval that is fetched is in the box, beyond the last one. *)
LEMMA NeedIntervalFetched ==
  ASSUME InOrder, Fetched, NeedInterval
  PROVE  Fetched'
<1>1. /\ pc = "interval" /\ UNCHANGED asked /\ pc' \in {"interval", "start", "done"}
  BY DEF NeedInterval
<1>2. CASE returned' = returned
  BY <1>1, <1>2, FetchedStays
<1>3. CASE returned' # returned
  <2>1. returned' \in NextIntervals
    BY <1>3 DEF NeedInterval, iteratorState
  <2> DEFINE iv == returned'
  <2>2. /\ iv.lo = Greatest(returned.hi, ray.bounds.lo) /\ iv.lo < iv.hi
        /\ iv.hi <= ray.bounds.hi
        /\ ray.kind # "default" => \E k \in 1 .. Len(ray.intervals) : iv = ray.intervals[k]
    BY <2>1, NextIntervalFacts DEF InOrder
  <2>3. ray.bounds.lo <= iv.lo
    <3>1. ray.bounds.lo \in Nat /\ returned.hi \in Int
      BY Numbers, RayFacts DEF InOrder, TypeOK, IntervalsOf
    <3> QED
      BY <2>2, <3>1 DEF Greatest
  <2> QED
    BY <1>1, <2>2, <2>3 DEF Fetched, asked, values, field, ValueRangesOverlap, InField
<1> QED
  BY <1>2, <1>3

(* A hit is never so far away that the ray has finished.                   *)
LEMMA ReturnHitFetched ==
  ASSUME InOrder, Fetched, ReturnHit
  PROVE  Fetched'
<1>1. /\ pc = "value" /\ pc' = "idle" /\ tHit < Inf /\ UNCHANGED asked /\ returned' = returned
      /\ currentInterval' = [currentInterval EXCEPT !.lo = tHit + Epsilon]
  BY DEF ReturnHit
<1>2. currentInterval'.lo = tHit + Epsilon
  BY <1>1, IntervalRecord
<1>3. tHit + Epsilon < Inf
  <2> DEFINE s == currentInterval.step
             e == s \div 8
  <2>1. /\ s \in Nat /\ ray.length \in Nat /\ tHit \in 0 .. Horizon /\ Horizon \in Nat
        /\ Inf \in Nat
    BY <1>1, Numbers
  <2>2. s >= 8 /\ Horizon + s * ray.length < Inf
    BY <1>1 DEF InOrder, InInterval, HasStep, IsStep
  <2>3. e \in Nat /\ e <= s
    BY <2>1
  <2>4. Epsilon = e * ray.length
    BY DEF Epsilon
  <2> HIDE DEF s, e
  <2>5. e * ray.length <= s * ray.length /\ e * ray.length \in Int /\ s * ray.length \in Int
    BY <2>1, <2>3, Times
  <2> DEFINE x == e * ray.length
             y == s * ray.length
  <2>6. x \in Int /\ y \in Int /\ x <= y /\ Horizon + y < Inf /\ Epsilon = x
    BY <2>2, <2>4, <2>5
  <2> HIDE DEF x, y
  <2> QED
    BY <2>1, <2>6
<1>4. ~(currentInterval'.lo = Inf)
  <2>1. tHit + Epsilon # Inf
    BY <1>3, Numbers
  <2> QED
    BY <1>2, <2>1
<1> QED
  BY <1>1, <1>4 DEF Fetched, asked, values, field, ValueRangesOverlap, InField

(* No step leaves the box. *)
LEMMA NextFetched == InOrder /\ Fetched /\ [Next]_vars => Fetched'
<1> SUFFICES ASSUME InOrder, Fetched, [Next]_vars PROVE Fetched'
  OBVIOUS
<1>1. CASE UNCHANGED vars
  BY <1>1 DEF vars, Fetched, values, field, ValueRangesOverlap, InField
<1>2. CASE CallIterateHit \/ StartSearch \/ NextBracket \/ NoHit \/ TestValue \/ Halve
           \/ BisectionEnds \/ LeaveBracket
  <2>1. UNCHANGED asked /\ returned' = returned /\ pc # "none" /\ pc' # "none" /\ pc' # "idle"
    BY <1>2 DEF CallIterateHit, StartSearch, NextBracket, NoHit, TestValue, Halve,
                BisectionEnds, LeaveBracket, Consider, iteratorState
  <2> QED
    BY <2>1, FetchedStays
<1> QED
  BY <1>1, <1>2, InitializeFetched, NeedIntervalFetched, ReturnHitFetched
     DEF Next, Iteration, Done

-----------------------------------------------------------------------------
(* The inductive invariant: the place of a call, its samples, its intervals. *)
IInv == InOrder /\ OnTheField /\ Fetched

(* It holds for every ray. *)
THEOREM Invariance == Spec => []IInv
<1>1. Init => IInv
  BY InitInOrder, InitOnTheField, InitFetched DEF IInv
<1>2. IInv /\ [Next]_vars => IInv'
  BY NextInOrder, NextOnTheField, NextFetched DEF IInv
<1> QED
  BY <1>1, <1>2, PTL DEF Spec

(* Every variable of a call keeps its range: no sample is taken outside of *)
(* the field, whatever the rays, intervals and values are.                 *)
THEOREM TypeCorrect == Spec => []TypeOK
<1>1. IInv => TypeOK
  BY DEF IInv, InOrder
<1> QED
  BY <1>1, Invariance, PTL

(* DefaultHitIterator never goes back: the next hit is beyond the last one *)
(* and its epsilon, over all calls and intervals.                          *)
THEOREM HitsComeInOrder == Spec => []HitsInOrder
<1>1. IInv => HitsInOrder
  BY DEF IInv, InOrder
<1> QED
  BY <1>1, Invariance, PTL

(* "should never get here" is right: bisect always has a half to go on in. *)
THEOREM OneHalf == Spec => []OneHalfCrosses
<1>1. IInv => OneHalfCrosses
  <2> SUFFICES ASSUME InOrder, OnTheField, pc = "bisect", field[Middle] # NaN
               PROVE  \/ InLowerHalf(values[i], low.sample, field[Middle])
                      \/ InUpperHalf(values[i], high.sample, field[Middle])
    BY DEF IInv, OneHalfCrosses
  <2> DEFINE v == values[i]
             a == low.sample
             b == high.sample
             m == field[Middle]
  <2>1. v \in Int /\ m \in Int
    <3>1. i \in 1 .. Len(values) /\ Middle \in 0 .. Horizon
      BY Numbers, MiddleFacts
    <3> QED
      BY <3>1, Numbers, RayFacts
  <2>2. a \in Int /\ b \in Int
    BY DEF OnTheField, Samples, Crossed, InOrder, TypeOK
  <2>3. a # v /\ (b = v \/ (v - a) * (v - b) < 0)
    BY DEF OnTheField, Samples, Crossed, Between
  <2> HIDE DEF v, a, b, m
  <2>4. m = v \/ (v - a) * (v - m) < 0 \/ b = v \/ (v - b) * (v - m) < 0
    BY <2>1, <2>2, <2>3, OnBothSides
  <2> QED
    BY <2>4 DEF InLowerHalf, InUpperHalf, v, a, b, m
<1> QED
  BY <1>1, Invariance, PTL

(* Every hit is on a surface of its value, as near as the bisections of a  *)
(* step come to it, or within a step if there is a NaN within one: for     *)
(* fields with holes and jumps anywhere.                                   *)
THEOREM HitsOnSurfaces == Spec => []HitsAreOnSurfaces
<1>1. IInv => HitsAreOnSurfaces
  <2> SUFFICES ASSUME InOrder, OnTheField, hits # <<>> PROVE OnSurface(hits[Len(hits)])
    BY DEF IInv, HitsAreOnSurfaces
  <2>1. hits \in Seq([t : 0 .. Horizon, value : Int, epsilon : Nat])
    BY DEF InOrder, TypeOK
  <2>2. Len(hits) \in 1 .. Len(hits)
    BY <2>1, EmptySeq
  <2> QED
    BY <2>2 DEF OnTheField, HitsAreSurfaces
<1> QED
  BY <1>1, Invariance, PTL

-----------------------------------------------------------------------------
(***************************************************************************)
(* The interval iterator that it calls keeps the promise of the interval   *)
(* iterators, whichever it is.                                             *)
(***************************************************************************)

(* The end of the interval returned last, from where the next one begins.  *)
Reached == IF returned = NoInterval THEN ray.bounds.lo ELSE returned.hi

(* The next interval begins there. *)
LEMMA ReachedFacts ==
  ASSUME InOrder, Fetched
  PROVE  /\ Reached = Greatest(returned.hi, ray.bounds.lo)
         /\ Reached \in Nat /\ ray.bounds.lo <= Reached
<1>1. /\ ray.bounds.lo \in Nat /\ returned \in IntervalsOf(Horizon)
  BY Numbers, RayFacts DEF InOrder, TypeOK
<1>2. returned.lo \in Nat /\ returned.hi \in Int
  BY <1>1 DEF IntervalsOf
<1>3. CASE returned = NoInterval
  BY <1>1, <1>3 DEF Reached, NoInterval, Greatest
<1>4. CASE returned # NoInterval
  <2>1. ray.bounds.lo <= returned.lo /\ returned.lo < returned.hi
    BY <1>4 DEF Fetched
  <2> QED
    BY <1>1, <1>2, <1>4, <2>1 DEF Reached, Greatest
<1> QED
  BY <1>3, <1>4

(* An iterator that has no interval left is at the end of the box.         *)
LEMMA GivenEnd ==
  ASSUME InOrder, Fetched, ray.kind # "default", NextIntervals = {},
         ray.bounds.lo < ray.bounds.hi
  PROVE  ray.bounds.hi <= Reached
<1> DEFINE n == Len(ray.intervals)
           b == ray.bounds
           iv(k) == ray.intervals[k]
<1>1. /\ ray.intervals \in Seq(IntervalsOf(Horizon)) /\ n \in Nat
      /\ b.lo \in Nat /\ b.hi \in Int
      /\ \A k \in 1 .. n :
            /\ iv(k).lo < iv(k).hi /\ iv(k).hi <= b.hi
            /\ iv(k).lo = IF k = 1 THEN b.lo ELSE iv(k - 1).hi
      /\ \E k \in 1 .. n : iv(k).hi = b.hi
  <2>1. ray \in Rays /\ ray.bounds.lo \in Nat /\ ray.bounds.hi \in 0 .. Horizon
    BY Numbers, RayFacts
  <2>2. /\ ray.intervals \in Seq(IntervalsOf(Horizon))
        /\ \A k \in 1 .. Len(ray.intervals) :
              /\ ray.intervals[k].lo < ray.intervals[k].hi
              /\ ray.intervals[k].hi <= ray.bounds.hi
              /\ ray.intervals[k].lo =
                    IF k = 1 THEN ray.bounds.lo ELSE ray.intervals[k - 1].hi
        /\ \E k \in 1 .. Len(ray.intervals) : ray.intervals[k].hi = ray.bounds.hi
    BY <2>1, RayAssumption
  <2> QED
    BY <2>1, <2>2
<1>2. \A k \in 1 .. n : iv(k).lo # Reached
  BY ReachedFacts DEF NextIntervals
<1>3. \A k \in 1 .. n : iv(k).lo \in Int /\ iv(k).hi \in Int
  <2>1. \A k \in 1 .. n : ray.intervals[k] \in IntervalsOf(Horizon)
    BY <1>1, ElementOfSeq
  <2>2. \A x \in IntervalsOf(Horizon) : x.lo \in Int /\ x.hi \in Int
    BY Numbers DEF IntervalsOf
  <2> QED
    BY <2>1, <2>2
<1> HIDE DEF n, b, iv
<1>4. PICK j \in 1 .. n : iv(j).hi = b.hi
  BY <1>1
<1>5. 1 \in 1 .. n /\ iv(1).lo = b.lo
  BY <1>1, <1>4
<1>6. returned # NoInterval
  BY <1>2, <1>5 DEF Reached, b
<1>7. PICK k \in 1 .. n : returned = iv(k)
  BY <1>6 DEF Fetched, n, iv
<1>8. Reached = iv(k).hi
  BY <1>6, <1>7 DEF Reached
<1>9. k = n
  <2> SUFFICES ASSUME k # n PROVE FALSE
    OBVIOUS
  <2>1. k + 1 \in 1 .. n /\ k + 1 # 1 /\ (k + 1) - 1 = k
    BY <1>1
  <2>2. iv(k + 1).lo = iv(k).hi
    BY <1>1, <2>1
  <2> QED
    BY <1>2, <1>8, <2>1, <2>2
<1>10. j = n
  <2> SUFFICES ASSUME j # n PROVE FALSE
    OBVIOUS
  <2>1. j + 1 \in 1 .. n /\ j + 1 # 1 /\ (j + 1) - 1 = j
    BY <1>1
  <2>2. /\ iv(j + 1).lo = iv(j).hi /\ iv(j + 1).lo < iv(j + 1).hi /\ iv(j + 1).hi <= b.hi
    BY <1>1, <2>1
  <2> QED
    BY <1>1, <1>3, <1>4, <2>1, <2>2
<1>11. Reached = b.hi
  BY <1>4, <1>8, <1>9, <1>10
<1> QED
  BY <1>1, <1>11 DEF b

(* ... nor a slice. *)
LEMMA DefaultEnd ==
  ASSUME InOrder, Fetched, ray.kind = "default", NextIntervals = {},
         ray.bounds.lo < ray.bounds.hi, ValueRangesOverlap
  PROVE  ray.bounds.hi <= Reached
<1>1. /\ ray.bounds.lo \in Nat /\ ray.bounds.hi \in Int /\ ray.nominalLength \in Nat
      /\ ray.nominalLength >= 32 /\ Reached \in Nat
  BY Numbers, RayFacts, ReachedFacts
<1>2. ~IsEmpty(ray.bounds)
  BY <1>1 DEF IsEmpty
<1>3. IsEmpty(Slice)
  BY <1>2 DEF NextIntervals
<1>4. SliceStart = Reached
  BY ReachedFacts DEF SliceStart
<1>5. Least(Reached + ray.nominalLength, ray.bounds.hi) <= Reached
  BY <1>3, <1>4 DEF Slice, IsEmpty
<1> QED
  BY <1>1, <1>5 DEF Least

(* So nothing that is asked for is left. *)
LEMMA NothingLeft ==
  ASSUME InOrder, Fetched, pc # "none", NextIntervals = {}
  PROVE  required \cap Reached .. ray.bounds.hi - 1 = {}
<1>1. /\ ray.bounds.lo \in Nat /\ ray.bounds.hi \in Int /\ Reached \in Nat
  BY Numbers, RayFacts, ReachedFacts
<1>2. CASE required = {}
  BY <1>2
<1>3. CASE required # {}
  <2>1. required \subseteq ray.bounds.lo .. ray.bounds.hi - 1
    BY DEF Fetched
  <2>2. ray.bounds.lo < ray.bounds.hi
    <3>1. PICK u \in required : TRUE
      BY <1>3
    <3>2. u \in ray.bounds.lo .. ray.bounds.hi - 1
      BY <2>1
    <3> QED
      BY <1>1, <3>2
  <2>3. ray.kind = "default" => ValueRangesOverlap
    BY <1>3 DEF Fetched
  <2>4. ray.bounds.hi <= Reached
    BY <2>2, <2>3, GivenEnd, DefaultEnd
  <2> QED
    BY <1>1, <2>4
<1> QED
  BY <1>2, <1>3

(* The abstract iterator is not in use at first. *)
LEMMA InitImplements == Init => IntervalPromise!Init
BY DEF Init, IntervalPromise!Init

(* What has to be found lies ahead of an iterator that begins. *)
LEMMA InitializeBegins ==
  ASSUME InOrder, Initialize
  PROVE  IntervalPromise!Begin
<1>1. pc = "none" /\ pc' = "idle" /\ returned' = NoInterval /\ ray' = ray
  BY DEF Initialize
<1>2. required' \subseteq ray'.bounds.lo .. ray'.bounds.hi - 1
  BY <1>1, InitializeFetched DEF Fetched
<1> QED
  BY <1>1, <1>2 DEF IntervalPromise!Begin

(* A call that returns before it asks for an interval was the last one.    *)
LEMMA CallImplements ==
  ASSUME InOrder, Fetched, CallIterateHit
  PROVE  IntervalPromise!End \/ UNCHANGED IntervalPromise!vars
<1>1. /\ pc = "idle" /\ ray' = ray /\ required' = required /\ returned' = returned
      /\ pc' \in {"interval", "done"}
  BY DEF CallIterateHit, asked, iteratorState
<1>2. CASE pc' = "interval"
  BY <1>1, <1>2 DEF IntervalPromise!vars
<1>3. CASE pc' = "done"
  <2>1. values = <<>> \/ currentInterval.lo = Inf
    BY <1>3 DEF CallIterateHit
  <2>2. required = {}
    BY <1>1, <2>1 DEF Fetched
  <2> QED
    BY <1>1, <1>3, <2>2 DEF IntervalPromise!End, IntervalPromise!NothingRequired
<1> QED
  BY <1>1, <1>2, <1>3

(* The next interval begins where the last one ended.                      *)
LEMMA NeedIntervalImplements ==
  ASSUME InOrder, Fetched, NeedInterval
  PROVE  IntervalPromise!Next \/ UNCHANGED IntervalPromise!vars
<1>1. pc = "interval" /\ ray' = ray /\ required' = required
  BY DEF NeedInterval, asked
<1>2. CASE returned' = returned /\ pc' \in {"interval", "start"}
  BY <1>1, <1>2 DEF IntervalPromise!vars
<1>3. CASE IsEmpty(currentInterval) /\ NextIntervals = {}
  <2>1. pc' = "done" /\ returned' = returned
    BY <1>3 DEF NeedInterval
  <2>2. required \cap Reached .. ray.bounds.hi - 1 = {}
    BY <1>1, <1>3, NothingLeft
  <2>3. IntervalPromise!End
    BY <1>1, <2>1, <2>2
       DEF IntervalPromise!End, IntervalPromise!NothingRequired, Reached
  <2> QED
    BY <2>3 DEF IntervalPromise!Next
<1>4. CASE IsEmpty(currentInterval) /\ NextIntervals # {}
  <2>1. returned' \in NextIntervals /\ pc' \in {"interval", "start"}
    BY <1>4 DEF NeedInterval
  <2> DEFINE iv == returned'
  <2>2. /\ iv \in [lo : Nat, hi : 0 .. Horizon, step : Nat]
        /\ iv.lo = Greatest(returned.hi, ray.bounds.lo) /\ iv.lo < iv.hi
        /\ iv.hi <= ray.bounds.hi
    BY <2>1, NextIntervalFacts DEF InOrder
  <2>3. iv.lo = Reached /\ Reached \in Nat /\ iv.hi \in Int
    BY <2>2, ReachedFacts
  <2>4. iv # NoInterval
    BY <2>2 DEF NoInterval
  <2>5. required \cap Reached .. iv.lo - 1 = {}
    BY <2>3
  <2>6. IntervalPromise!Return
    BY <1>1, <2>1, <2>2, <2>3, <2>4, <2>5
       DEF IntervalPromise!Return, IntervalPromise!NothingRequired, Reached
  <2> QED
    BY <2>6 DEF IntervalPromise!Next
<1> QED
  BY <1>2, <1>3, <1>4 DEF NeedInterval, iteratorState

(* The search of an interval is not seen. *)
LEMMA SearchStutters ==
  ASSUME StartSearch \/ NextBracket \/ NoHit \/ TestValue \/ Halve \/ BisectionEnds
         \/ ReturnHit \/ LeaveBracket \/ UNCHANGED vars
  PROVE  UNCHANGED IntervalPromise!vars
<1>1. CASE UNCHANGED vars
  BY <1>1 DEF vars, IntervalPromise!vars
<1>2. CASE ~UNCHANGED vars
  <2>1. /\ UNCHANGED asked /\ returned' = returned
        /\ pc \notin {"none", "done"} /\ pc' \notin {"none", "done"}
    BY <1>2 DEF StartSearch, NextBracket, NoHit, TestValue, Halve, BisectionEnds,
                ReturnHit, LeaveBracket, Consider, iteratorState
  <2> QED
    BY <2>1 DEF IntervalPromise!vars, asked
<1> QED
  BY <1>1, <1>2

(* Under every hit iterator an interval iterator runs: the intervals that  *)
(* the search takes come in order and leave out no unit that the context   *)
(* asks for, and the last call is made when nothing it asks for is left.   *)
THEOREM Implements == Spec => ImplementsIteration
<1>1. IInv /\ [Next]_vars => [IntervalPromise!Next]_(IntervalPromise!vars)
  <2> SUFFICES ASSUME InOrder, Fetched, [Next]_vars
               PROVE  IntervalPromise!Next \/ UNCHANGED IntervalPromise!vars
    BY DEF IInv
  <2> QED
    BY InitializeBegins, CallImplements, NeedIntervalImplements, SearchStutters
       DEF Next, Iteration, Done, IntervalPromise!Next
<1> QED
  BY <1>1, InitImplements, Invariance, PTL
     DEF Spec, ImplementsIteration, IntervalPromise!Spec
=============================================================================
