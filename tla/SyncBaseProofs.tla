--------------------------- MODULE SyncBaseProofs ---------------------------
(***************************************************************************)
(* Proofs about Algorithms::Base: its type invariant and the soundness of  *)
(* the estimate, for every set of samples, every order of arrival and      *)
(* every cleanup(); and, for samples in time order and a cleanup() that    *)
(* keeps the pinned points, what the current pair of constraints is worth. *)
(***************************************************************************)
EXTENDS SyncBase, TLAPS

---------------------------------------------------------------------------
(* Arithmetic *)

\* An inequality may be multiplied by a natural number.
LEMMA Multiply ==
  ASSUME NEW a \in Int, NEW b \in Int, NEW c \in Int, a <= b, c >= 0
  PROVE  a * c <= b * c
BY SMT

\* A factor common to both sides of a strict inequality may go.
LEMMA Cancel ==
  ASSUME NEW a \in Int, NEW b \in Int, NEW c \in Int, c > 0, a * c < b * c
  PROVE  a < b
BY SMT

LEMMA MultiplyStrictly ==
  ASSUME NEW a \in Int, NEW b \in Int, NEW c \in Int, a < b, c > 0
  PROVE  a * c < b * c
BY SMT

\* Products of naturals and positive numbers keep their sign.
LEMMA Products ==
  ASSUME NEW a \in Int, NEW b \in Int, a > 0, b > 0
  PROVE  a * b \in Int /\ a * b > 0
BY SMT

(***************************************************************************)
(* The true relation of the clocks is here any line, local = m * ref + k,  *)
(* that the samples bracket: that of the constants, or one a caller knows. *)
(***************************************************************************)
Brackets(s, m, k) ==
  /\ s.to \in Int /\ s.tb \in Nat /\ s.tr \in Int
  /\ s.to <= m * s.tb + k /\ m * s.tb + k <= s.tr

\* A data point below the line, and one above it.
Below(p, m, k) == IsPoint(p) /\ p.y <= m * p.x + k
Above(p, m, k) == IsPoint(p) /\ m * p.x + k <= p.y

\* What is entered in low_constraints, and in high_constraints.
LowKey(c, m, k) == Below(c[1], m, k) /\ Above(c[2], m, k) /\ c[1].x < c[2].x
HighKey(c, m, k) == Below(c[1], m, k) /\ Above(c[2], m, k) /\ c[1].x > c[2].x

\* A line of integers with a positive denominator.
IsLine(u) == u.a \in Int /\ u.b \in Int /\ u.d \in Int /\ u.d > 0

\* A line starts at the same value, whichever of its points it is taken from.
LEMMA OtherEnd ==
  ASSUME NEW x1 \in Int, NEW y1 \in Int, NEW x2 \in Int, NEW y2 \in Int
  PROVE  y1 * (x1 - x2) - (y1 - y2) * x1 = y2 * (x1 - x2) - (y1 - y2) * x2
BY SMT

(***************************************************************************)
(* A line from a point below the truth to a later one above it is at least *)
(* as steep as the truth and starts at or below it.  That it starts below  *)
(* needs reference times that are not negative.                            *)
(***************************************************************************)
LEMMA LowLine ==
  ASSUME NEW m \in Int, NEW k \in Int, NEW c, LowKey(c, m, k)
  PROVE  /\ IsLine(LineOf(c))
         /\ m * LineOf(c).d <= LineOf(c).a
         /\ LineOf(c).b <= k * LineOf(c).d
<1> DEFINE l == c[1]
           h == c[2]
           d == h.x - l.x
           a == h.y - l.y
<1>1. /\ l.x \in Nat /\ l.y \in Int /\ h.x \in Nat /\ h.y \in Int
      /\ l.y <= m * l.x + k /\ m * h.x + k <= h.y
      /\ l.x < h.x
  BY DEF LowKey, Below, Above, IsPoint
<1>2. LineOf(c) = [a |-> a, b |-> l.y * d - a * l.x, d |-> d]
  BY <1>1 DEF LineOf, Line
<1>3. d \in Int /\ d > 0 /\ a \in Int /\ l.y * d - a * l.x \in Int
  BY <1>1
<1>4. m * d <= a
  BY <1>1
<1>5. m * d * l.x <= a * l.x
  BY <1>1, <1>3, <1>4, Multiply
<1>6. l.y * d <= (m * l.x + k) * d
  BY <1>1, <1>3, Multiply
<1>7. l.y * d - a * l.x <= k * d
  BY <1>1, <1>3, <1>5, <1>6
<1> QED
  BY <1>2, <1>3, <1>4, <1>7 DEF IsLine

\* The other way around, the line is no steeper and starts at or above it.
LEMMA HighLine ==
  ASSUME NEW m \in Int, NEW k \in Int, NEW c, HighKey(c, m, k)
  PROVE  /\ IsLine(LineOf(c))
         /\ LineOf(c).a <= m * LineOf(c).d
         /\ k * LineOf(c).d <= LineOf(c).b
<1> DEFINE l == c[1]
           h == c[2]
           d == l.x - h.x
           a == l.y - h.y
<1>1. /\ l.x \in Nat /\ l.y \in Int /\ h.x \in Nat /\ h.y \in Int
      /\ l.y <= m * l.x + k /\ m * h.x + k <= h.y
      /\ l.x > h.x
  BY DEF HighKey, Below, Above, IsPoint
<1>2. LineOf(c) = [a |-> a, b |-> l.y * d - a * l.x, d |-> d]
  BY <1>1 DEF LineOf, Line
<1>3. d \in Int /\ d > 0 /\ a \in Int /\ l.y * d - a * l.x \in Int
  BY <1>1
<1>4. a <= m * d
  BY <1>1
<1>5. a * h.x <= m * d * h.x
  BY <1>1, <1>3, <1>4, Multiply
<1>6. (m * h.x + k) * d <= h.y * d
  BY <1>1, <1>3, Multiply
<1>7. l.y * d - a * l.x = h.y * d - a * h.x
  <2>1. l.x \in Int /\ l.y \in Int /\ h.x \in Int /\ h.y \in Int
    BY <1>1
  <2> QED
    BY <2>1, OtherEnd
<1>8. k * d <= l.y * d - a * l.x
  BY <1>1, <1>3, <1>5, <1>6, <1>7
<1> QED
  BY <1>2, <1>3, <1>4, <1>8 DEF IsLine

(***************************************************************************)
(* The midpoint of the two lines, with the errors published beside it,     *)
(* brackets the true drift and the true offset.                            *)
(***************************************************************************)
Sound(e, m, k) == /\ Within(m * e.den, e.drift, e.driftError)
                  /\ Within(k * e.den, e.offset, e.offsetError)

IsEstimate(e) == /\ e.drift \in Int /\ e.driftError \in Int
                 /\ e.offset \in Int /\ e.offsetError \in Int
                 /\ e.den \in Nat \ {0}

LEMMA EstimateBrackets ==
  ASSUME NEW m \in Int, NEW k \in Int,
         NEW low, NEW high, LowKey(low, m, k), HighKey(high, m, k)
  PROVE  IsEstimate(Estimate(low, high)) /\ Sound(Estimate(low, high), m, k)
<1> DEFINE u == LineOf(low)
           v == LineOf(high)
           e == Estimate(low, high)
<1>1. /\ u.a \in Int /\ u.b \in Int /\ u.d \in Int /\ u.d > 0
      /\ m * u.d <= u.a /\ u.b <= k * u.d
  BY LowLine DEF IsLine
<1>2. /\ v.a \in Int /\ v.b \in Int /\ v.d \in Int /\ v.d > 0
      /\ v.a <= m * v.d /\ k * v.d <= v.b
  BY HighLine DEF IsLine
<1>3. e = [drift |-> u.a * v.d + v.a * u.d, driftError |-> u.a * v.d - v.a * u.d,
           offset |-> u.b * v.d + v.b * u.d, offsetError |-> v.b * u.d - u.b * v.d,
           den |-> 2 * (u.d * v.d)]
  BY DEF Estimate, Midpoint
<1> HIDE DEF u, v, e
<1>4. u.d * v.d \in Int /\ u.d * v.d > 0
  BY <1>1, <1>2, Products
<1>5. IsEstimate(e)
  BY <1>1, <1>2, <1>3, <1>4 DEF IsEstimate
<1>6. /\ (m * u.d) * v.d <= u.a * v.d
      /\ u.b * v.d <= (k * u.d) * v.d
  BY <1>1, <1>2, Multiply
<1>7. /\ v.a * u.d <= (m * v.d) * u.d
      /\ (k * v.d) * u.d <= v.b * u.d
  BY <1>1, <1>2, Multiply
<1>8. Within(m * e.den, e.drift, e.driftError)
  BY <1>1, <1>2, <1>3, <1>6, <1>7 DEF Within
<1>9. Within(k * e.den, e.offset, e.offsetError)
  BY <1>1, <1>2, <1>3, <1>6, <1>7 DEF Within
<1> QED
  BY <1>5, <1>8, <1>9 DEF Sound, e

\* diff_factor, the product of both errors, as a quotient.
LEMMA DifferenceTyped ==
  ASSUME NEW m \in Int, NEW k \in Int,
         NEW low, NEW high, LowKey(low, m, k), HighKey(high, m, k)
  PROVE  /\ Difference(low, high).n \in Int
         /\ Difference(low, high).d \in Nat /\ Difference(low, high).d > 0
<1> DEFINE u == LineOf(low)
           v == LineOf(high)
<1>1. u.a \in Int /\ u.b \in Int /\ u.d \in Int /\ u.d > 0
  BY LowLine DEF IsLine
<1>2. v.a \in Int /\ v.b \in Int /\ v.d \in Int /\ v.d > 0
  BY HighLine DEF IsLine
<1>3. Difference(low, high) =
        [n |-> (u.a * v.d - v.a * u.d) * (v.b * u.d - u.b * v.d),
         d |-> (u.d * v.d) * (u.d * v.d)]
  BY DEF Difference, Gap
<1> HIDE DEF u, v
<1>4. u.d * v.d \in Int /\ u.d * v.d > 0
  BY <1>1, <1>2, Products
<1>5. (u.d * v.d) * (u.d * v.d) \in Nat /\ (u.d * v.d) * (u.d * v.d) > 0
  BY <1>4, Products
<1> QED
  BY <1>1, <1>2, <1>3, <1>5

---------------------------------------------------------------------------
(* The inductive invariant *)

PointsInv(m, k) == /\ \A p \in low_points : Below(p, m, k) /\ p.id \in 1..calls
                   /\ \A p \in high_points : Above(p, m, k) /\ p.id \in 1..calls

KeysInv(m, k) == /\ \A c \in low_constraints : LowKey(c, m, k)
                 /\ \A c \in high_constraints : HighKey(c, m, k)

CurrentInv(m, k) == \/ low_constraint_pts = NoPair /\ high_constraint_pts = NoPair
                    \/ LowKey(low_constraint_pts, m, k) /\ HighKey(high_constraint_pts, m, k)

DifferenceInv == diff_factor.n \in Int /\ diff_factor.d \in Nat

EstimateInv(m, k) == IsEstimate(estimate) /\ (estimate # NoEstimate => Sound(estimate, m, k))

ControlInv == /\ processed_timestamps \in 0..(CounterLimit - 1)
              /\ outcome \in Outcomes
              /\ calls \in 0..MaxCalls

BaseInv(m, k) == /\ PointsInv(m, k) /\ KeysInv(m, k) /\ CurrentInv(m, k)
                 /\ DifferenceInv /\ EstimateInv(m, k) /\ ControlInv

\* The invariant holds before the first call.
LEMMA InitInv ==
  ASSUME NEW m \in Int, NEW k \in Int, BaseInit
  PROVE  BaseInv(m, k)
<1>1. PointsInv(m, k) /\ KeysInv(m, k) /\ CurrentInv(m, k)
  BY DEF BaseInit, PointsInv, KeysInv, CurrentInv
<1>2. DifferenceInv /\ EstimateInv(m, k)
  BY DEF BaseInit, DifferenceInv, Infinity, EstimateInv, IsEstimate, NoEstimate
<1>3. ControlInv
  BY ParametersAssumption DEF BaseInit, ControlInv, Outcomes
<1> QED
  BY <1>1, <1>2, <1>3 DEF BaseInv

(***************************************************************************)
(* addLowPoint and addHighPoint: the new points, and the keys of the new   *)
(* constraints, are on the right sides of the truth.                       *)
(***************************************************************************)
LEMMA NewPoints ==
  ASSUME NEW m \in Int, NEW k \in Int, PointsInv(m, k), calls \in Nat,
         NEW s, Brackets(s, m, k)
  PROVE  /\ Below(NewLow(s), m, k) /\ Above(NewHigh(s), m, k)
         /\ \A p \in LowPoints(s) : Below(p, m, k) /\ p.id \in 1..(calls + 1)
         /\ \A p \in HighPoints(s) : Above(p, m, k) /\ p.id \in 1..(calls + 1)
<1>1. /\ s.to \in Int /\ s.tb \in Nat /\ s.tr \in Int
      /\ s.to <= m * s.tb + k /\ m * s.tb + k <= s.tr
  BY DEF Brackets
<1>2. Below(NewLow(s), m, k) /\ NewLow(s).id = calls + 1
  BY <1>1 DEF NewLow, Point, Below, IsPoint
<1>3. Above(NewHigh(s), m, k) /\ NewHigh(s).id = calls + 1
  BY <1>1 DEF NewHigh, Point, Above, IsPoint
<1>4. LowPoints(s) \subseteq low_points \cup {NewLow(s)}
  BY DEF LowPoints, Insert
<1>5. HighPoints(s) \subseteq high_points \cup {NewHigh(s)}
  BY DEF HighPoints, Insert
<1>6. \A n : n \in 1..calls => n \in 1..(calls + 1)
  OBVIOUS
<1>7. calls + 1 \in 1..(calls + 1)
  OBVIOUS
<1> QED
  BY <1>2, <1>3, <1>4, <1>5, <1>6, <1>7 DEF PointsInv

LEMMA NewKeys ==
  ASSUME NEW m \in Int, NEW k \in Int, PointsInv(m, k), KeysInv(m, k), calls \in Nat,
         NEW s, Brackets(s, m, k)
  PROVE  /\ \A c \in LowConstraints(s) : LowKey(c, m, k)
         /\ \A c \in HighConstraints(s) : HighKey(c, m, k)
<1>1. \A c \in NewPairs(s) : Below(c[1], m, k) /\ Above(c[2], m, k)
  BY NewPoints DEF NewPairs, PointsInv
<1> QED
  BY <1>1 DEF LowConstraints, HighConstraints, KeysInv, LowKey, HighKey

\* What every call does to the bookkeeping.
LEMMA ArrivesInv ==
  ASSUME ControlInv, NEW s, Arrives(s)
  PROVE  /\ calls \in Nat /\ calls' = calls + 1
         /\ calls' \in 0..MaxCalls
         /\ processed_timestamps' \in 0..(CounterLimit - 1)
BY ParametersAssumption DEF ControlInv, Arrives, Increment

\* The points that survive a call are old ones or the new ones.
LEMMA KeptInv ==
  ASSUME NEW m \in Int, NEW k \in Int, BaseInv(m, k), NEW s, Brackets(s, m, k), Arrives(s),
         low_points' \subseteq LowPoints(s), high_points' \subseteq HighPoints(s),
         low_constraints' \subseteq LowConstraints(s),
         high_constraints' \subseteq HighConstraints(s)
  PROVE  PointsInv(m, k)' /\ KeysInv(m, k)'
<1>1. PointsInv(m, k) /\ KeysInv(m, k) /\ ControlInv
  BY DEF BaseInv
<1>2. calls \in Nat /\ calls' = calls + 1
  BY <1>1, ArrivesInv
<1>3. PointsInv(m, k)'
  BY <1>1, <1>2, NewPoints DEF PointsInv
<1>4. KeysInv(m, k)'
  BY <1>1, <1>2, NewKeys DEF KeysInv
<1> QED
  BY <1>3, <1>4

\* The selection loop leaves the current pair alone or takes cached ones.
LEMMA SelectInv ==
  ASSUME NEW m \in Int, NEW k \in Int, BaseInv(m, k), NEW s, Brackets(s, m, k), Arrives(s), Select(s)
  PROVE  CurrentInv(m, k)' /\ DifferenceInv'
<1>1. PointsInv(m, k) /\ KeysInv(m, k) /\ CurrentInv(m, k) /\ DifferenceInv /\ calls \in Nat
  BY ArrivesInv DEF BaseInv
<1>2. CASE UNCHANGED <<low_constraint_pts, high_constraint_pts, diff_factor>>
  BY <1>1, <1>2 DEF CurrentInv, DifferenceInv
<1>3. CASE \E c \in Tightest(Improvements(s)) :
             /\ low_constraint_pts' = c[1]
             /\ high_constraint_pts' = c[2]
             /\ diff_factor' = Difference(c[1], c[2])
  <2>1. PICK c \in Tightest(Improvements(s)) :
             /\ low_constraint_pts' = c[1]
             /\ high_constraint_pts' = c[2]
             /\ diff_factor' = Difference(c[1], c[2])
    BY <1>3
  <2>2. c \in LowConstraints(s) \X HighConstraints(s)
    BY DEF Tightest, Improvements
  <2>3. LowKey(c[1], m, k) /\ HighKey(c[2], m, k)
    BY <1>1, <2>2, NewKeys
  <2> QED
    BY <2>1, <2>3, DifferenceTyped DEF CurrentInv, DifferenceInv
<1> QED
  BY <1>2, <1>3 DEF Select

\* What is published is the estimate of a pair of cached constraints.
LEMMA PublishInv ==
  ASSUME NEW m \in Int, NEW k \in Int, EstimateInv(m, k), CurrentInv(m, k)', Publish
  PROVE  EstimateInv(m, k)' /\ outcome' \in Outcomes
<1>1. CASE low_constraint_pts' = NoPair
  BY <1>1 DEF Publish, EstimateInv, Outcomes
<1>2. CASE low_constraint_pts' # NoPair
  <2>1. LowKey(low_constraint_pts', m, k) /\ HighKey(high_constraint_pts', m, k)
    BY <1>2 DEF CurrentInv, LowKey, HighKey, Below, Above, IsPoint
  <2>2. estimate' = Estimate(low_constraint_pts', high_constraint_pts')
    BY <1>2 DEF Publish
  <2>3. outcome' \in Outcomes
    BY <1>2 DEF Publish, Outcomes
  <2> QED
    BY <2>1, <2>2, <2>3, EstimateBrackets DEF EstimateInv, IsEstimate, Sound
<1> QED
  BY <1>1, <1>2

\* Every call preserves the invariant.
LEMMA StoreInv ==
  ASSUME NEW m \in Int, NEW k \in Int, BaseInv(m, k), NEW s, Brackets(s, m, k), Store(s)
  PROVE  BaseInv(m, k)'
<1>1. Arrives(s)
  BY DEF Store
<1>2. PointsInv(m, k)' /\ KeysInv(m, k)'
  BY <1>1, KeptInv DEF Store
<1>3. CurrentInv(m, k)' /\ DifferenceInv' /\ EstimateInv(m, k)'
  BY DEF Store, BaseInv, CurrentInv, DifferenceInv, EstimateInv
<1>4. ControlInv'
  BY <1>1, ArrivesInv DEF BaseInv, ControlInv, Store, Outcomes
<1> QED
  BY <1>2, <1>3, <1>4 DEF BaseInv

LEMMA RecalculateInv ==
  ASSUME NEW m \in Int, NEW k \in Int, BaseInv(m, k), NEW s, Brackets(s, m, k), Recalculate(s)
  PROVE  BaseInv(m, k)'
<1>1. Arrives(s) /\ Select(s)
  BY DEF Recalculate, Recalculates
<1>2. low_points' \subseteq LowPoints(s) /\ high_points' \subseteq HighPoints(s)
  BY DEF Recalculate, Keeps
<1>3. /\ low_constraints' \subseteq LowConstraints(s)
      /\ high_constraints' \subseteq HighConstraints(s)
  BY DEF Recalculate, Prune, CleanupThrows
<1>4. PointsInv(m, k)' /\ KeysInv(m, k)'
  BY <1>1, <1>2, <1>3, KeptInv
<1>5. CurrentInv(m, k)' /\ DifferenceInv'
  BY <1>1, SelectInv
<1>6. EstimateInv(m, k)' /\ outcome' \in Outcomes
  <2>1. CASE Publish
    BY <1>5, <2>1, PublishInv DEF BaseInv
  <2>2. CASE CleanupThrows(s, low_points', high_points')
    BY <2>2 DEF CleanupThrows, BaseInv, EstimateInv, Outcomes
  <2> QED
    BY <2>1, <2>2 DEF Recalculate
<1>7. ControlInv'
  BY <1>1, <1>6, ArrivesInv DEF BaseInv, ControlInv
<1> QED
  BY <1>4, <1>5, <1>6, <1>7 DEF BaseInv

LEMMA StutterInv ==
  ASSUME NEW m \in Int, NEW k \in Int, BaseInv(m, k), UNCHANGED baseVars
  PROVE  BaseInv(m, k)'
BY DEF baseVars, BaseInv, PointsInv, KeysInv, CurrentInv, DifferenceInv, EstimateInv, ControlInv

---------------------------------------------------------------------------
(* Theorems *)

\* The samples that may be added bracket the truth.
LEMMA SamplesBracket ==
  /\ Slope \in Int /\ Offset \in Int
  /\ \A s \in Samples : Brackets(s, Slope, Offset)
BY SamplesAssumption DEF Brackets, Truth

THEOREM BaseInvariant == BaseSpec => []BaseInv(Slope, Offset)
<1>1. BaseInit => BaseInv(Slope, Offset)
  BY SamplesBracket, InitInv
<1>2. BaseInv(Slope, Offset) /\ [BaseNext]_baseVars => BaseInv(Slope, Offset)'
  BY SamplesBracket, StoreInv, RecalculateInv, StutterInv DEF BaseNext
<1> QED
  BY <1>1, <1>2, PTL DEF BaseSpec

(***************************************************************************)
(* Every variable of Algorithms::Base keeps its type, for every set of     *)
(* samples, in any order, and every cleanup().                             *)
(***************************************************************************)
THEOREM BaseTyped == BaseSpec => []TypeOK
<1>1. BaseInv(Slope, Offset) => TypeOK
  <2> SUFFICES ASSUME BaseInv(Slope, Offset) PROVE TypeOK
    OBVIOUS
  <2>1. IsPoint(NoPair[1]) /\ IsPoint(NoPair[2])
    BY DEF NoPair, NoPoint, Point, IsPoint
  <2>2. \A c \in {low_constraint_pts, high_constraint_pts} : IsPoint(c[1]) /\ IsPoint(c[2])
    BY <2>1 DEF BaseInv, CurrentInv, LowKey, HighKey, Below, Above
  <2>3. \A c \in low_constraints \cup high_constraints : IsPoint(c[1]) /\ IsPoint(c[2])
    BY DEF BaseInv, KeysInv, LowKey, HighKey, Below, Above
  <2>4. \A p \in low_points \cup high_points : IsPoint(p) /\ p.id \in 1..calls
    BY DEF BaseInv, PointsInv, Below, Above
  <2> QED
    BY <2>2, <2>3, <2>4 DEF BaseInv, TypeOK, DifferenceInv, EstimateInv, IsEstimate, ControlInv
<1> QED
  BY <1>1, BaseInvariant, PTL

(***************************************************************************)
(* The true drift and offset always lie within the errors published with   *)
(* the estimate.                                                           *)
(***************************************************************************)
THEOREM BaseSound == BaseSpec => []EstimateSound
<1>1. BaseInv(Slope, Offset) => EstimateSound
  BY DEF BaseInv, EstimateInv, EstimateSound, Sound
<1> QED
  BY <1>1, BaseInvariant, PTL

\* Every usable pair of the points before a call's cleanup() has its line.
LEMMA NewLinesCached ==
  ASSUME CacheComplete, NEW s, NEW l \in LowPoints(s), NEW h \in HighPoints(s)
  PROVE  /\ l.x < h.x => <<l, h>> \in LowConstraints(s)
         /\ l.x > h.x => <<l, h>> \in HighConstraints(s)
<1>1. \/ l \in low_points /\ h \in high_points
      \/ <<l, h>> \in NewPairs(s)
  BY DEF NewPairs, LowPoints, HighPoints, Insert
<1> QED
  BY <1>1 DEF CacheComplete, LowConstraints, HighConstraints

(***************************************************************************)
(* Completeness of the caches is what the loop needs, and that they hold   *)
(* no more is what bounds them: each call keeps both.                      *)
(***************************************************************************)
LEMMA BaseCached == BaseSpec => [](CacheComplete /\ CachePruned)
<1> DEFINE Cached == CacheComplete /\ CachePruned
<1>1. BaseInit => Cached
  BY DEF BaseInit, CacheComplete, CachePruned
<1>2. Cached /\ [BaseNext]_baseVars => Cached'
  <2> SUFFICES ASSUME Cached, [BaseNext]_baseVars PROVE Cached'
    OBVIOUS
  <2>1. ASSUME NEW s \in Samples, Store(s) PROVE Cached'
    BY <2>1, NewLinesCached DEF Store, CacheComplete, CachePruned
  <2>2. ASSUME NEW s \in Samples, Recalculate(s) PROVE Cached'
    <3>1. low_points' \subseteq LowPoints(s) /\ high_points' \subseteq HighPoints(s)
      BY <2>2 DEF Recalculate, Keeps
    <3>2. CASE Prune(s, low_points', high_points')
      BY <3>1, <3>2, NewLinesCached DEF Prune, CacheComplete, CachePruned
    <3>3. CASE CleanupThrows(s, low_points', high_points')
      BY <3>1, <3>3, NewLinesCached DEF CleanupThrows, CacheComplete, CachePruned
    <3> QED
      BY <2>2, <3>2, <3>3 DEF Recalculate
  <2>3. CASE UNCHANGED baseVars
    BY <2>3 DEF baseVars, CacheComplete, CachePruned
  <2> QED
    BY <2>1, <2>2, <2>3 DEF BaseNext
<1> QED
  BY <1>1, <1>2, PTL DEF BaseSpec

\* The caches hold a line for every pair of stored points at different
\* reference times, also where cleanup() threw.
THEOREM BaseCacheComplete == BaseSpec => []CacheComplete
<1> QED
  BY BaseCached, PTL

\* After a cleanup() that ends they hold lines of stored points only.
THEOREM BaseCachePruned == BaseSpec => []CachePruned
<1> QED
  BY BaseCached, PTL

---------------------------------------------------------------------------
(* Samples in time order *)

\* A sample the caller adds in its turn.
InTurn(s) == /\ s.to \in Int /\ s.tb \in Nat /\ s.tr \in Int /\ s.to <= s.tr
             /\ calls > 0 => InTimeOrder(s)

\* The samples of Base come in their turn if they are Ordered.
LEMMA OrderedInTurn ==
  ASSUME Ordered, NEW s \in Samples, Arrives(s)
  PROVE  InTurn(s)
<1>1. s.to \in Int /\ s.tb \in Nat /\ s.tr \in Int /\ s.to <= Truth(s.tb) /\ Truth(s.tb) <= s.tr
  BY SamplesAssumption
<1>2. Truth(s.tb) \in Int
  BY <1>1, SamplesAssumption DEF Truth
<1> QED
  BY <1>1, <1>2 DEF Arrives, InTurn

(***************************************************************************)
(* No stored point is later than the last sample, in any of its times, and *)
(* of two points of one kind, or of a low point and a high one that is not *)
(* earlier, the second is not the lower one.                               *)
(***************************************************************************)
OrderInv == /\ calls \in Nat
            /\ last.to \in Int /\ last.tb \in Nat /\ last.tr \in Int
            /\ calls = 0 => low_points = {} /\ high_points = {}
            /\ \A p \in low_points : IsPoint(p) /\ p.x <= last.tb /\ p.y <= last.to
            /\ \A p \in high_points : IsPoint(p) /\ p.x <= last.tb /\ p.y <= last.tr
            /\ \A p, q \in low_points : p.x <= q.x => p.y <= q.y
            /\ \A p, q \in high_points : p.x <= q.x => p.y <= q.y
            /\ \A p \in low_points, q \in high_points : p.x <= q.x => p.y <= q.y

LEMMA InitOrder == BaseInit => OrderInv
BY DEF BaseInit, OrderInv

\* A sample in time order is later than every stored point: neither set
\* refuses its points.
LEMMA LaterSample ==
  ASSUME OrderInv, NEW s, InTurn(s)
  PROVE  /\ NewLow(s).x = s.tb /\ NewLow(s).y = s.to /\ IsPoint(NewLow(s))
         /\ NewHigh(s).x = s.tb /\ NewHigh(s).y = s.tr /\ IsPoint(NewHigh(s))
         /\ \A p \in low_points : IsPoint(p) /\ p.x < s.tb /\ p.y <= s.to
         /\ \A p \in high_points : IsPoint(p) /\ p.x < s.tb /\ p.y <= s.tr
         /\ LowPoints(s) = low_points \cup {NewLow(s)}
         /\ HighPoints(s) = high_points \cup {NewHigh(s)}
<1>1. /\ NewLow(s).x = s.tb /\ NewLow(s).y = s.to /\ IsPoint(NewLow(s))
      /\ NewHigh(s).x = s.tb /\ NewHigh(s).y = s.tr /\ IsPoint(NewHigh(s))
  BY DEF NewLow, NewHigh, Point, InTurn, OrderInv, IsPoint
<1>2. \A p \in low_points : IsPoint(p) /\ p.x < s.tb /\ p.y <= s.to
  BY DEF InTurn, InTimeOrder, OrderInv, IsPoint
<1>3. \A p \in high_points : IsPoint(p) /\ p.x < s.tb /\ p.y <= s.tr
  BY DEF InTurn, InTimeOrder, OrderInv, IsPoint
<1>4. LowPoints(s) = low_points \cup {NewLow(s)}
  BY <1>1, <1>2 DEF LowPoints, Insert, IsPoint
<1>5. HighPoints(s) = high_points \cup {NewHigh(s)}
  BY <1>1, <1>3 DEF HighPoints, Insert, IsPoint
<1> QED
  BY <1>1, <1>2, <1>3, <1>4, <1>5

\* The points before a call's cleanup() are ordered as those after it.
LEMMA PointsOrdered ==
  ASSUME OrderInv, NEW s, InTurn(s)
  PROVE  /\ \A p \in LowPoints(s) : IsPoint(p) /\ p.x <= s.tb /\ p.y <= s.to
         /\ \A p \in HighPoints(s) : IsPoint(p) /\ p.x <= s.tb /\ p.y <= s.tr
         /\ \A p, q \in LowPoints(s) : p.x <= q.x => p.y <= q.y
         /\ \A p, q \in HighPoints(s) : p.x <= q.x => p.y <= q.y
         /\ \A p \in LowPoints(s), q \in HighPoints(s) : p.x <= q.x => p.y <= q.y
<1>1. s.to \in Int /\ s.tb \in Nat /\ s.tr \in Int /\ s.to <= s.tr
  BY DEF InTurn
<1>2. \A p \in LowPoints(s) : \/ p \in low_points /\ IsPoint(p) /\ p.x < s.tb /\ p.y <= s.to
                              \/ IsPoint(p) /\ p.x = s.tb /\ p.y = s.to
  BY LaterSample
<1>3. \A p \in HighPoints(s) : \/ p \in high_points /\ IsPoint(p) /\ p.x < s.tb /\ p.y <= s.tr
                               \/ IsPoint(p) /\ p.x = s.tb /\ p.y = s.tr
  BY LaterSample
<1>4. \A p, q \in LowPoints(s) : p.x <= q.x => p.y <= q.y
  BY <1>1, <1>2 DEF OrderInv, IsPoint
<1>5. \A p, q \in HighPoints(s) : p.x <= q.x => p.y <= q.y
  BY <1>1, <1>3 DEF OrderInv, IsPoint
<1>6. \A p \in LowPoints(s), q \in HighPoints(s) : p.x <= q.x => p.y <= q.y
  BY <1>1, <1>2, <1>3 DEF OrderInv, IsPoint
<1> QED
  BY <1>1, <1>2, <1>3, <1>4, <1>5, <1>6 DEF IsPoint

LEMMA NextOrder ==
  ASSUME OrderInv, NEW s, InTurn(s), Arrives(s),
         low_points' \subseteq LowPoints(s), high_points' \subseteq HighPoints(s)
  PROVE  OrderInv'
<1>1. calls' \in Nat /\ calls' # 0 /\ last' = s
  BY DEF Arrives, OrderInv
<1> QED
  BY <1>1, PointsOrdered DEF OrderInv, InTurn

\* The caches hold lines between stored points, the current ones among them.
StoredInv ==
  /\ OrderInv
  /\ low_constraints \cup high_constraints \subseteq low_points \X high_points
  /\ \/ low_constraint_pts = NoPair /\ high_constraint_pts = NoPair
     \/ low_constraint_pts \in low_constraints /\ high_constraint_pts \in high_constraints

LEMMA InitStored == BaseInit => StoredInv
BY InitOrder DEF BaseInit, StoredInv

\* The lines of a call join points that are stored before its cleanup().
LEMMA NewKeysStored ==
  ASSUME StoredInv, NEW s, InTurn(s)
  PROVE  /\ LowConstraints(s) \subseteq LowPoints(s) \X HighPoints(s)
         /\ HighConstraints(s) \subseteq LowPoints(s) \X HighPoints(s)
<1>1. /\ LowPoints(s) = low_points \cup {NewLow(s)}
      /\ HighPoints(s) = high_points \cup {NewHigh(s)}
  BY LaterSample DEF StoredInv
<1>2. NewPairs(s) \subseteq LowPoints(s) \X HighPoints(s)
  BY <1>1 DEF NewPairs
<1> QED
  BY <1>1, <1>2 DEF LowConstraints, HighConstraints, StoredInv

LEMMA StoreStored ==
  ASSUME StoredInv, NEW s, InTurn(s), Store(s)
  PROVE  StoredInv'
<1>1. Arrives(s)
  BY DEF Store
<1>2. OrderInv'
  BY <1>1, NextOrder DEF Store, StoredInv
<1>3. low_constraints \subseteq low_constraints' /\ high_constraints \subseteq high_constraints'
  BY DEF Store, LowConstraints, HighConstraints
<1> QED
  BY <1>1, <1>2, <1>3, NewKeysStored DEF Store, StoredInv

\* The current lines are cached when the selection loop is done.
LEMMA SelectStored ==
  ASSUME StoredInv, NEW s, Select(s)
  PROVE  \/ low_constraint_pts' = NoPair /\ high_constraint_pts' = NoPair
         \/ low_constraint_pts' \in LowConstraints(s) /\ high_constraint_pts' \in HighConstraints(s)
<1>1. CASE UNCHANGED <<low_constraint_pts, high_constraint_pts, diff_factor>>
  BY <1>1 DEF StoredInv, LowConstraints, HighConstraints
<1>2. CASE \E c \in Tightest(Improvements(s)) :
             /\ low_constraint_pts' = c[1]
             /\ high_constraint_pts' = c[2]
  BY <1>2 DEF Tightest, Improvements
<1> QED
  BY <1>1, <1>2 DEF Select

\* A call that recalculates and whose cleanup() runs to its end.
Completes(s) == /\ Recalculates(s)
                /\ low_points' \in Keeps(LowPoints(s), PinnedLow')
                /\ high_points' \in Keeps(HighPoints(s), PinnedHigh')
                /\ Prune(s, low_points', high_points')
                /\ Publish

\* A cleanup() that ends and keeps the pinned points keeps the current lines.
LEMMA CompletesStored ==
  ASSUME StoredInv, NEW s, InTurn(s), Completes(s)
  PROVE  StoredInv'
<1>1. Arrives(s) /\ Select(s)
  BY DEF Completes, Recalculates
<1>2. OrderInv'
  BY <1>1, NextOrder DEF Completes, Keeps, StoredInv
<1>3. low_constraints' \cup high_constraints' \subseteq low_points' \X high_points'
  BY DEF Completes, Prune
<1>4. ASSUME NEW c \in {low_constraint_pts', high_constraint_pts'},
             c \in LowPoints(s) \X HighPoints(s)
      PROVE  c \in low_points' \X high_points'
  <2>1. c[1] \in LowPoints(s) \cap PinnedLow' /\ c[2] \in HighPoints(s) \cap PinnedHigh'
    BY <1>4 DEF PinnedLow, PinnedHigh
  <2> QED
    BY <1>4, <2>1 DEF Completes, Keeps
<1>5. \/ low_constraint_pts' = NoPair /\ high_constraint_pts' = NoPair
      \/ low_constraint_pts' \in low_constraints' /\ high_constraint_pts' \in high_constraints'
  BY <1>1, <1>4, NewKeysStored, SelectStored DEF Completes, Prune
<1> QED
  BY <1>2, <1>3, <1>5 DEF StoredInv
---------------------------------------------------------------------------
(* Comparing lines *)

IsQuotient(q) == q.n \in Int /\ q.d \in Nat

\* Quotients are ordered transitively, also up to the infinite one.
LEMMA LessTrans ==
  ASSUME NEW p, NEW q, NEW r, IsQuotient(p), IsQuotient(q), IsQuotient(r),
         p.d > 0, q.d > 0, Less(p, q), Less(q, r)
  PROVE  Less(p, r)
<1> DEFINE pn == p.n
           pd == p.d
           qn == q.n
           qd == q.d
           rn == r.n
           rd == r.d
<1>1. /\ pn \in Int /\ qn \in Int /\ rn \in Int
      /\ pd \in Int /\ qd \in Int /\ rd \in Int /\ pd > 0 /\ qd > 0 /\ rd >= 0
      /\ pn * qd < qn * pd /\ qn * rd < rn * qd
  BY DEF IsQuotient, Less
<1> HIDE DEF pn, pd, qn, qd, rn, rd
<1>2. (pn * qd) * rd <= (qn * pd) * rd
  BY <1>1, Multiply
<1>3. (qn * rd) * pd < (rn * qd) * pd
  BY <1>1, MultiplyStrictly
<1>4. (pn * rd) * qd < (rn * pd) * qd
  BY <1>1, <1>2, <1>3
<1>5. pn * rd < rn * pd
  BY <1>1, <1>4, Cancel
<1> QED
  BY <1>5 DEF Less, pn, pd, rn, rd

(***************************************************************************)
(* For a lower bound of offsets and an upper bound of slopes a line is the *)
(* better the less steep it is and the higher it starts.                   *)
(***************************************************************************)
NoSteeper(u, w) == u.a * w.d <= w.a * u.d
Steeper(u, w) == w.a * u.d < u.a * w.d
NoLower(u, w) == w.b * u.d <= u.b * w.d
Lower(u, w) == u.b * w.d < w.b * u.d

\* A low line between, and a high line, that makes the other useless.
BeatsLow(u, w) == /\ NoSteeper(u, w) /\ NoLower(u, w)
                  /\ Steeper(w, u) \/ Lower(w, u)
BeatsHigh(u, w) == /\ NoSteeper(w, u) /\ NoLower(w, u)
                   /\ Steeper(u, w) \/ Lower(u, w)

\* The lines of a usable pair.
Spans(u, v) == /\ IsLine(u) /\ IsLine(v)
               /\ NoSteeper(v, u) /\ NoLower(v, u)

\* A product of two factors one of which got smaller.
LEMMA SmallerProduct ==
  ASSUME NEW p \in Int, NEW q \in Int, NEW p1 \in Int, NEW q1 \in Int,
         0 <= p1, p1 <= p, 0 <= q1, q1 <= q, p * q > 0, p1 < p \/ q1 < q
  PROVE  p1 * q1 < p * q
<1>1. p > 0 /\ q > 0
  <2>1. p >= 0 /\ q >= 0
    OBVIOUS
  <2> QED
    BY <2>1
<1>2. p1 * q1 <= p * q1
  BY Multiply
<1>3. q1 * p <= q * p
  BY <1>1, Multiply
<1>4. CASE q1 < q
  <2>1. q1 * p < q * p
    BY <1>1, <1>4, MultiplyStrictly
  <2> QED
    BY <1>2, <2>1
<1>5. CASE p1 < p /\ q1 = q
  <2>1. p1 * q < p * q
    BY <1>1, <1>5, MultiplyStrictly
  <2> QED
    BY <1>5, <2>1
<1> QED
  BY <1>4, <1>5

\* A better low line leaves a smaller gap, unless there is none to begin with.
LEMMA LowGapShrinks ==
  ASSUME NEW u, NEW w, NEW v, Spans(u, v), Spans(w, v), Gap(w, v).n > 0, BeatsLow(u, w)
  PROVE  Less(Gap(u, v), Gap(w, v))
<1> DEFINE ua == u.a
           ub == u.b
           ud == u.d
           wa == w.a
           wb == w.b
           wd == w.d
           va == v.a
           vb == v.b
           vd == v.d
           p  == wa * vd - va * wd
           q  == vb * wd - wb * vd
           p1 == ua * vd - va * ud
           q1 == vb * ud - ub * vd
<1>1. /\ ua \in Int /\ ub \in Int /\ ud \in Int /\ ud > 0
      /\ wa \in Int /\ wb \in Int /\ wd \in Int /\ wd > 0
      /\ va \in Int /\ vb \in Int /\ vd \in Int /\ vd > 0
  BY DEF Spans, IsLine
<1>2. /\ p \in Int /\ q \in Int /\ p1 \in Int /\ q1 \in Int
      /\ p >= 0 /\ q >= 0 /\ p1 >= 0 /\ q1 >= 0
  BY <1>1 DEF Spans, NoSteeper, NoLower
<1>3. /\ Gap(u, v).n = p1 * q1 /\ Gap(u, v).d = (ud * vd) * (ud * vd)
      /\ Gap(w, v).n = p * q /\ Gap(w, v).d = (wd * vd) * (wd * vd)
  BY DEF Gap
<1>4. /\ ua * wd <= wa * ud /\ wb * ud <= ub * wd
      /\ ua * wd < wa * ud \/ wb * ud < ub * wd
  BY DEF BeatsLow, NoSteeper, NoLower, Steeper, Lower
<1> HIDE DEF ua, ub, ud, wa, wb, wd, va, vb, vd
<1>5. p1 * wd <= p * ud /\ q1 * wd <= q * ud
  <2>1. (ua * wd) * vd <= (wa * ud) * vd /\ (wb * ud) * vd <= (ub * wd) * vd
    BY <1>1, <1>4, Multiply
  <2> QED
    BY <1>1, <2>1
<1>6. p1 * wd < p * ud \/ q1 * wd < q * ud
  <2>1. (ua * wd) * vd < (wa * ud) * vd \/ (wb * ud) * vd < (ub * wd) * vd
    BY <1>1, <1>4, MultiplyStrictly
  <2> QED
    BY <1>1, <2>1
<1>7. p * q > 0
  BY <1>3
<1> HIDE DEF p, q, p1, q1
<1>8. (p1 * wd) * (q1 * wd) < (p * ud) * (q * ud)
  <2>1. 0 <= p1 * wd /\ 0 <= q1 * wd
    BY <1>1, <1>2
  <2>2. (p * ud) * (q * ud) > 0
    <3>1. ud * ud > 0 /\ ud * ud \in Int /\ p * q \in Int
      BY <1>1, <1>2, Products
    <3>2. (p * q) * (ud * ud) > 0
      BY <1>7, <3>1, Products
    <3> QED
      BY <1>1, <1>2, <3>2
  <2>3. p1 * wd \in Int /\ q1 * wd \in Int /\ p * ud \in Int /\ q * ud \in Int
    BY <1>1, <1>2
  <2> QED
    BY <1>5, <1>6, <2>1, <2>2, <2>3, SmallerProduct
<1>9. vd * vd > 0 /\ vd * vd \in Int
  BY <1>1, Products
<1>10. ((p1 * wd) * (q1 * wd)) * (vd * vd) < ((p * ud) * (q * ud)) * (vd * vd)
  <2>1. (p1 * wd) * (q1 * wd) \in Int /\ (p * ud) * (q * ud) \in Int
    BY <1>1, <1>2
  <2> QED
    BY <1>8, <1>9, <2>1, MultiplyStrictly
<1>11. (p1 * q1) * ((wd * vd) * (wd * vd)) < (p * q) * ((ud * vd) * (ud * vd))
  BY <1>1, <1>2, <1>10
<1> QED
  BY <1>3, <1>11 DEF Less

\* The clocks seen upside down: what was a low line is a high one.
Down(u) == [a |-> -u.a, b |-> -u.b, d |-> u.d]

LEMMA Negated ==
  ASSUME NEW a \in Int, NEW b \in Int, NEW c \in Int, NEW d \in Int
  PROVE  /\ (-a) * b = -(a * b)
         /\ (-a) * b - (-c) * d = c * d - a * b
BY SMT

LEMMA DownCompares ==
  ASSUME NEW u, NEW w, IsLine(u), IsLine(w)
  PROVE  /\ IsLine(Down(u))
         /\ NoSteeper(Down(u), Down(w)) <=> NoSteeper(w, u)
         /\ NoLower(Down(u), Down(w)) <=> NoLower(w, u)
         /\ Steeper(Down(u), Down(w)) <=> Steeper(w, u)
         /\ Lower(Down(u), Down(w)) <=> Lower(w, u)
         /\ Gap(Down(w), Down(u)) = Gap(u, w)
<1>1. /\ u.a \in Int /\ u.b \in Int /\ u.d \in Int /\ u.d > 0
      /\ w.a \in Int /\ w.b \in Int /\ w.d \in Int /\ w.d > 0
  BY DEF IsLine
<1>2. /\ (-u.a) * w.d = -(u.a * w.d) /\ (-w.a) * u.d = -(w.a * u.d)
      /\ (-u.b) * w.d = -(u.b * w.d) /\ (-w.b) * u.d = -(w.b * u.d)
  BY <1>1, Negated
<1>3. /\ IsLine(Down(u))
      /\ NoSteeper(Down(u), Down(w)) <=> NoSteeper(w, u)
      /\ NoLower(Down(u), Down(w)) <=> NoLower(w, u)
      /\ Steeper(Down(u), Down(w)) <=> Steeper(w, u)
      /\ Lower(Down(u), Down(w)) <=> Lower(w, u)
  BY <1>1, <1>2 DEF Down, IsLine, NoSteeper, NoLower, Steeper, Lower
<1>4. Gap(Down(w), Down(u)) = Gap(u, w)
  <2>1. (-w.a) * u.d - (-u.a) * w.d = u.a * w.d - w.a * u.d
    BY <1>1, Negated
  <2>2. (-u.b) * w.d - (-w.b) * u.d = w.b * u.d - u.b * w.d
    BY <1>1, Negated
  <2>3. w.d * u.d = u.d * w.d
    BY <1>1
  <2> QED
    BY <2>1, <2>2, <2>3 DEF Gap, Down
<1> QED
  BY <1>3, <1>4

\* The same of a better high line, seen upside down.
LEMMA HighGapShrinks ==
  ASSUME NEW u, NEW w, NEW v, Spans(u, v), Spans(u, w), Gap(u, w).n > 0, BeatsHigh(v, w)
  PROVE  Less(Gap(u, v), Gap(u, w))
<1>1. IsLine(u) /\ IsLine(v) /\ IsLine(w)
  BY DEF Spans
<1>2. /\ Spans(Down(v), Down(u)) /\ Spans(Down(w), Down(u))
      /\ BeatsLow(Down(v), Down(w))
  BY <1>1, DownCompares DEF Spans, BeatsLow, BeatsHigh
<1>3. Gap(Down(v), Down(u)) = Gap(u, v) /\ Gap(Down(w), Down(u)) = Gap(u, w)
  BY <1>1, DownCompares
<1> QED
  BY <1>2, <1>3, LowGapShrinks

(***************************************************************************)
(* Two low lines one of which is steeper and starts higher: the line from  *)
(* its lower point to the upper point of the other is better than both.    *)
(***************************************************************************)
LEMMA LowCrossing ==
  ASSUME NEW m \in Int, NEW k \in Int, NEW c, NEW e, LowKey(c, m, k), LowKey(e, m, k),
         Steeper(LineOf(e), LineOf(c)), Lower(LineOf(c), LineOf(e))
  PROVE  /\ e[1].x < c[2].x
         /\ BeatsLow(LineOf(<<e[1], c[2]>>), LineOf(e))
         /\ BeatsLow(LineOf(<<e[1], c[2]>>), LineOf(c))
<1> DEFINE x1 == c[1].x
           y1 == c[1].y
           x2 == c[2].x
           y2 == c[2].y
           p1 == e[1].x
           q1 == e[1].y
           D == LineOf(c).d
           A == LineOf(c).a
           B == LineOf(c).b
           E == LineOf(e).d
           F == LineOf(e).a
           G == LineOf(e).b
           d == x2 - p1
           a == y2 - q1
           b == q1 * d - a * p1
<1>1. /\ x1 \in Int /\ y1 \in Int /\ x2 \in Int /\ y2 \in Int /\ p1 \in Int /\ q1 \in Int
      /\ x1 >= 0 /\ p1 >= 0 /\ x1 < x2
      /\ q1 <= m * p1 + k /\ m * x2 + k <= y2
  BY DEF LowKey, Below, Above, IsPoint
<1>2. /\ A \in Int /\ B \in Int /\ D \in Int /\ D > 0 /\ m * D <= A
      /\ E \in Int /\ F \in Int /\ G \in Int /\ E > 0
  BY LowLine DEF IsLine
<1>3. B = y2 * D - A * x2 /\ D = x2 - x1
  <2>1. D = x2 - x1 /\ A = y2 - y1 /\ B = y1 * D - A * x1
    BY <1>1 DEF LineOf, Line, LowKey
  <2> HIDE DEF A, B, D, x1, x2, y1, y2
  <2>2. y1 * (x1 - x2) - (y1 - y2) * x1 = y2 * (x1 - x2) - (y1 - y2) * x2
    BY <1>1, OtherEnd
  <2> QED
    BY <1>1, <1>2, <2>1, <2>2
<1>4. G = q1 * E - F * p1
  BY <1>1 DEF LineOf, Line, LowKey
<1>5. A * E < F * D /\ B * E < G * D
  BY DEF Steeper, Lower
<1> HIDE DEF x1, y1, x2, y2, p1, q1, A, B, D, E, F, G
<1>6. B + A * p1 < D * q1
  <2>1. (A * E) * p1 <= (F * D) * p1
    BY <1>1, <1>2, <1>5, Multiply
  <2>2. (B + A * p1) * E < (D * q1) * E
    BY <1>1, <1>2, <1>4, <1>5, <2>1
  <2> QED
    BY <1>1, <1>2, <2>2, Cancel
<1>7. p1 < x2
  <2> SUFFICES ASSUME p1 >= x2 PROVE FALSE
    BY <1>1
  <2>1. (m * D) * (p1 - x2) <= A * (p1 - x2)
    BY <1>1, <1>2, Multiply
  <2>2. (m * x2 + k) * D <= y2 * D
    BY <1>1, <1>2, Multiply
  <2>3. q1 * D <= (m * p1 + k) * D
    BY <1>1, <1>2, Multiply
  <2> QED
    BY <1>1, <1>2, <1>3, <1>6, <2>1, <2>2, <2>3
<1>8. a \in Int /\ d \in Int /\ d > 0 /\ b \in Int
  BY <1>1, <1>7
<1>9. a * D < A * d
  BY <1>1, <1>2, <1>3, <1>6
<1> HIDE DEF d, a
<1>10. a * E < F * d
  <2>1. (a * D) * E < (A * d) * E
    BY <1>2, <1>8, <1>9, MultiplyStrictly
  <2>2. (A * E) * d < (F * D) * d
    BY <1>2, <1>5, <1>8, MultiplyStrictly
  <2>3. (a * E) * D < (F * d) * D
    BY <1>2, <1>8, <2>1, <2>2
  <2> QED
    BY <1>2, <1>8, <2>3, Cancel
<1>11. G * d <= b * E
  <2>1. (a * E) * p1 <= (F * d) * p1
    BY <1>1, <1>2, <1>8, <1>10, Multiply
  <2> QED
    BY <1>1, <1>2, <1>4, <1>8, <2>1
<1>12. LineOf(<<e[1], c[2]>>) = [a |-> a, b |-> b, d |-> d]
  BY <1>1, <1>7 DEF LineOf, Line, a, d, p1, q1, x2, y2
<1> HIDE DEF b
<1>13. NoSteeper([a |-> a, b |-> b, d |-> d], LineOf(e))
  BY <1>2, <1>8, <1>10 DEF NoSteeper, E, F, G
<1>14. Steeper(LineOf(e), [a |-> a, b |-> b, d |-> d])
  BY <1>2, <1>8, <1>10 DEF Steeper, E, F, G
<1>15. NoLower([a |-> a, b |-> b, d |-> d], LineOf(e))
  BY <1>2, <1>8, <1>11 DEF NoLower, E, F, G
<1>16. B * d <= b * D
  <2>1. (B * E) * d < (G * D) * d
    BY <1>2, <1>5, <1>8, MultiplyStrictly
  <2>2. (G * d) * D <= (b * E) * D
    BY <1>2, <1>8, <1>11, Multiply
  <2>3. (B * d) * E < (b * D) * E
    BY <1>2, <1>8, <2>1, <2>2
  <2>4. B * d < b * D
    BY <1>2, <1>8, <2>3, Cancel
  <2> QED
    BY <1>2, <1>8, <2>4
<1>17. /\ NoSteeper([a |-> a, b |-> b, d |-> d], LineOf(c))
       /\ Steeper(LineOf(c), [a |-> a, b |-> b, d |-> d])
       /\ NoLower([a |-> a, b |-> b, d |-> d], LineOf(c))
  BY <1>2, <1>8, <1>9, <1>16 DEF NoSteeper, Steeper, NoLower, A, B, D
<1> QED
  BY <1>7, <1>12, <1>13, <1>14, <1>15, <1>17 DEF BeatsLow, p1, x2

\* A pair of points seen upside down.
Flip(c) == <<Point(c[2].id, c[2].x, -c[2].y), Point(c[1].id, c[1].x, -c[1].y)>>

LEMMA FlippedKey ==
  ASSUME NEW m \in Int, NEW k \in Int, NEW c, HighKey(c, m, k)
  PROVE  LowKey(Flip(c), -m, -k) /\ LineOf(Flip(c)) = Down(LineOf(c))
<1> DEFINE x1 == c[1].x
           y1 == c[1].y
           x2 == c[2].x
           y2 == c[2].y
<1>1. /\ x1 \in Nat /\ y1 \in Int /\ x2 \in Nat /\ y2 \in Int /\ x2 < x1
      /\ y1 <= m * x1 + k /\ m * x2 + k <= y2
      /\ c[1].id \in Nat /\ c[2].id \in Nat
  BY DEF HighKey, Below, Above, IsPoint
<1>2. LineOf(c) = [a |-> y1 - y2, b |-> y1 * (x1 - x2) - (y1 - y2) * x1, d |-> x1 - x2]
  BY <1>1 DEF LineOf, Line
<1>3. LineOf(Flip(c)) =
        [a |-> (-y1) - (-y2), b |-> (-y2) * (x1 - x2) - ((-y1) - (-y2)) * x2, d |-> x1 - x2]
  BY <1>1 DEF LineOf, Line, Flip, Point
<1>4. (-m) * x1 = -(m * x1) /\ (-m) * x2 = -(m * x2)
  BY <1>1, Negated
<1>5. LowKey(Flip(c), -m, -k)
  BY <1>1, <1>4 DEF LowKey, Below, Above, IsPoint, Flip, Point
<1> HIDE DEF x1, y1, x2, y2
<1>6. (-y1) - (-y2) = -(y1 - y2)
  BY <1>1
<1>7. (-y2) * (x1 - x2) - ((-y1) - (-y2)) * x2 = -(y1 * (x1 - x2) - (y1 - y2) * x1)
  <2>1. x1 \in Int /\ x2 \in Int /\ y1 \in Int /\ y2 \in Int
    BY <1>1
  <2>2. y1 * (x1 - x2) - (y1 - y2) * x1 = y2 * (x1 - x2) - (y1 - y2) * x2
    BY <2>1, OtherEnd
  <2>3. (-y2) * (x1 - x2) - (-(y1 - y2)) * x2 = (y1 - y2) * x2 - y2 * (x1 - x2)
    BY <2>1, Negated
  <2> QED
    BY <1>6, <2>1, <2>2, <2>3
<1> QED
  BY <1>2, <1>3, <1>5, <1>6, <1>7 DEF Down

\* Of two high lines that cross, the steeper one starts higher.
LEMMA HighCrossing ==
  ASSUME NEW m \in Int, NEW k \in Int, NEW c, NEW e, HighKey(c, m, k), HighKey(e, m, k),
         Steeper(LineOf(c), LineOf(e)), Lower(LineOf(e), LineOf(c))
  PROVE  /\ e[2].x < c[1].x
         /\ BeatsHigh(LineOf(<<c[1], e[2]>>), LineOf(e))
         /\ BeatsHigh(LineOf(<<c[1], e[2]>>), LineOf(c))
<1> DEFINE w == <<c[1], e[2]>>
<1>1. /\ LowKey(Flip(c), -m, -k) /\ LineOf(Flip(c)) = Down(LineOf(c))
      /\ LowKey(Flip(e), -m, -k) /\ LineOf(Flip(e)) = Down(LineOf(e))
  BY FlippedKey
<1>2. IsLine(LineOf(c)) /\ IsLine(LineOf(e))
  BY HighLine
<1>3. /\ Steeper(LineOf(Flip(e)), LineOf(Flip(c)))
      /\ Lower(LineOf(Flip(c)), LineOf(Flip(e)))
  BY <1>1, <1>2, DownCompares
<1>4. <<Flip(e)[1], Flip(c)[2]>> = Flip(w)
  BY DEF Flip
<1>5. -m \in Int /\ -k \in Int
  OBVIOUS
<1>6. /\ Flip(e)[1].x < Flip(c)[2].x
      /\ BeatsLow(LineOf(Flip(w)), LineOf(Flip(e)))
      /\ BeatsLow(LineOf(Flip(w)), LineOf(Flip(c)))
  BY <1>1, <1>3, <1>4, <1>5, LowCrossing
<1>7. e[2].x < c[1].x
  BY <1>6 DEF Flip, Point
<1>8. HighKey(w, m, k)
  BY <1>7 DEF HighKey, Above, Below, IsPoint
<1>9. IsLine(LineOf(w)) /\ LineOf(Flip(w)) = Down(LineOf(w))
  BY <1>8, HighLine, FlippedKey
<1>10. BeatsHigh(LineOf(w), LineOf(e)) /\ BeatsHigh(LineOf(w), LineOf(c))
  BY <1>1, <1>2, <1>6, <1>9, DownCompares DEF BeatsLow, BeatsHigh
<1> QED
  BY <1>7, <1>10

---------------------------------------------------------------------------
(* The tightest pair *)

LEMMA KeysSpan ==
  ASSUME NEW m \in Int, NEW k \in Int,
         NEW low, NEW high, LowKey(low, m, k), HighKey(high, m, k)
  PROVE  Spans(LineOf(low), LineOf(high))
<1> DEFINE u == LineOf(low)
           v == LineOf(high)
<1>1. IsLine(u) /\ m * u.d <= u.a /\ u.b <= k * u.d
  BY LowLine
<1>2. IsLine(v) /\ v.a <= m * v.d /\ k * v.d <= v.b
  BY HighLine
<1> HIDE DEF u, v
<1>3. (m * u.d) * v.d <= u.a * v.d /\ u.b * v.d <= (k * u.d) * v.d
  BY <1>1, <1>2, Multiply DEF IsLine
<1>4. v.a * u.d <= (m * v.d) * u.d /\ (k * v.d) * u.d <= v.b * u.d
  BY <1>1, <1>2, Multiply DEF IsLine
<1>5. v.a * u.d <= u.a * v.d /\ u.b * v.d <= v.b * u.d
  BY <1>1, <1>2, <1>3, <1>4 DEF IsLine
<1>6. Spans(u, v)
  BY <1>1, <1>2, <1>5 DEF Spans, NoSteeper, NoLower
<1> QED
  BY <1>6 DEF u, v

\* Of two lines either is the better one, or they cross.
LEMMA Compared ==
  ASSUME NEW u, NEW w, IsLine(u), IsLine(w)
  PROVE  /\ NoSteeper(u, w) \/ Steeper(u, w)
         /\ NoLower(u, w) \/ Lower(u, w)
         /\ Steeper(u, w) => NoSteeper(w, u)
         /\ Lower(u, w) => NoLower(w, u)
<1>1. /\ u.a \in Int /\ u.b \in Int /\ u.d \in Int
      /\ w.a \in Int /\ w.b \in Int /\ w.d \in Int
  BY DEF IsLine
<1>2. /\ u.a * w.d \in Int /\ w.a * u.d \in Int
      /\ u.b * w.d \in Int /\ w.b * u.d \in Int
  BY <1>1
<1> QED
  BY <1>2 DEF NoSteeper, Steeper, NoLower, Lower

\* A pair of the maps that a call walks, than which none is tighter.
TightOf(s, c) ==
  /\ c[1] \in LowConstraints(s) /\ c[2] \in HighConstraints(s)
  /\ \A low \in LowConstraints(s), high \in HighConstraints(s) :
       ~Less(Difference(low, high), Difference(c[1], c[2]))

\* Such is the pair the selection loop takes.
LEMMA ChosenTight ==
  ASSUME NEW m \in Int, NEW k \in Int, BaseInv(m, k), NEW s, Brackets(s, m, k),
         NEW c \in Tightest(Improvements(s))
  PROVE  TightOf(s, c)
<1>1. /\ \A b \in LowConstraints(s) : LowKey(b, m, k)
      /\ \A b \in HighConstraints(s) : HighKey(b, m, k)
  BY NewKeys DEF BaseInv, ControlInv
<1>2. /\ c[1] \in LowConstraints(s) /\ c[2] \in HighConstraints(s)
      /\ Less(Difference(c[1], c[2]), diff_factor)
  BY DEF Tightest, Improvements
<1>3. ASSUME NEW low \in LowConstraints(s), NEW high \in HighConstraints(s)
      PROVE  ~Less(Difference(low, high), Difference(c[1], c[2]))
  <2> SUFFICES ASSUME Less(Difference(low, high), Difference(c[1], c[2])) PROVE FALSE
    OBVIOUS
  <2>1. /\ IsQuotient(Difference(low, high)) /\ Difference(low, high).d > 0
        /\ IsQuotient(Difference(c[1], c[2])) /\ Difference(c[1], c[2]).d > 0
        /\ IsQuotient(diff_factor)
    BY <1>1, <1>2, DifferenceTyped DEF IsQuotient, BaseInv, DifferenceInv
  <2>2. Less(Difference(low, high), diff_factor)
    BY <1>2, <2>1, LessTrans
  <2>3. <<low, high>> \in Improvements(s)
    BY <2>2 DEF Improvements
  <2> QED
    BY <2>3 DEF Tightest
<1> QED
  BY <1>2, <1>3 DEF TightOf

\* No line of a call beats one of a tightest pair.
LEMMA Unbeaten ==
  ASSUME NEW m \in Int, NEW k \in Int, BaseInv(m, k), NEW s, Brackets(s, m, k),
         NEW c, TightOf(s, c), Difference(c[1], c[2]).n > 0
  PROVE  /\ \A b \in LowConstraints(s) : ~BeatsLow(LineOf(b), LineOf(c[1]))
         /\ \A b \in HighConstraints(s) : ~BeatsHigh(LineOf(b), LineOf(c[2]))
<1>1. /\ \A b \in LowConstraints(s) : LowKey(b, m, k)
      /\ \A b \in HighConstraints(s) : HighKey(b, m, k)
  BY NewKeys DEF BaseInv, ControlInv
<1>2. c[1] \in LowConstraints(s) /\ c[2] \in HighConstraints(s)
  BY DEF TightOf
<1>3. ASSUME NEW low \in LowConstraints(s), NEW high \in HighConstraints(s)
      PROVE  ~Less(Difference(low, high), Difference(c[1], c[2]))
  BY DEF TightOf
<1>4. ASSUME NEW b \in LowConstraints(s), BeatsLow(LineOf(b), LineOf(c[1])) PROVE FALSE
  <2>1. Spans(LineOf(b), LineOf(c[2])) /\ Spans(LineOf(c[1]), LineOf(c[2]))
    BY <1>1, <1>2, KeysSpan
  <2>2. Less(Difference(b, c[2]), Difference(c[1], c[2]))
    BY <1>4, <2>1, LowGapShrinks DEF Difference
  <2> QED
    BY <1>2, <1>3, <2>2
<1>5. ASSUME NEW b \in HighConstraints(s), BeatsHigh(LineOf(b), LineOf(c[2])) PROVE FALSE
  <2>1. Spans(LineOf(c[1]), LineOf(b)) /\ Spans(LineOf(c[1]), LineOf(c[2]))
    BY <1>1, <1>2, KeysSpan
  <2>2. Less(Difference(c[1], b), Difference(c[1], c[2]))
    BY <1>5, <2>1, HighGapShrinks DEF Difference
  <2> QED
    BY <1>2, <1>3, <2>2
<1> QED
  BY <1>4, <1>5

(***************************************************************************)
(* The pair with the least product of both errors is then also the one     *)
(* with the least error in either: its low line is the least steep and     *)
(* starts highest of all, its high line is the steepest and starts lowest. *)
(***************************************************************************)
LEMMA BestOfAll ==
  ASSUME NEW m \in Int, NEW k \in Int, BaseInv(m, k), StoredInv, CacheComplete,
         NEW s, Brackets(s, m, k), InTurn(s),
         NEW c, TightOf(s, c), Difference(c[1], c[2]).n > 0
  PROVE  /\ \A b \in LowConstraints(s) :
              NoSteeper(LineOf(c[1]), LineOf(b)) /\ NoLower(LineOf(c[1]), LineOf(b))
         /\ \A b \in HighConstraints(s) :
              NoSteeper(LineOf(b), LineOf(c[2])) /\ NoLower(LineOf(b), LineOf(c[2]))
<1>1. /\ \A b \in LowConstraints(s) : LowKey(b, m, k)
      /\ \A b \in HighConstraints(s) : HighKey(b, m, k)
  BY NewKeys DEF BaseInv, ControlInv
<1>2. c[1] \in LowConstraints(s) /\ c[2] \in HighConstraints(s)
  BY DEF TightOf
<1>3. ASSUME NEW b \in LowConstraints(s)
      PROVE  NoSteeper(LineOf(c[1]), LineOf(b)) /\ NoLower(LineOf(c[1]), LineOf(b))
  <2>1. LowKey(b, m, k) /\ LowKey(c[1], m, k)
    BY <1>1, <1>2
  <2>2. IsLine(LineOf(b)) /\ IsLine(LineOf(c[1]))
    BY <2>1, LowLine
  <2>3. /\ b[1] \in LowPoints(s) /\ b[2] \in HighPoints(s)
        /\ c[1][1] \in LowPoints(s) /\ c[1][2] \in HighPoints(s)
    BY <1>2, NewKeysStored
  <2>4. ~(Steeper(LineOf(c[1]), LineOf(b)) /\ Lower(LineOf(b), LineOf(c[1])))
    <3> SUFFICES ASSUME Steeper(LineOf(c[1]), LineOf(b)), Lower(LineOf(b), LineOf(c[1]))
                 PROVE  FALSE
      OBVIOUS
    <3>1. /\ c[1][1].x < b[2].x
          /\ BeatsLow(LineOf(<<c[1][1], b[2]>>), LineOf(c[1]))
      BY <2>1, LowCrossing
    <3>2. <<c[1][1], b[2]>> \in LowConstraints(s)
      BY <2>3, <3>1, NewLinesCached
    <3> QED
      BY <3>1, <3>2, Unbeaten
  <2>5. ~(Steeper(LineOf(b), LineOf(c[1])) /\ Lower(LineOf(c[1]), LineOf(b)))
    <3> SUFFICES ASSUME Steeper(LineOf(b), LineOf(c[1])), Lower(LineOf(c[1]), LineOf(b))
                 PROVE  FALSE
      OBVIOUS
    <3>1. /\ b[1].x < c[1][2].x
          /\ BeatsLow(LineOf(<<b[1], c[1][2]>>), LineOf(c[1]))
      BY <2>1, LowCrossing
    <3>2. <<b[1], c[1][2]>> \in LowConstraints(s)
      BY <2>3, <3>1, NewLinesCached
    <3> QED
      BY <3>1, <3>2, Unbeaten
  <2>6. ~BeatsLow(LineOf(b), LineOf(c[1]))
    BY Unbeaten
  <2> QED
    BY <2>2, <2>4, <2>5, <2>6, Compared DEF BeatsLow
<1>4. ASSUME NEW b \in HighConstraints(s)
      PROVE  NoSteeper(LineOf(b), LineOf(c[2])) /\ NoLower(LineOf(b), LineOf(c[2]))
  <2>1. HighKey(b, m, k) /\ HighKey(c[2], m, k)
    BY <1>1, <1>2
  <2>2. IsLine(LineOf(b)) /\ IsLine(LineOf(c[2]))
    BY <2>1, HighLine
  <2>3. /\ b[1] \in LowPoints(s) /\ b[2] \in HighPoints(s)
        /\ c[2][1] \in LowPoints(s) /\ c[2][2] \in HighPoints(s)
    BY <1>2, NewKeysStored
  <2>4. ~(Steeper(LineOf(b), LineOf(c[2])) /\ Lower(LineOf(c[2]), LineOf(b)))
    <3> SUFFICES ASSUME Steeper(LineOf(b), LineOf(c[2])), Lower(LineOf(c[2]), LineOf(b))
                 PROVE  FALSE
      OBVIOUS
    <3>1. /\ c[2][2].x < b[1].x
          /\ BeatsHigh(LineOf(<<b[1], c[2][2]>>), LineOf(c[2]))
      BY <2>1, HighCrossing
    <3>2. <<b[1], c[2][2]>> \in HighConstraints(s)
      BY <2>3, <3>1, NewLinesCached
    <3> QED
      BY <3>1, <3>2, Unbeaten
  <2>5. ~(Steeper(LineOf(c[2]), LineOf(b)) /\ Lower(LineOf(b), LineOf(c[2])))
    <3> SUFFICES ASSUME Steeper(LineOf(c[2]), LineOf(b)), Lower(LineOf(b), LineOf(c[2]))
                 PROVE  FALSE
      OBVIOUS
    <3>1. /\ b[2].x < c[2][1].x
          /\ BeatsHigh(LineOf(<<c[2][1], b[2]>>), LineOf(c[2]))
      BY <2>1, HighCrossing
    <3>2. <<c[2][1], b[2]>> \in HighConstraints(s)
      BY <2>3, <3>1, NewLinesCached
    <3> QED
      BY <3>1, <3>2, Unbeaten
  <2>6. ~BeatsHigh(LineOf(b), LineOf(c[2]))
    BY Unbeaten
  <2> QED
    BY <2>2, <2>4, <2>5, <2>6, Compared DEF BeatsHigh
<1> QED
  BY <1>3, <1>4
---------------------------------------------------------------------------
(* What holds of the current pair, with samples in time order *)

\* Before there is one the first sample is all there is.
FirstInv ==
  low_constraint_pts = NoPair =>
    /\ diff_factor = Infinity /\ estimate = NoEstimate
    /\ \/ calls = 0 /\ processed_timestamps = 0
       \/ /\ calls = 1 /\ processed_timestamps = 1
          /\ low_points = {Point(1, last.tb, last.to)}
          /\ high_points = {Point(1, last.tb, last.tr)}

\* The estimate is that of the current pair, and so is the difference to beat.
CurrentEstimate ==
  low_constraint_pts # NoPair =>
    /\ estimate = Estimate(low_constraint_pts, high_constraint_pts)
    /\ diff_factor = Difference(low_constraint_pts, high_constraint_pts)

\* A high line that falls starts from the earliest of the stored points.
SteepInv ==
  low_constraint_pts # NoPair /\ diff_factor.n > 0 /\ LineOf(high_constraint_pts).a < 0 =>
    \A p \in low_points \cup high_points : high_constraint_pts[2].x <= p.x

\* The drift in between is not negative, but for exact offsets from time 0.
DriftInv ==
  low_constraint_pts # NoPair /\ (diff_factor.n > 0 \/ high_constraint_pts[2].x > 0) =>
    Estimate(low_constraint_pts, high_constraint_pts).drift >= 0

TurnInv(m, k) == /\ BaseInv(m, k) /\ StoredInv /\ CacheComplete
                 /\ FirstInv /\ CurrentEstimate /\ SteepInv /\ DriftInv

LEMMA InitTurn ==
  ASSUME NEW m \in Int, NEW k \in Int, BaseInit
  PROVE  TurnInv(m, k)
BY InitInv, InitStored DEF BaseInit, TurnInv, CacheComplete, FirstInv, CurrentEstimate, SteepInv, DriftInv

LEMMA NotNoPair ==
  ASSUME NEW m \in Int, NEW k \in Int, NEW c, LowKey(c, m, k)
  PROVE  c # NoPair
BY DEF LowKey, NoPair, Below, Above, IsPoint

\* From the second sample on there is a pair.
LEMMA PairChosen ==
  ASSUME NEW m \in Int, NEW k \in Int, TurnInv(m, k),
         NEW s, Brackets(s, m, k), InTurn(s), Recalculates(s)
  PROVE  low_constraint_pts' # NoPair
<1>1. BaseInv(m, k) /\ StoredInv /\ CacheComplete /\ FirstInv /\ OrderInv
  BY DEF TurnInv, StoredInv
<1>2. Arrives(s) /\ Select(s)
  BY DEF Recalculates
<1>3. /\ \A b \in LowConstraints(s) : LowKey(b, m, k)
      /\ \A b \in HighConstraints(s) : HighKey(b, m, k)
  BY <1>1, NewKeys DEF BaseInv, ControlInv
<1>4. CASE low_constraint_pts = NoPair /\ Improvements(s) = {}
  <2>1. /\ diff_factor = Infinity
        /\ low_points = {Point(1, last.tb, last.to)}
        /\ high_points = {Point(1, last.tb, last.tr)}
    BY <1>1, <1>4, ParametersAssumption DEF FirstInv, Recalculates, Arrives, Increment
  <2> DEFINE l == Point(1, last.tb, last.to)
             h == Point(1, last.tb, last.tr)
  <2>2. /\ l \in low_points /\ h \in high_points
        /\ NewLow(s) \in LowPoints(s) /\ NewHigh(s) \in HighPoints(s)
        /\ l \in LowPoints(s) /\ h \in HighPoints(s)
        /\ l.x < NewHigh(s).x /\ NewLow(s).x > h.x
    BY <1>1, <2>1, LaterSample
  <2>3. /\ <<l, NewHigh(s)>> \in LowConstraints(s)
        /\ <<NewLow(s), h>> \in HighConstraints(s)
    BY <1>1, <2>2, NewLinesCached
  <2>4. Less(Difference(<<l, NewHigh(s)>>, <<NewLow(s), h>>), Infinity)
    BY <1>3, <2>3, DifferenceTyped DEF Less, Infinity
  <2>5. <<<<l, NewHigh(s)>>, <<NewLow(s), h>>>> \in Improvements(s)
    BY <2>1, <2>3, <2>4 DEF Improvements
  <2> QED
    BY <1>4, <2>5
<1>5. CASE low_constraint_pts # NoPair /\ Improvements(s) = {}
  BY <1>2, <1>5 DEF Select, Tightest
<1>6. CASE Improvements(s) # {}
  <2>1. PICK c \in Tightest(Improvements(s)) : low_constraint_pts' = c[1]
    BY <1>2, <1>6 DEF Select
  <2>2. LowKey(low_constraint_pts', m, k)
    BY <1>3, <2>1 DEF Tightest, Improvements
  <2> QED
    BY <2>2, NotNoPair
<1> QED
  BY <1>4, <1>5, <1>6

---------------------------------------------------------------------------
(* The errors *)

\* A pair each line of which is at least as good has no larger error.
LEMMA BetterNoWorse ==
  ASSUME NEW u, NEW v, NEW w, NEW z, IsLine(u), IsLine(v), IsLine(w), IsLine(z),
         NoSteeper(w, u), NoLower(w, u), NoSteeper(v, z), NoLower(v, z)
  PROVE  NoWorse(Midpoint(u, v), Midpoint(w, z))
<1> DEFINE ua == u.a
           ub == u.b
           ud == u.d
           va == v.a
           vb == v.b
           vd == v.d
           wa == w.a
           wb == w.b
           wd == w.d
           za == z.a
           zb == z.b
           zd == z.d
<1>1. /\ ua \in Int /\ ub \in Int /\ ud \in Int /\ ud > 0
      /\ va \in Int /\ vb \in Int /\ vd \in Int /\ vd > 0
      /\ wa \in Int /\ wb \in Int /\ wd \in Int /\ wd > 0
      /\ za \in Int /\ zb \in Int /\ zd \in Int /\ zd > 0
  BY DEF IsLine
<1>2. /\ wa * ud <= ua * wd /\ ub * wd <= wb * ud
      /\ va * zd <= za * vd /\ zb * vd <= vb * zd
  BY DEF NoSteeper, NoLower
<1>3. /\ Midpoint(u, v).driftError = ua * vd - va * ud
      /\ Midpoint(u, v).offsetError = vb * ud - ub * vd
      /\ Midpoint(u, v).den = 2 * (ud * vd)
      /\ Midpoint(w, z).driftError = wa * zd - za * wd
      /\ Midpoint(w, z).offsetError = zb * wd - wb * zd
      /\ Midpoint(w, z).den = 2 * (wd * zd)
  BY DEF Midpoint
<1> HIDE DEF ua, ub, ud, va, vb, vd, wa, wb, wd, za, zb, zd
<1>4. /\ zd * vd \in Int /\ zd * vd > 0 /\ ud * wd \in Int /\ ud * wd > 0
  BY <1>1, Products
<1>5. /\ (wa * ud) * (zd * vd) <= (ua * wd) * (zd * vd)
      /\ (va * zd) * (ud * wd) <= (za * vd) * (ud * wd)
      /\ (ub * wd) * (zd * vd) <= (wb * ud) * (zd * vd)
      /\ (zb * vd) * (ud * wd) <= (vb * zd) * (ud * wd)
  <2>1. /\ wa * ud \in Int /\ ua * wd \in Int /\ va * zd \in Int /\ za * vd \in Int
        /\ ub * wd \in Int /\ wb * ud \in Int /\ zb * vd \in Int /\ vb * zd \in Int
    BY <1>1
  <2> QED
    BY <1>2, <1>4, <2>1, Multiply
<1>6. (wa * zd - za * wd) * (2 * (ud * vd)) <= (ua * vd - va * ud) * (2 * (wd * zd))
  BY <1>1, <1>5
<1>7. (zb * wd - wb * zd) * (2 * (ud * vd)) <= (vb * ud - ub * vd) * (2 * (wd * zd))
  BY <1>1, <1>5
<1> QED
  BY <1>3, <1>6, <1>7 DEF NoWorse

LEMMA SameNoWorse ==
  ASSUME NEW e, IsEstimate(e)
  PROVE  NoWorse(e, e)
BY DEF IsEstimate, NoWorse

\* The pair a call leaves as the current one is a tightest of all its maps hold.
LEMMA CurrentTight ==
  ASSUME NEW m \in Int, NEW k \in Int, TurnInv(m, k),
         NEW s, Brackets(s, m, k), InTurn(s), Recalculates(s)
  PROVE  /\ TightOf(s, <<low_constraint_pts', high_constraint_pts'>>)
         /\ diff_factor' = Difference(low_constraint_pts', high_constraint_pts')
<1>1. BaseInv(m, k) /\ StoredInv /\ CurrentEstimate /\ Select(s)
  BY DEF TurnInv, Recalculates
<1>2. low_constraint_pts' # NoPair
  BY PairChosen
<1>3. CASE /\ Improvements(s) = {}
           /\ UNCHANGED <<low_constraint_pts, high_constraint_pts, diff_factor>>
  <2>1. /\ low_constraint_pts \in LowConstraints(s) /\ high_constraint_pts \in HighConstraints(s)
        /\ diff_factor = Difference(low_constraint_pts, high_constraint_pts)
    BY <1>1, <1>2, <1>3 DEF CurrentEstimate, StoredInv, LowConstraints, HighConstraints
  <2>2. ASSUME NEW low \in LowConstraints(s), NEW high \in HighConstraints(s)
        PROVE  ~Less(Difference(low, high), diff_factor)
    <3>1. <<low, high>> \notin Improvements(s)
      BY <1>3
    <3> QED
      BY <3>1 DEF Improvements
  <2> QED
    BY <1>3, <2>1, <2>2 DEF TightOf
<1>4. CASE \E c \in Tightest(Improvements(s)) :
             /\ low_constraint_pts' = c[1]
             /\ high_constraint_pts' = c[2]
             /\ diff_factor' = Difference(c[1], c[2])
  BY <1>1, <1>4, ChosenTight DEF TightOf
<1> QED
  BY <1>1, <1>3, <1>4 DEF Select

\* A call replaces the current pair only by one that is better in both.
LEMMA CompletesNoWorse ==
  ASSUME NEW m \in Int, NEW k \in Int, TurnInv(m, k),
         NEW s, Brackets(s, m, k), InTurn(s), Completes(s),
         estimate # NoEstimate, diff_factor'.n > 0
  PROVE  NoWorse(estimate, estimate')
<1> DEFINE low == low_constraint_pts'
           high == high_constraint_pts'
<1>1. /\ BaseInv(m, k) /\ StoredInv /\ CacheComplete /\ FirstInv /\ CurrentEstimate
      /\ Recalculates(s) /\ Publish
  BY DEF TurnInv, Completes
<1>2. /\ low_constraint_pts # NoPair
      /\ estimate = Estimate(low_constraint_pts, high_constraint_pts)
      /\ low_constraint_pts \in LowConstraints(s)
      /\ high_constraint_pts \in HighConstraints(s)
  BY <1>1 DEF FirstInv, CurrentEstimate, StoredInv, LowConstraints, HighConstraints
<1>3. estimate' = Estimate(low, high)
  BY <1>1, PairChosen DEF Publish
<1>4. /\ TightOf(s, <<low, high>>) /\ Difference(low, high).n > 0
      /\ low \in LowConstraints(s) /\ high \in HighConstraints(s)
  BY <1>1, CurrentTight DEF TightOf
<1>5. /\ NoSteeper(LineOf(low), LineOf(low_constraint_pts))
      /\ NoLower(LineOf(low), LineOf(low_constraint_pts))
      /\ NoSteeper(LineOf(high_constraint_pts), LineOf(high))
      /\ NoLower(LineOf(high_constraint_pts), LineOf(high))
  <2> DEFINE c == <<low, high>>
  <2>1. c[1] = low /\ c[2] = high
    OBVIOUS
  <2> HIDE DEF c, low, high
  <2> QED
    BY <1>1, <1>2, <1>4, <2>1, BestOfAll
<1>6. /\ LowKey(low, m, k) /\ LowKey(low_constraint_pts, m, k)
      /\ HighKey(high, m, k) /\ HighKey(high_constraint_pts, m, k)
  BY <1>1, <1>2, <1>4, NewKeys DEF BaseInv, ControlInv
<1>7. /\ IsLine(LineOf(low)) /\ IsLine(LineOf(low_constraint_pts))
      /\ IsLine(LineOf(high)) /\ IsLine(LineOf(high_constraint_pts))
  BY <1>6, LowLine, HighLine
<1> QED
  BY <1>2, <1>3, <1>5, <1>7, BetterNoWorse DEF Estimate

---------------------------------------------------------------------------
(* The drift *)

\* What a line gains, over what time, and where it starts from.
LEMMA LowRise ==
  ASSUME NEW m \in Int, NEW k \in Int, NEW c, LowKey(c, m, k)
  PROVE  /\ c[1].x \in Nat /\ c[1].y \in Int /\ c[2].x \in Nat /\ c[2].y \in Int
         /\ c[1].x < c[2].x
         /\ LineOf(c).a = c[2].y - c[1].y /\ LineOf(c).d = c[2].x - c[1].x
BY DEF LowKey, Below, Above, IsPoint, LineOf, Line

LEMMA LowStart ==
  ASSUME NEW m \in Int, NEW k \in Int, NEW c, LowKey(c, m, k)
  PROVE  LineOf(c).b = c[1].y * LineOf(c).d - LineOf(c).a * c[1].x
BY DEF LowKey, Below, Above, IsPoint, LineOf, Line

LEMMA HighRise ==
  ASSUME NEW m \in Int, NEW k \in Int, NEW c, HighKey(c, m, k)
  PROVE  /\ c[1].x \in Nat /\ c[1].y \in Int /\ c[2].x \in Nat /\ c[2].y \in Int
         /\ c[2].x < c[1].x
         /\ LineOf(c).a = c[1].y - c[2].y /\ LineOf(c).d = c[1].x - c[2].x
BY DEF HighKey, Below, Above, IsPoint, LineOf, Line

LEMMA HighStart ==
  ASSUME NEW m \in Int, NEW k \in Int, NEW c, HighKey(c, m, k)
  PROVE  LineOf(c).b = c[2].y * LineOf(c).d - LineOf(c).a * c[2].x
<1> DEFINE x1 == c[1].x
           y1 == c[1].y
           x2 == c[2].x
           y2 == c[2].y
<1>1. /\ x1 \in Int /\ y1 \in Int /\ x2 \in Int /\ y2 \in Int /\ x2 < x1
  BY HighRise
<1>2. /\ LineOf(c).a = y1 - y2 /\ LineOf(c).d = x1 - x2
      /\ LineOf(c).b = y1 * (x1 - x2) - (y1 - y2) * x1
  BY <1>1 DEF LineOf, Line
<1> HIDE DEF x1, y1, x2, y2
<1>3. y1 * (x1 - x2) - (y1 - y2) * x1 = y2 * (x1 - x2) - (y1 - y2) * x2
  BY <1>1, OtherEnd
<1>4. LineOf(c).b = y2 * LineOf(c).d - LineOf(c).a * x2
  BY <1>2, <1>3
<1> QED
  BY <1>4 DEF x2, y2

\* A falling line does not get steeper when it gets longer.
LEMMA LongerFall ==
  ASSUME NEW a \in Int, NEW d \in Int, NEW a1 \in Int, NEW d1 \in Int,
         a < 0, a <= a1, 0 < d, a1 * d <= a * d1
  PROVE  d1 <= d
<1> SUFFICES ASSUME d < d1 PROVE FALSE
  OBVIOUS
<1>1. d * (-a) < d1 * (-a)
  BY MultiplyStrictly
<1>2. a * d <= a1 * d
  BY Multiply
<1> QED
  BY <1>1, <1>2

(***************************************************************************)
(* Where the product of both errors is zero the drift is the true one or   *)
(* the offset is, and then only a high line from reference time 0 leaves   *)
(* the drift open.                                                         *)
(***************************************************************************)
LEMMA ExactDrift ==
  ASSUME NEW m \in Int, NEW k \in Int,
         NEW low, NEW high, LowKey(low, m, k), HighKey(high, m, k),
         Difference(low, high).n <= 0, high[2].x > 0,
         low[1].y <= low[2].y,
         low[1].x <= high[2].x => low[1].y <= high[2].y
  PROVE  Estimate(low, high).drift >= 0
<1> DEFINE ua == LineOf(low).a
           ub == LineOf(low).b
           ud == LineOf(low).d
           va == LineOf(high).a
           vb == LineOf(high).b
           vd == LineOf(high).d
           x == low[1].x
           y == low[1].y
           hx == high[2].x
           hy == high[2].y
           p == ua * vd - va * ud
           q == vb * ud - ub * vd
<1>1. /\ ua \in Int /\ ub \in Int /\ ud \in Int /\ ud > 0 /\ m * ud <= ua /\ ub <= k * ud
      /\ va \in Int /\ vb \in Int /\ vd \in Int /\ vd > 0 /\ va <= m * vd /\ k * vd <= vb
  BY LowLine, HighLine DEF IsLine
<1>2. /\ x \in Int /\ y \in Int /\ x >= 0 /\ y <= m * x + k
      /\ hx \in Int /\ hy \in Int /\ hx > 0 /\ m * hx + k <= hy
      /\ x <= hx => y <= hy
  BY DEF LowKey, HighKey, Below, Above, IsPoint
<1>3. ua >= 0
  BY LowRise
<1>4. ub = y * ud - ua * x
  BY LowStart
<1>5. vb = hy * vd - va * hx
  BY HighStart
<1>6. p * q <= 0
  BY DEF Difference, Gap
<1>7. Estimate(low, high).drift = ua * vd + va * ud
  BY DEF Estimate, Midpoint
<1> HIDE DEF ua, ub, ud, va, vb, vd, x, y, hx, hy
<1>8. (m * ud) * vd <= ua * vd /\ va * ud <= (m * vd) * ud
  BY <1>1, Multiply
<1>9. ub * vd <= (k * ud) * vd /\ (k * vd) * ud <= vb * ud
  BY <1>1, Multiply
<1>10. p \in Int /\ q \in Int /\ p >= 0 /\ q >= 0
  BY <1>1, <1>8, <1>9
<1>11. p = 0 \/ q = 0
  <2> HIDE DEF p, q
  <2>1. p > 0 /\ q > 0 => p * q > 0
    BY <1>10, Products
  <2> QED
    BY <1>6, <1>10, <2>1
<1>12. ua * vd >= 0
  BY <1>1, <1>3
<1>13. va >= 0 => va * ud >= 0
  BY <1>1
<1>14. CASE p = 0
  BY <1>1, <1>7, <1>12, <1>14
<1>15. CASE q = 0
  <2>1. (ub - k * ud) * vd = 0 /\ (vb - k * vd) * ud = 0
    BY <1>1, <1>9, <1>15
  <2>2. ub = k * ud /\ vb = k * vd
    <3>1. ub < k * ud => ub * vd < (k * ud) * vd
      BY <1>1, MultiplyStrictly
    <3>2. k * vd < vb => (k * vd) * ud < vb * ud
      BY <1>1, MultiplyStrictly
    <3> QED
      BY <1>1, <2>1, <3>1, <3>2
  <2>3. (m * hx + k) * vd <= hy * vd
    BY <1>1, <1>2, Multiply
  <2>4. (m * vd) * hx <= va * hx
    BY <1>1, <1>2, <1>5, <2>2, <2>3
  <2>5. m * vd <= va
    <3>1. va < m * vd => va * hx < (m * vd) * hx
      BY <1>1, <1>2, MultiplyStrictly
    <3> QED
      BY <1>1, <1>2, <2>4, <3>1
  <2>6. CASE m >= 0
    <3>1. m * vd >= 0
      BY <1>1, <2>6
    <3> QED
      BY <1>1, <1>7, <1>12, <1>13, <2>5, <3>1
  <2>7. CASE m < 0
    <3>1. y * ud <= (m * x + k) * ud
      BY <1>1, <1>2, Multiply
    <3>2. ua * x <= (m * x) * ud
      BY <1>1, <1>2, <1>4, <2>2, <3>1
    <3>3. 0 <= ua * x
      BY <1>1, <1>2, <1>3
    <3>4. x = 0
      <4>1. x > 0 => x * ud > 0 /\ x * ud \in Int
        BY <1>1, <1>2, Products
      <4>2. x > 0 => (-m) * (x * ud) > 0
        BY <4>1, <2>7, Products
      <4> QED
        BY <1>1, <1>2, <3>2, <3>3, <4>2
    <3>5. y * ud = k * ud
      BY <1>1, <1>2, <1>4, <2>2, <3>4
    <3>6. k * ud <= hy * ud
      BY <1>1, <1>2, <3>4, <3>5, Multiply
    <3>7. k <= hy
      <4>1. hy < k => hy * ud < k * ud
        BY <1>1, <1>2, MultiplyStrictly
      <4> QED
        BY <1>1, <1>2, <3>6, <4>1
    <3>8. k * vd <= hy * vd
      BY <1>1, <1>2, <3>7, Multiply
    <3>9. va * hx >= 0
      BY <1>1, <1>2, <1>5, <2>2, <3>8
    <3>10. va >= 0
      <4>1. va < 0 => va * hx < 0 * hx
        BY <1>1, <1>2, MultiplyStrictly
      <4> QED
        BY <1>1, <1>2, <3>9, <4>1
    <3> QED
      BY <1>1, <1>7, <1>12, <1>13, <3>10
  <2> QED
    BY <2>6, <2>7
<1> QED
  BY <1>11, <1>14, <1>15

\* The selection loop has taken a pair with an error left in both values.
Chosen(s, c) == /\ c \in Tightest(Improvements(s))
                /\ low_constraint_pts' = c[1]
                /\ high_constraint_pts' = c[2]
                /\ diff_factor' = Difference(c[1], c[2])
                /\ diff_factor'.n > 0

(***************************************************************************)
(* If its high line falls, this goes from the earliest high point to the   *)
(* new low point: any other of the high lines to the new point would be    *)
(* better.                                                                 *)
(***************************************************************************)
LEMMA FallsFromEarliest ==
  ASSUME NEW m \in Int, NEW k \in Int, TurnInv(m, k),
         NEW s, Brackets(s, m, k), InTurn(s), NEW c, Chosen(s, c), LineOf(c[2]).a < 0
  PROVE  /\ c[2][1].x = s.tb
         /\ \A g \in HighPoints(s) : c[2][2].x <= g.x
<1>1. BaseInv(m, k) /\ StoredInv /\ CacheComplete /\ OrderInv
  BY DEF TurnInv, StoredInv
<1>2. /\ \A b \in HighConstraints(s) : HighKey(b, m, k)
      /\ c[2] \in HighConstraints(s)
      /\ c[2][1] \in LowPoints(s) /\ c[2][2] \in HighPoints(s)
  BY <1>1, NewKeys, NewKeysStored DEF BaseInv, ControlInv, Chosen, Tightest, Improvements
<1> DEFINE n == NewLow(s)
           l == c[2][1]
           h == c[2][2]
<1>3. /\ l.x \in Int /\ l.y \in Int /\ h.x \in Int /\ h.y \in Int /\ h.x < l.x
      /\ LineOf(c[2]).a = l.y - h.y /\ LineOf(c[2]).d = l.x - h.x
  BY <1>2, HighRise
<1>4. /\ n \in LowPoints(s) /\ n.x = s.tb /\ n.x \in Int /\ n.y \in Int
      /\ l.x <= n.x /\ l.y <= n.y
  BY <1>1, <1>2, LaterSample, PointsOrdered DEF IsPoint
<1>5. ASSUME NEW g \in HighPoints(s), g.x <= h.x
      PROVE  n.x - g.x <= l.x - h.x
  <2>1. g.x \in Int /\ g.y \in Int /\ g.y <= h.y
    BY <1>1, <1>2, <1>5, PointsOrdered DEF IsPoint
  <2>2. <<n, g>> \in HighConstraints(s)
    BY <1>1, <1>3, <1>4, <1>5, <2>1, NewLinesCached
  <2>3. NoSteeper(LineOf(<<n, g>>), LineOf(c[2]))
    BY <1>1, <2>2, ChosenTight, BestOfAll DEF Chosen
  <2>4. LineOf(<<n, g>>).a = n.y - g.y /\ LineOf(<<n, g>>).d = n.x - g.x
    BY <1>2, <2>2, HighRise
  <2>5. (n.y - g.y) * (l.x - h.x) <= (l.y - h.y) * (n.x - g.x)
    BY <1>3, <2>3, <2>4 DEF NoSteeper
  <2> HIDE DEF n, l, h
  <2>6. /\ l.y - h.y \in Int /\ l.x - h.x \in Int /\ n.y - g.y \in Int /\ n.x - g.x \in Int
        /\ l.y - h.y < 0 /\ l.y - h.y <= n.y - g.y /\ 0 < l.x - h.x
    BY <1>3, <1>4, <2>1
  <2> QED
    BY <2>5, <2>6, LongerFall
<1>6. l.x = n.x
  BY <1>2, <1>3, <1>4, <1>5
<1>7. \A g \in HighPoints(s) : h.x <= g.x
  <2> SUFFICES ASSUME NEW g \in HighPoints(s), g.x < h.x PROVE FALSE
    BY <1>1, <1>3, PointsOrdered DEF IsPoint
  <2>1. g.x \in Int
    BY <1>1, PointsOrdered DEF IsPoint
  <2> QED
    BY <1>3, <1>4, <1>5, <2>1
<1> QED
  BY <1>4, <1>6, <1>7

\* A call leaves an error in both values only if there was one before.
LEMMA StillInDoubt ==
  ASSUME NEW m \in Int, NEW k \in Int, BaseInv(m, k), NEW s, Brackets(s, m, k), Select(s),
         diff_factor'.n > 0
  PROVE  diff_factor.n > 0
<1>1. ASSUME NEW c \in Tightest(Improvements(s)), diff_factor' = Difference(c[1], c[2])
      PROVE  diff_factor.n > 0
  <2>1. /\ c[1] \in LowConstraints(s) /\ c[2] \in HighConstraints(s)
        /\ Less(Difference(c[1], c[2]), diff_factor)
    BY DEF Tightest, Improvements
  <2>2. LowKey(c[1], m, k) /\ HighKey(c[2], m, k)
    BY <2>1, NewKeys DEF BaseInv, ControlInv
  <2> DEFINE an == Difference(c[1], c[2]).n
             ad == Difference(c[1], c[2]).d
             bn == diff_factor.n
             bd == diff_factor.d
  <2>3. an \in Int /\ an > 0 /\ ad \in Int /\ ad > 0 /\ bn \in Int /\ bd \in Int /\ bd >= 0
    BY <1>1, <2>2, DifferenceTyped DEF BaseInv, DifferenceInv
  <2>4. an * bd < bn * ad
    BY <2>1 DEF Less
  <2> HIDE DEF an, ad, bn, bd
  <2>5. 0 <= an * bd
    BY <2>3
  <2>6. bn <= 0 => bn * ad <= 0 * ad
    BY <2>3, Multiply
  <2>7. bn > 0
    BY <2>3, <2>4, <2>5, <2>6
  <2> QED
    BY <2>7 DEF bn
<1> QED
  BY <1>1 DEF Select

\* No low point is earlier either.
LEMMA FallsFromFirst ==
  ASSUME NEW m \in Int, NEW k \in Int, TurnInv(m, k),
         NEW s, Brackets(s, m, k), InTurn(s), Recalculates(s),
         NEW c, Chosen(s, c), LineOf(c[2]).a < 0
  PROVE  \A p \in LowPoints(s) : c[2][2].x <= p.x
<1>1. BaseInv(m, k) /\ StoredInv /\ FirstInv /\ SteepInv /\ OrderInv
  BY DEF TurnInv, StoredInv
<1>2. /\ HighKey(c[2], m, k)
      /\ c[2][1] \in LowPoints(s) /\ c[2][2] \in HighPoints(s)
      /\ Less(Difference(c[1], c[2]), diff_factor)
  BY <1>1, NewKeys, NewKeysStored DEF BaseInv, ControlInv, Chosen, Tightest, Improvements
<1> DEFINE l == c[2][1]
           h == c[2][2]
<1>3. /\ l.x \in Int /\ l.y \in Int /\ h.x \in Int /\ h.y \in Int /\ h.x < l.x /\ l.y < h.y
  BY <1>2, HighRise
<1>4. l.x = s.tb /\ \A g \in HighPoints(s) : h.x <= g.x
  BY FallsFromEarliest
<1>5. LowPoints(s) = low_points \cup {NewLow(s)} /\ NewLow(s).x = s.tb
  BY <1>1, LaterSample
<1>6. CASE low_constraint_pts = NoPair
  <2>1. /\ low_points = {Point(1, last.tb, last.to)}
        /\ high_points = {Point(1, last.tb, last.tr)}
    BY <1>1, <1>6, ParametersAssumption DEF FirstInv, Recalculates, Arrives, Increment
  <2>2. HighPoints(s) = high_points \cup {NewHigh(s)} /\ NewHigh(s).x = s.tb
    BY <1>1, LaterSample
  <2>3. h = Point(1, last.tb, last.tr)
    BY <1>2, <1>3, <1>4, <2>1, <2>2
  <2>4. \A p \in low_points : p.x = h.x
    BY <2>1, <2>3 DEF Point
  <2> QED
    BY <1>3, <1>4, <1>5, <2>4
<1>7. CASE low_constraint_pts # NoPair
  <2> DEFINE v == high_constraint_pts
  <2>1. v \in high_constraints /\ v[1] \in low_points /\ v[2] \in high_points
    BY <1>1, <1>7 DEF StoredInv
  <2>2. HighKey(v, m, k) /\ LineOf(v).a = v[1].y - v[2].y
    BY <1>1, <2>1, HighRise DEF BaseInv, KeysInv
  <2>3. /\ v[1] \in LowPoints(s) /\ v[2] \in HighPoints(s)
        /\ v[1].x \in Int /\ v[1].y \in Int /\ v[2].x \in Int /\ v[2].y \in Int
    BY <1>1, <2>1, LaterSample DEF IsPoint, OrderInv
  <2>4. h.x <= v[2].x /\ h.y <= v[2].y
    BY <1>1, <1>2, <1>4, <2>3, PointsOrdered
  <2>5. v[1].y <= l.y
    BY <1>1, <1>2, <1>4, <2>3, PointsOrdered
  <2>6. LineOf(v).a < 0
    BY <1>3, <2>2, <2>3, <2>4, <2>5
  <2>7. diff_factor.n > 0
    BY <1>1, StillInDoubt DEF Chosen, Recalculates
  <2>8. \A p \in low_points : v[2].x <= p.x
    BY <1>1, <1>7, <2>6, <2>7 DEF SteepInv
  <2> QED
    BY <1>1, <1>3, <1>4, <1>5, <2>3, <2>4, <2>8 DEF OrderInv, IsPoint
<1> QED
  BY <1>6, <1>7

\* The low line then rises at least as steeply as the high line falls.
LEMMA ChosenDrift ==
  ASSUME NEW m \in Int, NEW k \in Int, TurnInv(m, k),
         NEW s, Brackets(s, m, k), InTurn(s), Recalculates(s), NEW c, Chosen(s, c)
  PROVE  Estimate(c[1], c[2]).drift >= 0
<1>1. BaseInv(m, k) /\ StoredInv /\ OrderInv
  BY DEF TurnInv, StoredInv
<1>2. /\ LowKey(c[1], m, k) /\ HighKey(c[2], m, k)
      /\ c[1][1] \in LowPoints(s) /\ c[1][2] \in HighPoints(s)
      /\ c[2][1] \in LowPoints(s) /\ c[2][2] \in HighPoints(s)
  BY <1>1, NewKeys, NewKeysStored DEF BaseInv, ControlInv, Chosen, Tightest, Improvements
<1> DEFINE i == c[1][1]
           j == c[1][2]
           l == c[2][1]
           h == c[2][2]
           ua == LineOf(c[1]).a
           ud == LineOf(c[1]).d
           va == LineOf(c[2]).a
           vd == LineOf(c[2]).d
<1>3. /\ i.x \in Int /\ i.y \in Int /\ j.x \in Int /\ j.y \in Int /\ i.x < j.x
      /\ l.x \in Int /\ l.y \in Int /\ h.x \in Int /\ h.y \in Int /\ h.x < l.x
      /\ ua = j.y - i.y /\ ud = j.x - i.x /\ va = l.y - h.y /\ vd = l.x - h.x
  BY <1>2, LowRise, HighRise
<1>4. i.y <= j.y
  BY <1>1, <1>2, <1>3, PointsOrdered
<1>5. Estimate(c[1], c[2]).drift = ua * vd + va * ud
  BY DEF Estimate, Midpoint
<1>6. CASE va >= 0
  <2> HIDE DEF ua, ud, va, vd, i, j, l, h
  <2>1. ua * vd >= 0 /\ va * ud >= 0
    BY <1>3, <1>4, <1>6
  <2> QED
    BY <1>3, <1>5, <2>1
<1>7. CASE va < 0
  <2>1. /\ l.x = s.tb /\ s.tb \in Int
        /\ h.x <= j.x /\ h.x <= i.x
    BY <1>2, <1>7, FallsFromEarliest, FallsFromFirst DEF Brackets
  <2>2. i.x <= s.tb /\ j.x <= s.tb
    BY <1>1, <1>2, PointsOrdered
  <2>3. h.y <= j.y /\ i.y <= l.y
    BY <1>1, <1>2, <1>3, <2>1, <2>2, PointsOrdered
  <2> HIDE DEF ua, ud, va, vd, i, j, l, h
  <2>4. /\ ua \in Int /\ ud \in Int /\ va \in Int /\ vd \in Int
        /\ 0 < ud /\ ud <= vd /\ -va <= ua
    BY <1>3, <2>1, <2>2, <2>3
  <2>5. (-va) * vd <= ua * vd
    BY <2>4, Multiply
  <2>6. ud * (-va) <= vd * (-va)
    BY <1>7, <2>4, Multiply
  <2> QED
    BY <1>5, <2>4, <2>5, <2>6
<1> QED
  BY <1>3, <1>6, <1>7

---------------------------------------------------------------------------
(* Every call in its turn preserves all this *)

LEMMA CacheKept ==
  ASSUME CacheComplete, NEW s, Store(s) \/ Completes(s)
  PROVE  CacheComplete'
<1>1. CASE Store(s)
  BY <1>1, NewLinesCached DEF Store, CacheComplete
<1>2. CASE Completes(s)
  <2>1. /\ low_points' \subseteq LowPoints(s) /\ high_points' \subseteq HighPoints(s)
        /\ Prune(s, low_points', high_points')
    BY <1>2 DEF Completes, Keeps
  <2> QED
    BY <2>1, NewLinesCached DEF Prune, CacheComplete
<1> QED
  BY <1>1, <1>2

\* A pair the call leaves alone keeps what holds of it.
LEMMA SamePair ==
  ASSUME NEW m \in Int, NEW k \in Int, TurnInv(m, k), NEW s, InTurn(s),
         UNCHANGED <<low_constraint_pts, high_constraint_pts, diff_factor>>,
         low_points' \subseteq LowPoints(s), high_points' \subseteq HighPoints(s)
  PROVE  SteepInv' /\ DriftInv'
<1>1. StoredInv /\ OrderInv /\ SteepInv /\ DriftInv
  BY DEF TurnInv, StoredInv
<1>2. DriftInv'
  BY <1>1 DEF DriftInv
<1>3. SteepInv'
  <2> SUFFICES ASSUME low_constraint_pts # NoPair, diff_factor.n > 0,
                      LineOf(high_constraint_pts).a < 0,
                      NEW p \in low_points' \cup high_points'
               PROVE  high_constraint_pts[2].x <= p.x
    BY DEF SteepInv
  <2>1. \A q \in low_points \cup high_points : high_constraint_pts[2].x <= q.x
    BY <1>1 DEF SteepInv
  <2>2. high_constraint_pts[2] \in high_points
    BY <1>1 DEF StoredInv
  <2>3. high_constraint_pts[2].x \in Nat /\ high_constraint_pts[2].x < s.tb /\ s.tb \in Nat
    BY <1>1, <2>2, LaterSample DEF IsPoint, InTurn
  <2>4. p \in low_points \cup high_points \/ p.x = s.tb
    BY <1>1, LaterSample
  <2> QED
    BY <2>1, <2>3, <2>4
<1> QED
  BY <1>2, <1>3

LEMMA StoreTurn ==
  ASSUME NEW m \in Int, NEW k \in Int, TurnInv(m, k),
         NEW s, Brackets(s, m, k), InTurn(s), Store(s)
  PROVE  TurnInv(m, k)'
<1>1. Arrives(s) /\ OrderInv
  BY DEF Store, TurnInv, StoredInv
<1>2. BaseInv(m, k)' /\ StoredInv' /\ CacheComplete'
  BY StoreInv, StoreStored, CacheKept DEF TurnInv
<1>3. CurrentEstimate' /\ SteepInv' /\ DriftInv'
  BY SamePair DEF TurnInv, Store, CurrentEstimate
<1>4. FirstInv'
  <2> SUFFICES ASSUME low_constraint_pts = NoPair
               PROVE  /\ diff_factor' = Infinity /\ estimate' = NoEstimate
                      /\ calls' = 1 /\ processed_timestamps' = 1
                      /\ low_points' = {Point(1, last'.tb, last'.to)}
                      /\ high_points' = {Point(1, last'.tb, last'.tr)}
    BY DEF FirstInv, Store
  <2>1. diff_factor' = Infinity /\ estimate' = NoEstimate
    BY DEF TurnInv, FirstInv, Store
  <2>2. calls = 0 /\ processed_timestamps = 0
    BY ParametersAssumption DEF TurnInv, FirstInv, Store, Arrives, Increment
  <2>3. calls' = 1 /\ processed_timestamps' = 1 /\ last' = s
    BY <1>1, <2>2, ParametersAssumption DEF Arrives, Increment
  <2>4. low_points = {} /\ high_points = {}
    BY <1>1, <2>2 DEF OrderInv
  <2>5. low_points' = {NewLow(s)} /\ high_points' = {NewHigh(s)}
    BY <1>1, <2>4, LaterSample DEF Store
  <2> QED
    BY <2>1, <2>2, <2>3, <2>5 DEF NewLow, NewHigh
<1> QED
  BY <1>2, <1>3, <1>4 DEF TurnInv

\* A pair that is taken although its gap is zero.
LEMMA ExactChosen ==
  ASSUME NEW m \in Int, NEW k \in Int, TurnInv(m, k),
         NEW s, Brackets(s, m, k), InTurn(s),
         NEW c \in Tightest(Improvements(s)), Difference(c[1], c[2]).n <= 0, c[2][2].x > 0
  PROVE  Estimate(c[1], c[2]).drift >= 0
<1>1. BaseInv(m, k) /\ StoredInv /\ OrderInv
  BY DEF TurnInv, StoredInv
<1>2. /\ LowKey(c[1], m, k) /\ HighKey(c[2], m, k)
      /\ c[1][1] \in LowPoints(s) /\ c[1][2] \in HighPoints(s) /\ c[2][2] \in HighPoints(s)
  BY <1>1, NewKeys, NewKeysStored DEF BaseInv, ControlInv, Tightest, Improvements
<1>3. c[1][1].x <= c[1][2].x
  BY <1>2, LowRise
<1>4. /\ c[1][1].y <= c[1][2].y
      /\ c[1][1].x <= c[2][2].x => c[1][1].y <= c[2][2].y
  BY <1>1, <1>2, <1>3, PointsOrdered
<1> QED
  BY <1>2, <1>4, ExactDrift

LEMMA CompletesTurn ==
  ASSUME NEW m \in Int, NEW k \in Int, TurnInv(m, k),
         NEW s, Brackets(s, m, k), InTurn(s), Completes(s)
  PROVE  TurnInv(m, k)'
<1>1. /\ Recalculates(s) /\ Arrives(s) /\ Select(s) /\ Publish
      /\ low_points' \subseteq LowPoints(s) /\ high_points' \subseteq HighPoints(s)
  BY DEF Completes, Recalculates, Keeps
<1>2. BaseInv(m, k)'
  BY RecalculateInv DEF TurnInv, Completes, Recalculate
<1>3. StoredInv' /\ CacheComplete'
  BY CompletesStored, CacheKept DEF TurnInv
<1>4. low_constraint_pts' # NoPair
  BY <1>1, PairChosen
<1>5. FirstInv' /\ CurrentEstimate'
  BY <1>1, <1>4, CurrentTight DEF FirstInv, CurrentEstimate, Publish
<1>6. SteepInv' /\ DriftInv'
  <2>1. CASE UNCHANGED <<low_constraint_pts, high_constraint_pts, diff_factor>>
    BY <1>1, <2>1, SamePair
  <2>2. CASE \E c \in Tightest(Improvements(s)) :
               /\ low_constraint_pts' = c[1]
               /\ high_constraint_pts' = c[2]
               /\ diff_factor' = Difference(c[1], c[2])
    <3>1. PICK c \in Tightest(Improvements(s)) :
               /\ low_constraint_pts' = c[1]
               /\ high_constraint_pts' = c[2]
               /\ diff_factor' = Difference(c[1], c[2])
      BY <2>2
    <3>2. CASE diff_factor'.n > 0
      <4>1. Chosen(s, c)
        BY <3>1, <3>2 DEF Chosen
      <4>2. DriftInv'
        BY <1>1, <3>1, <4>1, ChosenDrift DEF DriftInv
      <4>3. SteepInv'
        BY <1>1, <3>1, <4>1, FallsFromEarliest, FallsFromFirst DEF SteepInv
      <4> QED
        BY <4>2, <4>3
    <3>3. CASE ~(diff_factor'.n > 0)
      <4>1. diff_factor'.n <= 0
        BY <1>2, <3>3 DEF BaseInv, DifferenceInv
      <4>2. DriftInv'
        BY <3>1, <3>3, <4>1, ExactChosen DEF DriftInv
      <4> QED
        BY <3>3, <4>2 DEF SteepInv
    <3> QED
      BY <3>2, <3>3
  <2> QED
    BY <1>1, <2>1, <2>2 DEF Select
<1> QED
  BY <1>2, <1>3, <1>5, <1>6 DEF TurnInv

LEMMA StutterTurn ==
  ASSUME NEW m \in Int, NEW k \in Int, TurnInv(m, k), UNCHANGED baseVars
  PROVE  TurnInv(m, k)'
<1>1. BaseInv(m, k)'
  BY StutterInv DEF TurnInv
<1>2. StoredInv' /\ CacheComplete'
  BY DEF TurnInv, baseVars, StoredInv, OrderInv, CacheComplete
<1>3. FirstInv' /\ CurrentEstimate' /\ SteepInv' /\ DriftInv'
  BY DEF TurnInv, baseVars, FirstInv, CurrentEstimate, SteepInv, DriftInv
<1> QED
  BY <1>1, <1>2, <1>3 DEF TurnInv

\* What the invariant says of the drift that is published.
LEMMA TurnDrift ==
  ASSUME NEW m \in Int, NEW k \in Int, TurnInv(m, k)
  PROVE  DriftNotNegativeInDoubt
<1>1. CASE low_constraint_pts = NoPair
  BY <1>1 DEF TurnInv, FirstInv, NoEstimate, DriftNotNegativeInDoubt, DriftNotNegative
<1>2. CASE low_constraint_pts # NoPair
  BY <1>2 DEF TurnInv, CurrentEstimate, DriftInv, DriftNotNegativeInDoubt, DriftNotNegative
<1> QED
  BY <1>1, <1>2

\* And of the errors, for any step that stores or completes.
LEMMA TurnNoWorse ==
  ASSUME NEW m \in Int, NEW k \in Int, TurnInv(m, k),
         NEW s, Brackets(s, m, k), InTurn(s), Store(s) \/ Completes(s),
         estimate # NoEstimate, diff_factor'.n > 0
  PROVE  NoWorse(estimate, estimate')
BY CompletesNoWorse, SameNoWorse DEF Store, TurnInv, BaseInv, EstimateInv

---------------------------------------------------------------------------
(* The checks, with samples in time order from after the reference's start *)

AllAfterStart == \A p \in low_points \cup high_points : p.x > 0

LEMMA StaysAfterStart ==
  ASSUME OrderInv, AllAfterStart, NEW s, InTurn(s), s.tb > 0, Store(s) \/ Completes(s)
  PROVE  AllAfterStart'
<1>1. /\ low_points' \subseteq LowPoints(s) /\ high_points' \subseteq HighPoints(s)
  BY DEF Store, Completes, Keeps
<1>2. /\ LowPoints(s) = low_points \cup {NewLow(s)} /\ NewLow(s).x = s.tb
      /\ HighPoints(s) = high_points \cup {NewHigh(s)} /\ NewHigh(s).x = s.tb
  BY LaterSample
<1> QED
  BY <1>1, <1>2 DEF AllAfterStart

\* A call that runs to its end passes both checks: there is a pair, and its
\* drift is not negative.
LEMMA CompletesOk ==
  ASSUME NEW m \in Int, NEW k \in Int, TurnInv(m, k), AllAfterStart, Loguru,
         NEW s, Brackets(s, m, k), InTurn(s), s.tb > 0, Completes(s)
  PROVE  outcome' = "ok"
<1>1. OrderInv /\ Recalculates(s) /\ Publish
  BY DEF TurnInv, StoredInv, Completes
<1>2. /\ TurnInv(m, k)' /\ AllAfterStart' /\ low_constraint_pts' # NoPair
  BY <1>1, CompletesTurn, StaysAfterStart, PairChosen
<1>3. high_constraint_pts'[2] \in high_points'
  BY <1>2 DEF TurnInv, StoredInv
<1>4. high_constraint_pts'[2].x > 0
  BY <1>2, <1>3 DEF AllAfterStart
<1>5. /\ estimate' = Estimate(low_constraint_pts', high_constraint_pts')
      /\ outcome' = IF DriftRefused(estimate') THEN "drift" ELSE "ok"
  BY <1>1, <1>2 DEF Publish
<1>6. estimate'.drift >= 0
  BY <1>2, <1>4, <1>5 DEF TurnInv, DriftInv
<1>7. estimate'.drift \in Int
  BY <1>2 DEF TurnInv, BaseInv, EstimateInv, IsEstimate
<1> QED
  BY <1>5, <1>6, <1>7 DEF DriftRefused
=============================================================================
