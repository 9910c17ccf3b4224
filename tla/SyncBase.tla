------------------------------ MODULE SyncBase ------------------------------
(***************************************************************************)
(* Algorithms::Base (libminisyncpp/minisync.{h,cpp}): the state and the    *)
(* steps TinySync and MiniSync share.  Base leaves cleanup() to its        *)
(* subclasses; this module's own Next lets cleanup() keep any points as    *)
(* long as it keeps those the current constraints rest on, or throw, and   *)
(* is what both subclasses are shown to implement.                         *)
(*                                                                         *)
(* One call of addDataPoint is one step: an Algorithm object is used by    *)
(* one thread.  The constraint maps are modelled by their keys, the value  *)
(* stored under a key being always the line through its two points.        *)
(***************************************************************************)
EXTENDS Constraints

CONSTANTS
  Samples,       \* the data points [to, tb, tr] a caller may add
  Slope, Offset, \* the true relation of the clocks: local = Slope * ref + Offset
  Ordered,       \* TRUE: samples arrive in time order, as minisync.cpp:118 assumes
  Loguru,        \* TRUE: LIBMINISYNCPP_LOGURU_ENABLE, a failed check aborts
  CounterLimit,  \* 2^32, the range of the uint32_t processed_timestamps
  MaxCalls       \* bound on the calls of addDataPoint

Truth(x) == Slope * x + Offset

\* The local times before and after the reference's clock showed tb.
ASSUME SamplesAssumption ==
  /\ Slope \in Int /\ Offset \in Int
  /\ \A s \in Samples : /\ s.to \in Int /\ s.tb \in Nat /\ s.tr \in Int
                        /\ s.to <= Truth(s.tb) /\ Truth(s.tb) <= s.tr

ASSUME ParametersAssumption ==
  /\ Ordered \in BOOLEAN /\ Loguru \in BOOLEAN
  /\ CounterLimit \in Nat /\ CounterLimit > 2 /\ MaxCalls \in Nat

VARIABLES
  low_points, high_points,                \* std::set, ordered by x
  low_constraints, high_constraints,      \* the keys of the constraint maps
  low_constraint_pts, high_constraint_pts,
  diff_factor,
  processed_timestamps,
  estimate,   \* currentDrift and currentOffset
  outcome,    \* how the last call of addDataPoint ended
  calls,      \* the calls made so far; numbers the points a call allocates
  last        \* the last sample added

baseVars == <<low_points, high_points, low_constraints, high_constraints,
              low_constraint_pts, high_constraint_pts, diff_factor,
              processed_timestamps, estimate, outcome, calls, last>>

Outcomes == {"none", "stored", "ok", "null", "drift", "out_of_range"}

\* Drift 1 and offset 0, both without error, as the members are initialised.
NoEstimate == [drift |-> 1, driftError |-> 0,
               offset |-> 0, offsetError |-> 0, den |-> 1]

BaseInit ==
  /\ low_points = {} /\ high_points = {}
  /\ low_constraints = {} /\ high_constraints = {}
  /\ low_constraint_pts = NoPair /\ high_constraint_pts = NoPair
  /\ diff_factor = Infinity
  /\ processed_timestamps = 0
  /\ estimate = NoEstimate
  /\ outcome = "none"
  /\ calls = 0
  /\ last = [to |-> 0, tb |-> 0, tr |-> 0]

---------------------------------------------------------------------------
(* addLowPoint and addHighPoint *)

NewLow(s) == Point(calls + 1, s.tb, s.to)
NewHigh(s) == Point(calls + 1, s.tb, s.tr)

\* std::set::insert: the set compares points by x, and keeps the one it has.
Insert(points, p) == IF \E q \in points : q.x = p.x THEN points ELSE points \cup {p}

LowPoints(s) == Insert(low_points, NewLow(s))
HighPoints(s) == Insert(high_points, NewHigh(s))

\* The pairs addConstraint is called with.  The new low point meets the old
\* high points even when the set refuses it.
NewPairs(s) == ({NewLow(s)} \X high_points) \cup (LowPoints(s) \X {NewHigh(s)})

LowConstraints(s) == low_constraints \cup {p \in NewPairs(s) : p[1].x < p[2].x}
\* Mutant: a line that belongs to the lower bound entered as an upper bound.
HighConstraintsOfAll(s) == high_constraints \cup {p \in NewPairs(s) : p[1].x # p[2].x}
HighConstraints(s) == high_constraints \cup {p \in NewPairs(s) : p[1].x > p[2].x}

---------------------------------------------------------------------------
(* addDataPoint and __recalculateEstimates *)

\* A failed CHECK_F aborts the process; an exception leaves the object in use.
Aborted == Loguru /\ outcome \in {"null", "drift"}

InTimeOrder(s) == /\ s.tb > last.tb
                  /\ s.to >= last.to
                  /\ s.tr >= last.tr

\* Mutant: a counter that never wraps around.
IncrementForever == processed_timestamps + 1
Increment == (processed_timestamps + 1) % CounterLimit

Arrives(s) ==
  /\ ~Aborted
  /\ calls < MaxCalls
  /\ Ordered /\ calls > 0 => InTimeOrder(s)
  /\ calls' = calls + 1
  /\ last' = s
  /\ processed_timestamps' = Increment

\* A call that only stores its points: the first one, and those after the
\* counter has wrapped around.
Store(s) ==
  /\ Arrives(s)
  /\ processed_timestamps' <= 1
  /\ low_points' = LowPoints(s)
  /\ high_points' = HighPoints(s)
  /\ low_constraints' = LowConstraints(s)
  /\ high_constraints' = HighConstraints(s)
  /\ outcome' = "stored"
  /\ UNCHANGED <<low_constraint_pts, high_constraint_pts, diff_factor, estimate>>

\* The loop over both constraint maps.  It keeps the first of the tightest
\* pairs it meets, and an unordered_map may be walked in any order.
Improvements(s) ==
  {c \in LowConstraints(s) \X HighConstraints(s) :
     Less(Difference(c[1], c[2]), diff_factor)}

Tightest(pairs) ==
  LET gaps == {Difference(c[1], c[2]) : c \in pairs}
  IN  {c \in pairs : \A g \in gaps : ~Less(g, Difference(c[1], c[2]))}

\* Mutant: the loop keeps the first improvement instead of the best.
SelectFirst(s) ==
  LET better == Improvements(s)
  IN  \/ /\ better = {}
         /\ UNCHANGED <<low_constraint_pts, high_constraint_pts, diff_factor>>
      \/ \E c \in better :
           /\ low_constraint_pts' = c[1]
           /\ high_constraint_pts' = c[2]
           /\ diff_factor' = Difference(c[1], c[2])

Select(s) ==
  LET better == Improvements(s)
  IN  \/ /\ better = {}
         /\ UNCHANGED <<low_constraint_pts, high_constraint_pts, diff_factor>>
      \/ \E c \in Tightest(better) :
           /\ low_constraint_pts' = c[1]
           /\ high_constraint_pts' = c[2]
           /\ diff_factor' = Difference(c[1], c[2])

\* Mutant: only the point of the low constraint is spared.
PinnedLowOnce == {low_constraint_pts[1]}

\* The points the current constraints rest on.
PinnedLow == {low_constraint_pts[1], high_constraint_pts[1]}
PinnedHigh == {low_constraint_pts[2], high_constraint_pts[2]}

\* Mutant: only one of the two maps is rebuilt.
PruneLow(s, keptLow, keptHigh) ==
  /\ low_points' = keptLow
  /\ high_points' = keptHigh
  /\ low_constraints' = LowConstraints(s) \cap (keptLow \X keptHigh)
  /\ high_constraints' = HighConstraints(s)

\* Mutant: the maps keep the current constraints and nothing else.
PruneCurrent(s, keptLow, keptHigh) ==
  /\ low_points' = keptLow
  /\ high_points' = keptHigh
  /\ low_constraints' = LowConstraints(s) \cap {low_constraint_pts'}
  /\ high_constraints' = HighConstraints(s) \cap {high_constraint_pts'}

\* The end of every cleanup(): constraints of erased points go.
Prune(s, keptLow, keptHigh) ==
  /\ low_points' = keptLow
  /\ high_points' = keptHigh
  /\ low_constraints' = LowConstraints(s) \cap (keptLow \X keptHigh)
  /\ high_constraints' = HighConstraints(s) \cap (keptLow \X keptHigh)

\* Mutant: every build refuses a drift of zero.
DriftRefusedZero(e) == e.drift <= 0

\* The library without Loguru refuses a drift of zero as well.
DriftRefused(e) == IF Loguru THEN e.drift < 0 ELSE e.drift <= 0

Publish ==
  \/ /\ low_constraint_pts' = NoPair
     /\ outcome' = "null"
     /\ UNCHANGED estimate
  \/ /\ low_constraint_pts' # NoPair
     /\ estimate' = Estimate(low_constraint_pts', high_constraint_pts')
     /\ outcome' = IF DriftRefused(estimate') THEN "drift" ELSE "ok"

Recalculates(s) ==
  /\ Arrives(s)
  /\ processed_timestamps' > 1
  /\ Select(s)

\* cleanup() ends with an exception: some points are gone, every constraint
\* is still there and the estimate is the old one.
CleanupThrows(s, keptLow, keptHigh) ==
  /\ low_points' = keptLow
  /\ high_points' = keptHigh
  /\ low_constraints' = LowConstraints(s)
  /\ high_constraints' = HighConstraints(s)
  /\ outcome' = "out_of_range"
  /\ UNCHANGED estimate

---------------------------------------------------------------------------
(* What any subclass may do *)

Keeps(points, pinned) == {kept \in SUBSET points : points \cap pinned \subseteq kept}

Recalculate(s) ==
  /\ Recalculates(s)
  /\ low_points' \in Keeps(LowPoints(s), PinnedLow')
  /\ high_points' \in Keeps(HighPoints(s), PinnedHigh')
  /\ \/ Prune(s, low_points', high_points') /\ Publish
     \/ CleanupThrows(s, low_points', high_points')

BaseNext == \E s \in Samples : Store(s) \/ Recalculate(s)

BaseSpec == BaseInit /\ [][BaseNext]_baseVars
---------------------------------------------------------------------------
(* Properties *)

IsPoint(p) == p.id \in Nat /\ p.x \in Nat /\ p.y \in Int

\* Every variable holds what the code's declarations and its calls allow.
TypeOK ==
  /\ \A p \in low_points \cup high_points : IsPoint(p) /\ p.id \in 1..calls
  /\ \A c \in low_constraints \cup high_constraints \cup {low_constraint_pts, high_constraint_pts} :
       IsPoint(c[1]) /\ IsPoint(c[2])
  /\ diff_factor.n \in Int /\ diff_factor.d \in Nat
  /\ processed_timestamps \in 0..(CounterLimit - 1)
  /\ estimate.den \in Nat \ {0}
  /\ outcome \in Outcomes
  /\ calls \in 0..MaxCalls

(***************************************************************************)
(* What the estimate is for: once there is one, the true drift and offset  *)
(* lie within the errors published with it (minisync.cpp:167-170), whatever*)
(* samples came in whatever order and whatever cleanup() threw away.       *)
(***************************************************************************)
Within(value, middle, error) == middle - error <= value /\ value <= middle + error

EstimateSound ==
  estimate # NoEstimate =>
    /\ Within(Slope * estimate.den, estimate.drift, estimate.driftError)
    /\ Within(Offset * estimate.den, estimate.offset, estimate.offsetError)

(***************************************************************************)
(* The selection loop only looks at cached constraints.  Every pair of     *)
(* stored points at different reference times is in one of the caches, so  *)
(* that no usable pair is passed over - also after calls that only store   *)
(* (counter wrap-around) and after a cleanup() an exception cut short.     *)
(***************************************************************************)
CacheComplete ==
  \A l \in low_points, h \in high_points :
    /\ l.x < h.x => <<l, h>> \in low_constraints
    /\ l.x > h.x => <<l, h>> \in high_constraints

(***************************************************************************)
(* Once cleanup() has run to its end the caches hold nothing else: memory  *)
(* is bounded by the points kept, and no line of an erased point can be    *)
(* chosen again.                                                           *)
(***************************************************************************)
CachePruned ==
  outcome \in {"ok", "null", "drift"} =>
    low_constraints \cup high_constraints \subseteq low_points \X high_points

(***************************************************************************)
(* The loop minimises the product of both errors, starting from the best   *)
(* pair so far.  Yet neither error alone ever gets worse from one call to  *)
(* the next (minisync.cpp:169-170), as users of the estimate expect.       *)
(***************************************************************************)
NoWorse(e, f) == /\ f.driftError * e.den <= e.driftError * f.den
                 /\ f.offsetError * e.den <= e.offsetError * f.den

ErrorsNeverGrow ==
  [][estimate # NoEstimate /\ diff_factor'.n > 0 => NoWorse(estimate, estimate')]_baseVars

(***************************************************************************)
(* The points both current constraints rest on are still stored: cleanup() *)
(* spares them and the sets refuse no point of theirs (minisync.cpp:280,   *)
(* 289, 317, 361).  Only a sample that repeats a reference time breaks it. *)
(***************************************************************************)
CurrentStored ==
  low_constraint_pts # NoPair =>
    low_constraint_pts \in low_constraints /\ high_constraint_pts \in high_constraints

(***************************************************************************)
(* "Drift must be >=0 for monotonically increasing clocks", says the check *)
(* that ends the program (minisync.cpp:172-180).  Samples in time order do *)
(* not rule a negative drift out.  If the first high point is at reference *)
(* time 0 and exact, every high line through it has the exact offset, and  *)
(* once two low points are exact the low line through them has it, too.    *)
(* The product both algorithms minimise is 0 then for all those high       *)
(* lines, of which some may fall.                                          *)
(***************************************************************************)
DriftNotNegative == estimate.drift >= 0

(***************************************************************************)
(* That is the only way: the drift is not negative as long as an error is  *)
(* left in both values, or the lower line rests on a later point.          *)
(***************************************************************************)
DriftNotNegativeInDoubt ==
  diff_factor.n > 0 \/ high_constraint_pts[2].x > 0 => DriftNotNegative

(***************************************************************************)
(* "current_low is null!" (minisync.cpp:157-165) is for good: when the two *)
(* first samples have one reference time the cleanup() before the check    *)
(* has erased all points, so that the next sample finds no partner either, *)
(* whatever its time.  Only the wrap of the counter ends it.               *)
(***************************************************************************)
FailedForGood ==
  [][outcome = "null" /\ processed_timestamps' > 1 => outcome' = "null"]_baseVars
=============================================================================
