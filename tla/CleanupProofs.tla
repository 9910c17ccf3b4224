---------------------------- MODULE CleanupProofs ----------------------------
(***************************************************************************)
(* TinySync and MiniSync differ in cleanup() only.  Each is an             *)
(* Algorithms::Base, so what is proved of Base holds of it; TinySync       *)
(* stores a handful of points however long it runs; and MiniSync's slope   *)
(* caches, with samples in time order, hold exactly what its cleanup()     *)
(* looks up.                                                               *)
(***************************************************************************)
EXTENDS TinySync, MiniSync, SyncBaseProofs, FiniteSetTheorems, WellFoundedInduction

---------------------------------------------------------------------------
(* TinySync *)

\* cleanup() runs to its end and keeps the points of the current constraints.
LEMMA TinyCompletes ==
  ASSUME NEW s, TinyRecalculate(s)
  PROVE  Completes(s)
<1>1. Recalculates(s) /\ Publish
  BY DEF TinyRecalculate
<1>2. /\ low_points' = LowPoints(s) \cap PinnedLow'
      /\ high_points' = HighPoints(s) \cap PinnedHigh'
  BY DEF TinyRecalculate, TinyCleanup, Prune
<1>3. Prune(s, low_points', high_points')
  BY <1>2 DEF TinyRecalculate, TinyCleanup
<1>4. /\ low_points' \in Keeps(LowPoints(s), PinnedLow')
      /\ high_points' \in Keeps(HighPoints(s), PinnedHigh')
  BY <1>2 DEF Keeps
<1> QED
  BY <1>1, <1>3, <1>4 DEF Completes

\* Every call of TinySync ends in a way that Base allows.
THEOREM TinyImplementsBase == TinySpec => BaseSpec
<1>1. ASSUME NEW s \in Samples, TinyRecalculate(s) PROVE Recalculate(s)
  BY <1>1, TinyCompletes DEF Completes, Recalculate
<1>2. [TinyNext]_baseVars => [BaseNext]_baseVars
  BY <1>1 DEF TinyNext, BaseNext
<1> QED
  BY <1>2, PTL DEF TinySpec, BaseSpec

\* TinySync's estimate brackets the true drift and offset.
THEOREM TinySound == TinySpec => []EstimateSound
<1> QED
  BY TinyImplementsBase, BaseSound, PTL

\* Every variable of a TinySync object keeps its type.
THEOREM TinyTyped == TinySpec => []TypeOK
<1> QED
  BY TinyImplementsBase, BaseTyped, PTL

\* With samples in time order every call of TinySync runs to its end.
LEMMA TinySteps ==
  ASSUME Ordered, NEW s \in Samples, Store(s) \/ TinyRecalculate(s)
  PROVE  Brackets(s, Slope, Offset) /\ InTurn(s) /\ (Store(s) \/ Completes(s))
BY SamplesBracket, OrderedInTurn, TinyCompletes DEF Store, TinyRecalculate, Recalculates

LEMMA TinyTurn ==
  ASSUME Ordered
  PROVE  TinySpec => []TurnInv(Slope, Offset)
<1>1. BaseInit => TurnInv(Slope, Offset)
  BY SamplesBracket, InitTurn
<1>2. TurnInv(Slope, Offset) /\ [TinyNext]_baseVars => TurnInv(Slope, Offset)'
  BY SamplesBracket, TinySteps, StoreTurn, CompletesTurn, StutterTurn DEF TinyNext
<1> QED
  BY <1>1, <1>2, PTL DEF TinySpec

(***************************************************************************)
(* With samples in time order the points the current constraints rest on,  *)
(* and the constraints themselves, are still stored.                       *)
(***************************************************************************)
THEOREM TinyCurrentStored ==
  ASSUME Ordered
  PROVE  TinySpec => []CurrentStored
<1>1. TurnInv(Slope, Offset) => CurrentStored
  BY DEF TurnInv, StoredInv, CurrentStored
<1> QED
  BY <1>1, TinyTurn, PTL

(***************************************************************************)
(* With samples in time order neither error of TinySync's estimate grows,  *)
(* as long as an error is left in both, although it minimises the product. *)
(***************************************************************************)
THEOREM TinyErrorsNeverGrow ==
  ASSUME Ordered
  PROVE  TinySpec => ErrorsNeverGrow
<1>1. TurnInv(Slope, Offset) /\ [TinyNext]_baseVars =>
        [estimate # NoEstimate /\ diff_factor'.n > 0 => NoWorse(estimate, estimate')]_baseVars
  BY SamplesBracket, TinySteps, TurnNoWorse DEF TinyNext
<1> QED
  BY <1>1, TinyTurn, PTL DEF TinySpec, ErrorsNeverGrow

\* The drift of TinySync is not negative while an error is left in both
\* values or the high constraint rests on a point after reference time 0.
THEOREM TinyDriftNotNegative ==
  ASSUME Ordered
  PROVE  TinySpec => []DriftNotNegativeInDoubt
<1>1. TurnInv(Slope, Offset) => DriftNotNegativeInDoubt
  BY SamplesBracket, TurnDrift
<1> QED
  BY <1>1, TinyTurn, PTL

---------------------------------------------------------------------------
(* The bound on the points stored *)

AtMost(S, n) == IsFiniteSet(S) /\ Cardinality(S) <= n

LEMMA InsertAtMost ==
  ASSUME NEW S, NEW p, NEW n \in Nat, AtMost(S, n)
  PROVE  AtMost(Insert(S, p), n + 1)
<1>1. IsFiniteSet(S) /\ Cardinality(S) \in Nat
  BY FS_CardinalityType DEF AtMost
<1>2. /\ IsFiniteSet(S \cup {p})
      /\ Cardinality(S \cup {p}) <= Cardinality(S) + 1
  BY <1>1, FS_AddElement
<1>3. Cardinality(S \cup {p}) \in Nat
  BY <1>2, FS_CardinalityType
<1> QED
  BY <1>1, <1>2, <1>3 DEF Insert, AtMost

LEMMA PairAtMost ==
  ASSUME NEW S, NEW a, NEW b
  PROVE  AtMost(S \cap {a, b}, 2)
<1>1. IsFiniteSet({a}) /\ Cardinality({a}) = 1
  BY FS_Singleton
<1>2. IsFiniteSet({a} \cup {b}) /\ Cardinality({a} \cup {b}) <= 2
  BY <1>1, FS_AddElement
<1>3. S \cap {a, b} \subseteq {a} \cup {b}
  OBVIOUS
<1>4. /\ IsFiniteSet(S \cap {a, b})
      /\ Cardinality(S \cap {a, b}) <= Cardinality({a} \cup {b})
  BY <1>2, <1>3, FS_Subset
<1>5. Cardinality(S \cap {a, b}) \in Nat /\ Cardinality({a} \cup {b}) \in Nat
  BY <1>2, <1>4, FS_CardinalityType
<1> QED
  BY <1>2, <1>4, <1>5 DEF AtMost

\* The counter goes up by one, or from its last value to zero.
LEMMA Counts ==
  ASSUME processed_timestamps \in 0..(CounterLimit - 1)
  PROVE  \/ processed_timestamps < CounterLimit - 1 /\ Increment = processed_timestamps + 1
         \/ processed_timestamps = CounterLimit - 1 /\ Increment = 0
<1>1. CounterLimit \in Nat /\ CounterLimit > 2
  BY ParametersAssumption
<1> QED
  BY <1>1 DEF Increment

BoundedInv == /\ processed_timestamps \in 0..(CounterLimit - 1)
              /\ AtMost(low_points, Allowed)
              /\ AtMost(high_points, Allowed)

(***************************************************************************)
(* TinySync stores at most two points of either kind after a call that     *)
(* recalculates, and at most four while processed_timestamps passes zero.  *)
(***************************************************************************)
THEOREM TinyPointsBounded == TinySpec => []TinyBounded
<1>1. BaseInit => BoundedInv
  <2> SUFFICES ASSUME BaseInit PROVE BoundedInv
    OBVIOUS
  <2>1. AtMost({}, 3)
    BY FS_EmptySet DEF AtMost
  <2> QED
    BY <2>1, ParametersAssumption DEF BaseInit, BoundedInv, Allowed
<1>2. BoundedInv /\ [TinyNext]_baseVars => BoundedInv'
  <2> SUFFICES ASSUME BoundedInv, [TinyNext]_baseVars PROVE BoundedInv'
    OBVIOUS
  <2>1. ASSUME NEW s \in Samples, Arrives(s)
        PROVE  /\ processed_timestamps' \in 0..(CounterLimit - 1)
               /\ processed_timestamps' = 0 => Allowed' = 3 /\ Allowed = 2
               /\ processed_timestamps' = 1 => Allowed' = 4 /\ Allowed = 3
               /\ processed_timestamps' > 1 => Allowed' = 2
    BY <2>1, Counts, ParametersAssumption DEF Arrives, BoundedInv, Allowed
  <2>2. ASSUME NEW s \in Samples, Store(s) PROVE BoundedInv'
    <3>1. /\ processed_timestamps' \in 0..(CounterLimit - 1)
          /\ Allowed \in Nat /\ Allowed' = Allowed + 1
      BY <2>1, <2>2 DEF Store
    <3>2. /\ AtMost(low_points', Allowed + 1)
          /\ AtMost(high_points', Allowed + 1)
      BY <2>2, <3>1, InsertAtMost DEF Store, BoundedInv, LowPoints, HighPoints
    <3> QED
      BY <3>1, <3>2 DEF BoundedInv
  <2>3. ASSUME NEW s \in Samples, TinyRecalculate(s) PROVE BoundedInv'
    <3>1. processed_timestamps' \in 0..(CounterLimit - 1) /\ Allowed' = 2
      BY <2>1, <2>3 DEF TinyRecalculate, Recalculates
    <3>2. AtMost(low_points', 2) /\ AtMost(high_points', 2)
      BY <2>3, PairAtMost DEF TinyRecalculate, TinyCleanup, Prune, PinnedLow, PinnedHigh
    <3> QED
      BY <3>1, <3>2 DEF BoundedInv
  <2>4. CASE UNCHANGED baseVars
    BY <2>4 DEF baseVars, BoundedInv, Allowed
  <2> QED
    BY <2>2, <2>3, <2>4 DEF TinyNext
<1>3. BoundedInv => TinyBounded
  BY DEF BoundedInv, AtMost, TinyBounded
<1> QED
  BY <1>1, <1>2, <1>3, PTL DEF TinySpec

---------------------------------------------------------------------------
(* MiniSync *)

\* cleanup() keeps every pinned point and adds none.
LEMMA KeptPoints ==
  ASSUME NEW points, NEW slopes, NEW pinned, NEW sign
  PROVE  Kept(points, slopes, pinned, sign) \in Keeps(points, pinned)
<1>1. points \cap pinned \subseteq Stays(points, slopes, pinned, sign)
  BY DEF Stays
<1>2. points \cap pinned \subseteq Kept(points, slopes, pinned, sign)
  BY <1>1 DEF Kept
<1>3. Kept(points, slopes, pinned, sign) \subseteq points
  BY DEF Kept
<1> QED
  BY <1>2, <1>3 DEF Keeps

\* Every way a call of MiniSync ends is one that Base allows.
THEOREM MiniImplementsBase == MiniSpec => BaseSpec
<1>1. ASSUME NEW s \in Samples, MiniRecalculate(s) PROVE Recalculate(s)
  <2>1. Recalculates(s)
    BY <1>1 DEF MiniRecalculate
  <2>2. /\ KeptLow(s) \in Keeps(LowPoints(s), PinnedLow')
        /\ KeptHigh(s) \in Keeps(HighPoints(s), PinnedHigh')
    BY KeptPoints DEF KeptLow, KeptHigh
  <2>3. CASE MiniCleanup(s) /\ Publish
    <3>1. low_points' = KeptLow(s) /\ high_points' = KeptHigh(s)
      BY <2>3 DEF MiniCleanup, Prune
    <3>2. Prune(s, low_points', high_points')
      BY <2>3, <3>1 DEF MiniCleanup
    <3> QED
      BY <2>1, <2>2, <2>3, <3>1, <3>2 DEF Recalculate
  <2>4. CASE MiniLowThrows(s)
    <3>1. low_points' = KeptLow(s) /\ high_points' = HighPoints(s)
      BY <2>4 DEF MiniLowThrows, CleanupThrows
    <3>2. CleanupThrows(s, low_points', high_points')
      BY <2>4, <3>1 DEF MiniLowThrows
    <3>3. HighPoints(s) \in Keeps(HighPoints(s), PinnedHigh')
      BY DEF Keeps
    <3> QED
      BY <2>1, <2>2, <3>1, <3>2, <3>3 DEF Recalculate
  <2>5. CASE MiniHighThrows(s)
    <3>1. low_points' = KeptLow(s) /\ high_points' = KeptHigh(s)
      BY <2>5 DEF MiniHighThrows, CleanupThrows
    <3>2. CleanupThrows(s, low_points', high_points')
      BY <2>5, <3>1 DEF MiniHighThrows
    <3> QED
      BY <2>1, <2>2, <3>1, <3>2 DEF Recalculate
  <2> QED
    BY <1>1, <2>3, <2>4, <2>5 DEF MiniRecalculate
<1>2. [MiniNext]_miniVars => [BaseNext]_baseVars
  BY <1>1 DEF MiniNext, MiniStore, BaseNext, miniVars, baseVars
<1>3. MiniInit => BaseInit
  BY DEF MiniInit
<1> QED
  BY <1>2, <1>3, PTL DEF MiniSpec, BaseSpec

\* MiniSync's estimate brackets the true drift and offset, after calls that
\* threw as well.
THEOREM MiniSound == MiniSpec => []EstimateSound
<1> QED
  BY MiniImplementsBase, BaseSound, PTL

---------------------------------------------------------------------------
(* Types *)

SlopesTyped == \A p \in low_slopes \cup high_slopes : IsPoint(p[1]) /\ IsPoint(p[2])

\* A call adds slopes between points it stores, and forgets others.
LEMMA NextSlopesTyped ==
  ASSUME BaseInv(Slope, Offset), SlopesTyped, NEW s \in Samples,
         low_slopes' \subseteq LowSlopes(s), high_slopes' \subseteq HighSlopes(s)
  PROVE  SlopesTyped'
<1>1. PointsInv(Slope, Offset) /\ calls \in Nat
  BY DEF BaseInv, ControlInv
<1>2. /\ IsPoint(NewLow(s)) /\ \A p \in LowPoints(s) : IsPoint(p)
      /\ IsPoint(NewHigh(s)) /\ \A p \in HighPoints(s) : IsPoint(p)
  BY <1>1, SamplesBracket, NewPoints DEF Below, Above
<1>3. \A p \in LowSlopes(s) \cup HighSlopes(s) : IsPoint(p[1]) /\ IsPoint(p[2])
  BY <1>2 DEF LowSlopes, HighSlopes, NewSlopes, SlopesTyped
<1> QED
  BY <1>3 DEF SlopesTyped

\* Every variable of a MiniSync object keeps its type, also after calls that
\* threw.
THEOREM MiniTyped == MiniSpec => []MiniTypeOK
<1>1. MiniInit => SlopesTyped
  BY DEF MiniInit, SlopesTyped
<1>2. BaseInv(Slope, Offset) /\ SlopesTyped /\ [MiniNext]_miniVars => SlopesTyped'
  <2> SUFFICES ASSUME BaseInv(Slope, Offset), SlopesTyped, [MiniNext]_miniVars PROVE SlopesTyped'
    OBVIOUS
  <2>1. ASSUME NEW s \in Samples, MiniStore(s) PROVE SlopesTyped'
    BY <2>1, NextSlopesTyped DEF MiniStore
  <2>2. ASSUME NEW s \in Samples, MiniRecalculate(s) PROVE SlopesTyped'
    <3>1. low_slopes' \subseteq LowSlopes(s) /\ high_slopes' \subseteq HighSlopes(s)
      BY <2>2 DEF MiniRecalculate, MiniCleanup, MiniLowThrows, MiniHighThrows, Forget
    <3> QED
      BY <3>1, NextSlopesTyped
  <2>3. CASE UNCHANGED miniVars
    BY <2>3 DEF miniVars, SlopesTyped
  <2> QED
    BY <2>1, <2>2, <2>3 DEF MiniNext
<1>3. MiniSpec => []BaseInv(Slope, Offset)
  BY MiniImplementsBase, BaseInvariant, PTL
<1>4. MiniSpec => []TypeOK
  BY MiniImplementsBase, BaseTyped, PTL
<1>5. TypeOK /\ SlopesTyped => MiniTypeOK
  BY DEF MiniTypeOK, SlopesTyped
<1> QED
  BY <1>1, <1>2, <1>3, <1>4, <1>5, PTL DEF MiniSpec

\* However samples are ordered, every usable pair of the stored points has
\* its line in a cache, and after a cleanup() that ends there is no other.
THEOREM MiniCacheComplete == MiniSpec => []CacheComplete
<1> QED
  BY MiniImplementsBase, BaseCacheComplete, PTL

\* The caches of MiniSync are bounded by the points it keeps.
THEOREM MiniCachePruned == MiniSpec => []CachePruned
<1> QED
  BY MiniImplementsBase, BaseCachePruned, PTL

---------------------------------------------------------------------------
(* A failed check for the missing pair is for good *)

\* Of some points one is the earliest.
LEMMA Earliest ==
  ASSUME NEW T, T # {}, \A p \in T : p.x \in Nat
  PROVE  \E p \in T : \A q \in T : p.x <= q.x
<1> DEFINE times == {p.x : p \in T}
<1>1. times \subseteq Nat /\ times # {}
  OBVIOUS
<1>2. PICK x \in times : \A y \in times : ~(<<y, x>> \in OpToRel(<, Nat))
  <2> HIDE DEF times
  <2> QED
    BY <1>1, NatLessThanWellFounded, WFMin
<1>3. ASSUME NEW y \in times PROVE x <= y
  <2> HIDE DEF times
  <2>1. x \in Nat /\ y \in Nat
    BY <1>1, <1>2, <1>3
  <2>2. ~(y < x)
    BY <1>2, <1>3, <2>1 DEF OpToRel
  <2> QED
    BY <2>1, <2>2
<1> QED
  BY <1>3

(***************************************************************************)
(* What stays is what is pinned and what the search for a bend, or for a   *)
(* slope that is not cached, ends at, among earlier points that stay.  The *)
(* recursion of Stays has a solution, the union of all sets of points each *)
(* of which stays if the others do; and it is one, whichever is chosen.    *)
(***************************************************************************)
LEMMA StaysFixed ==
  ASSUME NEW points, NEW slopes, NEW pinned, NEW sign, NEW j \in points
  PROVE  j \in Stays(points, slopes, pinned, sign) <=>
           \/ j \in pinned
           \/ Ends({i \in Stays(points, slopes, pinned, sign) : i.x < j.x},
                   points, slopes, j, sign) # {}
<1> DEFINE Found(earlier, n) == n \in pinned \/ Ends(earlier, points, slopes, n, sign) # {}
           Body(f, n) == Found({i \in points : i.x < n.x /\ f[i]}, n)
           stays == CHOOSE f : f = [n \in points |-> Body(f, n)]
           F(X) == {n \in points : Found({i \in X : i.x < n.x}, n)}
           largest == UNION {X \in SUBSET points : X \subseteq F(X)}
           solution == [n \in points |-> n \in largest]
<1>1. ASSUME NEW X, NEW Y, X \subseteq Y PROVE F(X) \subseteq F(Y)
  BY <1>1 DEF Ends
<1>2. largest \subseteq points /\ F(largest) \subseteq points
  OBVIOUS
<1>3. largest = F(largest)
  <2> HIDE DEF F
  <2>1. \A X \in SUBSET points : X \subseteq F(X) => X \subseteq largest
    OBVIOUS
  <2>2. largest \subseteq F(largest)
    <3> SUFFICES ASSUME NEW X \in SUBSET points, X \subseteq F(X) PROVE X \subseteq F(largest)
      OBVIOUS
    <3>1. X \subseteq largest
      BY <2>1
    <3> HIDE DEF largest
    <3> QED
      BY <1>1, <3>1
  <2> HIDE DEF largest
  <2>3. F(largest) \subseteq F(F(largest))
    BY <1>1, <2>2
  <2> QED
    BY <1>2, <2>1, <2>2, <2>3
<1>4. solution = [n \in points |-> Body(solution, n)]
  <2>1. \A i \in points : solution[i] = (i \in largest)
    OBVIOUS
  <2>2. ASSUME NEW n \in points PROVE (n \in largest) = Body(solution, n)
    <3>1. {i \in points : i.x < n.x /\ solution[i]} = {i \in largest : i.x < n.x}
      <4> HIDE DEF largest, solution
      <4> QED
        BY <1>2, <2>1
    <3>2. n \in F(largest) <=> Found({i \in largest : i.x < n.x}, n)
      <4> HIDE DEF largest, Found
      <4> QED
        OBVIOUS
    <3>3. /\ Body(solution, n) \in BOOLEAN
          /\ Found({i \in largest : i.x < n.x}, n) \in BOOLEAN
      OBVIOUS
    <3> HIDE DEF largest, F, solution, Found
    <3>4. Body(solution, n) = Found({i \in largest : i.x < n.x}, n)
      BY <3>1
    <3> HIDE DEF Body
    <3> QED
      BY <1>3, <3>2, <3>3, <3>4
  <2> HIDE DEF Body, largest
  <2> QED
    BY <2>2
<1>5. stays = [n \in points |-> Body(stays, n)]
  <2> HIDE DEF Body, solution
  <2> QED
    BY <1>4
<1>6. Stays(points, slopes, pinned, sign) = {n \in points : n \in pinned \/ stays[n]}
  BY DEF Stays
<1> HIDE DEF stays
<1>7. \A n \in points : stays[n] = Body(stays, n)
  <2> HIDE DEF Body
  <2> QED
    BY <1>5
<1>8. \A n \in points : n \in Stays(points, slopes, pinned, sign) <=> stays[n]
  BY <1>6, <1>7
<1>9. {i \in points : i.x < j.x /\ stays[i]} = {i \in Stays(points, slopes, pinned, sign) : i.x < j.x}
  BY <1>6, <1>8
<1> QED
  BY <1>7, <1>8, <1>9

\* Without a pinned point nothing stays: the earliest has none before it.
LEMMA NothingStays ==
  ASSUME NEW points, NEW slopes, NEW pinned, NEW sign,
         points \cap pinned = {}, \A p \in points : p.x \in Nat
  PROVE  /\ Kept(points, slopes, pinned, sign) = {}
         /\ Throwers(points, slopes, pinned, sign) = {}
<1> DEFINE stay == Stays(points, slopes, pinned, sign)
<1>1. \A earlier, j : earlier = {} => Ends(earlier, points, slopes, j, sign) = {}
  BY DEF Ends
<1>2. stay \subseteq points
  BY DEF Stays
<1>3. stay = {}
  <2> SUFFICES ASSUME stay # {} PROVE FALSE
    OBVIOUS
  <2> HIDE DEF stay
  <2>1. PICK j \in stay : \A q \in stay : j.x <= q.x
    BY <1>2, Earliest
  <2>2. {i \in stay : i.x < j.x} = {}
    BY <1>2, <2>1
  <2>3. j \in points /\ (j \in pinned \/ Ends({i \in stay : i.x < j.x}, points, slopes, j, sign) # {})
    BY <1>2, StaysFixed DEF stay
  <2> QED
    BY <1>1, <2>2, <2>3
<1>4. Throwers(points, slopes, pinned, sign) = {}
  BY <1>1, <1>3 DEF Throwers
<1> QED
  BY <1>3, <1>4 DEF Kept

\* An erased point between two others is no bend, if the first is pinned.
LEMMA ErasedNoBend ==
  ASSUME NEW points, NEW slopes, NEW pinned, NEW sign,
         NEW q \in points \ Stays(points, slopes, pinned, sign),
         NEW i \in points \cap pinned, NEW k \in points, i.x < q.x, q.x < k.x
  PROVE  ~Bends(i, q, k, sign)
<1>1. i \in Stays(points, slopes, pinned, sign)
  BY DEF Stays
<1>2. <<i, k>> \notin Ends({n \in Stays(points, slopes, pinned, sign) : n.x < q.x},
                          points, slopes, q, sign)
  BY StaysFixed
<1> QED
  BY <1>1, <1>2 DEF Ends, After

\* After such a failure nothing is stored.
NullInv == outcome = "null" =>
             /\ low_constraint_pts = NoPair
             /\ low_points = {} /\ high_points = {}
             /\ low_constraints = {} /\ high_constraints = {}

\* A call that finds no pair erases all points, fails, and leaves nothing.
LEMMA NoPairErases ==
  ASSUME BaseInv(Slope, Offset), NEW s \in Samples, MiniRecalculate(s), low_constraint_pts' = NoPair
  PROVE  outcome' = "null" /\ NullInv'
<1>1. Recalculates(s) /\ Arrives(s) /\ Select(s)
  BY DEF MiniRecalculate, Recalculates
<1>2. high_constraint_pts' = NoPair
  BY <1>1, SamplesBracket, SelectInv, NotNoPair DEF CurrentInv
<1>3. PinnedLow' = {NoPoint} /\ PinnedHigh' = {NoPoint}
  BY <1>2 DEF PinnedLow, PinnedHigh, NoPair
<1>4. \A p \in LowPoints(s) \cup HighPoints(s) : p.x \in Nat /\ p.id \in 1..(calls + 1)
  BY SamplesBracket, NewPoints DEF BaseInv, ControlInv, Below, Above, IsPoint
<1>5. NoPoint \notin LowPoints(s) \cup HighPoints(s)
  BY <1>4 DEF NoPoint, Point
<1>6. /\ KeptLow(s) = {} /\ KeptHigh(s) = {}
      /\ ~LowThrows(s) /\ ~HighThrows(s)
  BY <1>3, <1>4, <1>5, NothingStays DEF KeptLow, KeptHigh, LowThrows, HighThrows
<1>7. Prune(s, {}, {}) /\ Publish
  BY <1>6 DEF MiniRecalculate, MiniCleanup, MiniLowThrows, MiniHighThrows
<1>8. outcome' = "null"
  BY <1>7 DEF Publish
<1> QED
  BY <1>7, <1>8 DEF NullInv, Prune

\* And so the next call, which has no other points to pair its own with.
LEMMA NoneToPair ==
  ASSUME NullInv, outcome = "null", NEW s \in Samples, Select(s)
  PROVE  low_constraint_pts' = NoPair
<1>1. /\ NewPairs(s) = {<<NewLow(s), NewHigh(s)>>}
      /\ NewLow(s).x = NewHigh(s).x /\ NewLow(s).x \in Nat
  BY SamplesAssumption DEF NullInv, NewPairs, LowPoints, Insert, NewLow, NewHigh, Point
<1>2. LowConstraints(s) = {}
  BY <1>1 DEF NullInv, LowConstraints
<1>3. Improvements(s) = {}
  BY <1>2 DEF Improvements
<1> QED
  BY <1>3 DEF NullInv, Select, Tightest

LEMMA NullSteps ==
  ASSUME BaseInv(Slope, Offset), NullInv, [MiniNext]_miniVars
  PROVE  /\ NullInv'
         /\ outcome = "null" /\ processed_timestamps' > 1 => outcome' = "null"
<1>1. ASSUME NEW s \in Samples, MiniStore(s) PROVE outcome' = "stored" /\ processed_timestamps' <= 1
  BY <1>1 DEF MiniStore, Store
<1>2. ASSUME NEW s \in Samples, MiniRecalculate(s)
      PROVE  NullInv' /\ (outcome = "null" => outcome' = "null")
  <2>1. low_constraint_pts' = NoPair => outcome' = "null" /\ NullInv'
    BY <1>2, NoPairErases
  <2>2. outcome' = "null" => low_constraint_pts' = NoPair
    BY <1>2 DEF MiniRecalculate, MiniLowThrows, MiniHighThrows, CleanupThrows, Publish
  <2>3. outcome = "null" => low_constraint_pts' = NoPair
    BY <1>2, NoneToPair DEF MiniRecalculate, Recalculates
  <2>4. NullInv'
    BY <2>1, <2>2 DEF NullInv
  <2> QED
    BY <2>1, <2>3, <2>4
<1>3. CASE UNCHANGED miniVars
  BY <1>3 DEF miniVars, NullInv
<1>4. ASSUME NEW s \in Samples, MiniStore(s) PROVE ~(processed_timestamps' > 1)
  <2>1. processed_timestamps' \in Nat /\ processed_timestamps' <= 1
    BY <1>4, <1>1, ArrivesInv DEF BaseInv, MiniStore, Store
  <2> QED
    BY <2>1
<1> QED
  BY <1>1, <1>2, <1>3, <1>4 DEF MiniNext, NullInv

(***************************************************************************)
(* Once a call of MiniSync has failed for want of a pair, every later call *)
(* does, whatever the sample, until the counter has wrapped around.        *)
(***************************************************************************)
THEOREM MiniFailedForGood == MiniSpec => FailedForGood
<1>1. MiniInit => NullInv
  BY DEF MiniInit, BaseInit, NullInv
<1>2. BaseInv(Slope, Offset) /\ NullInv /\ [MiniNext]_miniVars => NullInv'
  BY NullSteps
<1>3. BaseInv(Slope, Offset) /\ NullInv /\ [MiniNext]_miniVars =>
        [outcome = "null" /\ processed_timestamps' > 1 => outcome' = "null"]_baseVars
  BY NullSteps
<1>4. MiniSpec => []BaseInv(Slope, Offset)
  BY MiniImplementsBase, BaseInvariant, PTL
<1> QED
  BY <1>1, <1>2, <1>3, <1>4, PTL DEF MiniSpec, FailedForGood

---------------------------------------------------------------------------
(* The slope caches, with samples in time order *)

SlopeInv == /\ StoredInv
            /\ SlopesCached
            /\ LookupsSucceed

\* The loop finds every slope it looks up among those of ordered pairs.
LEMMA CachedNoThrow ==
  ASSUME NEW points, NEW pinned, NEW sign, \A p \in points : p.x \in Nat
  PROVE  Throwers(points, OrderedPairs(points), pinned, sign) = {}
<1>1. Stays(points, OrderedPairs(points), pinned, sign) \subseteq points
  BY DEF Stays
<1>2. ASSUME NEW i \in points, NEW j \in points, NEW k \in After(points, j), i.x < j.x
      PROVE  ~Uncached(OrderedPairs(points), i, j, k)
  BY <1>2 DEF Uncached, OrderedPairs, After
<1> QED
  BY <1>1, <1>2 DEF Throwers, Ends

\* Forgetting the slopes of the erased points leaves those of the others.
LEMMA ForgetErased ==
  ASSUME NEW points, NEW kept, kept \subseteq points
  PROVE  Forget(OrderedPairs(points), points \ kept) = OrderedPairs(kept)
BY DEF Forget, OrderedPairs

\* A later point gets a slope to each point in the set.
LEMMA LaterSlopes ==
  ASSUME NEW points, NEW p, p.x \in Nat,
         \A q \in points : q.x \in Nat /\ q.x < p.x
  PROVE  OrderedPairs(points) \cup NewSlopes(points \cup {p}, p)
           = OrderedPairs(points \cup {p})
<1>1. OrderedPairs(points \cup {p}) \subseteq OrderedPairs(points) \cup NewSlopes(points \cup {p}, p)
  BY DEF OrderedPairs, NewSlopes
<1>2. OrderedPairs(points) \cup NewSlopes(points \cup {p}, p) \subseteq OrderedPairs(points \cup {p})
  BY DEF OrderedPairs, NewSlopes
<1> QED
  BY <1>1, <1>2

\* Before cleanup() starts, the caches hold the slopes of all ordered pairs.
LEMMA NewSlopesCached ==
  ASSUME SlopeInv, NEW s, InTurn(s)
  PROVE  /\ LowSlopes(s) = OrderedPairs(LowPoints(s))
         /\ HighSlopes(s) = OrderedPairs(HighPoints(s))
<1>1. /\ s.tb \in Nat /\ NewLow(s).x = s.tb /\ NewHigh(s).x = s.tb
      /\ \A p \in low_points \cup high_points : p.x \in Nat /\ p.x < s.tb
      /\ LowPoints(s) = low_points \cup {NewLow(s)}
      /\ HighPoints(s) = high_points \cup {NewHigh(s)}
  BY LaterSample DEF SlopeInv, StoredInv, IsPoint, InTurn
<1>2. low_slopes = OrderedPairs(low_points) /\ high_slopes = OrderedPairs(high_points)
  BY DEF SlopeInv, SlopesCached
<1>3. OrderedPairs(low_points) \cup NewSlopes(low_points \cup {NewLow(s)}, NewLow(s))
        = OrderedPairs(low_points \cup {NewLow(s)})
  BY <1>1, LaterSlopes
<1>4. OrderedPairs(high_points) \cup NewSlopes(high_points \cup {NewHigh(s)}, NewHigh(s))
        = OrderedPairs(high_points \cup {NewHigh(s)})
  BY <1>1, LaterSlopes
<1> QED
  BY <1>1, <1>2, <1>3, <1>4 DEF LowSlopes, HighSlopes

LEMMA MiniStoreSlopes ==
  ASSUME SlopeInv, NEW s, InTurn(s), MiniStore(s)
  PROVE  SlopeInv'
<1>1. Store(s)
  BY DEF MiniStore
<1>2. StoredInv'
  BY <1>1, StoreStored DEF SlopeInv
<1>3. SlopesCached'
  BY <1>1, NewSlopesCached DEF MiniStore, Store, SlopesCached
<1> QED
  BY <1>1, <1>2, <1>3 DEF Store, SlopeInv, LookupsSucceed

\* No look-up throws, so that the call runs to its end.
LEMMA MiniCompletes ==
  ASSUME SlopeInv, NEW s, InTurn(s), MiniRecalculate(s)
  PROVE  MiniCleanup(s) /\ Completes(s)
<1>1. Recalculates(s)
  BY DEF MiniRecalculate
<1>2. \A p \in LowPoints(s) \cup HighPoints(s) : p.x \in Nat
  BY LaterSample DEF SlopeInv, StoredInv, IsPoint
<1>3. ~LowThrows(s) /\ ~HighThrows(s)
  BY <1>2, NewSlopesCached, CachedNoThrow DEF LowThrows, HighThrows
<1>4. MiniCleanup(s) /\ Publish
  BY <1>3 DEF MiniRecalculate, MiniLowThrows, MiniHighThrows
<1>5. low_points' = KeptLow(s) /\ high_points' = KeptHigh(s)
  BY <1>4 DEF MiniCleanup, Prune
<1>6. /\ low_points' \in Keeps(LowPoints(s), PinnedLow')
      /\ high_points' \in Keeps(HighPoints(s), PinnedHigh')
  BY <1>5, KeptPoints DEF KeptLow, KeptHigh
<1>7. Prune(s, low_points', high_points')
  BY <1>4, <1>5 DEF MiniCleanup
<1> QED
  BY <1>1, <1>4, <1>6, <1>7 DEF Completes

LEMMA MiniRecalculateSlopes ==
  ASSUME SlopeInv, NEW s, InTurn(s), MiniRecalculate(s)
  PROVE  SlopeInv'
<1>1. MiniCleanup(s) /\ Completes(s)
  BY MiniCompletes
<1>2. StoredInv'
  BY <1>1, CompletesStored DEF SlopeInv
<1>3. low_points' = KeptLow(s) /\ high_points' = KeptHigh(s)
  BY <1>1 DEF MiniCleanup, Prune
<1>4. KeptLow(s) \subseteq LowPoints(s) /\ KeptHigh(s) \subseteq HighPoints(s)
  BY <1>1, <1>3 DEF Completes, Keeps
<1>5. /\ low_slopes' = OrderedPairs(KeptLow(s))
      /\ high_slopes' = OrderedPairs(KeptHigh(s))
  BY <1>1, <1>4, NewSlopesCached, ForgetErased DEF MiniCleanup
<1>6. SlopesCached'
  BY <1>3, <1>5 DEF SlopesCached, OrderedPairs
<1> QED
  BY <1>1, <1>2, <1>6 DEF Completes, Publish, SlopeInv, LookupsSucceed

LEMMA InitSlopes == MiniInit => SlopeInv
BY InitStored DEF MiniInit, BaseInit, SlopeInv, SlopesCached, OrderedPairs, LookupsSucceed

LEMMA StutterSlopes ==
  ASSUME SlopeInv, UNCHANGED miniVars
  PROVE  SlopeInv'
BY DEF miniVars, SlopeInv, StoredInv, OrderInv, SlopesCached, OrderedPairs, LookupsSucceed

LEMMA SlopeInvariant ==
  ASSUME Ordered
  PROVE  MiniSpec => []SlopeInv
<1>1. MiniInit => SlopeInv
  BY InitSlopes
<1>2. SlopeInv /\ [MiniNext]_miniVars => SlopeInv'
  <2> SUFFICES ASSUME SlopeInv, [MiniNext]_miniVars PROVE SlopeInv'
    OBVIOUS
  <2>1. ASSUME NEW s \in Samples, MiniStore(s) PROVE SlopeInv'
    BY <2>1, OrderedInTurn, MiniStoreSlopes DEF MiniStore, Store
  <2>2. ASSUME NEW s \in Samples, MiniRecalculate(s) PROVE SlopeInv'
    BY <2>2, OrderedInTurn, MiniRecalculateSlopes DEF MiniRecalculate, Recalculates
  <2>3. CASE UNCHANGED miniVars
    BY <2>3, StutterSlopes
  <2> QED
    BY <2>1, <2>2, <2>3 DEF MiniNext
<1> QED
  BY <1>1, <1>2, PTL DEF MiniSpec

(***************************************************************************)
(* With samples in time order the slope caches hold exactly the slopes of  *)
(* the ordered pairs of stored points.                                     *)
(***************************************************************************)
THEOREM MiniSlopesCached ==
  ASSUME Ordered
  PROVE  MiniSpec => []SlopesCached
<1>1. SlopeInv => SlopesCached
  BY DEF SlopeInv
<1> QED
  BY <1>1, SlopeInvariant, PTL

\* Samples in time order never make cleanup() throw.
THEOREM MiniLookupsSucceed ==
  ASSUME Ordered
  PROVE  MiniSpec => []LookupsSucceed
<1>1. SlopeInv => LookupsSucceed
  BY DEF SlopeInv
<1> QED
  BY <1>1, SlopeInvariant, PTL

\* The current constraints and the points they rest on are still stored.
THEOREM MiniCurrentStored ==
  ASSUME Ordered
  PROVE  MiniSpec => []CurrentStored
<1>1. SlopeInv => CurrentStored
  BY DEF SlopeInv, StoredInv, CurrentStored
<1> QED
  BY <1>1, SlopeInvariant, PTL

---------------------------------------------------------------------------
(* The estimates of MiniSync, with samples in time order *)

\* A call stores, or its cleanup() runs to its end.
LEMMA MiniSteps ==
  ASSUME Ordered, SlopeInv, NEW s \in Samples, MiniStore(s) \/ MiniRecalculate(s)
  PROVE  Brackets(s, Slope, Offset) /\ InTurn(s) /\ (Store(s) \/ Completes(s))
<1>1. Arrives(s)
  BY DEF MiniStore, Store, MiniRecalculate, Recalculates
<1>2. Brackets(s, Slope, Offset) /\ InTurn(s)
  BY <1>1, SamplesBracket, OrderedInTurn
<1> QED
  BY <1>2, MiniCompletes DEF MiniStore

LEMMA MiniTurn ==
  ASSUME Ordered
  PROVE  MiniSpec => []TurnInv(Slope, Offset)
<1>1. MiniInit => TurnInv(Slope, Offset)
  BY SamplesBracket, InitTurn DEF MiniInit
<1>2. SlopeInv /\ TurnInv(Slope, Offset) /\ [MiniNext]_miniVars => TurnInv(Slope, Offset)'
  <2>1. CASE UNCHANGED miniVars
    BY <2>1, SamplesBracket, StutterTurn DEF miniVars, baseVars
  <2> QED
    BY <2>1, SamplesBracket, MiniSteps, StoreTurn, CompletesTurn DEF MiniNext
<1> QED
  BY <1>1, <1>2, SlopeInvariant, PTL DEF MiniSpec

(***************************************************************************)
(* With samples in time order neither error of MiniSync's estimate grows,  *)
(* as long as an error is left in both, although it minimises the product. *)
(***************************************************************************)
THEOREM MiniErrorsNeverGrow ==
  ASSUME Ordered
  PROVE  MiniSpec => ErrorsNeverGrow
<1>1. SlopeInv /\ TurnInv(Slope, Offset) /\ [MiniNext]_miniVars =>
        [estimate # NoEstimate /\ diff_factor'.n > 0 => NoWorse(estimate, estimate')]_baseVars
  <2>1. UNCHANGED miniVars => UNCHANGED baseVars
    BY DEF miniVars, baseVars
  <2> QED
    BY <2>1, SamplesBracket, MiniSteps, TurnNoWorse DEF MiniNext
<1> QED
  BY <1>1, SlopeInvariant, MiniTurn, PTL DEF MiniSpec, ErrorsNeverGrow

\* The drift of MiniSync is not negative while an error is left in both
\* values or the high constraint rests on a point after reference time 0.
THEOREM MiniDriftNotNegative ==
  ASSUME Ordered
  PROVE  MiniSpec => []DriftNotNegativeInDoubt
<1>1. TurnInv(Slope, Offset) => DriftNotNegativeInDoubt
  BY SamplesBracket, TurnDrift
<1> QED
  BY <1>1, MiniTurn, PTL
=============================================================================
