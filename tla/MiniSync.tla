------------------------------ MODULE MiniSync ------------------------------
(***************************************************************************)
(* Algorithms::MiniSync (libminisyncpp/minisync.cpp): cleanup() also keeps *)
(* every point whose neighbours bend the right way, judged by a cache of   *)
(* the slopes between points.  The slope maps are modelled by their keys,  *)
(* the pairs <<older point, newer point>>.                                 *)
(***************************************************************************)
EXTENDS SyncBase

VARIABLES low_slopes, high_slopes

slopeVars == <<low_slopes, high_slopes>>
miniVars == <<low_points, high_points, low_constraints, high_constraints,
              low_constraint_pts, high_constraint_pts, diff_factor,
              processed_timestamps, estimate, outcome, calls, last,
              low_slopes, high_slopes>>

MiniInit == BaseInit /\ low_slopes = {} /\ high_slopes = {}

\* Mutant: the new point comes first in the key.
NewSlopesReversed(points, p) == {p} \X {q \in points : q.x # p.x}

\* The pairs addLowPoint and addHighPoint cache a slope for: every point of
\* the set at another reference time, with the new one second.
NewSlopes(points, p) == {q \in points : q.x # p.x} \X {p}
LowSlopes(s) == low_slopes \cup NewSlopes(LowPoints(s), NewLow(s))
HighSlopes(s) == high_slopes \cup NewSlopes(HighPoints(s), NewHigh(s))

---------------------------------------------------------------------------
(* cleanup(): one loop over the points in time order, for either set.      *)
(* sign is 1 for low points, which bend where M(i,j) > M(j,k), and -1 for  *)
(* high points, which bend where M(i,j) < M(j,k).                          *)

Bends(i, j, k, sign) ==
  sign * ((j.y - i.y) * (k.x - j.x) - (k.y - j.y) * (j.x - i.x)) > 0

\* slopes.at() throws for one of the two slopes compared.
Uncached(slopes, i, j, k) == <<i, j>> \notin slopes \/ <<j, k>> \notin slopes

After(points, j) == {k \in points : k.x > j.x}

\* The pairs (i, k) at which the search for a bend at j ends.
Ends(earlier, points, slopes, j, sign) ==
  {p \in earlier \X After(points, j) :
     Uncached(slopes, p[1], j, p[2]) \/ Bends(p[1], j, p[2], sign)}

\* Mutant: the points of the current constraints are tested like all others.
StaysBent(points, slopes, pinned, sign) ==
  LET stays[j \in points] ==
        Ends({i \in points : i.x < j.x /\ stays[i]}, points, slopes, j, sign) # {}
  IN  {j \in points : stays[j]}

\* The points the loop leaves in the set.  Those it has erased before it
\* comes to j are not compared with j any more, which the comment at
\* minisync.cpp:320-323 does not say.
Stays(points, slopes, pinned, sign) ==
  LET stays[j \in points] ==
        \/ j \in pinned
        \/ Ends({i \in points : i.x < j.x /\ stays[i]}, points, slopes, j, sign) # {}
  IN  {j \in points : j \in pinned \/ stays[j]}

\* The points at which an uncached slope comes first in the search.
Throwers(points, slopes, pinned, sign) ==
  LET stay == Stays(points, slopes, pinned, sign)
      Search(j) == Ends({i \in stay : i.x < j.x}, points, slopes, j, sign)
      Before(p, q) == p[1].x < q[1].x \/ (p[1] = q[1] /\ p[2].x < q[2].x)
  IN  {j \in points \ pinned :
         \E p \in Search(j) : /\ Uncached(slopes, p[1], j, p[2])
                              /\ \A q \in Search(j) : ~Before(q, p)}

\* Mutant: MiniSync keeps what TinySync keeps.
KeptPinned(points, slopes, pinned, sign) == points \cap pinned

\* Mutant: without current constraints nothing is erased.
KeptUntilPinned(points, slopes, pinned, sign) ==
  IF points \cap pinned = {} THEN points ELSE Stays(points, slopes, pinned, sign)

\* The set when the loop ends, or when the first thrower stops it.
Kept(points, slopes, pinned, sign) ==
  LET stay == Stays(points, slopes, pinned, sign)
      throwers == Throwers(points, slopes, pinned, sign)
  IN  {j \in points : j \in stay \/ \E t \in throwers : t.x <= j.x}

\* Mutant: a slope goes with its second point only.
ForgetSecond(slopes, erased) == {p \in slopes : p[2] \notin erased}

\* Erasing a point erases its slopes.
Forget(slopes, erased) == {p \in slopes : p[1] \notin erased /\ p[2] \notin erased}

KeptLow(s) == Kept(LowPoints(s), LowSlopes(s), PinnedLow', 1)
KeptHigh(s) == Kept(HighPoints(s), HighSlopes(s), PinnedHigh', -1)

LowThrows(s) == Throwers(LowPoints(s), LowSlopes(s), PinnedLow', 1) # {}
HighThrows(s) == Throwers(HighPoints(s), HighSlopes(s), PinnedHigh', -1) # {}

---------------------------------------------------------------------------
MiniStore(s) ==
  /\ Store(s)
  /\ low_slopes' = LowSlopes(s)
  /\ high_slopes' = HighSlopes(s)

MiniCleanup(s) ==
  /\ ~LowThrows(s)
  /\ ~HighThrows(s)
  /\ low_slopes' = Forget(LowSlopes(s), LowPoints(s) \ KeptLow(s))
  /\ high_slopes' = Forget(HighSlopes(s), HighPoints(s) \ KeptHigh(s))
  /\ Prune(s, KeptLow(s), KeptHigh(s))

\* slopes.at() throws among the low points: the high points are untouched.
MiniLowThrows(s) ==
  /\ LowThrows(s)
  /\ low_slopes' = Forget(LowSlopes(s), LowPoints(s) \ KeptLow(s))
  /\ high_slopes' = HighSlopes(s)
  /\ CleanupThrows(s, KeptLow(s), HighPoints(s))

\* It throws among the high points, after the low points are done.
MiniHighThrows(s) ==
  /\ ~LowThrows(s)
  /\ HighThrows(s)
  /\ low_slopes' = Forget(LowSlopes(s), LowPoints(s) \ KeptLow(s))
  /\ high_slopes' = Forget(HighSlopes(s), HighPoints(s) \ KeptHigh(s))
  /\ CleanupThrows(s, KeptLow(s), KeptHigh(s))

MiniRecalculate(s) ==
  /\ Recalculates(s)
  /\ \/ MiniCleanup(s) /\ Publish
     \/ MiniLowThrows(s)
     \/ MiniHighThrows(s)

MiniNext == \E s \in Samples : MiniStore(s) \/ MiniRecalculate(s)

MiniSpec == MiniInit /\ [][MiniNext]_miniVars
---------------------------------------------------------------------------
\* The slope caches hold pairs of points.
MiniTypeOK ==
  /\ TypeOK
  /\ \A p \in low_slopes \cup high_slopes : IsPoint(p[1]) /\ IsPoint(p[2])

(***************************************************************************)
(* cleanup() looks slopes up with at() (minisync.cpp:331, 380) without     *)
(* asking whether they are there.  With samples in time order they always  *)
(* are: a slope is cached for exactly the ordered pairs of stored points.  *)
(***************************************************************************)
OrderedPairs(points) == {p \in points \X points : p[1].x < p[2].x}

SlopesCached == /\ low_slopes = OrderedPairs(low_points)
                /\ high_slopes = OrderedPairs(high_points)

\* And so no call ends with the std::out_of_range of minisync.cpp:331 or 380.
LookupsSucceed == outcome # "out_of_range"
=============================================================================
