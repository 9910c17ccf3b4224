------------------------------ MODULE TinySync ------------------------------
(***************************************************************************)
(* Algorithms::TinySync (libminisyncpp/minisync.cpp): cleanup() keeps only *)
(* the points of the two current constraints.                              *)
(***************************************************************************)
EXTENDS SyncBase, FiniteSets

\* Mutant: the loop over the high points is missing.
TinyCleanupLow(s) == Prune(s, LowPoints(s) \cap PinnedLow', HighPoints(s))

\* Mutant: the newest point is all that is kept of the high points.
TinyCleanupNew(s) == Prune(s, LowPoints(s) \cap PinnedLow', HighPoints(s) \cap {NewHigh(s)})

\* The two erasing loops and the rebuilding of the constraint maps.
TinyCleanup(s) ==
  Prune(s, LowPoints(s) \cap PinnedLow', HighPoints(s) \cap PinnedHigh')

TinyRecalculate(s) == Recalculates(s) /\ TinyCleanup(s) /\ Publish

TinyNext == \E s \in Samples : Store(s) \/ TinyRecalculate(s)

TinySpec == BaseInit /\ [][TinyNext]_baseVars
---------------------------------------------------------------------------
(***************************************************************************)
(* The memory TinySync promises to need: two points of either kind after   *)
(* every call that recalculates, whatever the number of samples, and two   *)
(* more while processed_timestamps passes through zero.                    *)
(***************************************************************************)
Allowed == CASE processed_timestamps = 0 -> 3
             [] processed_timestamps = 1 -> 4
             [] OTHER -> 2

TinyBounded == Cardinality(low_points) <= Allowed /\ Cardinality(high_points) <= Allowed
=============================================================================
