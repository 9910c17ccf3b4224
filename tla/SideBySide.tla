----------------------------- MODULE SideBySide -----------------------------
(***************************************************************************)
(* TinySync and MiniSync fed with the same samples (tests/tests.cpp,       *)
(* "TinySync and MiniSync side by side"), with the samples remembered.     *)
(***************************************************************************)
EXTENDS MiniSync

VARIABLES
  tiny_low_points, tiny_high_points, tiny_low_constraints, tiny_high_constraints,
  tiny_low_constraint_pts, tiny_high_constraint_pts, tiny_diff_factor,
  tiny_estimate, tiny_outcome,
  samples                              \* all samples added

\* TinySync; the two count alike and were given the same sample last.
Tiny == INSTANCE TinySync WITH
  low_points <- tiny_low_points, high_points <- tiny_high_points,
  low_constraints <- tiny_low_constraints, high_constraints <- tiny_high_constraints,
  low_constraint_pts <- tiny_low_constraint_pts,
  high_constraint_pts <- tiny_high_constraint_pts,
  diff_factor <- tiny_diff_factor, estimate <- tiny_estimate, outcome <- tiny_outcome

sideVars == <<miniVars, Tiny!baseVars, samples>>

SideInit == MiniInit /\ Tiny!BaseInit /\ samples = {}

\* Each algorithm has maps of its own, walked in an order of their own, so that
\* each may choose another of the pairs that are equally tight.
AddBoth(s) ==
  /\ MiniStore(s) \/ MiniRecalculate(s)
  /\ Tiny!Store(s) \/ Tiny!TinyRecalculate(s)
  /\ samples' = samples \cup {s}

SideNext == \E s \in Samples : AddBoth(s)

SideSpec == SideInit /\ [][SideNext]_sideVars

---------------------------------------------------------------------------
(***************************************************************************)
(* MiniSync throws points away for good, yet its estimate is always one    *)
(* the algorithm that keeps them all could give: the test on bends in      *)
(* cleanup() (minisync.cpp:320-340, 362-403) erases no point that a later  *)
(* sample could make part of the tightest pair.                            *)
(***************************************************************************)
Optimal == INSTANCE OptimalSync WITH FirstEstimate <- NoEstimate
MiniOptimal == Optimal!OptSpec

(***************************************************************************)
(* "MiniSync should always give an equal OR better result compared to      *)
(* TinySync" (tests.cpp:91), each error on its own as the test has it.     *)
(***************************************************************************)
MiniNoWorse == tiny_estimate # NoEstimate => NoWorse(tiny_estimate, estimate)

(***************************************************************************)
(* It does as long as both errors are positive.  A sample without any      *)
(* delay can make one error zero, and with it the product the algorithms   *)
(* minimise; among the pairs whose product is zero they take any.          *)
(***************************************************************************)
MiniNoWorseInDoubt == diff_factor.n > 0 => MiniNoWorse
=============================================================================
