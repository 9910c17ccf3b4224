------------------------------- MODULE System -------------------------------
(***************************************************************************)
(* A session (Session) whose SyncNode feeds MiniSync (MiniSync), as        *)
(* main.cpp sets it up: each completed round becomes two calls of          *)
(* addDataPoint, and a call that fails ends the program.  The demo is      *)
(* always built with Loguru (CMakeLists.txt).                              *)
(***************************************************************************)
EXTENDS Session

CONSTANTS CounterLimit, MaxCalls

ASSUME SystemAssumption == CounterLimit \in Nat /\ CounterLimit > 2 /\ MaxCalls \in Nat

VARIABLES
  low_points, high_points, low_constraints, high_constraints,
  low_constraint_pts, high_constraint_pts, diff_factor,
  processed_timestamps, estimate, outcome, calls, last,
  low_slopes, high_slopes,
  pending   \* the data points of the last round not yet added

\* What a round adds is not chosen from a set, nor assumed to be in order.
Mini == INSTANCE MiniSync WITH
          Samples <- {}, Slope <- 1, Offset <- 0, Ordered <- FALSE, Loguru <- TRUE

algoVars == <<low_points, high_points, low_constraints, high_constraints,
              low_constraint_pts, high_constraint_pts, diff_factor,
              processed_timestamps, estimate, outcome, calls, last,
              low_slopes, high_slopes>>
systemVars == <<vars, algoVars, pending>>

SystemInit == Init /\ Mini!MiniInit /\ pending = <<>>

\* Mutant: the times of the reference are added in the other order.
DataPointsReversed(s) == <<[to |-> s.to, tb |-> s.tbt, tr |-> s.tr],
                           [to |-> s.to, tb |-> s.tbr, tr |-> s.tr]>>

DataPoints(s) == <<[to |-> s.to, tb |-> s.tbr, tr |-> s.tr],
                   [to |-> s.to, tb |-> s.tbt, tr |-> s.tr]>>

CompleteRound ==
  /\ RecvBeaconReply
  /\ pending' = DataPoints(sample')
  /\ UNCHANGED algoVars

Failures == {"null", "drift", "out_of_range"}

\* A failed check aborts the program, an exception of the algorithm leaves
\* run().
AddDataPoint ==
  /\ pending # <<>>
  /\ Mini!MiniStore(Head(pending)) \/ Mini!MiniRecalculate(Head(pending))
  /\ sync_pc' = IF outcome' \in Failures THEN "failed" ELSE sync_pc
  /\ pending' = IF outcome' \in Failures THEN <<>> ELSE Tail(pending)
  /\ UNCHANGED <<now, netVars, peer_addr, sync_start, seq, t_i, to, recv_since, sample, refVars>>

\* What else happens does not touch the algorithm, so that it makes no
\* difference when it happens: the calls of a round come at once.
SystemNext ==
  \/ AddDataPoint
  \/ pending = <<>> /\ CompleteRound
  \/ pending = <<>> /\ (SyncAttempts \/ RefNext \/ NetworkNext) /\ UNCHANGED <<algoVars, pending>>

SystemSpec == SystemInit /\ [][SystemNext]_systemVars

---------------------------------------------------------------------------
(***************************************************************************)
(* End to end: the clocks of both nodes run at the same rate here, and     *)
(* started at their own times.  The drift of 1 and the difference of the   *)
(* starts are always within the errors the SyncNode publishes              *)
(* (node.cpp:426-437), unless a stray datagram spoilt a sample.            *)
(***************************************************************************)
EstimateHolds ==
  estimate # Mini!NoEstimate /\ strays = 0 =>
    /\ Mini!Within(estimate.den, estimate.drift, estimate.driftError)
    /\ Mini!Within((ref_start - sync_start) * estimate.den, estimate.offset, estimate.offsetError)

(***************************************************************************)
(* The samples of a session never make the algorithm fail, though both     *)
(* points of the first round have the same local times and give a drift of *)
(* exactly zero (minisync.cpp:157-180).  A stray datagram may: the sample  *)
(* it spoils need not bracket the truth, the lines through it may cross    *)
(* those of the others, and the drift between them may be negative.        *)
(***************************************************************************)
NeverFails == strays = 0 => outcome \notin Failures

(***************************************************************************)
(* The calls a session makes (node.cpp:423-424) are in the order the       *)
(* algorithm assumes (SyncBase!Ordered, minisync.cpp:118), two to a round, *)
(* unless another program sent a beacon or a reply to one.                 *)
(***************************************************************************)
CallsInOrder ==
  [][(strays = 0 \/ NoForeignRounds) /\ calls' # calls /\ calls > 0 =>
       Mini!InTimeOrder(last')]_systemVars
=============================================================================
