----------------------------- MODULE MCSamples -----------------------------
(***************************************************************************)
(* The data points the runs use: the times of the reference's clock, and   *)
(* the delays on either side of the true local time.                       *)
(***************************************************************************)
EXTENDS SyncBase

CONSTANTS Times, Delays

MCSamples ==
  {[to |-> Truth(t) - i, tb |-> t, tr |-> Truth(t) + j] :
     t \in Times, i \in Delays, j \in Delays}
=============================================================================
