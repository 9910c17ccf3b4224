---------------------------- MODULE OptimalSync ----------------------------
(***************************************************************************)
(* What MiniSync promises: the estimate an algorithm would give that never *)
(* forgot a sample.  Every call adds a sample, and from the second on the  *)
(* estimate is that of a tightest pair of lines through any points so far. *)
(***************************************************************************)
EXTENDS Constraints

CONSTANTS Samples, FirstEstimate

VARIABLES samples, estimate

optVars == <<samples, estimate>>

OptInit == samples = {} /\ estimate = FirstEstimate

Earlier(seen) == {p \in seen \X seen : p[1].tb < p[2].tb}

LowLine(s, t) == Line([x |-> s.tb, y |-> s.to], [x |-> t.tb, y |-> t.tr])
HighLine(s, t) == Line([x |-> t.tb, y |-> t.to], [x |-> s.tb, y |-> s.tr])

Tightest(seen) ==
  LET lows  == {LowLine(p[1], p[2]) : p \in Earlier(seen)}
      highs == {HighLine(p[1], p[2]) : p \in Earlier(seen)}
      gaps  == {Gap(u, v) : u \in lows, v \in highs}
  IN  {c \in lows \X highs : \A g \in gaps : ~Less(g, Gap(c[1], c[2]))}

Add(s) ==
  /\ samples' = samples \cup {s}
  /\ \/ samples = {} /\ UNCHANGED estimate
     \/ samples # {} /\ estimate' \in {Midpoint(c[1], c[2]) : c \in Tightest(samples')}

OptNext == \E s \in Samples : Add(s)

OptSpec == OptInit /\ [][OptNext]_optVars
=============================================================================
