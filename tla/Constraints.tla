---------------------------- MODULE Constraints ----------------------------
(***************************************************************************)
(* Data points and constraint lines (libminisyncpp/constraints.{h,cpp}).   *)
(*                                                                         *)
(* The code's us_t is a long double count of microseconds.  Here a         *)
(* timestamp is an integer in any unit, and a quotient of timestamps is    *)
(* kept as an exact numerator and a positive denominator: rounding is not  *)
(* modelled.  A constraint line y = A*x + B is [a, b, d] with A = a/d and  *)
(* B = b/d, so that everything compared below is an integer.               *)
(***************************************************************************)
EXTENDS Integers

(***************************************************************************)
(* A LowPoint or HighPoint behind its shared_ptr: two objects with equal   *)
(* coordinates are different points, so a point carries an identity.       *)
(***************************************************************************)
Point(id, x, y) == [id |-> id, x |-> x, y |-> y]

\* A null shared_ptr, and a default-constructed pair of them.
NoPoint == Point(0, 0, 0)
NoPair == <<NoPoint, NoPoint>>

\* ConstraintLine(p1, p2), for a low point l and a high point h with l.x # h.x.
Line(l, h) ==
  LET s  == IF l.x < h.x THEN 1 ELSE -1
      dx == s * (h.x - l.x)
      dy == s * (h.y - l.y)
  IN  [a |-> dy, b |-> l.y * dx - dy * l.x, d |-> dx]

---------------------------------------------------------------------------
\* The order of two quotients [n, d]; std::numeric_limits<long double>::max().
Less(p, q) == p.n * q.d < q.n * p.d
Infinity == [n |-> 1, d |-> 0]

(***************************************************************************)
(* (A_low - A_high) * (B_high - B_low), what the algorithms minimise, for  *)
(* the lines u (upper slope, lower offset) and v (lower slope, upper       *)
(* offset).                                                                *)
(***************************************************************************)
Gap(u, v) == [n |-> (u.a * v.d - v.a * u.d) * (v.b * u.d - u.b * v.d),
              d |-> (u.d * v.d) * (u.d * v.d)]

(***************************************************************************)
(* currentDrift and currentOffset, value and error, over one denominator.  *)
(***************************************************************************)
Midpoint(u, v) == [drift       |-> u.a * v.d + v.a * u.d,
                   driftError  |-> u.a * v.d - v.a * u.d,
                   offset      |-> u.b * v.d + v.b * u.d,
                   offsetError |-> v.b * u.d - u.b * v.d,
                   den         |-> 2 * (u.d * v.d)]

LineOf(pair) == Line(pair[1], pair[2])
Difference(low, high) == Gap(LineOf(low), LineOf(high))
Estimate(low, high) == Midpoint(LineOf(low), LineOf(high))
=============================================================================
