-------------------------- MODULE SideBySideProofs --------------------------
(***************************************************************************)
(* What MiniSync forgets is of no use to it: with samples in time order,   *)
(* and until the counter wraps around, its estimate is one that the        *)
(* algorithm which keeps all samples could give, and so no worse than that *)
(* of TinySync.                                                            *)
(***************************************************************************)
EXTENDS SideBySide, CleanupProofs

---------------------------------------------------------------------------
(* Lines that are as good *)

AsLow(u, w) == NoSteeper(u, w) /\ NoLower(u, w)
AsHigh(u, w) == NoSteeper(w, u) /\ NoLower(w, u)

\* Quotients p / P, q / Q, and r / R are ordered transitively.
LEMMA Ratios ==
  ASSUME NEW p \in Int, NEW q \in Int, NEW r \in Int,
         NEW P \in Int, NEW Q \in Int, NEW R \in Int, P >= 0, Q > 0, R >= 0,
         p * Q <= q * P, q * R <= r * Q
  PROVE  p * R <= r * P
<1>1. (p * Q) * R <= (q * P) * R
  BY Multiply
<1>2. (q * R) * P <= (r * Q) * P
  BY Multiply
<1>3. (p * R) * Q <= (r * P) * Q
  BY <1>1, <1>2
<1> SUFFICES ASSUME r * P < p * R PROVE FALSE
  OBVIOUS
<1>4. (r * P) * Q < (p * R) * Q
  BY MultiplyStrictly
<1> QED
  BY <1>3, <1>4

LEMMA AsLowTrans ==
  ASSUME NEW u, NEW w, NEW z, IsLine(u), IsLine(w), IsLine(z), AsLow(u, w), AsLow(w, z)
  PROVE  AsLow(u, z)
<1> DEFINE ua == u.a
           ub == u.b
           ud == u.d
           wa == w.a
           wb == w.b
           wd == w.d
           za == z.a
           zb == z.b
           zd == z.d
<1>1. /\ ua \in Int /\ ub \in Int /\ ud \in Int /\ ud > 0
      /\ wa \in Int /\ wb \in Int /\ wd \in Int /\ wd > 0
      /\ za \in Int /\ zb \in Int /\ zd \in Int /\ zd > 0
  BY DEF IsLine
<1>2. /\ ua * wd <= wa * ud /\ wa * zd <= za * wd
      /\ zb * wd <= wb * zd /\ wb * ud <= ub * wd
  BY DEF AsLow, NoSteeper, NoLower
<1> HIDE DEF ua, ub, ud, wa, wb, wd, za, zb, zd
<1>3. ud >= 0 /\ zd >= 0
  BY <1>1
<1>4. ua * zd <= za * ud
  BY <1>1, <1>2, <1>3, Ratios
<1>5. zb * ud <= ub * zd
  BY <1>1, <1>2, <1>3, Ratios
<1> QED
  BY <1>4, <1>5 DEF AsLow, NoSteeper, NoLower, ua, ub, ud, za, zb, zd

\* A line to a later point, and where it starts, taken from either end.
LEMMA LineTo ==
  ASSUME NEW p, NEW h, p.x \in Int, p.y \in Int, h.x \in Int, h.y \in Int, p.x < h.x
  PROVE  /\ IsLine(LineOf(<<p, h>>))
         /\ LineOf(<<p, h>>).a = h.y - p.y
         /\ LineOf(<<p, h>>).d = h.x - p.x
         /\ LineOf(<<p, h>>).b = p.y * (h.x - p.x) - (h.y - p.y) * p.x
         /\ LineOf(<<p, h>>).b = h.y * (h.x - p.x) - (h.y - p.y) * h.x
<1> DEFINE px == p.x
           py == p.y
           hx == h.x
           hy == h.y
<1>1. LineOf(<<p, h>>) = [a |-> hy - py, b |-> py * (hx - px) - (hy - py) * px, d |-> hx - px]
  BY DEF LineOf, Line
<1>2. px \in Int /\ py \in Int /\ hx \in Int /\ hy \in Int /\ px < hx
  OBVIOUS
<1> HIDE DEF px, py, hx, hy
<1>3. /\ hy - py \in Int /\ hx - px \in Int /\ hx - px > 0
      /\ py * (hx - px) - (hy - py) * px \in Int
  BY <1>2
<1>4. py * (hx - px) - (hy - py) * px = hy * (hx - px) - (hy - py) * hx
  BY <1>2
<1> QED
  BY <1>1, <1>3, <1>4 DEF IsLine, px, py, hx, hy

\* Of two lines to one point the less steep one also starts higher.
LEMMA SameEnd ==
  ASSUME NEW p, NEW q, NEW h, p.x \in Int, p.y \in Int, q.x \in Int, q.y \in Int,
         h.x \in Nat, h.y \in Int, p.x < h.x, q.x < h.x,
         (h.y - p.y) * (h.x - q.x) <= (h.y - q.y) * (h.x - p.x)
  PROVE  AsLow(LineOf(<<p, h>>), LineOf(<<q, h>>))
<1> DEFINE a == h.y - p.y
           d == h.x - p.x
           e == h.y - q.y
           f == h.x - q.x
           x == h.x
           y == h.y
<1>1. /\ LineOf(<<p, h>>).a = a /\ LineOf(<<p, h>>).d = d /\ LineOf(<<p, h>>).b = y * d - a * x
      /\ LineOf(<<q, h>>).a = e /\ LineOf(<<q, h>>).d = f /\ LineOf(<<q, h>>).b = y * f - e * x
  BY LineTo
<1>2. /\ a \in Int /\ d \in Int /\ e \in Int /\ f \in Int /\ x \in Int /\ y \in Int /\ x >= 0
      /\ a * f <= e * d
  OBVIOUS
<1> HIDE DEF a, d, e, f, x, y
<1>3. (a * f) * x <= (e * d) * x
  BY <1>2, Multiply
<1>4. (y * f - e * x) * d <= (y * d - a * x) * f
  BY <1>2, <1>3
<1> QED
  BY <1>1, <1>2, <1>4 DEF AsLow, NoSteeper, NoLower
---------------------------------------------------------------------------
(* Points that are of no use                                               *)
(*                                                                         *)
(* low and high are the current constraints, q a low point, and h a high   *)
(* point that comes later than all of these.                               *)

\* Not before the low point of the high constraint, and so below its line.
LEMMA UselessAfter ==
  ASSUME NEW m \in Int, NEW k \in Int, NEW high, HighKey(high, m, k),
         NEW q, Below(q, m, k), NEW h, Above(h, m, k), q.x < h.x, high[1].x <= q.x,
         AsHigh(LineOf(high), LineOf(<<q, high[2]>>))
  PROVE  AsLow(LineOf(<<high[1], h>>), LineOf(<<q, h>>))
<1> DEFINE cx == high[1].x
           cy == high[1].y
           dx == high[2].x
           dy == high[2].y
           qx == q.x
           qy == q.y
           hx == h.x
           hy == h.y
<1>1. /\ cx \in Nat /\ cy \in Int /\ dx \in Nat /\ dy \in Int /\ dx < cx
      /\ qx \in Nat /\ qy \in Int /\ hx \in Nat /\ hy \in Int /\ cx <= qx /\ qx < hx
      /\ cy <= m * cx + k /\ m * dx + k <= dy /\ m * hx + k <= hy
  BY DEF HighKey, Below, Above, IsPoint
<1>2. /\ LineOf(high).a = cy - dy /\ LineOf(high).d = cx - dx
      /\ LineOf(<<q, high[2]>>).a = qy - dy /\ LineOf(<<q, high[2]>>).d = qx - dx
  BY <1>1 DEF LineOf, Line
<1>3. (qy - dy) * (cx - dx) <= (cy - dy) * (qx - dx)
  BY <1>2 DEF AsHigh, NoSteeper
<1> HIDE DEF cx, cy, dx, dy, qx, qy, hx, hy
<1>4. (qy - cy) * (cx - dx) <= (cy - dy) * (qx - cx)
  BY <1>1, <1>3
<1>5. (cy - dy) * (hx - cx) <= (hy - cy) * (cx - dx)
  <2>1. cy - dy <= m * (cx - dx)
    BY <1>1
  <2>2. m * (hx - cx) <= hy - cy
    BY <1>1
  <2>3. (cy - dy) * (hx - cx) <= (m * (cx - dx)) * (hx - cx)
    BY <1>1, <2>1, Multiply
  <2>4. (m * (hx - cx)) * (cx - dx) <= (hy - cy) * (cx - dx)
    BY <1>1, <2>2, Multiply
  <2> QED
    BY <1>1, <2>3, <2>4
<1>6. (qy - cy) * (hx - cx) <= (hy - cy) * (qx - cx)
  <2> DEFINE A == qy - cy
             B == cy - dy
             C == hy - cy
             P == qx - cx
             Q == cx - dx
             R == hx - cx
  <2>1. /\ A \in Int /\ B \in Int /\ C \in Int /\ P \in Int /\ Q \in Int /\ R \in Int
        /\ P >= 0 /\ Q > 0 /\ R >= 0
    BY <1>1
  <2>2. A * Q <= B * P /\ B * R <= C * Q
    BY <1>4, <1>5
  <2> HIDE DEF A, B, C, P, Q, R
  <2>3. A * R <= C * P
    BY <2>1, <2>2, Ratios
  <2> QED
    BY <2>3 DEF A, C, P, R
<1>7. (hy - cy) * (hx - qx) <= (hy - qy) * (hx - cx)
  BY <1>1, <1>6
<1> QED
  BY <1>1, <1>7, SameEnd DEF cx, cy, qx, qy, hx, hy

\* Between two points whose line passes above it.
LEMMA UselessBetween ==
  ASSUME NEW a, NEW q, NEW c, NEW h, IsPoint(a), IsPoint(q), IsPoint(c), IsPoint(h),
         a.x < q.x, q.x < c.x, c.x < h.x, ~Bends(a, q, c, 1)
  PROVE  \/ AsLow(LineOf(<<a, h>>), LineOf(<<q, h>>))
         \/ AsLow(LineOf(<<c, h>>), LineOf(<<q, h>>))
<1> DEFINE A  == q.x - a.x
           ay == q.y - a.y
           C  == c.x - q.x
           cy == c.y - q.y
           H  == h.x - q.x
           hy == h.y - q.y
<1>1. /\ A \in Int /\ ay \in Int /\ C \in Int /\ cy \in Int /\ H \in Int /\ hy \in Int
      /\ A > 0 /\ C > 0 /\ H > 0
  BY DEF IsPoint
<1>2. ay * C <= cy * A
  <2>1. ay * C \in Int /\ cy * A \in Int
    BY <1>1
  <2>2. ~(1 * (ay * C - cy * A) > 0)
    BY DEF Bends
  <2> HIDE DEF A, ay, C, cy
  <2> QED
    BY <2>1, <2>2
<1>3. ay * H <= hy * A \/ hy * C <= cy * H
  <2> HIDE DEF A, ay, C, cy, H, hy
  <2> SUFFICES ASSUME hy * A < ay * H, cy * H < hy * C PROVE FALSE
    BY <1>1
  <2>1. (hy * A) * C < (ay * H) * C
    BY <1>1, MultiplyStrictly
  <2>2. (cy * H) * A < (hy * C) * A
    BY <1>1, MultiplyStrictly
  <2>3. (ay * C) * H <= (cy * A) * H
    BY <1>1, <1>2, Multiply
  <2> QED
    BY <1>1, <2>1, <2>2, <2>3
<1>4. CASE ay * H <= hy * A
  <2>1. h.y - a.y = hy + ay /\ h.x - a.x = H + A
    BY DEF IsPoint
  <2>2. (hy + ay) * H <= hy * (H + A)
    <3> HIDE DEF A, ay, H, hy
    <3> QED
      BY <1>1, <1>4
  <2>3. (h.y - a.y) * (h.x - q.x) <= (h.y - q.y) * (h.x - a.x)
    BY <2>1, <2>2
  <2> QED
    BY <2>3, SameEnd DEF IsPoint
<1>5. CASE hy * C <= cy * H
  <2>1. h.y - c.y = hy - cy /\ h.x - c.x = H - C
    BY DEF IsPoint
  <2>2. (hy - cy) * H <= hy * (H - C)
    <3> HIDE DEF C, cy, H, hy
    <3> QED
      BY <1>1, <1>5
  <2>3. (h.y - c.y) * (h.x - q.x) <= (h.y - q.y) * (h.x - c.x)
    BY <2>1, <2>2
  <2> QED
    BY <2>3, SameEnd DEF IsPoint
<1> QED
  BY <1>3, <1>4, <1>5

\* Not after the low point of the low constraint, and so below its line.
LEMMA UselessBefore ==
  ASSUME NEW m \in Int, NEW k \in Int, NEW low, LowKey(low, m, k),
         NEW q, IsPoint(q), NEW h, IsPoint(h), q.x <= low[1].x, low[2].x < h.x,
         AsLow(LineOf(low), LineOf(<<q, low[2]>>))
  PROVE  \/ AsLow(LineOf(low), LineOf(<<q, h>>))
         \/ AsLow(LineOf(<<low[1], h>>), LineOf(<<q, h>>))
<1> DEFINE x  == q.x
           y  == q.y
           Q  == low[1].x - q.x
           qy == low[1].y - q.y
           B  == low[2].x - low[1].x
           by == low[2].y - low[1].y
           H  == h.x - low[1].x
           hy == h.y - low[1].y
<1>1. /\ x \in Int /\ y \in Int /\ Q \in Int /\ qy \in Int
      /\ B \in Int /\ by \in Int /\ H \in Int /\ hy \in Int
      /\ x >= 0 /\ Q >= 0 /\ B > 0 /\ H > 0
  BY DEF LowKey, Below, Above, IsPoint
<1>2. /\ low[1].x = x + Q /\ low[1].y = y + qy /\ low[2].x - q.x = B + Q /\ low[2].y - q.y = by + qy
      /\ h.x - q.x = H + Q /\ h.y - q.y = hy + qy
  BY DEF LowKey, Below, Above, IsPoint
<1>3. /\ IsLine(LineOf(low)) /\ LineOf(low).a = by /\ LineOf(low).d = B
      /\ LineOf(low).b = (y + qy) * B - by * (x + Q)
  <2>1. /\ IsLine(LineOf(low)) /\ LineOf(low).a = by /\ LineOf(low).d = B
        /\ LineOf(low).b = low[1].y * LineOf(low).d - LineOf(low).a * low[1].x
    BY LowLine, LowRise, LowStart
  <2> QED
    BY <1>2, <2>1
<1>4. LineOf(<<q, low[2]>>).a = by + qy /\ LineOf(<<q, low[2]>>).d = B + Q
  BY <1>2, LineTo DEF LowKey, Below, Above, IsPoint
<1>5. /\ LineOf(<<q, h>>).a = hy + qy /\ LineOf(<<q, h>>).d = H + Q
      /\ LineOf(<<q, h>>).b = y * (H + Q) - (hy + qy) * x
  BY <1>2, LineTo DEF LowKey, Below, Above, IsPoint
<1>6. by * (B + Q) <= (by + qy) * B
  BY <1>3, <1>4 DEF AsLow, NoSteeper
<1>7. by * Q <= qy * B
  <2> HIDE DEF Q, qy, B, by
  <2> QED
    BY <1>1, <1>6
<1>8. CASE hy * B <= by * H
  <2>1. hy * Q <= qy * H
    <3> HIDE DEF Q, qy, B, by, H, hy
    <3>1. H >= 0
      BY <1>1
    <3> QED
      BY <1>1, <1>7, <1>8, <3>1, Ratios
  <2>2. hy * (H + Q) <= (hy + qy) * H
    <3> HIDE DEF Q, qy, H, hy
    <3> QED
      BY <1>1, <2>1
  <2>3. (h.y - low[1].y) * (h.x - q.x) <= (h.y - q.y) * (h.x - low[1].x)
    BY <1>2, <2>2
  <2> QED
    BY <2>3, SameEnd DEF LowKey, Below, Above, IsPoint
<1>9. CASE by * H <= hy * B
  <2> HIDE DEF x, y, Q, qy, B, by, H, hy
  <2>1. by * (H + Q) <= (hy + qy) * B
    BY <1>1, <1>7, <1>9
  <2>2. (y * (H + Q) - (hy + qy) * x) * B <= ((y + qy) * B - by * (x + Q)) * (H + Q)
    <3>1. (by * (H + Q)) * x <= ((hy + qy) * B) * x
      BY <1>1, <2>1, Multiply
    <3>2. (by * Q) * (H + Q) <= (qy * B) * (H + Q)
      BY <1>1, <1>7, Multiply
    <3> QED
      BY <1>1, <3>1, <3>2
  <2> QED
    BY <1>3, <1>5, <2>1, <2>2 DEF AsLow, NoSteeper, NoLower
<1> QED
  BY <1>1, <1>8, <1>9

\* A low point is of no use if it lies below the current lines where they have
\* been compared, and does not bend between their low points.
LEMMA UselessLow ==
  ASSUME NEW m \in Int, NEW k \in Int,
         NEW low, LowKey(low, m, k), NEW high, HighKey(high, m, k),
         NEW q, Below(q, m, k), NEW h, Above(h, m, k),
         q.x < h.x, low[2].x < h.x, high[1].x < h.x,
         q.x < low[2].x => AsLow(LineOf(low), LineOf(<<q, low[2]>>)),
         q.x > high[2].x => AsHigh(LineOf(high), LineOf(<<q, high[2]>>)),
         low[1].x < q.x /\ q.x < high[1].x => ~Bends(low[1], q, high[1], 1)
  PROVE  \/ AsLow(LineOf(low), LineOf(<<q, h>>))
         \/ \E p \in {low[1], high[1]} : AsLow(LineOf(<<p, h>>), LineOf(<<q, h>>))
<1>1. /\ IsPoint(low[1]) /\ IsPoint(low[2]) /\ IsPoint(high[1]) /\ IsPoint(high[2])
      /\ IsPoint(q) /\ IsPoint(h)
      /\ low[1].x < low[2].x /\ high[2].x < high[1].x
  BY DEF LowKey, HighKey, Below, Above
<1>2. CASE q.x <= low[1].x
  BY <1>1, <1>2, UselessBefore DEF IsPoint
<1>3. CASE high[1].x <= q.x
  BY <1>1, <1>3, UselessAfter DEF IsPoint
<1>4. CASE low[1].x < q.x /\ q.x < high[1].x
  BY <1>1, <1>4, UselessBetween
<1> QED
  BY <1>1, <1>2, <1>3, <1>4 DEF IsPoint
---------------------------------------------------------------------------
(* The same of high points, seen upside down *)

LEMMA FlippedLow ==
  ASSUME NEW m \in Int, NEW k \in Int, NEW c, LowKey(c, m, k)
  PROVE  HighKey(Flip(c), -m, -k) /\ LineOf(Flip(c)) = Down(LineOf(c))
<1> DEFINE x1 == c[1].x
           y1 == c[1].y
           x2 == c[2].x
           y2 == c[2].y
<1>1. /\ x1 \in Nat /\ y1 \in Int /\ x2 \in Nat /\ y2 \in Int /\ x1 < x2
      /\ y1 <= m * x1 + k /\ m * x2 + k <= y2
      /\ c[1].id \in Nat /\ c[2].id \in Nat
  BY DEF LowKey, Below, Above, IsPoint
<1>2. LineOf(c) = [a |-> y2 - y1, b |-> y1 * (x2 - x1) - (y2 - y1) * x1, d |-> x2 - x1]
  BY <1>1 DEF LineOf, Line
<1>3. LineOf(Flip(c)) =
        [a |-> (-y2) - (-y1), b |-> (-y2) * (x2 - x1) - ((-y2) - (-y1)) * x2, d |-> x2 - x1]
  BY <1>1 DEF LineOf, Line, Flip, Point
<1>4. (-m) * x1 = -(m * x1) /\ (-m) * x2 = -(m * x2)
  BY <1>1, Negated
<1>5. HighKey(Flip(c), -m, -k)
  BY <1>1, <1>4 DEF HighKey, Below, Above, IsPoint, Flip, Point
<1> HIDE DEF x1, y1, x2, y2
<1>6. (-y2) - (-y1) = -(y2 - y1)
  BY <1>1
<1>7. (-y2) * (x2 - x1) - ((-y2) - (-y1)) * x2 = -(y1 * (x2 - x1) - (y2 - y1) * x1)
  BY <1>1
<1> QED
  BY <1>2, <1>3, <1>5, <1>6, <1>7 DEF Down

LEMMA FlippedCompares ==
  ASSUME NEW u, NEW w, IsLine(u), IsLine(w)
  PROVE  /\ AsLow(Down(u), Down(w)) <=> AsHigh(u, w)
         /\ AsHigh(Down(u), Down(w)) <=> AsLow(u, w)
BY DownCompares DEF AsLow, AsHigh

LEMMA FlippedBends ==
  ASSUME NEW i, NEW j, NEW n, IsPoint(i), IsPoint(j), IsPoint(n)
  PROVE  Bends(Point(i.id, i.x, -i.y), Point(j.id, j.x, -j.y), Point(n.id, n.x, -n.y), 1)
           <=> Bends(i, j, n, -1)
<1> DEFINE a == j.y - i.y
           b == n.x - j.x
           c == n.y - j.y
           d == j.x - i.x
<1>1. a \in Int /\ b \in Int /\ c \in Int /\ d \in Int
  BY DEF IsPoint
<1>2. (-j.y) - (-i.y) = -a /\ (-n.y) - (-j.y) = -c
  BY DEF IsPoint
<1>3. 1 * ((-a) * b - (-c) * d) = (-1) * (a * b - c * d)
  <2> HIDE DEF a, b, c, d
  <2> QED
    BY <1>1
<1>4. Bends(Point(i.id, i.x, -i.y), Point(j.id, j.x, -j.y), Point(n.id, n.x, -n.y), 1)
        <=> 1 * (((-j.y) - (-i.y)) * b - ((-n.y) - (-j.y)) * d) > 0
  BY Zenon DEF Bends, Point
<1>5. Bends(i, j, n, -1) <=> (-1) * (a * b - c * d) > 0
  BY Zenon DEF Bends
<1> QED
  BY <1>2, <1>3, <1>4, <1>5, Zenon

LEMMA UselessHigh ==
  ASSUME NEW m \in Int, NEW k \in Int,
         NEW low, LowKey(low, m, k), NEW high, HighKey(high, m, k),
         NEW q, Above(q, m, k), NEW l, Below(l, m, k),
         q.x < l.x, low[2].x < l.x, high[1].x < l.x,
         q.x < high[1].x => AsHigh(LineOf(high), LineOf(<<high[1], q>>)),
         q.x > low[1].x => AsLow(LineOf(low), LineOf(<<low[1], q>>)),
         high[2].x < q.x /\ q.x < low[2].x => ~Bends(high[2], q, low[2], -1)
  PROVE  \/ AsHigh(LineOf(high), LineOf(<<l, q>>))
         \/ \E p \in {low[2], high[2]} : AsHigh(LineOf(<<l, p>>), LineOf(<<l, q>>))
<1> DEFINE Upside(p) == Point(p.id, p.x, -p.y)
<1>1. /\ IsPoint(low[1]) /\ IsPoint(low[2]) /\ IsPoint(high[1]) /\ IsPoint(high[2])
      /\ IsPoint(q) /\ IsPoint(l)
      /\ low[1].x < low[2].x /\ high[2].x < high[1].x
      /\ Below(low[1], m, k) /\ Above(low[2], m, k) /\ Below(high[1], m, k) /\ Above(high[2], m, k)
  BY DEF LowKey, HighKey, Below, Above
<1>2. -m \in Int /\ -k \in Int
  OBVIOUS
<1>3. \A a, b : Flip(<<a, b>>) = <<Upside(b), Upside(a)>>
  BY DEF Flip
<1>4. Flip(low) = <<Upside(low[2]), Upside(low[1])>> /\ Flip(high) = <<Upside(high[2]), Upside(high[1])>>
  BY DEF Flip
<1>5. /\ HighKey(Flip(low), -m, -k) /\ LineOf(Flip(low)) = Down(LineOf(low)) /\ IsLine(LineOf(low))
      /\ LowKey(Flip(high), -m, -k) /\ LineOf(Flip(high)) = Down(LineOf(high)) /\ IsLine(LineOf(high))
  BY FlippedLow, FlippedKey, LowLine, HighLine
<1>6. \A p : Upside(p).x = p.x
  BY DEF Point
<1>7. Below(Upside(q), -m, -k) /\ Above(Upside(l), -m, -k)
  <2>1. q.x \in Int /\ l.x \in Int
    BY <1>1 DEF IsPoint
  <2>2. (-m) * q.x = -(m * q.x) /\ (-m) * l.x = -(m * l.x)
    BY <2>1, Negated
  <2> QED
    BY <2>2 DEF Below, Above, IsPoint, Point
<1>8. ASSUME NEW p, NEW r, Below(p, m, k), Above(r, m, k), r.x < p.x
      PROVE  LineOf(<<Upside(r), Upside(p)>>) = Down(LineOf(<<p, r>>)) /\ IsLine(LineOf(<<p, r>>))
  <2>1. HighKey(<<p, r>>, m, k)
    BY <1>8 DEF HighKey, Below, Above, IsPoint
  <2> QED
    BY <1>3, <2>1, FlippedKey, HighLine
<1>9. q.x < high[1].x => AsLow(LineOf(Flip(high)), LineOf(<<Upside(q), Upside(high[1])>>))
  <2> SUFFICES ASSUME q.x < high[1].x
               PROVE  AsLow(LineOf(Flip(high)), LineOf(<<Upside(q), Upside(high[1])>>))
    OBVIOUS
  <2>1. /\ LineOf(<<Upside(q), Upside(high[1])>>) = Down(LineOf(<<high[1], q>>))
        /\ IsLine(LineOf(<<high[1], q>>))
    BY <1>1, <1>8
  <2> QED
    BY <1>5, <2>1, FlippedCompares
<1>10. q.x > low[1].x => AsHigh(LineOf(Flip(low)), LineOf(<<Upside(q), Upside(low[1])>>))
  <2> SUFFICES ASSUME q.x > low[1].x
               PROVE  AsHigh(LineOf(Flip(low)), LineOf(<<Upside(q), Upside(low[1])>>))
    OBVIOUS
  <2>1. LowKey(<<low[1], q>>, m, k)
    BY <1>1 DEF LowKey, IsPoint
  <2>2. /\ LineOf(<<Upside(q), Upside(low[1])>>) = Down(LineOf(<<low[1], q>>))
        /\ IsLine(LineOf(<<low[1], q>>))
    BY <1>3, <2>1, FlippedLow, LowLine
  <2> QED
    BY <1>5, <2>2, FlippedCompares
<1>11. high[2].x < q.x /\ q.x < low[2].x => ~Bends(Upside(high[2]), Upside(q), Upside(low[2]), 1)
  BY <1>1, FlippedBends
<1>12. \/ AsLow(LineOf(Flip(high)), LineOf(<<Upside(q), Upside(l)>>))
       \/ \E p \in {high[2], low[2]} :
            AsLow(LineOf(<<Upside(p), Upside(l)>>), LineOf(<<Upside(q), Upside(l)>>))
  <2> DEFINE low2 == Flip(high)
             high2 == Flip(low)
             q2 == Upside(q)
             h2 == Upside(l)
  <2>1. /\ low2[1] = Upside(high[2]) /\ low2[2] = Upside(high[1])
        /\ high2[1] = Upside(low[2]) /\ high2[2] = Upside(low[1])
    BY <1>4
  <2>2. /\ q2.x < h2.x /\ low2[2].x < h2.x /\ high2[1].x < h2.x
        /\ q2.x < low2[2].x => AsLow(LineOf(low2), LineOf(<<q2, low2[2]>>))
        /\ q2.x > high2[2].x => AsHigh(LineOf(high2), LineOf(<<q2, high2[2]>>))
        /\ low2[1].x < q2.x /\ q2.x < high2[1].x => ~Bends(low2[1], q2, high2[1], 1)
    BY <1>6, <1>9, <1>10, <1>11, <2>1
  <2> HIDE DEF low2, high2, q2, h2, Upside
  <2>3. /\ LowKey(low2, -m, -k) /\ HighKey(high2, -m, -k)
        /\ Below(q2, -m, -k) /\ Above(h2, -m, -k)
    BY <1>5, <1>7 DEF low2, high2, q2, h2
  <2>4. \/ AsLow(LineOf(low2), LineOf(<<q2, h2>>))
        \/ \E p \in {low2[1], high2[1]} : AsLow(LineOf(<<p, h2>>), LineOf(<<q2, h2>>))
    BY <1>2, <2>2, <2>3, UselessLow
  <2> QED
    BY <2>1, <2>4 DEF low2, high2, q2, h2
<1>13. /\ LineOf(<<Upside(q), Upside(l)>>) = Down(LineOf(<<l, q>>)) /\ IsLine(LineOf(<<l, q>>))
       /\ \A p \in {high[2], low[2]} :
            LineOf(<<Upside(p), Upside(l)>>) = Down(LineOf(<<l, p>>)) /\ IsLine(LineOf(<<l, p>>))
  <2>1. high[2].x < l.x
    BY <1>1 DEF IsPoint
  <2> QED
    BY <1>1, <1>8, <2>1
<1> HIDE DEF Upside
<1>14. CASE AsLow(LineOf(Flip(high)), LineOf(<<Upside(q), Upside(l)>>))
  BY <1>5, <1>13, <1>14, FlippedCompares
<1>15. CASE \E p \in {high[2], low[2]} :
              AsLow(LineOf(<<Upside(p), Upside(l)>>), LineOf(<<Upside(q), Upside(l)>>))
  <2>1. PICK p \in {high[2], low[2]} :
              AsLow(LineOf(<<Upside(p), Upside(l)>>), LineOf(<<Upside(q), Upside(l)>>))
    BY <1>15
  <2>2. AsHigh(LineOf(<<l, p>>), LineOf(<<l, q>>))
    BY <1>13, <2>1, FlippedCompares
  <2> QED
    BY <2>2
<1> QED
  BY <1>12, <1>14, <1>15
---------------------------------------------------------------------------
(* What is left serves as well as what was thrown away *)

\* The data points of a sample.
LowOf(s) == Point(0, s.tb, s.to)
HighOf(s) == Point(0, s.tb, s.tr)

\* No line from q to h, a point yet to come, is missed.
ServesLow(points, low, q, h) ==
  \/ low # NoPair /\ AsLow(LineOf(low), LineOf(<<q, h>>))
  \/ \E p \in points : AsLow(LineOf(<<p, h>>), LineOf(<<q, h>>))

ServesHigh(points, high, q, l) ==
  \/ high # NoPair /\ AsHigh(LineOf(high), LineOf(<<l, q>>))
  \/ \E p \in points : AsHigh(LineOf(<<l, p>>), LineOf(<<l, q>>))

LEMMA AsLowSelf ==
  ASSUME NEW u, IsLine(u)
  PROVE  AsLow(u, u) /\ AsHigh(u, u)
BY DEF IsLine, AsLow, AsHigh, NoSteeper, NoLower

LEMMA AsHighTrans ==
  ASSUME NEW u, NEW w, NEW z, IsLine(u), IsLine(w), IsLine(z), AsHigh(u, w), AsHigh(w, z)
  PROVE  AsHigh(u, z)
<1>1. AsLow(z, w) /\ AsLow(w, u)
  BY DEF AsLow, AsHigh
<1> QED
  BY <1>1, AsLowTrans DEF AsLow, AsHigh

\* A line depends on where its points lie only.
LEMMA SameLine ==
  ASSUME NEW p, NEW q, p.x = q.x, p.y = q.y, NEW a, NEW b, a.x = b.x, a.y = b.y
  PROVE  LineOf(<<p, a>>) = LineOf(<<q, b>>)
BY DEF LineOf, Line

LEMMA LowTo ==
  ASSUME NEW m \in Int, NEW k \in Int, NEW p, NEW h, Below(p, m, k), Above(h, m, k), p.x < h.x
  PROVE  LowKey(<<p, h>>, m, k) /\ IsLine(LineOf(<<p, h>>))
BY LowLine DEF LowKey

LEMMA HighFrom ==
  ASSUME NEW m \in Int, NEW k \in Int, NEW p, NEW l, Above(p, m, k), Below(l, m, k), p.x < l.x
  PROVE  HighKey(<<l, p>>, m, k) /\ IsLine(LineOf(<<l, p>>))
<1>1. HighKey(<<l, p>>, m, k)
  BY DEF HighKey, Above, Below, IsPoint
<1> QED
  BY <1>1, HighLine

\* What serves a point serves those that are no better.
LEMMA ServesLowTrans ==
  ASSUME NEW m \in Int, NEW k \in Int, NEW points, NEW low, NEW p, NEW q, NEW h,
         Above(h, m, k), Below(p, m, k), Below(q, m, k), p.x < h.x, q.x < h.x,
         \A r \in points : Below(r, m, k) /\ r.x < h.x,
         low # NoPair => LowKey(low, m, k),
         ServesLow(points, low, p, h), AsLow(LineOf(<<p, h>>), LineOf(<<q, h>>))
  PROVE  ServesLow(points, low, q, h)
<1>1. IsLine(LineOf(<<p, h>>)) /\ IsLine(LineOf(<<q, h>>))
  BY LowTo
<1>2. CASE low # NoPair /\ AsLow(LineOf(low), LineOf(<<p, h>>))
  BY <1>1, <1>2, LowLine, AsLowTrans DEF ServesLow
<1>3. ASSUME NEW r \in points, AsLow(LineOf(<<r, h>>), LineOf(<<p, h>>))
      PROVE  ServesLow(points, low, q, h)
  <2>1. IsLine(LineOf(<<r, h>>))
    BY LowTo
  <2>2. AsLow(LineOf(<<r, h>>), LineOf(<<q, h>>))
    BY <1>1, <1>3, <2>1, AsLowTrans
  <2> QED
    BY <2>2 DEF ServesLow
<1> QED
  BY <1>2, <1>3 DEF ServesLow

LEMMA ServesHighTrans ==
  ASSUME NEW m \in Int, NEW k \in Int, NEW points, NEW high, NEW p, NEW q, NEW l,
         Below(l, m, k), Above(p, m, k), Above(q, m, k), p.x < l.x, q.x < l.x,
         \A r \in points : Above(r, m, k) /\ r.x < l.x,
         high # NoPair => HighKey(high, m, k),
         ServesHigh(points, high, p, l), AsHigh(LineOf(<<l, p>>), LineOf(<<l, q>>))
  PROVE  ServesHigh(points, high, q, l)
<1>1. IsLine(LineOf(<<l, p>>)) /\ IsLine(LineOf(<<l, q>>))
  BY HighFrom
<1>2. CASE high # NoPair /\ AsHigh(LineOf(high), LineOf(<<l, p>>))
  BY <1>1, <1>2, HighLine, AsHighTrans DEF ServesHigh
<1>3. ASSUME NEW r \in points, AsHigh(LineOf(<<l, r>>), LineOf(<<l, p>>))
      PROVE  ServesHigh(points, high, q, l)
  <2>1. IsLine(LineOf(<<l, r>>))
    BY HighFrom
  <2>2. AsHigh(LineOf(<<l, r>>), LineOf(<<l, q>>))
    BY <1>1, <1>3, <2>1, AsHighTrans
  <2> QED
    BY <2>2 DEF ServesHigh
<1> QED
  BY <1>2, <1>3 DEF ServesHigh

---------------------------------------------------------------------------
(* A call of MiniSync that recalculates *)

\* The lines it makes the current ones, and the points it keeps for them.
LEMMA CallPair ==
  ASSUME TurnInv(Slope, Offset), SlopeInv,
         NEW s, Brackets(s, Slope, Offset), InTurn(s), MiniRecalculate(s)
  PROVE  /\ LowKey(low_constraint_pts', Slope, Offset)
         /\ HighKey(high_constraint_pts', Slope, Offset)
         /\ low_constraint_pts'[1] \in LowPoints(s) /\ low_constraint_pts'[1] \in low_points'
         /\ low_constraint_pts'[2] \in HighPoints(s) /\ low_constraint_pts'[2] \in high_points'
         /\ high_constraint_pts'[1] \in LowPoints(s) /\ high_constraint_pts'[1] \in low_points'
         /\ high_constraint_pts'[2] \in HighPoints(s) /\ high_constraint_pts'[2] \in high_points'
<1>1. Completes(s)
  BY MiniCompletes
<1>2. TurnInv(Slope, Offset)'
  BY <1>1, SamplesBracket, CompletesTurn
<1>3. low_constraint_pts' # NoPair
  BY <1>1, SamplesBracket, PairChosen DEF Completes
<1>4. /\ low_constraint_pts' \in low_constraints' /\ high_constraint_pts' \in high_constraints'
      /\ low_constraints' \cup high_constraints' \subseteq low_points' \X high_points'
  BY <1>2, <1>3 DEF TurnInv, StoredInv
<1>5. low_points' \subseteq LowPoints(s) /\ high_points' \subseteq HighPoints(s)
  BY <1>1 DEF Completes, Keeps
<1>6. LowKey(low_constraint_pts', Slope, Offset) /\ HighKey(high_constraint_pts', Slope, Offset)
  BY <1>2, <1>4 DEF TurnInv, BaseInv, KeysInv
<1> QED
  BY <1>4, <1>5, <1>6

\* It erases a point only where MiniSync's loop does not stop.
LEMMA KeptStays ==
  ASSUME SlopeInv, NEW s, InTurn(s), MiniRecalculate(s)
  PROVE  /\ low_points' = Stays(LowPoints(s), LowSlopes(s), PinnedLow', 1)
         /\ high_points' = Stays(HighPoints(s), HighSlopes(s), PinnedHigh', -1)
<1>1. MiniCleanup(s)
  BY MiniCompletes
<1>2. low_points' = KeptLow(s) /\ high_points' = KeptHigh(s)
  BY <1>1 DEF MiniCleanup, Prune
<1>3. /\ Throwers(LowPoints(s), LowSlopes(s), PinnedLow', 1) = {}
      /\ Throwers(HighPoints(s), HighSlopes(s), PinnedHigh', -1) = {}
  BY <1>1 DEF MiniCleanup, LowThrows, HighThrows
<1>4. \A points, slopes, pinned, sign :
        Throwers(points, slopes, pinned, sign) = {} =>
          Kept(points, slopes, pinned, sign) = Stays(points, slopes, pinned, sign)
  <2> TAKE points, slopes, pinned, sign
  <2>1. Stays(points, slopes, pinned, sign) \subseteq points
    BY DEF Stays
  <2> QED
    BY <2>1 DEF Kept
<1> QED
  BY <1>2, <1>3, <1>4 DEF KeptLow, KeptHigh

\* The current lines are as good as any the call could choose from.
LEMMA CallBest ==
  ASSUME TurnInv(Slope, Offset), NEW s, Brackets(s, Slope, Offset), InTurn(s), Recalculates(s),
         diff_factor'.n > 0
  PROVE  /\ \A b \in LowConstraints(s) : AsLow(LineOf(low_constraint_pts'), LineOf(b))
         /\ \A b \in HighConstraints(s) : AsHigh(LineOf(high_constraint_pts'), LineOf(b))
<1> DEFINE c == <<low_constraint_pts', high_constraint_pts'>>
<1>1. c[1] = low_constraint_pts' /\ c[2] = high_constraint_pts'
  OBVIOUS
<1>2. TightOf(s, c) /\ diff_factor' = Difference(c[1], c[2])
  BY SamplesBracket, CurrentTight
<1>3. BaseInv(Slope, Offset) /\ StoredInv /\ CacheComplete
  BY DEF TurnInv
<1> HIDE DEF c
<1>4. /\ \A b \in LowConstraints(s) :
             NoSteeper(LineOf(c[1]), LineOf(b)) /\ NoLower(LineOf(c[1]), LineOf(b))
      /\ \A b \in HighConstraints(s) :
             NoSteeper(LineOf(b), LineOf(c[2])) /\ NoLower(LineOf(b), LineOf(c[2]))
  BY <1>2, <1>3, SamplesBracket, BestOfAll
<1> QED
  BY <1>1, <1>4 DEF AsLow, AsHigh

\* A point it erases is served by what it keeps.
LEMMA CallServesLow ==
  ASSUME TurnInv(Slope, Offset), SlopeInv,
         NEW s, Brackets(s, Slope, Offset), InTurn(s), MiniRecalculate(s), diff_factor'.n > 0,
         NEW q \in LowPoints(s), NEW h, Above(h, Slope, Offset), h.x > s.tb
  PROVE  ServesLow(low_points', low_constraint_pts', q, h)
<1> DEFINE low == low_constraint_pts'
           high == high_constraint_pts'
<1>1. /\ Recalculates(s) /\ OrderInv /\ CacheComplete
      /\ BaseInv(Slope, Offset) /\ PointsInv(Slope, Offset) /\ calls \in Nat
  BY DEF MiniRecalculate, SlopeInv, StoredInv, OrderInv, TurnInv, BaseInv
<1>2. Below(q, Slope, Offset)
  BY <1>1, SamplesBracket, NewPoints
<1>3. /\ \A p \in LowPoints(s) : IsPoint(p) /\ p.x < h.x
      /\ \A p \in HighPoints(s) : IsPoint(p) /\ p.x < h.x
  BY <1>1, PointsOrdered DEF IsPoint, Above, InTurn
<1>4. CASE q \in low_points'
  BY <1>2, <1>3, <1>4, SamplesBracket, LowTo, AsLowSelf DEF ServesLow
<1>5. CASE q \notin low_points'
  <2>1. /\ LowKey(low, Slope, Offset) /\ HighKey(high, Slope, Offset)
        /\ low[1] \in LowPoints(s) /\ low[1] \in low_points' /\ low[2] \in HighPoints(s)
        /\ high[1] \in LowPoints(s) /\ high[1] \in low_points' /\ high[2] \in HighPoints(s)
    BY CallPair
  <2>2. q.x < low[2].x => AsLow(LineOf(low), LineOf(<<q, low[2]>>))
    BY <1>1, <2>1, NewLinesCached, CallBest
  <2>3. q.x > high[2].x => AsHigh(LineOf(high), LineOf(<<q, high[2]>>))
    BY <1>1, <2>1, NewLinesCached, CallBest
  <2>4. q \in LowPoints(s) \ Stays(LowPoints(s), LowSlopes(s), PinnedLow', 1)
    BY <1>5, KeptStays
  <2>5. low[1] \in LowPoints(s) \cap PinnedLow'
    BY <2>1 DEF PinnedLow
  <2>6. low[1].x < q.x /\ q.x < high[1].x => ~Bends(low[1], q, high[1], 1)
    BY <2>1, <2>4, <2>5, ErasedNoBend
  <2>7. q.x < h.x /\ low[2].x < h.x /\ high[1].x < h.x
    BY <1>3, <2>1
  <2>8. low # NoPair
    BY <2>1, SamplesBracket, NotNoPair
  <2> HIDE DEF low, high
  <2>9. \/ AsLow(LineOf(low), LineOf(<<q, h>>))
        \/ \E p \in {low[1], high[1]} : AsLow(LineOf(<<p, h>>), LineOf(<<q, h>>))
    BY <1>2, <2>1, <2>2, <2>3, <2>6, <2>7, SamplesBracket, UselessLow
  <2>10. ServesLow(low_points', low, q, h)
    BY <2>1, <2>8, <2>9 DEF ServesLow
  <2> QED
    BY <2>10 DEF low
<1> QED
  BY <1>4, <1>5

LEMMA CallServesHigh ==
  ASSUME TurnInv(Slope, Offset), SlopeInv,
         NEW s, Brackets(s, Slope, Offset), InTurn(s), MiniRecalculate(s), diff_factor'.n > 0,
         NEW q \in HighPoints(s), NEW l, Below(l, Slope, Offset), l.x > s.tb
  PROVE  ServesHigh(high_points', high_constraint_pts', q, l)
<1> DEFINE low == low_constraint_pts'
           high == high_constraint_pts'
<1>1. /\ Recalculates(s) /\ OrderInv /\ CacheComplete
      /\ BaseInv(Slope, Offset) /\ PointsInv(Slope, Offset) /\ calls \in Nat
  BY DEF MiniRecalculate, SlopeInv, StoredInv, OrderInv, TurnInv, BaseInv
<1>2. Above(q, Slope, Offset)
  BY <1>1, SamplesBracket, NewPoints
<1>3. /\ \A p \in LowPoints(s) : IsPoint(p) /\ p.x < l.x
      /\ \A p \in HighPoints(s) : IsPoint(p) /\ p.x < l.x
  BY <1>1, PointsOrdered DEF IsPoint, Below, InTurn
<1>4. CASE q \in high_points'
  BY <1>2, <1>3, <1>4, SamplesBracket, HighFrom, AsLowSelf DEF ServesHigh
<1>5. CASE q \notin high_points'
  <2>1. /\ LowKey(low, Slope, Offset) /\ HighKey(high, Slope, Offset)
        /\ low[1] \in LowPoints(s) /\ low[2] \in high_points' /\ low[2] \in HighPoints(s)
        /\ high[1] \in LowPoints(s) /\ high[2] \in high_points' /\ high[2] \in HighPoints(s)
    BY CallPair
  <2>2. q.x < high[1].x => AsHigh(LineOf(high), LineOf(<<high[1], q>>))
    <3>1. \A p \in LowPoints(s), r \in HighPoints(s) : p.x > r.x => <<p, r>> \in HighConstraints(s)
      BY <1>1, NewLinesCached
    <3> QED
      BY <1>1, <1>3, <2>1, <3>1, CallBest DEF IsPoint
  <2>3. q.x > low[1].x => AsLow(LineOf(low), LineOf(<<low[1], q>>))
    <3>1. \A p \in LowPoints(s), r \in HighPoints(s) : p.x < r.x => <<p, r>> \in LowConstraints(s)
      BY <1>1, NewLinesCached
    <3> QED
      BY <1>1, <1>3, <2>1, <3>1, CallBest DEF IsPoint
  <2>4. q \in HighPoints(s) \ Stays(HighPoints(s), HighSlopes(s), PinnedHigh', -1)
    BY <1>5, KeptStays
  <2>5. high[2] \in HighPoints(s) \cap PinnedHigh'
    BY <2>1 DEF PinnedHigh
  <2>6. high[2].x < q.x /\ q.x < low[2].x => ~Bends(high[2], q, low[2], -1)
    BY <2>1, <2>4, <2>5, ErasedNoBend
  <2>7. q.x < l.x /\ low[2].x < l.x /\ high[1].x < l.x
    BY <1>3, <2>1
  <2>8. high # NoPair
    BY <2>1 DEF HighKey, NoPair, NoPoint, Point
  <2> HIDE DEF low, high
  <2>9. \/ AsHigh(LineOf(high), LineOf(<<l, q>>))
        \/ \E p \in {low[2], high[2]} : AsHigh(LineOf(<<l, p>>), LineOf(<<l, q>>))
    BY <1>2, <2>1, <2>2, <2>3, <2>6, <2>7, SamplesBracket, UselessHigh
  <2>10. ServesHigh(high_points', high, q, l)
    BY <2>1, <2>8, <2>9 DEF ServesHigh
  <2> QED
    BY <2>10 DEF high
<1> QED
  BY <1>4, <1>5

---------------------------------------------------------------------------
(* What the two algorithms have been given, and what is left of it *)

FromLow(p) == \E s \in samples : p.x = s.tb /\ p.y = s.to
FromHigh(p) == \E s \in samples : p.x = s.tb /\ p.y = s.tr

\* The points are those of samples, and the counter has counted all of these.
Seen == /\ samples \subseteq Samples
        /\ samples = {} <=> calls = 0
        /\ processed_timestamps = calls
        /\ \A s \in samples : s.tb <= last.tb
        /\ \A p \in low_points : FromLow(p)
        /\ \A p \in high_points : FromHigh(p)

\* The current lines are as good as any through two samples.
Best ==
  \A s, t \in samples : s.tb < t.tb =>
    /\ low_constraint_pts # NoPair
    /\ AsLow(LineOf(low_constraint_pts), LineOf(<<LowOf(s), HighOf(t)>>))
    /\ AsHigh(LineOf(high_constraint_pts), LineOf(<<LowOf(t), HighOf(s)>>))

\* They or a stored point will be as good as any sample, whatever comes next.
LowCover ==
  \A s \in samples : \A h : Above(h, Slope, Offset) /\ h.x > last.tb =>
    ServesLow(low_points, low_constraint_pts, LowOf(s), h)

HighCover ==
  \A s \in samples : \A l : Below(l, Slope, Offset) /\ l.x > last.tb =>
    ServesHigh(high_points, high_constraint_pts, HighOf(s), l)

NothingLost == diff_factor.n > 0 => Best /\ LowCover /\ HighCover

MiniSide == SlopeInv /\ TurnInv(Slope, Offset) /\ Seen /\ NothingLost

\* Fewer calls than it takes the counter to wrap around.
NoWrap == MaxCalls < CounterLimit

LEMMA SamplePoints ==
  ASSUME NEW s \in Samples
  PROVE  /\ Below(LowOf(s), Slope, Offset) /\ LowOf(s).x = s.tb /\ LowOf(s).y = s.to
         /\ Above(HighOf(s), Slope, Offset) /\ HighOf(s).x = s.tb /\ HighOf(s).y = s.tr
         /\ s.tb \in Nat
BY SamplesBracket DEF Brackets, Below, Above, IsPoint, LowOf, HighOf, Point

\* Without a wrap only the first call just stores its points.
LEMMA SideSteps ==
  ASSUME Ordered, NoWrap, SlopeInv, Seen, NEW s \in Samples, MiniStore(s) \/ MiniRecalculate(s)
  PROVE  /\ Brackets(s, Slope, Offset) /\ InTurn(s) /\ Arrives(s)
         /\ processed_timestamps' = calls + 1 /\ calls' = calls + 1 /\ calls \in Nat
         /\ \/ calls = 0 /\ MiniStore(s)
            \/ calls > 0 /\ MiniRecalculate(s)
<1>1. Arrives(s)
  BY DEF MiniStore, Store, MiniRecalculate, Recalculates
<1>2. Brackets(s, Slope, Offset) /\ InTurn(s)
  BY MiniSteps
<1>3. calls \in Nat /\ calls < MaxCalls /\ processed_timestamps = calls
  BY <1>1 DEF Arrives, Seen, SlopeInv, StoredInv, OrderInv
<1>4. processed_timestamps \in 0..(CounterLimit - 1) /\ processed_timestamps < CounterLimit - 1
  BY <1>3, ParametersAssumption DEF NoWrap
<1>5. processed_timestamps' = calls + 1
  BY <1>1, <1>3, <1>4, Counts DEF Arrives
<1>6. MiniStore(s) => calls = 0
  BY <1>3, <1>5 DEF MiniStore, Store
<1>7. MiniRecalculate(s) => calls > 0
  BY <1>3, <1>5 DEF MiniRecalculate, Recalculates
<1> QED
  BY <1>1, <1>2, <1>3, <1>5, <1>6, <1>7 DEF Arrives

LEMMA SeenKept ==
  ASSUME Ordered, NoWrap, SlopeInv, Seen, NEW s \in Samples, MiniStore(s) \/ MiniRecalculate(s),
         samples' = samples \cup {s}
  PROVE  Seen'
<1>1. /\ InTurn(s) /\ Arrives(s) /\ Brackets(s, Slope, Offset)
      /\ processed_timestamps' = calls + 1 /\ calls' = calls + 1 /\ calls \in Nat
      /\ last' = s
  BY SideSteps DEF Arrives
<1>2. OrderInv
  BY DEF SlopeInv, StoredInv
<1>3. low_points' \subseteq LowPoints(s) /\ high_points' \subseteq HighPoints(s)
  BY MiniSteps DEF Store, Completes, Keeps
<1>4. /\ LowPoints(s) = low_points \cup {NewLow(s)} /\ HighPoints(s) = high_points \cup {NewHigh(s)}
      /\ NewLow(s).x = s.tb /\ NewLow(s).y = s.to /\ NewHigh(s).x = s.tb /\ NewHigh(s).y = s.tr
  BY <1>1, <1>2, LaterSample
<1>5. \A p \in low_points' : FromLow(p)'
  BY <1>3, <1>4 DEF Seen, FromLow
<1>6. \A p \in high_points' : FromHigh(p)'
  BY <1>3, <1>4 DEF Seen, FromHigh
<1>7. \A t \in samples' : t.tb <= last'.tb
  <2> SUFFICES ASSUME NEW t \in samples' PROVE t.tb <= s.tb
    BY <1>1
  <2>1. CASE t = s
    BY <2>1, SamplePoints
  <2>2. CASE t \in samples
    <3>1. t.tb <= last.tb /\ last.tb < s.tb /\ t \in Samples
      BY <1>1, <2>2 DEF Seen, InTurn, InTimeOrder
    <3> QED
      BY <1>2, <3>1, SamplePoints DEF OrderInv
  <2> QED
    BY <2>1, <2>2
<1> QED
  BY <1>1, <1>5, <1>6, <1>7 DEF Seen

\* The first sample is stored, and nothing is lost.
LEMMA FirstKeepsAll ==
  ASSUME Seen, SlopeInv, NEW s \in Samples, MiniStore(s), calls = 0, InTurn(s),
         samples' = samples \cup {s}
  PROVE  NothingLost'
<1>1. samples' = {s} /\ last' = s /\ OrderInv
  BY DEF Seen, MiniStore, Store, Arrives, SlopeInv, StoredInv
<1>2. /\ NewLow(s) \in low_points' /\ NewLow(s).x = s.tb /\ NewLow(s).y = s.to
      /\ NewHigh(s) \in high_points' /\ NewHigh(s).x = s.tb /\ NewHigh(s).y = s.tr
  BY <1>1, LaterSample DEF MiniStore, Store
<1>3. Best'
  BY <1>1, SamplePoints DEF Best
<1>4. LowCover'
  <2> SUFFICES ASSUME NEW h, Above(h, Slope, Offset), h.x > s.tb
               PROVE  ServesLow(low_points', low_constraint_pts', LowOf(s), h)
    BY <1>1 DEF LowCover
  <2>1. IsLine(LineOf(<<LowOf(s), h>>))
    BY SamplesBracket, SamplePoints, LowTo
  <2>2. LineOf(<<NewLow(s), h>>) = LineOf(<<LowOf(s), h>>)
    BY <1>2, SamplePoints, SameLine
  <2> QED
    BY <1>2, <2>1, <2>2, AsLowSelf DEF ServesLow
<1>5. HighCover'
  <2> SUFFICES ASSUME NEW l, Below(l, Slope, Offset), l.x > s.tb
               PROVE  ServesHigh(high_points', high_constraint_pts', HighOf(s), l)
    BY <1>1 DEF HighCover
  <2>1. IsLine(LineOf(<<l, HighOf(s)>>))
    BY SamplesBracket, SamplePoints, HighFrom
  <2>2. LineOf(<<l, NewHigh(s)>>) = LineOf(<<l, HighOf(s)>>)
    BY <1>2, SamplePoints, SameLine
  <2> QED
    BY <1>2, <2>1, <2>2, AsLowSelf DEF ServesHigh
<1> QED
  BY <1>3, <1>4, <1>5 DEF NothingLost

\* What served a sample before the call does so after it.
LEMMA StillServesLow ==
  ASSUME TurnInv(Slope, Offset), SlopeInv,
         NEW s, Brackets(s, Slope, Offset), InTurn(s), MiniRecalculate(s), diff_factor'.n > 0,
         NEW q, Below(q, Slope, Offset), q.x <= s.tb, NEW h, Above(h, Slope, Offset), h.x > s.tb,
         ServesLow(LowPoints(s), low_constraint_pts, q, h)
  PROVE  ServesLow(low_points', low_constraint_pts', q, h)
<1>1. /\ Recalculates(s) /\ Completes(s) /\ OrderInv /\ StoredInv /\ CurrentInv(Slope, Offset)
      /\ PointsInv(Slope, Offset) /\ calls \in Nat
  BY MiniCompletes DEF MiniRecalculate, SlopeInv, StoredInv, OrderInv, TurnInv, BaseInv
<1>2. low_points' \subseteq LowPoints(s)
  BY <1>1 DEF Completes, Keeps
<1>3. /\ \A p \in LowPoints(s) : Below(p, Slope, Offset) /\ p.x < h.x
      /\ q.x < h.x
  <2>1. \A p \in LowPoints(s) : IsPoint(p) /\ p.x <= s.tb
    BY <1>1, PointsOrdered
  <2>2. \A p \in LowPoints(s) : Below(p, Slope, Offset)
    BY <1>1, SamplesBracket, NewPoints
  <2> QED
    BY <2>1, <2>2 DEF IsPoint, Above, Below, InTurn
<1>4. LowKey(low_constraint_pts', Slope, Offset) /\ low_constraint_pts' # NoPair
  BY CallPair, SamplesBracket, NotNoPair
<1>5. IsLine(LineOf(<<q, h>>)) /\ IsLine(LineOf(low_constraint_pts'))
  BY <1>3, <1>4, SamplesBracket, LowTo, LowLine
<1>6. CASE low_constraint_pts # NoPair /\ AsLow(LineOf(low_constraint_pts), LineOf(<<q, h>>))
  <2>1. low_constraint_pts \in LowConstraints(s)
    BY <1>1, <1>6 DEF StoredInv, LowConstraints
  <2>2. AsLow(LineOf(low_constraint_pts'), LineOf(low_constraint_pts))
    BY <1>1, <2>1, CallBest
  <2>3. IsLine(LineOf(low_constraint_pts))
    BY <1>1, <1>6, SamplesBracket, LowLine DEF CurrentInv
  <2> QED
    BY <1>4, <1>5, <1>6, <2>2, <2>3, AsLowTrans DEF ServesLow
<1>7. ASSUME NEW p \in LowPoints(s), AsLow(LineOf(<<p, h>>), LineOf(<<q, h>>))
      PROVE  ServesLow(low_points', low_constraint_pts', q, h)
  <2>1. ServesLow(low_points', low_constraint_pts', p, h)
    BY CallServesLow
  <2>2. /\ Below(p, Slope, Offset) /\ p.x < h.x
        /\ \A r \in low_points' : Below(r, Slope, Offset) /\ r.x < h.x
    BY <1>2, <1>3
  <2> QED
    BY <1>3, <1>4, <1>7, <2>1, <2>2, SamplesBracket, ServesLowTrans
<1> QED
  BY <1>6, <1>7 DEF ServesLow

LEMMA StillServesHigh ==
  ASSUME TurnInv(Slope, Offset), SlopeInv,
         NEW s, Brackets(s, Slope, Offset), InTurn(s), MiniRecalculate(s), diff_factor'.n > 0,
         NEW q, Above(q, Slope, Offset), q.x <= s.tb, NEW l, Below(l, Slope, Offset), l.x > s.tb,
         ServesHigh(HighPoints(s), high_constraint_pts, q, l)
  PROVE  ServesHigh(high_points', high_constraint_pts', q, l)
<1>1. /\ Recalculates(s) /\ Completes(s) /\ OrderInv /\ StoredInv /\ CurrentInv(Slope, Offset)
      /\ PointsInv(Slope, Offset) /\ calls \in Nat
  BY MiniCompletes DEF MiniRecalculate, SlopeInv, StoredInv, OrderInv, TurnInv, BaseInv
<1>2. high_points' \subseteq HighPoints(s)
  BY <1>1 DEF Completes, Keeps
<1>3. /\ \A p \in HighPoints(s) : Above(p, Slope, Offset) /\ p.x < l.x
      /\ q.x < l.x
  <2>1. \A p \in HighPoints(s) : IsPoint(p) /\ p.x <= s.tb
    BY <1>1, PointsOrdered
  <2>2. \A p \in HighPoints(s) : Above(p, Slope, Offset)
    BY <1>1, SamplesBracket, NewPoints
  <2> QED
    BY <2>1, <2>2 DEF IsPoint, Above, Below, InTurn
<1>4. HighKey(high_constraint_pts', Slope, Offset) /\ high_constraint_pts' # NoPair
  <2>1. HighKey(high_constraint_pts', Slope, Offset)
    BY CallPair
  <2> QED
    BY <2>1 DEF HighKey, NoPair, NoPoint, Point
<1>5. IsLine(LineOf(<<l, q>>)) /\ IsLine(LineOf(high_constraint_pts'))
  BY <1>3, <1>4, SamplesBracket, HighFrom, HighLine
<1>6. CASE high_constraint_pts # NoPair /\ AsHigh(LineOf(high_constraint_pts), LineOf(<<l, q>>))
  <2>1. high_constraint_pts \in HighConstraints(s)
    BY <1>1, <1>6 DEF StoredInv, HighConstraints
  <2>2. AsHigh(LineOf(high_constraint_pts'), LineOf(high_constraint_pts))
    BY <1>1, <2>1, CallBest
  <2>3. IsLine(LineOf(high_constraint_pts))
    BY <1>1, <1>6, SamplesBracket, HighLine DEF CurrentInv
  <2> QED
    BY <1>4, <1>5, <1>6, <2>2, <2>3, AsHighTrans DEF ServesHigh
<1>7. ASSUME NEW p \in HighPoints(s), AsHigh(LineOf(<<l, p>>), LineOf(<<l, q>>))
      PROVE  ServesHigh(high_points', high_constraint_pts', q, l)
  <2>1. ServesHigh(high_points', high_constraint_pts', p, l)
    BY CallServesHigh
  <2>2. /\ Above(p, Slope, Offset) /\ p.x < l.x
        /\ \A r \in high_points' : Above(r, Slope, Offset) /\ r.x < l.x
    BY <1>2, <1>3
  <2> QED
    BY <1>3, <1>4, <1>7, <2>1, <2>2, SamplesBracket, ServesHighTrans
<1> QED
  BY <1>6, <1>7 DEF ServesHigh

\* The new lines are as good as any from an old sample to the new one.
LEMMA NewLowBest ==
  ASSUME TurnInv(Slope, Offset), SlopeInv,
         NEW s \in Samples, InTurn(s), MiniRecalculate(s), diff_factor'.n > 0,
         NEW t \in Samples, t.tb < s.tb,
         ServesLow(low_points, low_constraint_pts, LowOf(t), HighOf(s))
  PROVE  AsLow(LineOf(low_constraint_pts'), LineOf(<<LowOf(t), HighOf(s)>>))
<1>1. /\ Recalculates(s) /\ OrderInv /\ StoredInv /\ CurrentInv(Slope, Offset) /\ CacheComplete
      /\ PointsInv(Slope, Offset) /\ Brackets(s, Slope, Offset)
  BY SamplesBracket DEF MiniRecalculate, SlopeInv, StoredInv, TurnInv, BaseInv
<1>2. IsLine(LineOf(low_constraint_pts'))
  BY <1>1, CallPair, SamplesBracket, LowLine
<1>3. IsLine(LineOf(<<LowOf(t), HighOf(s)>>))
  BY SamplePoints, SamplesBracket, LowTo
<1>4. CASE low_constraint_pts # NoPair /\ AsLow(LineOf(low_constraint_pts), LineOf(<<LowOf(t), HighOf(s)>>))
  <2>1. low_constraint_pts \in LowConstraints(s)
    BY <1>1, <1>4 DEF StoredInv, LowConstraints
  <2>2. AsLow(LineOf(low_constraint_pts'), LineOf(low_constraint_pts))
    BY <1>1, <2>1, CallBest
  <2>3. IsLine(LineOf(low_constraint_pts))
    BY <1>1, <1>4, SamplesBracket, LowLine DEF CurrentInv
  <2> QED
    BY <1>2, <1>3, <1>4, <2>2, <2>3, AsLowTrans
<1>5. ASSUME NEW p \in low_points,
             AsLow(LineOf(<<p, HighOf(s)>>), LineOf(<<LowOf(t), HighOf(s)>>))
      PROVE  AsLow(LineOf(low_constraint_pts'), LineOf(<<LowOf(t), HighOf(s)>>))
  <2>1. /\ p \in LowPoints(s) /\ p.x < s.tb
        /\ NewHigh(s) \in HighPoints(s) /\ NewHigh(s).x = s.tb /\ NewHigh(s).y = s.tr
    BY <1>1, LaterSample
  <2>2. <<p, NewHigh(s)>> \in LowConstraints(s)
    BY <1>1, <2>1, NewLinesCached
  <2>3. LineOf(<<p, NewHigh(s)>>) = LineOf(<<p, HighOf(s)>>)
    BY <2>1, SamplePoints, SameLine
  <2>4. AsLow(LineOf(low_constraint_pts'), LineOf(<<p, HighOf(s)>>))
    BY <1>1, <2>2, <2>3, CallBest
  <2>5. IsLine(LineOf(<<p, HighOf(s)>>))
    BY <1>1, <2>1, SamplePoints, SamplesBracket, LowTo DEF PointsInv
  <2> QED
    BY <1>2, <1>3, <1>5, <2>4, <2>5, AsLowTrans
<1> QED
  BY <1>4, <1>5 DEF ServesLow

LEMMA NewHighBest ==
  ASSUME TurnInv(Slope, Offset), SlopeInv,
         NEW s \in Samples, InTurn(s), MiniRecalculate(s), diff_factor'.n > 0,
         NEW t \in Samples, t.tb < s.tb,
         ServesHigh(high_points, high_constraint_pts, HighOf(t), LowOf(s))
  PROVE  AsHigh(LineOf(high_constraint_pts'), LineOf(<<LowOf(s), HighOf(t)>>))
<1>1. /\ Recalculates(s) /\ OrderInv /\ StoredInv /\ CurrentInv(Slope, Offset) /\ CacheComplete
      /\ PointsInv(Slope, Offset) /\ Brackets(s, Slope, Offset)
  BY SamplesBracket DEF MiniRecalculate, SlopeInv, StoredInv, TurnInv, BaseInv
<1>2. IsLine(LineOf(high_constraint_pts'))
  BY <1>1, CallPair, SamplesBracket, HighLine
<1>3. IsLine(LineOf(<<LowOf(s), HighOf(t)>>))
  BY SamplePoints, SamplesBracket, HighFrom
<1>4. CASE high_constraint_pts # NoPair /\ AsHigh(LineOf(high_constraint_pts), LineOf(<<LowOf(s), HighOf(t)>>))
  <2>1. high_constraint_pts \in HighConstraints(s)
    BY <1>1, <1>4 DEF StoredInv, HighConstraints
  <2>2. AsHigh(LineOf(high_constraint_pts'), LineOf(high_constraint_pts))
    BY <1>1, <2>1, CallBest
  <2>3. IsLine(LineOf(high_constraint_pts))
    BY <1>1, <1>4, SamplesBracket, HighLine DEF CurrentInv
  <2> QED
    BY <1>2, <1>3, <1>4, <2>2, <2>3, AsHighTrans
<1>5. ASSUME NEW p \in high_points,
             AsHigh(LineOf(<<LowOf(s), p>>), LineOf(<<LowOf(s), HighOf(t)>>))
      PROVE  AsHigh(LineOf(high_constraint_pts'), LineOf(<<LowOf(s), HighOf(t)>>))
  <2>1. /\ p \in HighPoints(s) /\ IsPoint(p) /\ p.x < s.tb
        /\ NewLow(s) \in LowPoints(s) /\ NewLow(s).x = s.tb /\ NewLow(s).y = s.to
    BY <1>1, LaterSample
  <2>2. <<NewLow(s), p>> \in HighConstraints(s)
    BY <1>1, <2>1, NewLinesCached DEF IsPoint, InTurn
  <2>3. LineOf(<<NewLow(s), p>>) = LineOf(<<LowOf(s), p>>)
    BY <2>1, SamplePoints, SameLine
  <2>4. AsHigh(LineOf(high_constraint_pts'), LineOf(<<LowOf(s), p>>))
    BY <1>1, <2>2, <2>3, CallBest
  <2>5. IsLine(LineOf(<<LowOf(s), p>>))
    BY <1>1, <2>1, SamplePoints, SamplesBracket, HighFrom DEF PointsInv
  <2> QED
    BY <1>2, <1>3, <1>5, <2>4, <2>5, AsHighTrans
<1> QED
  BY <1>4, <1>5 DEF ServesHigh

\* A call loses nothing either.
LEMMA CallKeepsAll ==
  ASSUME SlopeInv, TurnInv(Slope, Offset), Seen, NothingLost,
         NEW s \in Samples, InTurn(s), MiniRecalculate(s), calls > 0,
         samples' = samples \cup {s}
  PROVE  NothingLost'
<1> SUFFICES ASSUME diff_factor'.n > 0 PROVE Best' /\ LowCover' /\ HighCover'
  BY DEF NothingLost
<1>1. /\ Brackets(s, Slope, Offset) /\ Recalculates(s) /\ last' = s /\ OrderInv
      /\ StoredInv /\ CurrentInv(Slope, Offset)
  BY SamplesBracket DEF MiniRecalculate, Recalculates, Arrives, SlopeInv, StoredInv, TurnInv, BaseInv
<1>2. Best /\ LowCover /\ HighCover
  BY <1>1, SamplesBracket, StillInDoubt DEF NothingLost, TurnInv, Recalculates
<1>3. /\ last.tb \in Nat /\ s.tb \in Nat /\ last.tb < s.tb
      /\ \A t \in samples : t \in Samples /\ t.tb \in Nat /\ t.tb <= last.tb /\ t.tb < s.tb
  BY <1>1, SamplePoints DEF OrderInv, Seen, InTurn, InTimeOrder
<1>4. /\ LowPoints(s) = low_points \cup {NewLow(s)} /\ HighPoints(s) = high_points \cup {NewHigh(s)}
      /\ NewLow(s).x = s.tb /\ NewLow(s).y = s.to /\ NewHigh(s).x = s.tb /\ NewHigh(s).y = s.tr
  BY <1>1, LaterSample
<1>5. LowCover'
  <2> SUFFICES ASSUME NEW t \in samples', NEW h, Above(h, Slope, Offset), h.x > s.tb
               PROVE  ServesLow(low_points', low_constraint_pts', LowOf(t), h)
    BY <1>1 DEF LowCover
  <2>1. t \in Samples /\ t.tb <= s.tb
    BY <1>3
  <2>2. ServesLow(LowPoints(s), low_constraint_pts, LowOf(t), h)
    <3>1. CASE t \in samples
      <4>1. h.x > last.tb
        BY <1>3 DEF Above, IsPoint
      <4> QED
        BY <1>2, <1>4, <3>1, <4>1 DEF LowCover, ServesLow
    <3>2. CASE t = s
      <4>1. LineOf(<<NewLow(s), h>>) = LineOf(<<LowOf(s), h>>)
        BY <1>4, SamplePoints, SameLine
      <4>2. IsLine(LineOf(<<LowOf(s), h>>))
        BY SamplesBracket, SamplePoints, LowTo
      <4> QED
        BY <1>4, <3>2, <4>1, <4>2, AsLowSelf DEF ServesLow
    <3> QED
      BY <3>1, <3>2
  <2> QED
    BY <1>1, <2>1, <2>2, SamplePoints, StillServesLow
<1>6. HighCover'
  <2> SUFFICES ASSUME NEW t \in samples', NEW l, Below(l, Slope, Offset), l.x > s.tb
               PROVE  ServesHigh(high_points', high_constraint_pts', HighOf(t), l)
    BY <1>1 DEF HighCover
  <2>1. t \in Samples /\ t.tb <= s.tb
    BY <1>3
  <2>2. ServesHigh(HighPoints(s), high_constraint_pts, HighOf(t), l)
    <3>1. CASE t \in samples
      <4>1. l.x > last.tb
        BY <1>3 DEF Below, IsPoint
      <4> QED
        BY <1>2, <1>4, <3>1, <4>1 DEF HighCover, ServesHigh
    <3>2. CASE t = s
      <4>1. LineOf(<<l, NewHigh(s)>>) = LineOf(<<l, HighOf(s)>>)
        BY <1>4, SamplePoints, SameLine
      <4>2. IsLine(LineOf(<<l, HighOf(s)>>))
        BY SamplesBracket, SamplePoints, HighFrom
      <4> QED
        BY <1>4, <3>2, <4>1, <4>2, AsLowSelf DEF ServesHigh
    <3> QED
      BY <3>1, <3>2
  <2> QED
    BY <1>1, <2>1, <2>2, SamplePoints, StillServesHigh
<1>7. Best'
  <2> SUFFICES ASSUME NEW t \in samples', NEW u \in samples', t.tb < u.tb
               PROVE  /\ low_constraint_pts' # NoPair
                      /\ AsLow(LineOf(low_constraint_pts'), LineOf(<<LowOf(t), HighOf(u)>>))
                      /\ AsHigh(LineOf(high_constraint_pts'), LineOf(<<LowOf(u), HighOf(t)>>))
    BY DEF Best
  <2>1. t \in samples
    BY <1>3
  <2>2. /\ low_constraint_pts' # NoPair
        /\ IsLine(LineOf(low_constraint_pts')) /\ IsLine(LineOf(high_constraint_pts'))
    <3>1. LowKey(low_constraint_pts', Slope, Offset) /\ HighKey(high_constraint_pts', Slope, Offset)
      BY <1>1, CallPair
    <3> QED
      BY <3>1, SamplesBracket, NotNoPair, LowLine, HighLine
  <2>3. CASE u = s
    <3>1. ServesLow(low_points, low_constraint_pts, LowOf(t), HighOf(s))
      BY <1>2, <1>3, <2>1, SamplePoints DEF LowCover
    <3>2. ServesHigh(high_points, high_constraint_pts, HighOf(t), LowOf(s))
      BY <1>2, <1>3, <2>1, SamplePoints DEF HighCover
    <3> QED
      BY <1>3, <2>1, <2>2, <2>3, <3>1, <3>2, NewLowBest, NewHighBest
  <2>4. CASE u \in samples
    <3>1. /\ low_constraint_pts # NoPair
          /\ AsLow(LineOf(low_constraint_pts), LineOf(<<LowOf(t), HighOf(u)>>))
          /\ AsHigh(LineOf(high_constraint_pts), LineOf(<<LowOf(u), HighOf(t)>>))
      BY <1>2, <2>1, <2>4 DEF Best
    <3>2. /\ low_constraint_pts \in LowConstraints(s) /\ high_constraint_pts \in HighConstraints(s)
          /\ LowKey(low_constraint_pts, Slope, Offset) /\ HighKey(high_constraint_pts, Slope, Offset)
      BY <1>1, <3>1 DEF StoredInv, CurrentInv, LowConstraints, HighConstraints
    <3>3. /\ AsLow(LineOf(low_constraint_pts'), LineOf(low_constraint_pts))
          /\ AsHigh(LineOf(high_constraint_pts'), LineOf(high_constraint_pts))
      BY <1>1, <3>2, CallBest
    <3>4. IsLine(LineOf(low_constraint_pts)) /\ IsLine(LineOf(high_constraint_pts))
      BY <3>2, SamplesBracket, LowLine, HighLine
    <3>5. IsLine(LineOf(<<LowOf(t), HighOf(u)>>)) /\ IsLine(LineOf(<<LowOf(u), HighOf(t)>>))
      BY <1>3, <2>1, <2>4, SamplePoints, SamplesBracket, LowTo, HighFrom
    <3>6. AsLow(LineOf(low_constraint_pts'), LineOf(<<LowOf(t), HighOf(u)>>))
      BY <2>2, <3>1, <3>3, <3>4, <3>5, AsLowTrans
    <3>7. AsHigh(LineOf(high_constraint_pts'), LineOf(<<LowOf(u), HighOf(t)>>))
      BY <2>2, <3>1, <3>3, <3>4, <3>5, AsHighTrans
    <3> QED
      BY <2>2, <3>6, <3>7
  <2> QED
    BY <2>3, <2>4
<1> QED
  BY <1>5, <1>6, <1>7

---------------------------------------------------------------------------
(* The invariant of MiniSync among the samples it has been given *)

LEMMA InitSide == SideInit => MiniSide
<1> SUFFICES ASSUME SideInit PROVE MiniSide
  OBVIOUS
<1>1. MiniInit /\ BaseInit /\ samples = {}
  BY DEF SideInit, MiniInit
<1>2. SlopeInv /\ TurnInv(Slope, Offset)
  BY <1>1, InitSlopes, SamplesBracket, InitTurn
<1>3. Seen
  BY <1>1 DEF BaseInit, Seen
<1>4. NothingLost
  BY <1>1 DEF NothingLost, Best, LowCover, HighCover
<1> QED
  BY <1>2, <1>3, <1>4 DEF MiniSide

LEMMA AddBothSide ==
  ASSUME Ordered, NoWrap, MiniSide, NEW s \in Samples, AddBoth(s)
  PROVE  MiniSide'
<1>1. /\ SlopeInv /\ TurnInv(Slope, Offset) /\ Seen /\ NothingLost
      /\ MiniStore(s) \/ MiniRecalculate(s)
      /\ samples' = samples \cup {s}
  BY DEF MiniSide, AddBoth
<1>2. /\ Brackets(s, Slope, Offset) /\ InTurn(s)
      /\ \/ calls = 0 /\ MiniStore(s)
         \/ calls > 0 /\ MiniRecalculate(s)
  BY <1>1, SideSteps
<1>3. SlopeInv'
  BY <1>2, <1>1, MiniStoreSlopes, MiniRecalculateSlopes
<1>4. TurnInv(Slope, Offset)'
  BY <1>1, <1>2, SamplesBracket, MiniSteps, StoreTurn, CompletesTurn
<1>5. Seen'
  BY <1>1, SeenKept
<1>6. NothingLost'
  BY <1>1, <1>2, FirstKeepsAll, CallKeepsAll
<1> QED
  BY <1>3, <1>4, <1>5, <1>6 DEF MiniSide

LEMMA StutterSide ==
  ASSUME MiniSide, UNCHANGED sideVars
  PROVE  MiniSide'
<1>1. UNCHANGED miniVars /\ UNCHANGED baseVars /\ samples' = samples
  BY DEF sideVars, miniVars, baseVars
<1>2. SlopeInv'
  BY <1>1, StutterSlopes DEF MiniSide
<1>3. TurnInv(Slope, Offset)'
  BY <1>1, SamplesBracket, StutterTurn DEF MiniSide
<1>4. Seen'
  BY <1>1 DEF MiniSide, Seen, FromLow, FromHigh, baseVars
<1>5. NothingLost'
  BY <1>1 DEF MiniSide, NothingLost, Best, LowCover, HighCover, baseVars
<1> QED
  BY <1>2, <1>3, <1>4, <1>5 DEF MiniSide

LEMMA SideInvariant ==
  ASSUME Ordered, NoWrap
  PROVE  SideSpec => []MiniSide
<1>1. MiniSide /\ [SideNext]_sideVars => MiniSide'
  BY AddBothSide, StutterSide DEF SideNext
<1> QED
  BY <1>1, InitSide, PTL DEF SideSpec

---------------------------------------------------------------------------
(* TinySync draws its lines through the same samples *)

LowThrough(c) ==
  \E s, t \in samples : /\ s.tb < t.tb
                        /\ c[1].x = s.tb /\ c[1].y = s.to
                        /\ c[2].x = t.tb /\ c[2].y = t.tr

HighThrough(c) ==
  \E s, t \in samples : /\ s.tb < t.tb
                        /\ c[1].x = t.tb /\ c[1].y = t.to
                        /\ c[2].x = s.tb /\ c[2].y = s.tr

EstimateThrough(e) ==
  \E low, high : LowThrough(low) /\ HighThrough(high) /\ e = Estimate(low, high)

TinySide ==
  /\ \A p \in tiny_low_points : FromLow(p)
  /\ \A p \in tiny_high_points : FromHigh(p)
  /\ \A c \in tiny_low_constraints : LowThrough(c)
  /\ \A c \in tiny_high_constraints : HighThrough(c)
  /\ tiny_low_constraint_pts # NoPair =>
       LowThrough(tiny_low_constraint_pts) /\ HighThrough(tiny_high_constraint_pts)
  /\ tiny_estimate # NoEstimate => EstimateThrough(tiny_estimate)

\* The operators of both algorithms are the same.
LEMMA SameOperators ==
  /\ Tiny!NoPair = NoPair
  /\ \A low, high : Tiny!Estimate(low, high) = Estimate(low, high)
<1>1. \A u, v : Tiny!Midpoint(u, v) = Midpoint(u, v)
  BY DEF Tiny!Midpoint, Midpoint
<1>2. \A l, h : Tiny!Line(l, h) = Line(l, h)
  BY DEF Tiny!Line, Line
<1>3. \A c : Tiny!LineOf(c) = LineOf(c)
  BY <1>2 DEF Tiny!LineOf, LineOf
<1>4. \A low, high : Tiny!Estimate(low, high) = Estimate(low, high)
  BY <1>1, <1>3 DEF Tiny!Estimate, Estimate
<1> QED
  BY <1>4 DEF Tiny!NoPair, NoPair, Tiny!NoPoint, NoPoint, Tiny!Point, Point

\* What goes through samples goes on to do so.
LEMMA StillThrough ==
  ASSUME samples \subseteq samples'
  PROVE  /\ \A p : (FromLow(p) => FromLow(p)') /\ (FromHigh(p) => FromHigh(p)')
         /\ \A c : (LowThrough(c) => LowThrough(c)') /\ (HighThrough(c) => HighThrough(c)')
         /\ \A e : EstimateThrough(e) => EstimateThrough(e)'
<1>1. \A p : (FromLow(p) => FromLow(p)') /\ (FromHigh(p) => FromHigh(p)')
  BY DEF FromLow, FromHigh
<1>2. \A c : (LowThrough(c) => LowThrough(c)') /\ (HighThrough(c) => HighThrough(c)')
  BY DEF LowThrough, HighThrough
<1> QED
  BY <1>1, <1>2 DEF EstimateThrough

\* And so do the new points, and the new lines.
LEMMA TinyNewThrough ==
  ASSUME TinySide, NEW s, samples' = samples \cup {s}
  PROVE  /\ \A p \in Tiny!LowPoints(s) : FromLow(p)'
         /\ \A p \in Tiny!HighPoints(s) : FromHigh(p)'
         /\ \A c \in Tiny!LowConstraints(s) : LowThrough(c)'
         /\ \A c \in Tiny!HighConstraints(s) : HighThrough(c)'
<1>1. /\ \A p : p = Tiny!NewLow(s) => FromLow(p)'
      /\ \A p : p = Tiny!NewHigh(s) => FromHigh(p)'
  BY DEF FromLow, FromHigh, Tiny!NewLow, Tiny!NewHigh, Tiny!Point
<1>2. /\ \A p \in tiny_low_points : FromLow(p)'
      /\ \A p \in tiny_high_points : FromHigh(p)'
      /\ \A c \in tiny_low_constraints : LowThrough(c)'
      /\ \A c \in tiny_high_constraints : HighThrough(c)'
  BY StillThrough DEF TinySide
<1>3. /\ \A p \in Tiny!LowPoints(s) : FromLow(p)'
      /\ \A p \in Tiny!HighPoints(s) : FromHigh(p)'
  BY <1>1, <1>2 DEF Tiny!LowPoints, Tiny!HighPoints, Tiny!Insert
<1>4. \A c \in Tiny!NewPairs(s) : FromLow(c[1])' /\ FromHigh(c[2])'
  BY <1>1, <1>2, <1>3 DEF Tiny!NewPairs
<1>5. \A c : /\ FromLow(c[1])' /\ FromHigh(c[2])' /\ c[1].x < c[2].x => LowThrough(c)'
             /\ FromLow(c[1])' /\ FromHigh(c[2])' /\ c[1].x > c[2].x => HighThrough(c)'
  BY DEF FromLow, FromHigh, LowThrough, HighThrough
<1>6. \A c \in Tiny!LowConstraints(s) : LowThrough(c)'
  BY <1>2, <1>4, <1>5 DEF Tiny!LowConstraints
<1>7. \A c \in Tiny!HighConstraints(s) : HighThrough(c)'
  BY <1>2, <1>4, <1>5 DEF Tiny!HighConstraints
<1> QED
  BY <1>3, <1>6, <1>7

LEMMA TinyCallThrough ==
  ASSUME TinySide, NEW s, samples' = samples \cup {s}, Tiny!TinyRecalculate(s)
  PROVE  TinySide'
<1>1. /\ Tiny!Select(s) /\ Tiny!Publish
      /\ tiny_low_points' \subseteq Tiny!LowPoints(s)
      /\ tiny_high_points' \subseteq Tiny!HighPoints(s)
      /\ tiny_low_constraints' \subseteq Tiny!LowConstraints(s)
      /\ tiny_high_constraints' \subseteq Tiny!HighConstraints(s)
  BY DEF Tiny!TinyRecalculate, Tiny!Recalculates, Tiny!TinyCleanup, Tiny!Prune
<1>2. tiny_low_constraint_pts' # NoPair =>
        LowThrough(tiny_low_constraint_pts)' /\ HighThrough(tiny_high_constraint_pts)'
  <2>1. CASE UNCHANGED <<tiny_low_constraint_pts, tiny_high_constraint_pts, tiny_diff_factor>>
    <3>1. tiny_low_constraint_pts # NoPair =>
            LowThrough(tiny_low_constraint_pts) /\ HighThrough(tiny_high_constraint_pts)
      BY DEF TinySide
    <3>2. /\ tiny_low_constraint_pts' = tiny_low_constraint_pts
          /\ tiny_high_constraint_pts' = tiny_high_constraint_pts
      BY <2>1
    <3> QED
      BY <3>1, <3>2 DEF LowThrough, HighThrough
  <2>2. CASE \E c \in Tiny!Tightest(Tiny!Improvements(s)) :
               /\ tiny_low_constraint_pts' = c[1]
               /\ tiny_high_constraint_pts' = c[2]
               /\ tiny_diff_factor' = Tiny!Difference(c[1], c[2])
    <3>1. /\ tiny_low_constraint_pts' \in Tiny!LowConstraints(s)
          /\ tiny_high_constraint_pts' \in Tiny!HighConstraints(s)
      BY <2>2 DEF Tiny!Tightest, Tiny!Improvements
    <3> QED
      BY <3>1, TinyNewThrough DEF LowThrough, HighThrough
  <2> QED
    BY <1>1, <2>1, <2>2 DEF Tiny!Select
<1>3. tiny_estimate' # NoEstimate => EstimateThrough(tiny_estimate)'
  <2>1. CASE tiny_estimate' = tiny_estimate
    <3>1. tiny_estimate # NoEstimate => EstimateThrough(tiny_estimate)
      BY DEF TinySide
    <3> QED
      BY <2>1, <3>1 DEF EstimateThrough, LowThrough, HighThrough
  <2>2. CASE /\ tiny_low_constraint_pts' # NoPair
             /\ tiny_estimate' = Estimate(tiny_low_constraint_pts', tiny_high_constraint_pts')
    BY <1>2, <2>2 DEF EstimateThrough
  <2> QED
    BY <1>1, <2>1, <2>2, SameOperators DEF Tiny!Publish
<1>4. /\ \A p \in tiny_low_points' : FromLow(p)'
      /\ \A p \in tiny_high_points' : FromHigh(p)'
      /\ \A c \in tiny_low_constraints' : LowThrough(c)'
      /\ \A c \in tiny_high_constraints' : HighThrough(c)'
  BY <1>1, TinyNewThrough
<1> QED
  BY <1>2, <1>3, <1>4 DEF TinySide

LEMMA TinyStoreThrough ==
  ASSUME TinySide, NEW s, samples' = samples \cup {s}, Tiny!Store(s)
  PROVE  TinySide'
<1>1. /\ tiny_low_points' = Tiny!LowPoints(s)
      /\ tiny_high_points' = Tiny!HighPoints(s)
      /\ tiny_low_constraints' = Tiny!LowConstraints(s)
      /\ tiny_high_constraints' = Tiny!HighConstraints(s)
      /\ tiny_low_constraint_pts' = tiny_low_constraint_pts
      /\ tiny_high_constraint_pts' = tiny_high_constraint_pts
      /\ tiny_estimate' = tiny_estimate
  BY DEF Tiny!Store
<1>2. /\ \A p \in tiny_low_points' : FromLow(p)'
      /\ \A p \in tiny_high_points' : FromHigh(p)'
      /\ \A c \in tiny_low_constraints' : LowThrough(c)'
      /\ \A c \in tiny_high_constraints' : HighThrough(c)'
  BY <1>1, TinyNewThrough
<1>3. /\ tiny_low_constraint_pts' # NoPair =>
           LowThrough(tiny_low_constraint_pts)' /\ HighThrough(tiny_high_constraint_pts)'
      /\ tiny_estimate' # NoEstimate => EstimateThrough(tiny_estimate)'
  <2>1. /\ tiny_low_constraint_pts # NoPair =>
             LowThrough(tiny_low_constraint_pts) /\ HighThrough(tiny_high_constraint_pts)
        /\ tiny_estimate # NoEstimate => EstimateThrough(tiny_estimate)
    BY DEF TinySide
  <2> QED
    BY <1>1, <2>1 DEF EstimateThrough, LowThrough, HighThrough
<1> QED
  BY <1>2, <1>3 DEF TinySide

LEMMA TinyInvariant == SideSpec => []TinySide
<1>1. SideInit => TinySide
  BY SameOperators DEF SideInit, Tiny!BaseInit, Tiny!NoEstimate, NoEstimate, TinySide
<1>2. TinySide /\ [SideNext]_sideVars => TinySide'
  <2> SUFFICES ASSUME TinySide, [SideNext]_sideVars PROVE TinySide'
    OBVIOUS
  <2>1. ASSUME NEW s \in Samples, AddBoth(s) PROVE TinySide'
    BY <2>1, TinyStoreThrough, TinyCallThrough DEF AddBoth
  <2>2. CASE UNCHANGED sideVars
    BY <2>2 DEF sideVars, Tiny!baseVars, TinySide, FromLow, FromHigh, EstimateThrough,
                LowThrough, HighThrough
  <2> QED
    BY <2>1, <2>2 DEF SideNext
<1> QED
  BY <1>1, <1>2, PTL DEF SideSpec

---------------------------------------------------------------------------
(* The promises of MiniSync *)

\* A gap is no smaller than that between lines which are as good.
LEMMA GapGrows ==
  ASSUME NEW u, NEW v, NEW w, NEW z, Spans(u, v), Spans(w, z), AsLow(w, u), AsHigh(z, v)
  PROVE  ~Less(Gap(u, v), Gap(w, z))
<1> DEFINE p  == u.a * v.d - v.a * u.d
           q  == v.b * u.d - u.b * v.d
           D  == u.d * v.d
           p1 == w.a * z.d - z.a * w.d
           q1 == z.b * w.d - w.b * z.d
           D1 == w.d * z.d
<1>1. /\ Gap(u, v).n = p * q /\ Gap(u, v).d = D * D
      /\ Gap(w, z).n = p1 * q1 /\ Gap(w, z).d = D1 * D1
  BY DEF Gap
<1>2. D \in Int /\ D > 0 /\ D1 \in Int /\ D1 > 0
  BY Products DEF Spans, IsLine
<1>3. /\ p \in Int /\ q \in Int /\ p1 \in Int /\ q1 \in Int
      /\ 0 <= p1 /\ 0 <= q1 /\ 0 <= p /\ 0 <= q
  BY DEF Spans, IsLine, NoSteeper, NoLower
<1>4. p1 * (2 * D) <= p * (2 * D1) /\ q1 * (2 * D) <= q * (2 * D1)
  <2>1. NoWorse(Midpoint(u, v), Midpoint(w, z))
    BY BetterNoWorse DEF Spans, AsLow, AsHigh
  <2>2. /\ Midpoint(u, v).driftError = p /\ Midpoint(u, v).offsetError = q
        /\ Midpoint(u, v).den = 2 * D
        /\ Midpoint(w, z).driftError = p1 /\ Midpoint(w, z).offsetError = q1
        /\ Midpoint(w, z).den = 2 * D1
    BY DEF Midpoint
  <2> HIDE DEF p, q, D, p1, q1, D1
  <2> QED
    BY <2>1, <2>2 DEF NoWorse
<1> HIDE DEF p, q, D, p1, q1, D1
<1>5. p1 * D <= p * D1 /\ q1 * D <= q * D1
  BY <1>2, <1>3, <1>4
<1>6. (p1 * D) * (q1 * D) <= (p * D1) * (q1 * D)
  <2>1. q1 * D >= 0
    BY <1>2, <1>3
  <2> QED
    BY <1>2, <1>3, <1>5, <2>1, Multiply
<1>7. (q1 * D) * (p * D1) <= (q * D1) * (p * D1)
  <2>1. p * D1 >= 0
    BY <1>2, <1>3
  <2> QED
    BY <1>2, <1>3, <1>5, <2>1, Multiply
<1>8. (p1 * q1) * (D * D) <= (p * q) * (D1 * D1)
  BY <1>2, <1>3, <1>6, <1>7
<1> QED
  BY <1>1, <1>2, <1>3, <1>8 DEF Less

\* No gap is smaller than one that is nothing.
LEMMA NothingSmaller ==
  ASSUME NEW u, NEW v, NEW w, NEW z, Spans(u, v), Spans(w, z), Gap(w, z).n <= 0
  PROVE  ~Less(Gap(u, v), Gap(w, z))
<1> DEFINE p  == u.a * v.d - v.a * u.d
           q  == v.b * u.d - u.b * v.d
           D  == u.d * v.d
           n1 == Gap(w, z).n
           D1 == w.d * z.d
<1>1. Gap(u, v).n = p * q /\ Gap(u, v).d = D * D /\ Gap(w, z).d = D1 * D1
  BY DEF Gap
<1>2. D \in Int /\ D > 0 /\ D1 \in Int /\ D1 > 0
  BY Products DEF Spans, IsLine
<1>3. p \in Int /\ q \in Int /\ 0 <= p /\ 0 <= q
  BY DEF Spans, IsLine, NoSteeper, NoLower
<1>4. n1 \in Int /\ n1 <= 0
  BY DEF Spans, IsLine, Gap
<1> HIDE DEF p, q, D, n1, D1
<1>5. 0 <= p * q /\ p * q \in Int /\ D * D \in Int /\ D * D > 0 /\ D1 * D1 \in Int /\ D1 * D1 > 0
  BY <1>2, <1>3, Products
<1>6. n1 * (D * D) <= 0 * (D * D)
  BY <1>4, <1>5, Multiply
<1>7. 0 * (D1 * D1) <= (p * q) * (D1 * D1)
  BY <1>5, Multiply
<1>8. n1 * (D * D) <= (p * q) * (D1 * D1)
  BY <1>4, <1>5, <1>6, <1>7
<1> QED
  BY <1>1, <1>4, <1>5, <1>8 DEF Less, n1

\* Lines through samples are those the algorithms compare.
LEMMA ThroughKeys ==
  ASSUME samples \subseteq Samples
  PROVE  /\ \A s, t \in samples : s.tb < t.tb =>
              /\ LowKey(<<LowOf(s), HighOf(t)>>, Slope, Offset)
              /\ HighKey(<<LowOf(t), HighOf(s)>>, Slope, Offset)
<1> SUFFICES ASSUME NEW s \in samples, NEW t \in samples, s.tb < t.tb
             PROVE  /\ LowKey(<<LowOf(s), HighOf(t)>>, Slope, Offset)
                    /\ HighKey(<<LowOf(t), HighOf(s)>>, Slope, Offset)
  OBVIOUS
<1> QED
  BY SamplePoints, SamplesBracket, LowTo, HighFrom

LEMMA SideNoWorse ==
  ASSUME MiniSide, TinySide
  PROVE  MiniNoWorseInDoubt
<1> SUFFICES ASSUME diff_factor.n > 0, tiny_estimate # NoEstimate
             PROVE  NoWorse(tiny_estimate, estimate)
  BY DEF MiniNoWorseInDoubt, MiniNoWorse
<1>1. Best /\ samples \subseteq Samples /\ CurrentEstimate /\ CurrentInv(Slope, Offset)
  BY DEF MiniSide, NothingLost, Seen, TurnInv, BaseInv
<1>2. PICK low, high : LowThrough(low) /\ HighThrough(high) /\ tiny_estimate = Estimate(low, high)
  BY DEF TinySide, EstimateThrough
<1>3. PICK s \in samples, t \in samples : /\ s.tb < t.tb
                                          /\ low[1].x = s.tb /\ low[1].y = s.to
                                          /\ low[2].x = t.tb /\ low[2].y = t.tr
  BY <1>2 DEF LowThrough
<1>4. PICK a \in samples, b \in samples : /\ a.tb < b.tb
                                          /\ high[1].x = b.tb /\ high[1].y = b.to
                                          /\ high[2].x = a.tb /\ high[2].y = a.tr
  BY <1>2 DEF HighThrough
<1>5. /\ LineOf(low) = LineOf(<<LowOf(s), HighOf(t)>>)
      /\ LineOf(high) = LineOf(<<LowOf(b), HighOf(a)>>)
  BY <1>3, <1>4 DEF LineOf, Line, LowOf, HighOf, Point
<1>6. /\ low_constraint_pts # NoPair
      /\ AsLow(LineOf(low_constraint_pts), LineOf(low))
      /\ AsHigh(LineOf(high_constraint_pts), LineOf(high))
  BY <1>1, <1>3, <1>4, <1>5 DEF Best
<1>7. IsLine(LineOf(low)) /\ IsLine(LineOf(high))
  BY <1>1, <1>3, <1>4, <1>5, ThroughKeys, SamplesBracket, LowLine, HighLine
<1>8. IsLine(LineOf(low_constraint_pts)) /\ IsLine(LineOf(high_constraint_pts))
  BY <1>1, <1>6, SamplesBracket, LowLine, HighLine DEF CurrentInv
<1>9. estimate = Estimate(low_constraint_pts, high_constraint_pts)
  BY <1>1, <1>6 DEF CurrentEstimate
<1> QED
  BY <1>2, <1>6, <1>7, <1>8, <1>9, BetterNoWorse DEF Estimate, AsLow, AsHigh

(***************************************************************************)
(* With the same samples in time order, and as long as an error is left in *)
(* both values, neither error of MiniSync is larger than that of TinySync  *)
(* (tests.cpp:91), until the counter of calls wraps around.                *)
(***************************************************************************)
THEOREM MiniNeverWorse ==
  ASSUME Ordered, NoWrap
  PROVE  SideSpec => []MiniNoWorseInDoubt
BY SideInvariant, TinyInvariant, SideNoWorse, PTL

---------------------------------------------------------------------------
(* The algorithm that keeps all samples *)

\* Its lines and gaps are those of MiniSync.
LEMMA OptimalOperators ==
  /\ \A s, t : Optimal!LowLine(s, t) = LineOf(<<LowOf(s), HighOf(t)>>)
  /\ \A s, t : Optimal!HighLine(s, t) = LineOf(<<LowOf(t), HighOf(s)>>)
  /\ \A u, v : Optimal!Gap(u, v) = Gap(u, v) /\ Optimal!Midpoint(u, v) = Midpoint(u, v)
  /\ \A g, h : Optimal!Less(g, h) <=> Less(g, h)
<1>1. \A l, h : Optimal!Line(l, h) = Line(l, h)
  BY DEF Optimal!Line, Line
<1>2. \A s, t : /\ Line([x |-> s.tb, y |-> s.to], [x |-> t.tb, y |-> t.tr])
                     = LineOf(<<LowOf(s), HighOf(t)>>)
                /\ Line([x |-> t.tb, y |-> t.to], [x |-> s.tb, y |-> s.tr])
                     = LineOf(<<LowOf(t), HighOf(s)>>)
  BY DEF LineOf, Line, LowOf, HighOf, Point
<1>3. /\ \A s, t : Optimal!LowLine(s, t) = LineOf(<<LowOf(s), HighOf(t)>>)
      /\ \A s, t : Optimal!HighLine(s, t) = LineOf(<<LowOf(t), HighOf(s)>>)
  BY <1>1, <1>2 DEF Optimal!LowLine, Optimal!HighLine
<1>4. \A u, v : Optimal!Gap(u, v) = Gap(u, v) /\ Optimal!Midpoint(u, v) = Midpoint(u, v)
  BY DEF Optimal!Gap, Gap, Optimal!Midpoint, Midpoint
<1>5. \A g, h : Optimal!Less(g, h) <=> Less(g, h)
  BY DEF Optimal!Less, Less
<1> QED
  BY <1>3, <1>4, <1>5

\* The current lines go through samples.
LEMMA CurrentThrough ==
  ASSUME MiniSide, low_constraint_pts # NoPair
  PROVE  LowThrough(low_constraint_pts) /\ HighThrough(high_constraint_pts)
<1> DEFINE low == low_constraint_pts
           high == high_constraint_pts
<1>1. StoredInv /\ CurrentInv(Slope, Offset) /\ Seen
  BY DEF MiniSide, TurnInv, BaseInv
<1>2. /\ low[1] \in low_points /\ low[2] \in high_points
      /\ high[1] \in low_points /\ high[2] \in high_points
  BY <1>1 DEF StoredInv
<1>3. low[1].x < low[2].x /\ high[1].x > high[2].x
  BY <1>1 DEF CurrentInv, LowKey, HighKey
<1>4. FromLow(low[1]) /\ FromHigh(low[2]) /\ FromLow(high[1]) /\ FromHigh(high[2])
  BY <1>1, <1>2 DEF Seen
<1> HIDE DEF low, high
<1>5. LowThrough(low)
  BY <1>3, <1>4 DEF FromLow, FromHigh, LowThrough
<1>6. HighThrough(high)
  BY <1>3, <1>4 DEF FromLow, FromHigh, HighThrough
<1> QED
  BY <1>5, <1>6 DEF low, high

\* No lines through samples leave a smaller gap.
TightestOfAll ==
  low_constraint_pts # NoPair =>
    <<LineOf(low_constraint_pts), LineOf(high_constraint_pts)>> \in Optimal!Tightest(samples)

LEMMA CurrentOptimal ==
  ASSUME MiniSide
  PROVE  TightestOfAll
<1> SUFFICES ASSUME low_constraint_pts # NoPair
             PROVE  <<LineOf(low_constraint_pts), LineOf(high_constraint_pts)>>
                      \in Optimal!Tightest(samples)
  BY DEF TightestOfAll
<1> DEFINE w == LineOf(low_constraint_pts)
           z == LineOf(high_constraint_pts)
           lows  == {Optimal!LowLine(p[1], p[2]) : p \in Optimal!Earlier(samples)}
           highs == {Optimal!HighLine(p[1], p[2]) : p \in Optimal!Earlier(samples)}
<1>1. /\ samples \subseteq Samples /\ NothingLost
      /\ CurrentEstimate /\ CurrentInv(Slope, Offset) /\ DifferenceInv
  BY DEF MiniSide, Seen, TurnInv, BaseInv
<1>2. /\ \A p \in Optimal!Earlier(samples) : p[1] \in samples /\ p[2] \in samples /\ p[1].tb < p[2].tb
      /\ \A s, t \in samples : s.tb < t.tb =>
           <<s, t>> \in Optimal!Earlier(samples) /\ <<s, t>>[1] = s /\ <<s, t>>[2] = t
  BY DEF Optimal!Earlier
<1>3. w \in lows
  <2>1. PICK s \in samples, t \in samples :
               /\ s.tb < t.tb
               /\ low_constraint_pts[1].x = s.tb /\ low_constraint_pts[1].y = s.to
               /\ low_constraint_pts[2].x = t.tb /\ low_constraint_pts[2].y = t.tr
    BY CurrentThrough DEF LowThrough
  <2>2. w = LineOf(<<LowOf(s), HighOf(t)>>)
    BY <2>1 DEF LineOf, Line, LowOf, HighOf, Point
  <2>3. w = Optimal!LowLine(<<s, t>>[1], <<s, t>>[2])
    BY <2>2, OptimalOperators
  <2> QED
    BY <1>2, <2>1, <2>3
<1>4. z \in highs
  <2>1. PICK s \in samples, t \in samples :
               /\ s.tb < t.tb
               /\ high_constraint_pts[1].x = t.tb /\ high_constraint_pts[1].y = t.to
               /\ high_constraint_pts[2].x = s.tb /\ high_constraint_pts[2].y = s.tr
    BY CurrentThrough DEF HighThrough
  <2>2. z = LineOf(<<LowOf(t), HighOf(s)>>)
    BY <2>1 DEF LineOf, Line, LowOf, HighOf, Point
  <2>3. z = Optimal!HighLine(<<s, t>>[1], <<s, t>>[2])
    BY <2>2, OptimalOperators
  <2> QED
    BY <1>2, <2>1, <2>3
<1>5. ASSUME NEW u \in lows, NEW v \in highs
      PROVE  ~Less(Gap(u, v), Gap(w, z))
  <2>1. PICK s \in samples, t \in samples : s.tb < t.tb /\ u = LineOf(<<LowOf(s), HighOf(t)>>)
    <3>1. PICK p \in Optimal!Earlier(samples) : u = Optimal!LowLine(p[1], p[2])
      OBVIOUS
    <3>2. u = LineOf(<<LowOf(p[1]), HighOf(p[2])>>)
      BY <3>1, OptimalOperators
    <3> QED
      BY <1>2, <3>2
  <2>2. PICK a \in samples, b \in samples : a.tb < b.tb /\ v = LineOf(<<LowOf(b), HighOf(a)>>)
    <3>1. PICK p \in Optimal!Earlier(samples) : v = Optimal!HighLine(p[1], p[2])
      OBVIOUS
    <3>2. v = LineOf(<<LowOf(p[2]), HighOf(p[1])>>)
      BY <3>1, OptimalOperators
    <3> QED
      BY <1>2, <3>2
  <2>3. Spans(u, v)
    BY <1>1, <2>1, <2>2, ThroughKeys, SamplesBracket, KeysSpan
  <2>4. Spans(w, z)
    BY <1>1, SamplesBracket, KeysSpan DEF CurrentInv
  <2>5. diff_factor = Gap(w, z) /\ diff_factor.n \in Int
    BY <1>1 DEF CurrentEstimate, Difference, DifferenceInv
  <2>6. CASE diff_factor.n > 0
    <3>1. AsLow(w, u) /\ AsHigh(z, v)
      BY <1>1, <2>1, <2>2, <2>6 DEF NothingLost, Best
    <3> HIDE DEF w, z
    <3> QED
      BY <2>3, <2>4, <3>1, GapGrows
  <2>7. CASE ~(diff_factor.n > 0)
    <3> HIDE DEF w, z
    <3>1. Gap(w, z).n <= 0
      BY <2>5, <2>7
    <3> QED
      BY <2>3, <2>4, <3>1, NothingSmaller
  <2> QED
    BY <2>6, <2>7
<1> HIDE DEF w, z
<1>6. \A g \in {Optimal!Gap(u, v) : u \in lows, v \in highs} :
        ~Optimal!Less(g, Optimal!Gap(<<w, z>>[1], <<w, z>>[2]))
  BY <1>5, OptimalOperators
<1>7. <<w, z>> \in Optimal!Tightest(samples)
  BY <1>3, <1>4, <1>6 DEF Optimal!Tightest
<1> QED
  BY <1>7 DEF w, z

LEMMA AddBothOptimal ==
  ASSUME Ordered, NoWrap, MiniSide, MiniSide', TightestOfAll', NEW s \in Samples, AddBoth(s)
  PROVE  Optimal!Add(s)
<1>1. /\ SlopeInv /\ Seen /\ samples' = samples \cup {s}
      /\ MiniStore(s) \/ MiniRecalculate(s)
  BY DEF MiniSide, AddBoth
<1>2. \/ calls = 0 /\ MiniStore(s)
      \/ calls > 0 /\ MiniRecalculate(s)
  BY <1>1, SideSteps
<1>3. CASE calls = 0 /\ MiniStore(s)
  BY <1>1, <1>3 DEF Seen, MiniStore, Store, Optimal!Add
<1>4. CASE calls > 0 /\ MiniRecalculate(s)
  <2>1. TurnInv(Slope, Offset) /\ Brackets(s, Slope, Offset) /\ InTurn(s) /\ Recalculates(s)
    BY <1>1, <1>4, SideSteps DEF MiniSide, MiniRecalculate
  <2>2. low_constraint_pts' # NoPair
    BY <2>1, SamplesBracket, PairChosen
  <2>3. estimate' = Estimate(low_constraint_pts', high_constraint_pts')
    BY <2>2 DEF MiniSide, TurnInv, CurrentEstimate
  <2>4. (<<LineOf(low_constraint_pts), LineOf(high_constraint_pts)>> \in Optimal!Tightest(samples))'
    BY <2>2 DEF TightestOfAll
  <2> QED
    BY <1>1, <1>4, <2>3, <2>4, OptimalOperators DEF Seen, Estimate, Optimal!Add
<1> QED
  BY <1>2, <1>3, <1>4

(***************************************************************************)
(* MiniSync implements the algorithm that keeps all samples: with these in *)
(* time order, and until the counter of calls wraps around, every estimate *)
(* is that of a tightest pair of lines through any samples so far.         *)
(***************************************************************************)
THEOREM MiniIsOptimal ==
  ASSUME Ordered, NoWrap
  PROVE  SideSpec => MiniOptimal
<1>1. SideInit => Optimal!OptInit
  BY DEF SideInit, MiniInit, BaseInit, Optimal!OptInit
<1>2. MiniSide /\ MiniSide' /\ TightestOfAll' /\ [SideNext]_sideVars =>
        [Optimal!OptNext]_<<samples, estimate>>
  <2>1. UNCHANGED sideVars => UNCHANGED <<samples, estimate>>
    BY DEF sideVars, miniVars
  <2> QED
    BY <2>1, AddBothOptimal DEF SideNext, Optimal!OptNext
<1> QED
  BY <1>1, <1>2, SideInvariant, CurrentOptimal, PTL
     DEF SideSpec, MiniOptimal, Optimal!OptSpec, Optimal!optVars
=============================================================================
