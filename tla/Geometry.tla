------------------------------ MODULE Geometry ------------------------------
(***************************************************************************)
(* Distances in the plane (include/distance_calculations.h).  Points have  *)
(* integer coordinates and every result is exact: a squared distance is a  *)
(* rational <<n, d>>, of which different ones may be equal, and the point  *)
(* of a segment nearest to another one is at / den.                        *)
(***************************************************************************)
EXTENDS Integers, Sequences

Plus(p, q)  == <<p[1] + q[1], p[2] + q[2]>>
Minus(p, q) == <<p[1] - q[1], p[2] - q[2]>>
Scale(k, p) == <<k * p[1], k * p[2]>>
Dot(p, q)   == p[1] * q[1] + p[2] * q[2]
Cross(p, q) == p[1] * q[2] - p[2] * q[1]
SqNorm(p)   == Dot(p, p)

(* rationals with positive denominators *)
LessQ(q, r) == q[1] * r[2] < r[1] * q[2]
SameQ(q, r) == q[1] * r[2] = r[1] * q[2]
MinQ(q, r)  == IF LessQ(r, q) THEN r ELSE q

(* the least of the rationals f[1], f[2], ..., f[n] *)
LeastQ(f) ==
  LET least[i \in 1 .. Len(f)] == IF i = 1 THEN f[1] ELSE MinQ(least[i - 1], f[i])
  IN least[Len(f)]

(* closest_point_on_line_segment_2d() *)
ClosestOnSegment(p, a, b) ==
  LET d == Minus(b, a)
      u == Dot(Minus(p, a), d)
  IN IF d = <<0, 0>> \/ u <= 0 THEN [at |-> a, den |-> 1]
     ELSE IF u >= SqNorm(d) THEN [at |-> b, den |-> 1]
     ELSE [at |-> Plus(Scale(SqNorm(d), a), Scale(u, d)), den |-> SqNorm(d)]

(* The squared distance from p to the point c of a segment nearest to it,  *)
(* a multiple of 1 / den: c is an end, or den the squared length.          *)
SqTo(p, c) == <<SqNorm(Minus(Scale(c.den, p), c.at)) \div c.den, c.den>>

PointToSegment(p, a, b) == SqTo(p, ClosestOnSegment(p, a, b))

(* check_line_segments_intersection_2d().  Parallel segments never         *)
(* intersect; whether two that only touch do depends on their directions.  *)
SegmentsIntersect(a, b, c, d) ==
  LET denom == Cross(Minus(b, a), Minus(d, c))
      s     == Cross(Minus(b, a), Minus(a, c))
      t     == Cross(Minus(d, c), Minus(a, c))
  IN /\ denom # 0
     /\ (s < 0) # (denom > 0) /\ (t < 0) # (denom > 0)
     /\ (s > denom) # (denom > 0) /\ (t > denom) # (denom > 0)

(* Fault: segments that cross are as far apart as their ends. *)
SegmentToSegmentEnds(a, b, c, d) ==
  LeastQ(<<PointToSegment(a, c, d), PointToSegment(b, c, d),
           PointToSegment(c, a, b), PointToSegment(d, a, b)>>)

SegmentToSegment(a, b, c, d) ==
  IF SegmentsIntersect(a, b, c, d) THEN <<0, 1>>
  ELSE LeastQ(<<PointToSegment(a, c, d), PointToSegment(b, c, d),
                PointToSegment(c, a, b), PointToSegment(d, a, b)>>)

(* The sides of a polygon in the order of the loops: two vertices have one *)
(* between them, more are closed.  A single vertex is no polygon but a     *)
(* point, in the code a case of its own, here a side of length zero.       *)
Sides(vs) ==
  IF Len(vs) <= 2 THEN <<<<vs[1], vs[Len(vs)]>>>>
  ELSE [i \in 1 .. Len(vs) |-> <<vs[i], vs[(i % Len(vs)) + 1]>>]


PointToPolygon(p, vs) ==
  LET s == Sides(vs) IN LeastQ([i \in 1 .. Len(s) |-> PointToSegment(p, s[i][1], s[i][2])])

SegmentToPolygon(a, b, vs) ==
  LET s == Sides(vs) IN LeastQ([i \in 1 .. Len(s) |-> SegmentToSegment(a, b, s[i][1], s[i][2])])

PolygonToPolygon(vs, ws) ==
  LET s == Sides(vs) IN LeastQ([i \in 1 .. Len(s) |-> SegmentToPolygon(s[i][1], s[i][2], ws)])
=============================================================================
