----------------------------- MODULE Obstacles -----------------------------
(***************************************************************************)
(* The obstacle classes (include/obstacles.h, src/obstacles.cpp).  An      *)
(* obstacle is its class, vertices, radius and velocity; what the five     *)
(* classes override is one operator with a case for each.  A clearance is  *)
(* a distance less the radii taken off it, sqrt(sq) - less, kept apart     *)
(* because the root is irrational.                                         *)
(***************************************************************************)
EXTENDS Geometry

Clearance(sq, less) == [sq |-> sq, less |-> less]

(* sqrt(sq) - less < m, and <= m *)
Below(c, m)  == m + c.less > 0 /\ c.sq[1] < (m + c.less) * (m + c.less) * c.sq[2]
AtMost(c, m) == m + c.less >= 0 /\ c.sq[1] <= (m + c.less) * (m + c.less) * c.sq[2]

-----------------------------------------------------------------------------
(* How an obstacle comes to be.                                            *)

Obstacle(class, vs, r) ==
  [class |-> class, vertices |-> vs, radius |-> r, dynamic |-> FALSE, velocity |-> <<0, 0>>]

PointObstacle(p)       == Obstacle("point", <<p>>, 0)
CircularObstacle(p, r) == Obstacle("circle", <<p>>, r)
LineObstacle(a, b)     == Obstacle("line", <<a, b>>, 0)
PillObstacle(a, b, r)  == Obstacle("pill", <<a, b>>, r)

(* finalizePolygon() drops a last vertex that repeats the first. *)
PolygonObstacle(vs) ==
  Obstacle("polygon",
           IF Len(vs) >= 2 /\ vs[1] = vs[Len(vs)] THEN SubSeq(vs, 1, Len(vs) - 1) ELSE vs, 0)

(* setCentroidVelocity() from a message: below a thousandth, which here is *)
(* the zero vector, an obstacle stays static.                              *)
WithVelocity(o, v) ==
  IF v = <<0, 0>> THEN o ELSE [o EXCEPT !.dynamic = TRUE, !.velocity = v]

(* The obstacle of a polygon with at least one point: the radius counts    *)
(* for a single point only.  No message makes a pill.                      *)
FromPolygon(points, r) ==
  IF Len(points) = 1 THEN IF r > 0 THEN CircularObstacle(points[1], r) ELSE PointObstacle(points[1])
  ELSE IF Len(points) = 2 THEN LineObstacle(points[1], points[2])
  ELSE PolygonObstacle(points)

(* An obstacle of the custom message is added; without a point it is       *)
(* skipped.                                                                *)
AddCustomObstacle(obstacles, m) ==
  IF m.points = <<>> THEN obstacles
  ELSE Append(obstacles, WithVelocity(FromPolygon(m.points, m.radius), m.velocity))

(* An obstacle of the costmap converter: one without a point is not added, *)
(* but its velocity goes to the last one there is.                         *)
AddConvertedObstacle(obstacles, m) ==
  LET os == IF m.points = <<>> THEN obstacles
            ELSE Append(obstacles, FromPolygon(m.points, m.radius))
  IN IF os = <<>> THEN os ELSE [os EXCEPT ![Len(os)] = WithVelocity(@, m.velocity)]

-----------------------------------------------------------------------------
(* getCentroid().  The sides of a polygon are weighted with twice the area *)
(* each spans with the origin; one without area has its centroid halfway   *)
(* between the two vertices farthest apart.                                *)

Midpoint(a, b) == [at |-> Plus(a, b), den |-> 2]

Total(f) ==
  LET sum[i \in 0 .. Len(f)] == IF i = 0 THEN 0 ELSE sum[i - 1] + f[i]
  IN sum[Len(f)]

Area2(vs) ==
  LET s == Sides(vs) IN Total([i \in 1 .. Len(s) |-> Cross(s[i][1], s[i][2])])

(* the first of the pairs of vertices that are farthest apart *)
Farthest(vs) ==
  LET far(i, j) == SqNorm(Minus(vs[j], vs[i]))
      pairs == {e \in (1 .. Len(vs)) \X (1 .. Len(vs)) : e[1] < e[2]}
  IN CHOOSE e \in pairs :
       \A f \in pairs :
         \/ far(f[1], f[2]) < far(e[1], e[2])
         \/ /\ far(f[1], f[2]) = far(e[1], e[2])
            /\ e[1] < f[1] \/ (e[1] = f[1] /\ e[2] <= f[2])

PolygonCentroid(vs) ==
  LET s == Sides(vs)
      Moment(k) == Total([i \in 1 .. Len(s) |->
                         (s[i][1][k] + s[i][2][k]) * Cross(s[i][1], s[i][2])])
  IN IF Area2(vs) # 0 THEN [at |-> <<Moment(1), Moment(2)>>, den |-> 3 * Area2(vs)]
     ELSE LET e == Farthest(vs) IN Midpoint(vs[e[1]], vs[e[2]])

Centroid(o) ==
  CASE Len(o.vertices) = 1 -> [at |-> o.vertices[1], den |-> 1]
    [] Len(o.vertices) = 2 -> Midpoint(o.vertices[1], o.vertices[2])
    [] OTHER -> PolygonCentroid(o.vertices)

-----------------------------------------------------------------------------
(* getMinimumDistance(): to a position, to a line, to a polygon.           *)

ToPosition(o, p) == Clearance(PointToPolygon(p, o.vertices), o.radius)

ToLine(o, a, b) ==
  CASE o.class \in {"point", "circle"} ->
         Clearance(PointToSegment(o.vertices[1], a, b), o.radius)
    [] o.class \in {"line", "pill"} ->
         Clearance(SegmentToSegment(o.vertices[1], o.vertices[2], a, b), o.radius)
    [] o.class = "polygon" -> Clearance(SegmentToPolygon(a, b, o.vertices), 0)

ToPolygon(o, vs) ==
  CASE o.class \in {"point", "circle"} ->
         Clearance(PointToPolygon(o.vertices[1], vs), o.radius)
    [] o.class \in {"line", "pill"} ->
         Clearance(SegmentToPolygon(o.vertices[1], o.vertices[2], vs), o.radius)
    [] o.class = "polygon" -> Clearance(PolygonToPolygon(vs, o.vertices), 0)

(* getMinimumSpatioTemporalDistance(), in its three forms, is the minimum  *)
(* distance to the obstacle where it is at time t.                         *)
Predicted(o, t) ==
  [o EXCEPT !.vertices = [i \in DOMAIN @ |-> Plus(@[i], Scale(t, o.velocity))]]

(* getClosestPoint() of the classes without a radius: the first of the     *)
(* sides with the nearest point.                                           *)
ClosestPoint(o, p) ==
  LET s == Sides(o.vertices)
      c == [i \in 1 .. Len(s) |-> ClosestOnSegment(p, s[i][1], s[i][2])]
      i == CHOOSE j \in DOMAIN s :
             /\ \A k \in DOMAIN s : ~LessQ(SqTo(p, c[k]), SqTo(p, c[j]))
             /\ \A k \in 1 .. j - 1 : LessQ(SqTo(p, c[j]), SqTo(p, c[k]))
  IN c[i]

-----------------------------------------------------------------------------
(* checkCollision() and checkLineIntersection().                           *)

(* A ray to the right of the point crosses an odd number of sides. *)
Inside(p, vs) ==
  LET crosses(a, b) ==
        /\ (a[2] > p[2]) # (b[2] > p[2])
        /\ IF b[2] > a[2]
             THEN (p[1] - a[1]) * (b[2] - a[2]) < (b[1] - a[1]) * (p[2] - a[2])
             ELSE (p[1] - a[1]) * (b[2] - a[2]) > (b[1] - a[1]) * (p[2] - a[2])
      n == Total([i \in DOMAIN vs |->
                 IF crosses(vs[i], vs[IF i = 1 THEN Len(vs) ELSE i - 1]) THEN 1 ELSE 0])
  IN n % 2 = 1

CheckCollision(o, p, m) ==
  CASE o.class \in {"point", "circle"} -> Below(ToPosition(o, p), m)
    [] o.class \in {"line", "pill"} \/ Len(o.vertices) = 2 -> AtMost(ToPosition(o, p), m)
    [] OTHER -> Inside(p, o.vertices) \/ (m # 0 /\ Below(ToPosition(o, p), m))

(* A line from a to b comes within m of a point or a circle; 0 / 0 compares *)
(* false.  The others look for a side that is crossed, whatever m is.       *)
CheckLineIntersection(o, a, b, m) ==
  CASE o.class \in {"point", "circle"} ->
         /\ a # b
         /\ LET c == ClosestOnSegment(o.vertices[1], a, b)
            IN Below(Clearance(SqTo(o.vertices[1], c), o.radius), m)
    [] o.class \in {"line", "pill"} -> SegmentsIntersect(a, b, o.vertices[1], o.vertices[2])
    [] o.class = "polygon" ->
         \E i \in DOMAIN Sides(o.vertices) :
           SegmentsIntersect(a, b, Sides(o.vertices)[i][1], Sides(o.vertices)[i][2])
=============================================================================
