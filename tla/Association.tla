----------------------------- MODULE Association -----------------------------
(***************************************************************************)
(* Which obstacles are tied to which poses of the band: AddEdgesObstacles()*)
(* looks for the obstacles of a pose, AddEdgesObstaclesLegacy() for the    *)
(* pose of an obstacle (src/optimal_planner.cpp,                           *)
(* src/timed_elastic_band.cpp).  The edges that follow are in BandGraph.   *)
(***************************************************************************)
EXTENDS CostTerms

LowestTerms(q) ==
  LET gcd[m, n \in Nat] == IF n = 0 THEN m ELSE gcd[n, m % n]
      g == gcd[q[1], q[2]]
  IN <<q[1] \div g, q[2] \div g>>

(* sqrt(c.sq) - c.less < sqrt(d.sq) - d.less, without the roots *)
Nearer(c, d) ==
  LET k    == c.less - d.less
      by   == Q(4 * k * k)
      csq  == LowestTerms(c.sq)
      dsq  == LowestTerms(d.sq)
      less == SubQ(SubQ(csq, dsq), Q(k * k))
      more == SubQ(SubQ(dsq, csq), Q(k * k))
  IN IF k = 0 THEN LessQ(csq, dsq)
     ELSE IF k > 0 THEN less[1] < 0 \/ LessQ(MulQ(less, less), MulQ(by, dsq))
     ELSE more[1] > 0 /\ LessQ(MulQ(by, csq), MulQ(more, more))

(* calculateDistance() *)
CalculateDistance(robot, pose, o) ==
  LET ds == Distances(robot, pose, o) IN CHOOSE c \in ds : \A d \in ds : ~Nearer(d, c)

(* The obstacles considered at a pose: those nearer than `force', and of   *)
(* those no farther than `cutoff' the first of the nearest on each side.   *)
(* The sides are those of the line through the origin that has the pose's  *)
(* heading, for the pose is not taken off the obstacle's centroid.         *)
RelevantObstacles(pose, robot, obstacles, includeDynamic, force, cutoff) ==
  LET dist    == [i \in DOMAIN obstacles |-> CalculateDistance(robot, pose, obstacles[i])]
      static  == {i \in DOMAIN obstacles : ~(includeDynamic /\ obstacles[i].dynamic)}
      forced  == {i \in static : Below(dist[i], force)}
      between == {i \in static \ forced : AtMost(dist[i], cutoff)}
      left    == {i \in between : LET g == Centroid(obstacles[i])
                                  IN Cross(Heading(pose), g.at) * g.den > 0}
      FirstNearest(S) ==
        {i \in S : \A j \in S : /\ ~Nearer(dist[j], dist[i])
                                /\ j < i => Nearer(dist[i], dist[j])}
  IN forced \cup FirstNearest(left) \cup FirstNearest(between \ left)

(* findClosestTrajectoryPose(), in its four forms: the first of the poses  *)
(* closest to a point, a line or a polygon; other obstacles are taken for  *)
(* their centroid.                                                         *)
ClosestPose(b, o) ==
  LET sq(i) == IF o.class \in {"point", "line", "polygon"}
                 THEN PointToPolygon(b.poses[i].at, o.vertices)
                 ELSE SqTo(b.poses[i].at, Centroid(o))
  IN CHOOSE i \in DOMAIN b.poses :
       /\ \A j \in DOMAIN b.poses : ~LessQ(sq(j), sq(i))
       /\ \A j \in 1 .. i - 1 : LessQ(sq(i), sq(j))
=============================================================================
