---------------------------- MODULE RobotModels ----------------------------
(***************************************************************************)
(* The robot footprints (include/robot_footprint_model.h) and how far each *)
(* is from an obstacle.  A pose has integer coordinates and a heading in   *)
(* quarter turns, whose sine and cosine are whole.  The footprint of two   *)
(* circles is two clearances, of which the code takes the smaller.         *)
(***************************************************************************)
EXTENDS Obstacles

Pose(x, y, quarter) == [at |-> <<x, y>>, quarter |-> quarter]

(* orientationUnitVec(): the cosine and sine of the heading *)
Heading(pose) == <<<<1, 0>>, <<0, 1>>, <<-1, 0>>, <<0, -1>>>>[pose.quarter + 1]

(* Fault: the sign of the sine. *)
ToWorldMirrored(pose, v) ==
  LET h == Heading(pose)
  IN Plus(pose.at, <<h[1] * v[1] + h[2] * v[2], h[1] * v[2] - h[2] * v[1]>>)

(* transformToWorld(), for each vertex *)
ToWorld(pose, v) ==
  LET h == Heading(pose)
  IN Plus(pose.at, <<h[1] * v[1] - h[2] * v[2], h[2] * v[1] + h[1] * v[2]>>)

AllToWorld(pose, vs) == [i \in DOMAIN vs |-> ToWorld(pose, vs[i])]

(* The models: a point, a circle, two circles on the axis, a line, a       *)
(* polygon.                                                                *)
PointRobot                      == [model |-> "point"]
CircularRobot(r)                == [model |-> "circular", radius |-> r]
TwoCirclesRobot(fo, fr, ro, rr) == [model |-> "two_circles", front |-> fo, frontRadius |-> fr,
                                    rear |-> ro, rearRadius |-> rr]
LineRobot(a, b)                 == [model |-> "line", vertices |-> <<a, b>>]
PolygonRobot(vs)                == [model |-> "polygon", vertices |-> vs]

Closer(c, r) == [c EXCEPT !.less = @ + r]

(* calculateDistance() is the least of these. *)
Distances(robot, pose, o) ==
  CASE robot.model = "point" -> {ToPosition(o, pose.at)}
    [] robot.model = "circular" -> {Closer(ToPosition(o, pose.at), robot.radius)}
    [] robot.model = "two_circles" ->
         {Closer(ToPosition(o, Plus(pose.at, Scale(robot.front, Heading(pose)))),
                 robot.frontRadius),
          Closer(ToPosition(o, Minus(pose.at, Scale(robot.rear, Heading(pose)))),
                 robot.rearRadius)}
    [] robot.model = "line" ->
         LET w == AllToWorld(pose, robot.vertices) IN {ToLine(o, w[1], w[2])}
    [] robot.model = "polygon" -> {ToPolygon(o, AllToWorld(pose, robot.vertices))}

(* estimateSpatioTemporalDistance() *)
DistancesAt(robot, pose, o, t) == Distances(robot, pose, Predicted(o, t))

(* getInscribedRadius(), squared *)
SmallerOf(a, b) == IF a < b THEN a ELSE b

SqInscribedRadius(robot) ==
  CASE robot.model \in {"point", "line"} -> <<0, 1>>
    [] robot.model = "circular" -> <<robot.radius * robot.radius, 1>>
    [] robot.model = "two_circles" ->
         LET r == SmallerOf(SmallerOf(robot.rear + robot.rearRadius, robot.front + robot.frontRadius),
                            SmallerOf(robot.rearRadius, robot.frontRadius))
         IN <<r * r, 1>>
    [] robot.model = "polygon" ->
         IF Len(robot.vertices) <= 2 THEN <<0, 1>>
         ELSE PointToPolygon(<<0, 0>>, robot.vertices)
=============================================================================
