-------------------------- MODULE AlgorithmChecks --------------------------
(***************************************************************************)
(* The pure computations under the planner, checked on all inputs from     *)
(* small sets: a step picks the input of one of them, and each property    *)
(* says of such an input what the result must be.                          *)
(***************************************************************************)
EXTENDS GeometryChecks, BandUse, Association, FootprintConfig

CONSTANTS
  Points,      \* where points and the ends of lines are
  Outlines,    \* polygons, as sequences of vertices
  Convex,      \* those of them that are convex
  Radii,       \* of circles and pills
  Margins,     \* minimum distances
  Robots,      \* robot models
  Bodies,      \* obstacles among which a pose has its neighbours
  Directions,  \* vectors along which bands lie, of whole length
  Headings,    \* vectors of equal length, for the kinematic edge
  Steps,       \* multiples of a direction
  Times,       \* time differences
  Configs,     \* limits of the robot
  Sizes        \* well-formed values of a footprint's parameters

(* Vectors have whole coordinates, and a well-formed value is none that    *)
(* was never written.                                                      *)
ASSUME AlgorithmsOK ==
  /\ Points \subseteq Int \X Int
  /\ Headings \subseteq Int \X Int
  /\ Garbage \notin Sizes
  /\ \A v \in Directions : v \in Int \X Int /\ \E n \in 0 .. SqNorm(v) : n * n = SqNorm(v)
  /\ Steps \subseteq Int /\ Times \subseteq Nat

Rational == Int \X (Nat \ {0})

Quantities ==
  {"max_vel_x", "max_vel_x_backwards", "max_vel_y", "max_vel_theta", "acc_lim_x", "acc_lim_y",
   "acc_lim_theta", "min_turning_radius", "penalty_epsilon", "min_obstacle_dist",
   "inflation_dist", "dynamic_obstacle_inflation_dist", "obstacle_proximity_lower_bound",
   "obstacle_proximity_upper_bound", "obstacle_proximity_ratio_max_vel"}

(* A configuration has these parameters.  Four of them, which nothing in   *)
(* the code keeps from being negative, are not, and the exponent of the    *)
(* cost is whole and positive.                                             *)
ASSUME ConfigsOK ==
  \A c \in Configs :
    /\ \A l \in Quantities : c[l] \in Rational
    /\ \A l \in {"max_vel_x", "max_vel_y", "min_obstacle_dist",
                  "obstacle_proximity_ratio_max_vel"} : c[l][1] >= 0
    /\ c.obstacle_cost_exponent \in Nat \ {0}

VARIABLE input

Shapes == {<<p>> : p \in Points} \cup {<<a, b>> : a, b \in Points} \cup Outlines

AsObstacle(vs, r) ==
  CASE Len(vs) = 1 -> IF r = 0 THEN PointObstacle(vs[1]) ELSE CircularObstacle(vs[1], r)
    [] Len(vs) = 2 -> IF r = 0 THEN LineObstacle(vs[1], vs[2]) ELSE PillObstacle(vs[1], vs[2], r)
    [] OTHER -> PolygonObstacle(vs)

Init == input = [kind |-> "none"]

(* an obstacle, and a point, line or polygon to measure from *)
PickPair ==
  \E vs, ws \in Shapes, r \in Radii :
    /\ Len(vs) >= 3 => r = 0
    /\ input' = [kind |-> "pair", obstacle |-> AsObstacle(vs, r), outline |-> ws]

(* a polygon as it comes in a message, closed or not *)
PickPolygon ==
  \E vs \in Outlines, closed \in BOOLEAN :
    input' = [kind |-> "polygon", vertices |-> vs,
              obstacle |-> FromPolygon(IF closed THEN Append(vs, vs[1]) ELSE vs, 0)]

(* a robot at a pose, a moving obstacle and a time *)
PickRobot ==
  \E robot \in Robots, x \in {-1, 2}, q \in 0 .. 3, t \in 0 .. 2, v \in {<<0, 0>>, <<1, -1>>},
     vs \in {<<<<3, 1>>>>, <<<<2, 3>>, <<4, 3>>>>} \cup Convex :
    input' = [kind |-> "robot", robot |-> robot, pose |-> Pose(x, 1, q),
              obstacle |-> WithVelocity(FromPolygon(vs, 1), v), time |-> t]

(* a robot at a pose among different obstacles *)
PickNeighbours ==
  \E robot \in Robots, at \in {<<0, 0>>, <<2, 0>>}, q \in 0 .. 3, n \in 1 .. 3 :
    \E os \in Injection(1 .. n, Bodies) :
      input' = [kind |-> "neighbours", robot |-> robot, pose |-> [at |-> at, quarter |-> q],
                obstacles |-> os]

(* obstacles as they are sent, to a list that may be empty *)
PickMessages ==
  \E before \in {<<>>, <<PointObstacle(<<5, 5>>)>>}, n \in 1 .. 2 :
    \E ms \in [1 .. n -> [points : {<<>>, <<<<1, 1>>>>, <<<<0, 0>>, <<1, 1>>>>, <<<<0, 0>>, <<2, 0>>, <<0, 2>>>>},
                          radius : {0, 1}, velocity : {<<0, 0>>, <<1, -1>>}]] :
      input' = [kind |-> "messages", before |-> before, messages |-> ms]

(* two headings and a displacement *)
PickKinematics ==
  \E h, g \in Headings, d \in Points :
    input' = [kind |-> "kinematics", h |-> h, g |-> g, d |-> d]

(* one step of a band *)
PickMotion ==
  \E dir \in Directions, k \in Steps, g, h \in 0 .. 3, dt \in Times \ {0}, c \in Configs :
    input' = [kind |-> "motion", p |-> Pose(0, 0, g),
              q |-> [at |-> Scale(k, dir), quarter |-> h], dt |-> dt, c |-> c]

(* Two steps of a motion with the constant acceleration 2 half, from the   *)
(* velocity v, along a direction.                                          *)
PickAcceleration ==
  \E dir \in Directions, v \in Steps, half \in -1 .. 1, g \in 0 .. 3, dt1, dt2 \in Times \ {0}, c \in Configs :
    input' = [kind |-> "acceleration", dir |-> dir, v |-> v, half |-> half, quarter |-> g,
              dt1 |-> dt1, dt2 |-> dt2, c |-> c]

(* two distances from an obstacle, in halves *)
PickDistances ==
  \E near \in -3 .. 8, c \in Configs :
    input' = [kind |-> "distances", near |-> <<near, 2>>, far |-> <<near + 1, 2>>, c |-> c]

(* A band that begins at the origin, and one whose times do not matter. *)
PickBand ==
  \E dir \in Directions, g \in 0 .. 3, n \in 0 .. 2 :
    \E k \in [1 .. n -> Steps], h \in [1 .. n -> {0, 1, 2}], dts \in [1 .. n -> Times] :
      input' = [kind |-> "band", dts |-> dts,
                poses |-> <<Pose(0, 0, g)>> \o
                          [i \in 1 .. n |-> [at |-> Scale(k[i], dir), quarter |-> h[i]]]]

PickPath ==
  \E dir \in Directions, g \in {0, 3}, n \in 0 .. 3 :
    \E k \in [1 .. n -> Steps], h \in {0, 2} :
      input' = [kind |-> "path",
                poses |-> <<Pose(0, 0, g)>> \o
                          [i \in 1 .. n |-> [at |-> Scale(k[i], dir), quarter |-> h]]]

(* parameters of the footprint, and changes of them at runtime *)
PickFootprint ==
  \E type \in {"point", "circular", "line", "two_circles", "polygon"}, g \in Sizes \cup {Malformed} :
    \E n \in 0 .. Cardinality(Fields(type)) :
      \E changes \in [1 .. n -> Fields(type) \X (IF Numbers(type) THEN Sizes ELSE Sizes \cup {Malformed})] :
        input' = [kind |-> "footprint", type |-> type,
                  given |-> [f \in Fields(type) |-> g], changes |-> changes]

Next ==
  /\ input.kind = "none"
  /\ \/ PickPair \/ PickPolygon \/ PickRobot \/ PickNeighbours \/ PickMessages
     \/ PickKinematics \/ PickMotion \/ PickAcceleration \/ PickDistances
     \/ PickBand \/ PickPath \/ PickFootprint

Spec == Init /\ [][Next]_input

-----------------------------------------------------------------------------
(* Geometry.                                                               *)

(* Each getMinimumDistance() returns the distance of the two outlines:     *)
(* zero when they meet in any way, also when the intersection test of      *)
(* lines misses it (parallel, or touching at an end), and otherwise the    *)
(* least distance of a vertex of one from a side of the other, less the    *)
(* radius.                                                                 *)
DistancesAgree ==
  input.kind = "pair" =>
    LET o == input.obstacle
        w == input.outline
        c == IF Len(w) = 1 THEN ToPosition(o, w[1])
             ELSE IF Len(w) = 2 THEN ToLine(o, w[1], w[2])
             ELSE ToPolygon(o, w)
    IN Apart(c.sq, o.vertices, w) /\ c.less = o.radius

(* checkLineIntersection(), from which the graph search decides which      *)
(* waypoints are connected, reports what crosses a side and nothing that   *)
(* keeps more than the margin; of points and circles it reports all that   *)
(* is within the margin.                                                   *)
LinesThroughFound ==
  input.kind = "pair" /\ Len(input.outline) = 2 =>
    LET o == input.obstacle
        a == input.outline[1]
        b == input.outline[2]
    IN \A m \in Margins :
         LET found == CheckLineIntersection(o, a, b, m)
         IN IF o.class \in {"point", "circle"}
              THEN a # b => found = Below(ToLine(o, a, b), m)
              ELSE /\ found => AtMost(ToLine(o, a, b), m)
                   /\ (\E s \in SideSet(o.vertices) : ProperlyCross(a, b, s[1], s[2])) => found

(* checkCollision() reports what is inside a polygon or nearer to an       *)
(* obstacle than the margin, and nothing else.                             *)
CollisionsFound ==
  input.kind = "pair" /\ Len(input.outline) = 1 =>
    LET o == input.obstacle
        p == input.outline[1]
        area == Len(o.vertices) >= 3
    IN \A m \in Margins :
         LET found == CheckCollision(o, p, m)
         IN /\ Below(ToPosition(o, p), m) => found
            /\ area /\ o.vertices \in Convex /\ StrictlyInside(p, o.vertices) => found
            /\ found => \/ AtMost(ToPosition(o, p), m)
                        \/ area /\ o.vertices \notin Convex
                        \/ area /\ StrictlyInside(p, o.vertices)

(* Distances, line intersections and collisions, each computed class by    *)
(* class in a way of its own, agree with one reference definition.         *)
ShapesAgree == DistancesAgree /\ LinesThroughFound /\ CollisionsFound

(* The centroid, beside which the graph search puts its waypoints and by   *)
(* which obstacles are sorted to the left and right, belongs to the        *)
(* polygon: it does not depend on its first vertex, its orientation or on  *)
(* a repeated last vertex, moves with it, and lies inside when the polygon *)
(* is convex; getClosestPoint() is where the distance says.                *)
CentroidIntrinsic ==
  input.kind = "polygon" =>
    LET vs == input.vertices
        c  == Centroid(input.obstacle)
    IN /\ input.obstacle.vertices = vs
       /\ Area2(vs) # 0 =>
            \A k \in 0 .. Len(vs) - 1 :
              /\ SamePoint(c, PolygonCentroid(Rotated(vs, k)))
              /\ SamePoint(c, PolygonCentroid(Backwards(Rotated(vs, k))))
       /\ \A q \in 0 .. 3 :
            LET m == PolygonCentroid(Moved(vs, Pose(2, -1, q)))
            IN SamePoint(m, [at |-> Plus(Scale(c.den, <<2, -1>>), Turned(c.at, q)), den |-> c.den])
       /\ vs \in Convex =>
            StrictlyInside(c.at, [i \in DOMAIN vs |-> Scale(c.den, vs[i])])
       /\ \A p \in Points :
            SameQ(SqTo(p, ClosestPoint(input.obstacle, p)), ToPosition(input.obstacle, p).sq)

(* The distance of a robot from an obstacle does not depend on where both  *)
(* are: it is the same after a turn and a shift of both, and from a moving *)
(* obstacle it is the same as if the robot had moved the other way.  What  *)
(* is outside of a polygonal footprint is not farther from it than from    *)
(* the pose, less the inscribed radius.                                    *)
FootprintMoves ==
  input.kind = "robot" =>
    LET robot == input.robot
        pose  == input.pose
        o     == input.obstacle
        back  == [pose EXCEPT !.at = Minus(@, Scale(input.time, o.velocity))]
        home  == [o EXCEPT !.vertices =
                    [i \in DOMAIN @ |-> Turned(Minus(@[i], pose.at), (4 - pose.quarter) % 4)]]
    IN /\ SameClearances(DistancesAt(robot, pose, o, input.time), Distances(robot, back, o))
       /\ SameClearances(Distances(robot, pose, o), Distances(robot, Pose(0, 0, 0), home))
       /\ robot.model = "polygon" =>
            \A i \in DOMAIN home.vertices, c \in Distances(robot, pose, o) :
              StrictlyInside(home.vertices[i], robot.vertices) \/
              RootsWithin(c.sq, SqInscribedRadius(robot), <<SqNorm(home.vertices[i]), 1>>)

(* Where the frame's origin is, how it is turned, and which vertex of a    *)
(* polygon comes first, changes neither a distance of the robot nor a      *)
(* centroid.                                                               *)
PlacementIrrelevant == CentroidIntrinsic /\ FootprintMoves

-----------------------------------------------------------------------------
(* Cost terms.                                                             *)

(* linearizeOplus() of EdgeKinematicsDiffDrive is the slope of             *)
(* computeError(): for a unit step of a pose in x or y exactly, as long as *)
(* no error changes its sign, and for a turn, which replaces (cos, sin) by *)
(* (-sin, cos).  Of the Jacobians written by hand one other is compiled,   *)
(* that of EdgeTimeOptimal, which is the constant 1.                       *)
JacobianIsSlope ==
  input.kind = "kinematics" =>
    LET h == input.h
        g == input.g
        d == input.d
        J == DiffDriveJacobian(h, g, d)
        unit == <<<<1, 0>>, <<0, 1>>>>
        Smooth(e) == /\ Sign(OffArc(h, g, d)) # 0
                     /\ Sign(OffArc(h, g, e)) \in {0, Sign(OffArc(h, g, d))}
        Ahead2(e) == (Dot(d, h) < 0) = (Dot(e, h) < 0) \/ Dot(e, h) = 0
        Grows(e, k) == DiffDriveError(h, g, e)[k] - DiffDriveError(h, g, d)[k]
    IN /\ \A k \in 1 .. 2 :
            /\ Smooth(Plus(d, unit[k]))  => J.j[1][k] = Grows(Plus(d, unit[k]), 1)
            /\ Smooth(Minus(d, unit[k])) => J.i[1][k] = Grows(Minus(d, unit[k]), 1)
            /\ Ahead2(Plus(d, unit[k]))  => J.j[2][k] = Grows(Plus(d, unit[k]), 2)
            /\ Ahead2(Minus(d, unit[k])) => J.i[2][k] = Grows(Minus(d, unit[k]), 2)
       /\ J.i[1][3] = Sign(OffArc(h, g, d)) * OffArc(QuarterTurn(h), <<0, 0>>, d)
       /\ J.j[1][3] = Sign(OffArc(h, g, d)) * OffArc(<<0, 0>>, QuarterTurn(g), d)
       /\ J.i[2][3] = IF Dot(d, h) < 0 THEN -Dot(d, QuarterTurn(h)) ELSE 0
       /\ J.j[2][3] = 0

Free(e) == \A i \in DOMAIN e : e[i][1] = 0

(* n < q, n <= q for a whole number and a rational *)
Less(n, q)    == n * q[2] < q[1]
NotMore(n, q) == n * q[2] <= q[1]
Times2(n, q)  == MulQ(Q(n), q)

(* A step of a robot that cannot strafe, straight and at no cost of        *)
(* velocity and kinematics, is longer than the limit allows by less than a *)
(* centimetre, which is what the smoothed sign hides; near an obstacle the *)
(* same of the lower limit, unless the two distances between which it is   *)
(* lowered are equal and 0 / 0 limits nothing.  A step within the limits   *)
(* costs nothing.  Of a robot that can strafe each component is limited    *)
(* exactly, and a car turns on no smaller radius than it can.              *)
SpeedLimitHolds ==
  input.kind = "motion" =>
    LET p == input.p
        q == input.q
        c == input.c
        dt == input.dt
        k == Ahead(p, q)
        fwd  == Times2(dt, SubQ(c.max_vel_x, c.penalty_epsilon))
        bwd  == Times2(dt, SubQ(c.max_vel_x_backwards, c.penalty_epsilon))
        turn == Times2(dt, SubQ(c.max_vel_theta, c.penalty_epsilon))
        straight == DiffDriveError(Heading(p), Heading(q), Minus(q.at, p.at))[1] = 0 /\ Turn(p, q) = 0
    IN /\ straight /\ Free(VelocityError(p, q, dt, c)) =>
            Less(k - 1, fwd) /\ Less(-k - 1, bwd) /\ Beside(p, q) = 0
       /\ straight /\ NotMore(k, fwd) /\ NotMore(-k, bwd) /\ NotMore(0, fwd) /\ NotMore(0, bwd)
            /\ NotMore(0, turn) => Free(VelocityError(p, q, dt, c))
       /\ Free(HolonomicVelocityError(p, q, dt, c)) <=>
            /\ NotMore(k, fwd) /\ NotMore(-k, bwd)
            /\ \A s \in {-1, 1} : /\ NotMore(s * Beside(p, q), Times2(dt, c.max_vel_y))
                                  /\ NotMore(s * Turn(p, q), turn)
       /\ Free(CarlikeError(p, q, c)) =>
            ~LessQ(Q(Length(Minus(q.at, p.at))), MulQ(AbsQ(Q(Turn(p, q))), c.min_turning_radius))
       /\ \A dir \in {-1, 1} : PreferRotDirError(p, q, dir)[1] > 0 <=> dir * Turn(p, q) < 0
       /\ \A n \in -1 .. 5 :
            straight /\ Free(VelocityObstacleRatioError(p, q, dt, Q(n), c))
              /\ ~SameQ(c.obstacle_proximity_lower_bound, c.obstacle_proximity_upper_bound) =>
              \A s \in {-1, 1} :
                Less(s * k - 1, Times2(dt, MulQ(c.obstacle_proximity_ratio_max_vel, c.max_vel_x)))

(* The edge over two steps measures a constant acceleration exactly,       *)
(* however long the steps are.  The edges at the start and the goal        *)
(* compare the velocity at the end of the band with the mean of the        *)
(* adjacent step and measure half of it.  A robot that cannot strafe is    *)
(* charged the same for driving backwards, unless the limit is below the   *)
(* margin of the penalty and its two bounds cross.                         *)
AccelerationMeasured ==
  input.kind = "acceleration" =>
    LET a  == 2 * input.half
        v1 == input.v + a * input.dt1
        v2 == v1 + a * input.dt2
        s1 == input.v * input.dt1 + input.half * input.dt1 * input.dt1
        s2 == s1 + v1 * input.dt2 + input.half * input.dt2 * input.dt2
        At(s, turn) == [at |-> Scale(s, input.dir), quarter |-> (input.quarter + turn) % 4]
        c  == input.c
        frame(v) == <<Q(Dot(Heading(At(0, 0)), Scale(v, input.dir))),
                      Q(Cross(Heading(At(0, 0)), Scale(v, input.dir))), Q(0)>>
        plain(v, sign) == <<Q(sign * v), Q(0)>>
        Charged(share) == AccelerationPenalty([i \in 1 .. 3 |-> MulQ(share, frame(a)[i])],
                                              Limits3(c), c.penalty_epsilon)
        Same(e, f) == \A i \in DOMAIN e : SameQ(e[i], f[i])
    IN /\ Same(HolonomicAccelerationError(At(0, 0), At(s1, 0), At(s2, 0), input.dt1, input.dt2, c),
               Charged(Q(1)))
       /\ Same(HolonomicStartAccelerationError(frame(input.v), At(0, 0), At(s1, 0), input.dt1, c),
               Charged(<<1, 2>>))
       /\ Same(HolonomicGoalAccelerationError(At(s1, 0), At(s2, 0), frame(v2), input.dt2, c),
               Charged(<<1, 2>>))
       /\ ~LessQ(c.acc_lim_x, c.penalty_epsilon) =>
            /\ AccelerationError(At(0, 0), At(s1, 0), At(s2, 0), input.dt1, input.dt2, c) =
                 AccelerationError(At(0, 2), At(s1, 2), At(s2, 2), input.dt1, input.dt2, c)
            /\ StartAccelerationError(plain(input.v, 1), At(0, 0), At(s1, 0), input.dt1, c) =
                 StartAccelerationError(plain(input.v, -1), At(0, 2), At(s1, 2), input.dt1, c)
            /\ GoalAccelerationError(At(s1, 0), At(s2, 0), plain(v2, 1), input.dt2, c) =
                 GoalAccelerationError(At(s1, 2), At(s2, 2), plain(v2, -1), input.dt2, c)

(* Coming nearer to an obstacle never costs less, costs nothing from the   *)
(* minimum distance and its margin on, and costs the same as the linear    *)
(* penalty where that is the minimum distance; nor does it allow a higher  *)
(* speed, which is at most the configured share of the limit.              *)
NearnessCosts ==
  input.kind = "distances" =>
    LET near == input.near
        far  == input.far
        c    == input.c
        min  == c.min_obstacle_dist
        Costs(d) == <<ObstacleError(d, c)>> \o InflatedObstacleError(d, c) \o DynamicObstacleError(d, c)
    IN /\ \A i \in DOMAIN Costs(near) : ~LessQ(Costs(near)[i], Costs(far)[i])
       /\ ObstacleError(near, c)[1] = 0 <=> ~LessQ(near, AddQ(min, c.penalty_epsilon))
       /\ SameQ(near, c.penalty_epsilon) => SameQ(ObstacleError(near, c), min)
       /\ ~LessQ(ProximityRatio(far, c), ProximityRatio(near, c))
       /\ ~LessQ(ProximityRatio(near, c), Q(0))
       /\ ~LessQ(c.obstacle_proximity_ratio_max_vel, ProximityRatio(far, c))

(* Parameters that checkParameters() does not warn of let a robot stand    *)
(* still at no cost: the bounds of no velocity and no acceleration cross.  *)
(* The one acceleration it does not look at is the one across.             *)
BoundsDoNotCross ==
  input.kind = "motion" /\ CheckParameters(input.c) = {} =>
    LET p == input.p
        dt == input.dt
        c == input.c
        across == HolonomicAccelerationError(p, p, p, dt, dt, c)
    IN /\ Free(VelocityError(p, p, dt, c)) /\ Free(HolonomicVelocityError(p, p, dt, c))
       /\ Free(AccelerationError(p, p, p, dt, dt, c)) /\ Free(<<across[1], across[3]>>)

(* What the terms of the optimization charge for is what they are named    *)
(* for: velocities, accelerations and distances beyond the limits.         *)
CostsMeasured == SpeedLimitHolds /\ AccelerationMeasured /\ NearnessCosts /\ BoundsDoNotCross

-----------------------------------------------------------------------------
(* The use of the band.                                                    *)

(* the squared length and the turn of the i-th step *)
SqStep(b, i)   == SqNorm(Minus(b.poses[i + 1].at, b.poses[i].at))
TurnStep(b, i) == AbsQ(Q(Turn(b.poses[i], b.poses[i + 1])))[1]

(* v, without a component across when the robot cannot strafe, is no       *)
(* faster than some step of the band, nor does it turn faster *)
SlowerThanAStep(v, b) ==
  /\ \E i \in DOMAIN b.dts :
       ~LessQ(MulQ(Q(SqStep(b, i)), Q(1)),
              MulQ(AddQ(MulQ(v[1], v[1]), MulQ(v[2], v[2])), Q(b.dts[i] * b.dts[i])))
  /\ \E i \in DOMAIN b.dts : ~LessQ(Q(TurnStep(b, i)), MulQ(AbsQ(v[3]), Q(b.dts[i])))

(* Neither command is ever faster than the fastest step of the band, and   *)
(* none divides by zero, whatever step of the band takes no time: both     *)
(* velocities are taken over a positive time, the interpolation only ends  *)
(* in a step that takes time.                                              *)
CommandsFollowBand ==
  input.kind = "band" /\ Len(input.poses) >= 2 =>
    LET b == [poses |-> input.poses, dts |-> input.dts]
    IN /\ \A look \in 1 .. 3, holonomic \in BOOLEAN :
            LET command == GetVelocityCommand(b, look, holonomic)
            IN IF command.ok THEN SlowerThanAStep(command.twist, b)
               ELSE command.twist = Stop /\ \A i \in DOMAIN b.dts : i <= look => b.dts[i] = 0
       /\ \A target \in {1, 2, 4} :
            LET command == GetVelocityCommandMyj(b, target)
            IN /\ command.ok
               /\ \A i \in 1 .. 3 : command.twist[i][2] > 0
               /\ command.twist # Stop => SlowerThanAStep(command.twist, b)

(* The published velocities lead from the first pose to the last in the    *)
(* published times: the steps of the velocity profile, each turned from    *)
(* the frame of its pose and taken for its time, and the full trajectory   *)
(* has their means and ends when the band does.                            *)
TrajectoryLeadsToGoal ==
  input.kind = "band" /\ Len(input.poses) >= 2 /\ (\A i \in DOMAIN input.dts : input.dts[i] > 0) =>
    LET b == [poses |-> input.poses, dts |-> input.dts]
        n == Size(b)
        profile == GetVelocityProfile(b, Stop, Stop, TRUE)
        full    == GetFullTrajectory(b, Stop, Stop, TRUE)
        Turned2(v, h) == <<SubQ(MulQ(v[1], Q(h[1])), MulQ(v[2], Q(h[2]))),
                           AddQ(MulQ(v[1], Q(h[2])), MulQ(v[2], Q(h[1])))>>
        driven[i \in 0 .. n - 1] ==
          IF i = 0 THEN <<Q(b.poses[1].at[1]), Q(b.poses[1].at[2])>>
          ELSE LET w == Turned2(profile[i + 1], Heading(b.poses[i]))
               IN [k \in 1 .. 2 |-> AddQ(driven[i - 1][k], MulQ(w[k], Q(full[i + 1].time - full[i].time)))]
    IN /\ \A i \in 1 .. n, k \in 1 .. 2 : SameQ(driven[i - 1][k], Q(full[i].pose.at[k]))
       /\ \A i \in 2 .. n - 1, k \in 1 .. 3 :
            SameQ(Times2(2, full[i].velocity[k]), AddQ(profile[i][k], profile[i + 1][k]))

(* What is commanded and what is published are velocities of the band.     *)
VelocitiesFollowBand == CommandsFollowBand /\ TrajectoryLeadsToGoal

(* where a checked pose is, times its number of parts *)
Whereabouts(b, s) ==
  LET from == b.poses[s.from].at
  IN IF s.step = 0 THEN Scale(s.parts, from)
     ELSE Plus(Scale(s.parts, from), Scale(s.step, Minus(b.poses[s.from + 1].at, from)))

(* The check leaves no gap up to where it looks, which is to the nearer of *)
(* its two bounds, the number of poses and the distance (-1: none): of     *)
(* what is on the path behind it nothing is said.  Whatever point before   *)
(* is in the way, one of the poses looked at is no farther from it than    *)
(* half of the inscribed radius, so that the footprint there covers it;    *)
(* and no two of them in a row are turned by more than the angle.  An      *)
(* inscribed radius of zero, which is divided by, is left out.             *)
ObstacleOnPathNoticed ==
  input.kind = "path" =>
    LET b == [poses |-> input.poses, dts |-> <<>>]
    IN \A look \in {-1, 1, 3}, dist \in {-1, 3}, radius \in {1, 2, 3}, angle \in {1, 2} :
         LET checked == CheckedPoses(b, look, dist, radius, angle)
             Near(p, s, parts) ==   \* p / parts is a point of the path
               LET d == Minus(Scale(s.parts, p), Scale(parts, Whereabouts(b, s)))
               IN 4 * SqNorm(d) <= radius * radius * parts * parts * s.parts * s.parts
             within == {j \in 1 .. Size(b) :
                          /\ dist > 0 => \A i \in 1 .. j :
                               SqNorm(Minus(b.poses[i].at, b.poses[1].at)) <= dist * dist
                          /\ look \in 0 .. Size(b) - 1 => j <= look + 1}
         IN /\ \A j \in within \ {Size(b)} : j + 1 \in within =>
                 \A u \in 0 .. 4 :
                   LET p == Plus(Scale(4, b.poses[j].at), Scale(u, Minus(b.poses[j + 1].at, b.poses[j].at)))
                       valid == {s \in ToSet(checked) : ~Near(p, s, 4)}
                   IN ~IsTrajectoryFeasible(b, look, dist, radius, angle, valid)
            /\ \A i \in DOMAIN checked :
                 \/ checked[i].from = checked[Len(checked)].from
                 \/ TurnStep(b, checked[i].from) <= checked[i].parts * angle

(* Of the obstacles within the cut-off distance of a pose, those that move *)
(* apart, none is left out for one that is farther away.  This holds on    *)
(* either side of the robot while its line of travel passes through the    *)
(* origin; elsewhere the sides are not those of the robot, and the nearer  *)
(* of two obstacles to its left and right may be the only one considered.  *)
(* The pose an obstacle is tied to the other way round is the closest one, *)
(* of a pill by its centroid.                                              *)
NearestConsidered ==
  /\ input.kind = "neighbours" =>
       LET pose == input.pose
           os   == input.obstacles
           dist == [i \in DOMAIN os |-> CalculateDistance(input.robot, pose, os[i])]
           onLeft(i) == LET g == Centroid(os[i])
                        IN Cross(Heading(pose), Minus(g.at, Scale(g.den, pose.at))) * g.den > 0
       IN \A dynamic \in BOOLEAN :
            LET considered == RelevantObstacles(pose, input.robot, os, dynamic, 1, 3)
            IN \A i \in DOMAIN os :
                 ~(dynamic /\ os[i].dynamic) /\ AtMost(dist[i], 3) =>
                   \E j \in considered :
                     /\ ~Nearer(dist[i], dist[j])
                     /\ Cross(Heading(pose), pose.at) = 0 => onLeft(j) = onLeft(i)
  /\ input.kind = "path" =>
       \A o \in Bodies :
         LET k == ClosestPose([poses |-> input.poses], o)
         IN o.class # "pill" =>
              \A i \in DOMAIN input.poses :
                ~Nearer(ToPosition(o, input.poses[i].at), ToPosition(o, input.poses[k].at))

(* Every obstacle sent with a point is one obstacle of the list, with the  *)
(* shape and the velocity it was sent with, and those that were there      *)
(* stay; from the costmap converter the same, unless a polygon is empty:   *)
(* then the shapes alone are right.                                        *)
ObstaclesAsSent ==
  input.kind = "messages" =>
    LET before == input.before
        ms   == input.messages
        sent == SelectSeq(ms, LAMBDA m : m.points # <<>>)
        list(Add(_, _)) ==
          LET after[k \in 0 .. Len(ms)] == IF k = 0 THEN before ELSE Add(after[k - 1], ms[k])
          IN after[Len(ms)]
        custom    == list(AddCustomObstacle)
        converted == list(AddConvertedObstacle)
        ShapeOf(o) == <<o.class, o.vertices, o.radius>>
    IN /\ Len(custom) = Len(before) + Len(sent)
       /\ SubSeq(custom, 1, Len(before)) = before
       /\ \A k \in DOMAIN sent :
            LET o == custom[Len(before) + k]
            IN /\ o.vertices = sent[k].points
               /\ o.velocity = sent[k].velocity
               /\ o.dynamic <=> o.velocity # <<0, 0>>
       /\ Len(sent) = Len(ms) => converted = custom
       /\ Len(converted) = Len(custom)
       /\ \A k \in DOMAIN custom : ShapeOf(converted[k]) = ShapeOf(custom[k])

(* No obstacle is lost between where it is received and where it counts:   *)
(* in the list, at the poses of the band and in the check of the path, as  *)
(* far as the messages, the poses and the bounds of the check go that the  *)
(* three parts name.                                                       *)
NoObstacleLost == ObstaclesAsSent /\ NearestConsidered /\ ObstacleOnPathNoticed

-----------------------------------------------------------------------------
(* The footprint model's parameters.                                       *)

(* Loaded with every value well formed, and after changes at runtime that  *)
(* have set each of them again, the footprint model is what the parameters *)
(* now say, although loading fills none of the members a reload reads and  *)
(* a reload builds the model from all of them.  In between a line stays as *)
(* it was.                                                                 *)
FootprintAsConfigured ==
  input.kind = "footprint" =>
    LET cs == input.changes
        changed == {cs[k][1] : k \in DOMAIN cs}
        now == [f \in Fields(input.type) |->
                  IF f \in changed THEN cs[Max({k \in DOMAIN cs : cs[k][1] = f})][2]
                  ELSE input.given[f]]
        after == FootprintAfter(input.type, input.given, cs)
    IN /\ changed \in {{}, Fields(input.type)} /\ (\A f \in DOMAIN now : now[f] # Malformed)
            => after.model = FootprintFromServer(input.type, now)
       /\ input.type = "line" /\ changed # Fields("line")
            => after.model = LoadFootprint("line", input.given)
=============================================================================
