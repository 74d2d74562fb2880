----------------------------- MODULE CostTerms -----------------------------
(***************************************************************************)
(* What the edges of the hyper-graph cost (include/g2o_types/), one        *)
(* operator for each computeError().  The unit of length is a centimetre,  *)
(* in which the argument of fast_sigmoid(100 x) is whole; angles are in    *)
(* quarter turns, also where the code divides them by a time.  Speeds and  *)
(* penalties are rationals <<n, d>>; displacements are those whose length  *)
(* is whole.  c is the part of the configuration the edges read.           *)
(* exact_arc_length is off.                                                *)
(***************************************************************************)
EXTENDS RobotModels

Q(n)      == <<n, 1>>
NegQ(q)   == <<-q[1], q[2]>>
AddQ(q, r) == <<q[1] * r[2] + r[1] * q[2], q[2] * r[2]>>
SubQ(q, r) == AddQ(q, NegQ(r))
MulQ(q, r) == <<q[1] * r[1], q[2] * r[2]>>
OverQ(q, r) == IF r[1] > 0 THEN <<q[1] * r[2], q[2] * r[1]>> ELSE <<-q[1] * r[2], -q[2] * r[1]>>
AbsQ(q)   == IF q[1] < 0 THEN NegQ(q) ELSE q

Sign(n) == IF n > 0 THEN 1 ELSE IF n < 0 THEN -1 ELSE 0

-----------------------------------------------------------------------------
(* penalties.h *)

PenaltyBoundToInterval(v, a, b, eps) ==
  IF LessQ(v, AddQ(a, eps)) THEN SubQ(AddQ(a, eps), v)
  ELSE IF LessQ(SubQ(b, eps), v) THEN SubQ(v, SubQ(b, eps))
  ELSE Q(0)

PenaltyWithin(v, a, eps) == PenaltyBoundToInterval(v, NegQ(a), a, eps)

PenaltyBoundFromBelow(v, a, eps) ==
  IF LessQ(v, AddQ(a, eps)) THEN SubQ(AddQ(a, eps), v) ELSE Q(0)

PenaltyBoundFromBelowDerivative(v, a) == IF LessQ(v, a) THEN -1 ELSE 0

(* the bounds that checkParameters() warns of *)
CheckParameters(c) ==
  {l \in {"max_vel_x", "max_vel_x_backwards", "max_vel_theta", "acc_lim_x", "acc_lim_theta"} :
     ~LessQ(c.penalty_epsilon, c[l])}
  \cup IF LessQ(Q(0), c.max_vel_x_backwards) THEN {} ELSE {"max_vel_x_backwards"}

-----------------------------------------------------------------------------
(* The motion from pose p to pose q in time dt.                            *)

Length(v) == CHOOSE n \in 0 .. SqNorm(v) : n * n = SqNorm(v)

(* q in the frame of p *)
Ahead(p, q)  == Dot(Heading(p), Minus(q.at, p.at))
Beside(p, q) == Cross(Heading(p), Minus(q.at, p.at))

(* normalize_theta(), from -1 to 2 quarters *)
NormalizeTheta(quarters) == ((quarters + 1) % 4) - 1
Turn(p, q) == NormalizeTheta(q.quarter - p.quarter)

(* Of a robot that cannot strafe: the length with a smoothed sign, as      *)
(* fast_sigmoid(k) = k / (1 + |k|).                                        *)
Twist(p, q, dt) ==
  LET k == Ahead(p, q)
  IN <<<<Length(Minus(q.at, p.at)) * k, dt * (1 + (IF k < 0 THEN -k ELSE k))>>,
       <<Turn(p, q), dt>>>>

HolonomicTwist(p, q, dt) == <<<<Ahead(p, q), dt>>, <<Beside(p, q), dt>>, <<Turn(p, q), dt>>>>

-----------------------------------------------------------------------------
(* Velocity: EdgeVelocity, EdgeVelocityHolonomic.  Sideways there is no    *)
(* margin.                                                                 *)

VelocityError(p, q, dt, c) ==
  LET v == Twist(p, q, dt)
  IN <<PenaltyBoundToInterval(v[1], NegQ(c.max_vel_x_backwards), c.max_vel_x, c.penalty_epsilon),
       PenaltyWithin(v[2], c.max_vel_theta, c.penalty_epsilon)>>

HolonomicVelocityError(p, q, dt, c) ==
  LET v == HolonomicTwist(p, q, dt)
  IN <<PenaltyBoundToInterval(v[1], NegQ(c.max_vel_x_backwards), c.max_vel_x, c.penalty_epsilon),
       PenaltyWithin(v[2], c.max_vel_y, Q(0)),
       PenaltyWithin(v[3], c.max_vel_theta, c.penalty_epsilon)>>

-----------------------------------------------------------------------------
(* Acceleration: the change from velocity v to velocity w in time t, and   *)
(* the six edges.  Between two segments t is half the time of both; at the *)
(* ends, where one velocity is measured or given, the time of the segment. *)

Change(v, w, t) == [i \in DOMAIN v |-> OverQ(SubQ(w[i], v[i]), t)]

AccelerationPenalty(a, limits, eps) == [i \in DOMAIN a |-> PenaltyWithin(a[i], limits[i], eps)]

Limits2(c) == <<c.acc_lim_x, c.acc_lim_theta>>
Limits3(c) == <<c.acc_lim_x, c.acc_lim_y, c.acc_lim_theta>>

AccelerationError(p, q, r, dt1, dt2, c) ==
  AccelerationPenalty(Change(Twist(p, q, dt1), Twist(q, r, dt2), <<dt1 + dt2, 2>>),
                      Limits2(c), c.penalty_epsilon)

StartAccelerationError(v, p, q, dt, c) ==
  AccelerationPenalty(Change(v, Twist(p, q, dt), Q(dt)), Limits2(c), c.penalty_epsilon)

GoalAccelerationError(p, q, v, dt, c) ==
  AccelerationPenalty(Change(Twist(p, q, dt), v, Q(dt)), Limits2(c), c.penalty_epsilon)

(* Fault: not half of the time. *)
HolonomicAccelerationErrorWhole(p, q, r, dt1, dt2, c) ==
  AccelerationPenalty(Change(HolonomicTwist(p, q, dt1), HolonomicTwist(q, r, dt2), Q(dt1 + dt2)),
                      Limits3(c), c.penalty_epsilon)

HolonomicAccelerationError(p, q, r, dt1, dt2, c) ==
  AccelerationPenalty(Change(HolonomicTwist(p, q, dt1), HolonomicTwist(q, r, dt2), <<dt1 + dt2, 2>>),
                      Limits3(c), c.penalty_epsilon)

HolonomicStartAccelerationError(v, p, q, dt, c) ==
  AccelerationPenalty(Change(v, HolonomicTwist(p, q, dt), Q(dt)), Limits3(c), c.penalty_epsilon)

HolonomicGoalAccelerationError(p, q, v, dt, c) ==
  AccelerationPenalty(Change(HolonomicTwist(p, q, dt), v, Q(dt)), Limits3(c), c.penalty_epsilon)

-----------------------------------------------------------------------------
(* Kinematics.  h and g are the vectors (cos, sin) of the two headings, d  *)
(* the displacement.                                                       *)

(* what keeps the poses on a common arc, before fabs() *)
OffArc(h, g, d) == (h[1] + g[1]) * d[2] - (h[2] + g[2]) * d[1]

DiffDriveError(h, g, d) ==
  <<IF OffArc(h, g, d) < 0 THEN -OffArc(h, g, d) ELSE OffArc(h, g, d),
    PenaltyBoundFromBelow(Q(Dot(d, h)), Q(0), Q(0))[1]>>

(* Fault: the sign of one term. *)
DiffDriveJacobianFlipped(h, g, d) ==
  LET s     == Sign(OffArc(h, g, d))
      slope == PenaltyBoundFromBelowDerivative(Q(Dot(d, h)), Q(0))
  IN [i |-> <<<<(h[2] + g[2]) * s, -(h[1] + g[1]) * s, (-h[2] * d[2] - h[1] * d[1]) * s>>,
              <<-h[1] * slope, -h[2] * slope, (h[2] * d[1] + h[1] * d[2]) * slope>>>>,
      j |-> <<<<-(h[2] + g[2]) * s, (h[1] + g[1]) * s, (-g[2] * d[2] - g[1] * d[1]) * s>>,
              <<h[1] * slope, h[2] * slope, 0>>>>]

(* EdgeKinematicsDiffDrive::linearizeOplus(): for either pose the rows of  *)
(* the two errors, in x, y and theta.                                      *)
DiffDriveJacobian(h, g, d) ==
  LET s     == Sign(OffArc(h, g, d))
      slope == PenaltyBoundFromBelowDerivative(Q(Dot(d, h)), Q(0))
  IN [i |-> <<<<(h[2] + g[2]) * s, -(h[1] + g[1]) * s, (-h[2] * d[2] - h[1] * d[1]) * s>>,
              <<-h[1] * slope, -h[2] * slope, (-h[2] * d[1] + h[1] * d[2]) * slope>>>>,
      j |-> <<<<-(h[2] + g[2]) * s, (h[1] + g[1]) * s, (-g[2] * d[2] - g[1] * d[1]) * s>>,
              <<h[1] * slope, h[2] * slope, 0>>>>]

(* EdgeKinematicsCarlike: the radius is arc length over angle. *)
CarlikeError(p, q, c) ==
  LET d == Minus(q.at, p.at)
      t == Turn(p, q)
  IN <<Q(DiffDriveError(Heading(p), Heading(q), d)[1]),
       IF t = 0 THEN Q(0)
       ELSE PenaltyBoundFromBelow(OverQ(Q(Length(d)), AbsQ(Q(t))), c.min_turning_radius, Q(0))>>

(* EdgePreferRotDir, dir = 1 for left and -1 for right *)
PreferRotDirError(p, q, dir) == PenaltyBoundFromBelow(Q(dir * Turn(p, q)), Q(0), Q(0))

(* EdgeShortestPath, EdgeViaPoint, EdgeTimeOptimal with its Jacobian *)
ShortestPathError(p, q) == Length(Minus(q.at, p.at))
ViaPointError(p, via)   == Length(Minus(p.at, via))
TimeOptimalError(dt)    == dt
TimeOptimalJacobian     == 1

-----------------------------------------------------------------------------
(* Obstacles at distance dist of a pose; the time of EdgeDynamicObstacle   *)
(* is in dist.                                                             *)

Power(q, n) ==
  LET power[i \in 0 .. n] == IF i = 0 THEN Q(1) ELSE MulQ(power[i - 1], q)
  IN power[n]

ObstacleError(dist, c) ==
  LET e == PenaltyBoundFromBelow(dist, c.min_obstacle_dist, c.penalty_epsilon)
  IN IF c.obstacle_cost_exponent # 1 /\ LessQ(Q(0), c.min_obstacle_dist)
       THEN MulQ(c.min_obstacle_dist,
                 Power(OverQ(e, c.min_obstacle_dist), c.obstacle_cost_exponent))
       ELSE e

InflatedObstacleError(dist, c) ==
  <<ObstacleError(dist, c), PenaltyBoundFromBelow(dist, c.inflation_dist, Q(0))>>

DynamicObstacleError(dist, c) ==
  <<PenaltyBoundFromBelow(dist, c.min_obstacle_dist, c.penalty_epsilon),
    PenaltyBoundFromBelow(dist, c.dynamic_obstacle_inflation_dist, Q(0))>>

(* The share of the speed that is left near an obstacle; with equal bounds *)
(* 0 / 0 at just that distance.                                            *)
ProximityRatio(dist, c) ==
  LET lower == c.obstacle_proximity_lower_bound
      upper == c.obstacle_proximity_upper_bound
  IN MulQ(c.obstacle_proximity_ratio_max_vel,
          IF LessQ(dist, lower) THEN Q(0)
          ELSE IF LessQ(upper, dist) THEN Q(1)
          ELSE OverQ(SubQ(dist, lower), SubQ(upper, lower)))

(* EdgeVelocityObstacleRatio: the limit is the same in both directions. *)
VelocityObstacleRatioError(p, q, dt, dist, c) ==
  LET v     == Twist(p, q, dt)
      ratio == ProximityRatio(dist, c)
  IN <<PenaltyWithin(v[1], MulQ(ratio, c.max_vel_x), Q(0)),
       PenaltyWithin(v[2], MulQ(ratio, c.max_vel_theta), Q(0))>>
=============================================================================
