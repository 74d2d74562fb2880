----------------------------- MODULE BandGraph -----------------------------
(***************************************************************************)
(* The hyper-graph TebOptimalPlanner::buildGraph() hands to g2o            *)
(* (src/optimal_planner.cpp): its vertices are the poses 0 .. n-1 and the  *)
(* time differences 0 .. n-2 of the band, its edges are cost terms.  An    *)
(* edge is the set of the vertices it touches, with the indices of the     *)
(* code; a kind of edge whose weight is zero is left out.  Which obstacle  *)
(* is near which pose is geometry: the operators return the edges of every *)
(* pose an obstacle may be associated with.                                *)
(***************************************************************************)
EXTENDS Integers, FiniteSets

CONSTANTS
  Weights,        \* the kinds of edges with a nonzero weight
  Legacy,         \* obstacles.legacy_obstacle_association
  PosesAffected,  \* obstacles.obstacle_poses_affected
  GoalVelFixed    \* vel_goal_.first

ASSUME BandGraphOK ==
  /\ Legacy \in BOOLEAN /\ GoalVelFixed \in BOOLEAN
  /\ PosesAffected \in Nat

Edge(p, t) == [poses |-> p, dts |-> t]

Least(a, b) == IF a < b THEN a ELSE b

(* Velocity limits, shortest path and the two kinematic models all connect *)
(* consecutive poses; the first also the time between them.                *)
Velocity(n)   == {Edge({i, i + 1}, {i}) : i \in 0 .. n - 2}
Shortest(n)   == {Edge({i, i + 1}, {}) : i \in 0 .. n - 2}
Kinematics(n) == {Edge({i, i + 1}, {}) : i \in 0 .. n - 2}

(* only the first three rotations *)
PreferRotDir(n) == {Edge({i, i + 1}, {}) : i \in 0 .. Least(n - 2, 2)}

TimeOptimal(n) == {Edge({}, {i}) : i \in 0 .. n - 2}

(* Fault: one triple too many. *)
AccelerationTooLong(n) ==
  {Edge({i, i + 1, i + 2}, {i, i + 1}) : i \in 0 .. n - 2}

(* vel_start_.first is always set *)
Acceleration(n) ==
  {Edge({i, i + 1, i + 2}, {i, i + 1}) : i \in 0 .. n - 3}
  \cup {Edge({0, 1}, {0})}
  \cup (IF GoalVelFixed THEN {Edge({n - 2, n - 1}, {n - 2})} ELSE {})

(* The new association attaches obstacles to each pose between the ends;   *)
(* the legacy one to the closest pose c, if it is neither of the first two *)
(* nor the last, and to its neighbours on both sides.                      *)
Obstacles(n) == {Edge({i}, {}) : i \in 1 .. n - 2}

Neighbours(c, n) ==
  {c} \cup {j \in 0 .. n - 1 : \E k \in 0 .. (PosesAffected \div 2) - 1 : j \in {c + k, c - k}}

ObstaclesLegacy(n) ==
  LET closest == IF PosesAffected >= n THEN {n \div 2} ELSE 0 .. n - 1
  IN {Edge({j}, {}) : j \in UNION {Neighbours(c, n) : c \in {k \in closest : 1 < k /\ k <= n - 2}}}

(* The time at which pose i is reached adds TimeDiff(i) after its edge. *)
DynamicObstacles(n) == {Edge({i}, {0, i}) : i \in 1 .. n - 2}

(* only with the new association, which fills obstacles_per_vertex_ *)
VelocityObstacleRatio(n) ==
  IF Legacy \/ "obstacle" \notin Weights THEN {}
  ELSE {Edge({i, i + 1}, {i}) : i \in 0 .. n - 2}

(* buildGraph(), without the via-points *)
Edges(n) ==
  UNION {IF "obstacle" \in Weights THEN IF Legacy THEN ObstaclesLegacy(n) ELSE Obstacles(n) ELSE {},
         IF {"obstacle", "dynamic"} \subseteq Weights THEN DynamicObstacles(n) ELSE {},
         IF "velocity" \in Weights THEN Velocity(n) ELSE {},
         IF "acceleration" \in Weights THEN Acceleration(n) ELSE {},
         IF "time" \in Weights THEN TimeOptimal(n) ELSE {},
         IF "shortest" \in Weights THEN Shortest(n) ELSE {},
         IF "kinematics" \in Weights THEN Kinematics(n) ELSE {},
         IF "rotdir" \in Weights THEN PreferRotDir(n) ELSE {},
         IF "ratio" \in Weights THEN VelocityObstacleRatio(n) ELSE {}}
=============================================================================
