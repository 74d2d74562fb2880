------------------------- MODULE MCAlgorithmChecks -------------------------
(* The inputs AlgorithmChecks is given by TLC. *)
EXTENDS AlgorithmChecks

Grid == (0 .. 2) \X (0 .. 2)

(* two triangles, a square and a quadrilateral; a notched polygon, and one *)
(* without area *)
ConvexOutlines ==
  {<<<<0, 0>>, <<2, 0>>, <<0, 2>>>>, <<<<1, 1>>, <<1, 3>>, <<3, 2>>>>,
   <<<<0, 0>>, <<2, 0>>, <<2, 2>>, <<0, 2>>>>, <<<<1, -1>>, <<3, 1>>, <<1, 2>>, <<-1, 1>>>>}

OtherOutlines ==
  {<<<<0, 0>>, <<3, 0>>, <<3, 3>>, <<2, 1>>, <<0, 3>>>>, <<<<0, 1>>, <<2, 1>>, <<1, 1>>>>}

AllOutlines == ConvexOutlines \cup OtherOutlines

SomeRobots ==
  {PointRobot, CircularRobot(1), TwoCirclesRobot(2, 1, 1, 2), LineRobot(<<-1, 0>>, <<2, 1>>),
   PolygonRobot(<<<<2, 1>>, <<-1, 1>>, <<-1, -1>>, <<2, -1>>>>),
   PolygonRobot(<<<<2, 0>>, <<-1, 2>>, <<-1, -1>>>>)}

(* one of each class, on both sides; the last one moves *)
SomeBodies ==
  {PointObstacle(<<4, 1>>), CircularObstacle(<<1, -3>>, 1), LineObstacle(<<-1, 3>>, <<5, 3>>),
   PillObstacle(<<-2, -3>>, <<2, -3>>, 1), PolygonObstacle(<<<<0, 4>>, <<2, 4>>, <<1, 6>>>>),
   WithVelocity(PointObstacle(<<3, 2>>), <<0, -1>>)}

SomeDirections == {<<1, 0>>, <<3, 4>>}
SomeHeadings   == {<<5, 0>>, <<0, 5>>, <<3, 4>>, <<-4, 3>>, <<-5, 0>>, <<4, -3>>}
SomeSteps      == {-2, 0, 1, 3}

(* with a margin and a quadratic cost *)
BaseConfig ==
  [max_vel_x |-> <<4, 1>>, max_vel_x_backwards |-> <<2, 1>>, max_vel_y |-> <<1, 1>>,
   max_vel_theta |-> <<3, 2>>, acc_lim_x |-> <<2, 1>>, acc_lim_y |-> <<1, 1>>,
   acc_lim_theta |-> <<1, 1>>, min_turning_radius |-> <<2, 1>>, penalty_epsilon |-> <<1, 2>>,
   min_obstacle_dist |-> <<1, 1>>, inflation_dist |-> <<2, 1>>,
   dynamic_obstacle_inflation_dist |-> <<3, 1>>, obstacle_cost_exponent |-> 2,
   obstacle_proximity_lower_bound |-> <<0, 1>>, obstacle_proximity_upper_bound |-> <<3, 1>>,
   obstacle_proximity_ratio_max_vel |-> <<1, 2>>]

(* without a margin; with one wider than the limits backwards and of        *)
(* rotation, so that their bounds cross; and two of which one limit alone   *)
(* is below the margin                                                      *)
SomeConfigs ==
  {BaseConfig,
   [BaseConfig EXCEPT !.acc_lim_theta = <<1, 4>>],
   [BaseConfig EXCEPT !.max_vel_x_backwards = <<1, 4>>],
   [max_vel_x |-> <<1, 1>>, max_vel_x_backwards |-> <<1, 2>>, max_vel_y |-> <<0, 1>>,
    max_vel_theta |-> <<1, 2>>, acc_lim_x |-> <<1, 1>>, acc_lim_y |-> <<1, 2>>,
    acc_lim_theta |-> <<1, 2>>, min_turning_radius |-> <<0, 1>>, penalty_epsilon |-> <<0, 1>>,
    min_obstacle_dist |-> <<2, 1>>, inflation_dist |-> <<2, 1>>,
    dynamic_obstacle_inflation_dist |-> <<1, 1>>, obstacle_cost_exponent |-> 1,
    obstacle_proximity_lower_bound |-> <<1, 1>>, obstacle_proximity_upper_bound |-> <<2, 1>>,
    obstacle_proximity_ratio_max_vel |-> <<1, 1>>],
   [max_vel_x |-> <<3, 1>>, max_vel_x_backwards |-> <<1, 2>>, max_vel_y |-> <<2, 1>>,
    max_vel_theta |-> <<1, 2>>, acc_lim_x |-> <<1, 2>>, acc_lim_y |-> <<2, 1>>,
    acc_lim_theta |-> <<1, 1>>, min_turning_radius |-> <<3, 1>>, penalty_epsilon |-> <<1, 1>>,
    min_obstacle_dist |-> <<1, 2>>, inflation_dist |-> <<0, 1>>,
    dynamic_obstacle_inflation_dist |-> <<1, 1>>, obstacle_cost_exponent |-> 3,
    obstacle_proximity_lower_bound |-> <<1, 2>>, obstacle_proximity_upper_bound |-> <<3, 2>>,
    obstacle_proximity_ratio_max_vel |-> <<1, 3>>]}
=============================================================================
