# Verification of d2_teb_local_planner

TLA+ modules that model the control logic of `src/d2_teb_local_planner`, TLC
configurations that check them on small instances, and theorems about them that
the TLA+ proof system checks for every value of the constants. All paths below
are relative to `src/d2_teb_local_planner/`.

## 1. The system

The package plans the robot's trajectory as a *timed elastic band*: a sequence of
poses and time differences that a non-linear optimizer bends away from obstacles.
Because an optimizer finds only the local optimum, several bands are kept at once,
one per homotopy class (side on which each obstacle is passed).

| Component | State | Operations | Called by |
|---|---|---|---|
| Homotopy class planner, `src/homotopy_class_planner.cpp` | candidate bands `tebs_`, their classes `equivalence_classes_`, `best_teb_`, `last_best_teb_`, `initial_plan_teb_`, two cached classes, time of the last switch | `plan`, `isTrajectoryFeasible`, `getVelocityCommand(Myj)`, `clearPlanner` | plugin or standalone node, one cycle at a time |
| Graph search, `src/graph_search.cpp` | a graph of waypoints, rebuilt in each cycle | `createGraph`, `DepthFirst` | `plan` |
| Equivalence classes, `h_signature.h` | the signature of one band | `calculateHSignature`, `isEqual`, `isValid` | homotopy class planner |
| Optimal planner, `src/optimal_planner.cpp` | one band, its cost, `optimized_`, the hyper-graph | `optimizeTEB`, `plan`, `getVelocityCommand`, `isTrajectoryFeasible` | homotopy class planner, one thread per band |
| Timed elastic band, `src/timed_elastic_band.cpp` | poses and time differences, which of them are fixed | `initTrajectoryToGoal`, `autoResize`, `updateAndPruneTEB` | optimal planner |
| Nav2 plugin, `src/teb_local_planner_ros.cpp` | global plan, obstacles, via-points, goal and reset flags | `computeVelocityCommands`, `setPlan`, lifecycle, two topic callbacks | controller server |
| Standalone node, `component/teb_planner.hpp` | latest odometry, plan and obstacles, a stop latch | `controlLoop`, topic callbacks, parameter callback | timer and executor |
| Obstacle fusion node, `component/obs_fusion.hpp` | latest costmap, odometry and scan | `computeAndPublish`, topic callbacks | timer and executor |
| Failure detector, `src/recovery_behaviors.cpp` | ring buffer of velocities, oscillation flag | `update`, `clear`, `detect` | nobody at this commit |
| Configuration, `src/teb_config.cpp` | about 150 values, the footprint model | load, check, dynamic update; the plugin's `setSpeedLimit` writes the velocity limits | plugin |
| Obstacles, robot models, distances, `src/obstacles.cpp`, `obstacles.h`, `robot_footprint_model.h`, `distance_calculations.h` | five obstacle classes, five robot models, constant once made | distances, intersections, collisions, centroids | cost terms, graph search, plugin |
| Cost terms, `g2o_types/` | none | `computeError`, `linearizeOplus` of every edge | the solver, for each pose in each iteration |

How they interact. The plugin (inside Nav2's controller server) and the standalone
node (a ROS 2 component with a timer) are two alternative hosts of the same planner.
In each control cycle the host cuts the global plan to what lies ahead, hands obstacles
and via-points to the planner *by pointer*, calls `plan()`, in the plugin also
`isTrajectoryFeasible()`, and then `getVelocityCommand()`. The homotopy class planner
owns its bands, asks a graph search for new ones, and optimizes all of them, one thread
each. The obstacle fusion node publishes obstacles to the standalone node on a
best-effort topic. Nothing is persisted: a restart begins from the initial state.

What is hard here, and what correctness means:

| Component | Hard behaviours | What makes it correct |
|---|---|---|
| Homotopy class planner | two vectors erased from and appended to by index in six places, pointers that outlive the list, caches that are not refreshed, threads that end in any order, a loop that retries after removing a band, a blocking period | the two vectors describe the same bands; the limits on bands hold; the band that drives is the band that was checked; exploration never takes away the plan being followed; every call returns |
| Timed elastic band | three index arithmetics (pruning, splitting, joining) over two vectors of different length, loops over what they change | one time difference between any two poses; exactly the ends fixed; not fewer than `min_samples` once optimized; resizing keeps the time and ends |
| Optimal planner | raw pointers into the band held by the graph, failure in a later iteration, edges over 2 and 3 poses | the band does not change size while the graph holds it; every edge joins existing vertices; every free vertex has an edge; what is reported is what happened |
| Graph search | depth-first enumeration, two loops in each call, a limit tested in the recursion, edges that may lead back | each simple path from start to goal is offered once and no other; the limit holds; the search ends |
| Standalone node, fusion node | three independent inputs at their own rates, a lossy topic, early returns without publishing | a command belongs to one plan; an empty plan stops the robot; obstacles reach the planner |
| Plugin | callbacks concurrent with a control cycle, obstacles collected under two mutexes, five ways to fail with counters and resets | what a command was computed from belongs to this cycle; a failed cycle leaves no trajectory behind; the plan kept is a suffix of the plan given |
| Configuration | limits written by two callbacks in one thread while a cycle reads them in another, one callback without the mutex; a footprint rebuilt one changed parameter at a time | a limit is what was last asked for; a command obeys limits that were in force; the footprint is what the parameters say |
| Obstacles, robot models, distances | one formula per pair of shapes, shortcuts for shapes that meet, signed areas | each formula is the distance of the two shapes, wherever they are |
| Cost terms | smoothed signs, margins, hand-written Jacobians, velocities over half times | a term charges for what exceeds the limit it is named for |
| Use of the band | zero times, interpolation, rounded numbers of samples | velocities lead along the band; no obstacle on the path is missed |
| Failure detector | a ring buffer | dead code at this commit |

PROJECT.json lists every hazard with its line and the properties that cover it.

## 2. Modules

| Module | Lines it models | Role |
|---|---|---|
| `HomotopyClassPlanner` | `src/homotopy_class_planner.cpp`, `homotopy_class_planner.h`/`.hpp` | the component, its properties |
| `PlanFollowing` | none: what the planner promises its host | abstract specification, implemented by the former |
| `MCHomotopyClassPlanner` | | instance for TLC: an equality of classes that is not transitive |
| `BandGraph` | `optimal_planner.cpp`, `AddEdges...()` | pure operators: the hyper-graph as a set of edges |
| `ElasticBand` | `timed_elastic_band.cpp`, `optimal_planner.cpp` | the component, its properties |
| `GraphSearch` | `graph_search.cpp` | the two graphs and `DepthFirst()`, its properties |
| `StandaloneNode` | `component/teb_planner.hpp` | the standalone host of the planner, its properties |
| `ObstacleFusion` | `component/obs_fusion.hpp` | the obstacle fusion node and the topic it publishes on |
| `PlannerSystem` | `launch/teb_planner.launch.xml` | the two nodes together |
| `NavPlugin` | `src/teb_local_planner_ros.cpp` | the Nav2 host of the planner, its properties |
| `Geometry` | `distance_calculations.h` | pure operators: squared distances as rationals, intersections |
| `Obstacles` | `obstacles.h`, `obstacles.cpp`, `teb_local_planner_ros.cpp` | the obstacle classes, and how messages become obstacles |
| `RobotModels` | `robot_footprint_model.h` | the five robot models |
| `CostTerms` | `g2o_types/edge_*.h`, `penalties.h`, `misc.h`, `teb_config.cpp` | the errors and Jacobians of the edges, the check of the limits they use |
| `Association` | `optimal_planner.cpp`, `timed_elastic_band.cpp` | which obstacles belong to which pose |
| `BandUse` | `optimal_planner.cpp` | velocities taken from a band, and the poses checked for collisions |
| `FootprintConfig` | `teb_config.cpp` | the footprint model from its parameters |
| `GeometryChecks`, `AlgorithmChecks` | | reference definitions, inputs and properties for the seven above |
| `RobotConfig` | `teb_config.h`, `teb_config.cpp`, `teb_local_planner_ros.cpp` | the velocity limits at runtime, `setSpeedLimit()`, saturation |
| `MCPlannerSystem`, `MCNavPlugin`, `MCAlgorithmChecks`, `MCRobotConfig` | | instances for TLC: plans, paths, messages, shapes, limits |
| `ListLemmas` | | lemmas about `RemoveAt`, `InsertAt`, `Append`, swaps, sequences without duplicates, least and greatest indices, induction over a set of numbers, and sums |
| `HomotopyClassPlannerProofs`, `ElasticBandProofs`, `GraphSearchProofs`, `StandaloneNodeProofs`, `NavPluginProofs`, `RobotConfigProofs` | | theorems of the component each is named after |
| `AlgorithmProofs` | | theorems of `AlgorithmChecks`, about `CostTerms` and `FootprintConfig` |

In every module, an operator introduced with "Fault:" is not part of the model. It is
the definition that follows it with a plausible mistake, used to show that a property
notices the mistake (PROJECT.json, "mutants").

### HomotopyClassPlanner

State: `tebs`, `eqs`, `best`, `lastBest`, `initTeb`, `bestEq`, `initEq`, `hasPlan`
are the members of the class; shared pointers are identities from `Tebs`, and an
identity no pointer holds is destroyed at the next call and may be used for a new band.
`band` is what the planner looks at in a `TebOptimalPlanner`. `since` counts cycles since
the last switch and stands for `last_eq_class_switching_time_`. `plansPerClass` is a
parameter the code reads without ever initialising it (`homotopy_class_planner.cpp:225`),
chosen once in `Init`. `band[t].cls` is a history variable, the class of the band's own
signature, and so is `given`, the class of this call's initial plan with whether the list had
room for a band of it.

A call of `plan()` is a walk of `pc`:

| `pc` | Function | Actions |
|---|---|---|
| `idle` | `plan()`, `updateAllTEBs()` | `Plan` |
| `renew`, `analyze` | `renewAndAnalyzeOldTebs()` | `RenewBest`, `AnalyzeTeb`, `AnalyzeDone` |
| `detours` | `deletePlansDetouringBackwards()` | `KeepPlan`, `DeleteDetour`, `DetoursDone` |
| `drop` | `randomlyDropTebs()` | `DropTeb`, `DropDone` |
| `initial` | `addAndInitNewTeb(plan)`, `getInitialPlanTEB()` | `AddInitialPlan`, `FindInitialBand` |
| `graph` | `createGraph()`, `DepthFirst()` | `AddGraphPath`, `AddStraightLine`, `GraphDone` |
| `viapoints` | `updateReferenceTrajectoryViaPoints()` | `SetViaPoints`, `SkipViaPoints` |
| `optimize` | `optimizeAllTEBs()`, one thread per band | `OptimizeTeb`, `OptimizeDone` |
| `select` | `selectBestTeb()` | `Select` |
| `find`, `judge` | `isTrajectoryFeasible()`, `findBestTeb()` | `CheckFeasible`, `FindBestTeb`, `JudgeFeasible`, `JudgeInfeasible` |
| `planned`, `accepted`, `rejected` | between two calls of the host | `GetVelocityCommand`, `ClearPlanner` |

Geometry is nondeterminism: the signature a band gets, whether it detours, whether it
collides, the cost it ends with. `Equal` is `isEqual()`, a relation that is not transitive:
`HSignature` compares within a tolerance (`h_signature.h:202`), and `HSignature3d` only in
components that are above a threshold in both (`:362`). In the instance for TLC `far` equals
two classes that differ, and `nan`, whose signature is not finite, equals none.

`PlanFollowing` says what a host may rely on: a plan being followed stays a candidate
through all that exploration does, and is given up only by a collision check, by a clear
or reinitialization, or at the end of a cycle after the blocking period.
`FollowsPlans` is that specification under the mapping `cands <- ToSet(tebs)`,
`chosen <- best`, `wait <- since`, `phase <- ...pc...`.

### ElasticBand and BandGraph

State: `poses` (fixed or free; the start and goal of this cycle, of an older one, or free)
and `dts` (whole units) are the two vectors; `graph` says whether the optimizer holds their
vertices; `via` the poses the via-points are attached to; `optimized` and the returned value;
`outer`, `rep`, `i`, `modified` are the loop variables. `PlanAnew` and `PlanHot` are the two
halves of `plan()`; `BeginIteration` ... `EndIteration` an outer iteration; `Split`, `Merge`,
`MergeLast`, `Keep`, `PassDone` are `autoResize()`; `BuildGraph`, `Solve`, `SolveFails`
the graph and its solution. `Drive` makes the ends of the last cycle old. The solver's result
is any assignment of `OptDts`. `BandGraph` translates each `AddEdges...()` to the set of
edges it adds for a band of `n` poses, an edge being the indices of the vertices it touches.

### GraphSearch

Both kinds of graph (`lrKeyPointGraph`, two vertices beside each obstacle, and
`ProbRoadmapGraph`, random ones) differ in where the vertices are, which is geometry, and have
their edges inserted by the same two loops. `Search` is `createGraph()` and takes any set of
edges those loops can insert: the goal has none, and an edge leads back only when
`obstacle_heading_threshold` is negative, which the configuration does not refuse
(`teb_config.cpp:841` tests another parameter). The recursion of `DepthFirst()` is a stack:
`visited` is the vector of that name and `at[k]` the vertex the second loop of the call at depth
`k` has come to. `ReachGoal` and `PassBy` are the first loop of a call, `Descend` and `LoopEnds`
the second, `LimitReached` the test at its head. `bands` is the size of `tebs_`, and
`addAndInitNewTeb()` adds one or finds the class known. `offered` is a history variable. This is
the detailed view of what `HomotopyClassPlanner` has as `AddGraphPath`, one path at a time.

### StandaloneNode, ObstacleFusion and PlannerSystem

Positions are numbers on a line. In `StandaloneNode` `pose`, `plan`, `hasPlan`, `via`,
`obstacles`, `switched` are members of the component; `teb` records what the planner's trajectory
was computed from, `cmd` the last command on `/cmd_vel_teb`. `controlLoop()` is a walk of `pc`
from `idle` through `plan` and `command`; the callbacks are enabled at `idle`, because all of them
and the timer are in the node's default group, which is mutually exclusive. That is the only
thing that protects them: the mutexes around `obstacles_` and `via_points_` are not taken by the
planner, which reads both by pointer. In `ObstacleFusion` a polygon or cluster stands for the
obstacle it was made of; `Polygons` is what the map shows around the robot, `Clusters` which
clusters of the scan are kept. A message that is lost is a step that is not taken, a reader
that is behind keeps the latest `Depth`. `PlannerSystem` joins `Receive` with `ObstacleCB`.

### NavPlugin

One step of `computeVelocityCommands()` for each part others may come between: `BeginCycle`
prunes and cuts the plan, `TestActive` reads the flag of the custom via-points,
`UpdateViaPoints` derives them from the plan, `AddCells` and `AddCustomObstacles` fill
`obstacles_` under the costmap's and the message's mutex. Of the costmap come, by `source`, what a
loaded converter made of it (`teb_local_planner_ros.cpp:276`), its cells if
`include_costmap_obstacles` is set (`:369`), or nothing; of the cells not those far behind the
robot (`FarBehind`) nor those in the last row and column, which the loops do not reach
(`Border`, `:374`). `PlanSucceeds` or `PlanFails` is
`plan()`, then come divergence and feasibility (`TrajectoryFeasible`, `TrajectoryRejected`) and the
velocity (`ReturnCommand`, `NoVelocity`). `setPlan()` is called by the thread that runs the
cycles, and comes between them. The callbacks run in the executor's thread:
`CustomObstacleCB` writes under its mutex, `customViaPointsCB()` is `WriteViaPoints` and
`SetActive`, with a mutex the cycle does not take. A vector read while it is written is
undefined behaviour; the model goes no further than the order of whole operations. `given` and `seen` are history variables: the argument of the last
`setPlan()`, and what obstacles there were, at some time and all the time, since the cycle began.

### Geometry, Obstacles, RobotModels, CostTerms

These are functions without state. Points have whole coordinates and poses turn by quarters, so that
a squared distance is a fraction of whole numbers and nothing is rounded; a clearance keeps
the squared distance and the radius taken off it apart, because the root is irrational, and
two clearances are compared by squaring. An obstacle is a record with its class, vertices, radius and
velocity; what the classes override is one operator with a case for each class. In `CostTerms` a
centimetre is the unit of length, in which `fast_sigmoid(100 x)` has whole arguments, and every
`computeError()` is an operator, and `linearizeOplus()` of `EdgeKinematicsDiffDrive` (the only other
that is compiled, of `EdgeTimeOptimal`, is the constant 1). Multiplying by the information
matrix and solving is g2o's. `Association` has the part of `AddEdgesObstacles()` that decides which
obstacles a pose gets; how many edges follow is in `BandGraph`.

### AlgorithmChecks

Its only step picks an input: an obstacle and an outline to measure from, a polygon, a robot with a
moving obstacle, a pair of headings, a motion, an acceleration, a distance, a band, a path,
obstacles around a robot, a list of messages, or a footprint with a list of changes. Each property
compares the result with a definition that is computed in another way (`GeometryChecks`: two
outlines meet, or are as far apart as the nearest vertex and side) or states what the result must
mean.

### RobotConfig and FootprintConfig

`RobotConfig` has the limits of `TebConfig` (`max`), those without a speed limit (`base`), and a cycle
that evaluates the arguments of `saturateVelocity()` one by one, in any order, while
`setSpeedLimit()` in another thread writes one limit after another. Parameter callbacks take the
mutex the cycle holds. The constructor gives `base` a value for driving forwards only and copies the
other limits from themselves (`teb_config.h:284`), and loading the parameters leaves it alone
(`teb_config.cpp:200`): `Leftovers` is what such memory may hold. A percentage is multiplied as
it is, as the code does it. `params`, `asked`, `outcomes` and `seen` are history variables, `outcomes`
which limits the requests since the last change of the parameter have led to. `FootprintConfig` has two sets
of members, because loading fills other members than a reload reads, and what was never written
is `Garbage`.

## 3. Runs

| Run | Question | Bounds |
|---|---|---|
| `hcp` | do the lists, limits, via-points, pointers and `PlanFollowing` hold, whatever signatures come? | 4 signatures: two that differ, one equal to both, one not finite; at most 2 bands, 2 costs, a limit of 1 band in the best class, blocking of 1 cycle |
| `hcp_live` | does every call return? | finite signatures (otherwise `isTrajectoryFeasible()` need not return, see `hcp_removal`), with and without initial plans, a limit of 2 bands in the best class, 1 cost |
| `band` | does the band keep its shape, ends and time, does the graph fit it, does resizing settle and `plan()` return? | `min_samples` of 4, at most 5, pruning to 3, all kinds of edges, legacy obstacles, 2 ordered via-points, hysteresis of 1 for a reference of 6, at most 4 passes, 2 outer iterations |
| `graph_search` | is every simple path offered once and no other, within the limit? | all graphs of up to 4 vertices, those of 5 without edges back, at most 3 bands |
| `nodes` | does a command belong to the latest inputs, does an empty plan stop the robot, and do obstacles reach the planner over a topic that loses messages? | 2 positions, the plan there and back and the empty one, obstacles at 2 places, a reader that keeps 1 message, 1 cluster |
| `plugin` | does a command belong to this cycle, and what does a failure leave? | 3 positions, 2 plans of which one turns back, obstacles at 2 places of which one is in the costmap's last row or column, with and without converter and costmap obstacles, via-points from the plan or from messages |
| `algorithms` | do the pure computations give what they are for? | shapes on a grid of 9 points, 6 outlines, 6 robots, 6 bodies, bands of up to 3 poses and paths of up to 4 in 2 directions, 5 sets of limits |
| `limits` | do limits follow what was asked last, and commands obey them? | 2 speeds, others in the constructor, memory that holds a negative number, speed limits of -1 (ignored) and 2, percentages of 0 and 50, velocities on both sides of every limit |
| `hcp_removal`, `hcp_viapoints`, `plugin_prune`, `limits_percent` | a sentence of the code's comments that the code does not keep | as above, `hcp_removal` with both outcomes of the read of the uninitialised limit, `plugin_prune` with a prune distance of 2 |

Why the bounds are enough. With five identities a new one is always free: at most
`MaxClasses` = 2 bands are listed and `best`, `lastBest`, `initTeb` hold at most three more. Two
bands and two classes reach every order in which lists of different length, duplicates, the limit
and the pointers meet; a third band adds no new comparison but one: that more bands repeat a class
than the limit allows needs three bands to be seen, so that of the two parts of
`BestClassLimited` the run tests the second, and the first rests on the proof. `Hysteresis` = 100 and
`PreferInitial` = 95 make both ties and preferences happen. In the band run samples range over
both limits (`min_samples` and `max_samples`), `OptDts` has a value that splits, one that stays and
one that joins, and the hysteresis is below a third of the reference, where splitting
and joining alternate for ever and only the limit of passes (100 in the code, `MaxReps` in the
model) ends the loop. `PruneMin` is below `MinSamples`, as it may
be in the code, where only the former is fixed. Graphs of 4 vertices have circles, vertices next to the goal that lead on,
and dead ends; those of 5 have more simple paths than `MaxClasses`. The plans of `nodes` and
`plugin` pass a place twice, turn back, and have none or, once pruned, one pose, so that every case of the
searches through them happens; `Places` has an obstacle on either side of the robot; a queue for one
message is full, and overwrites, as soon as a second comes. The states are finite without a
bound on the number of cycles, so the runs cover any number of them. In `algorithms` the grid is just large
enough for lines that cross, touch at an end, at a side, overlap, are parallel, or have no
length, and for points inside, on and outside of convex, notched and flat polygons; the directions are an axis
and one that is oblique but of whole length; of the limits one set has a margin, one has none,
one lets the bounds cross, and two have one limit alone below the margin.

Fairness. `FairSpec` of the planner and the band assumes only `WF_vars(Running)`, that of the
graph search `WF_vars(DepthFirst \/ Finish)`: a function that was called keeps executing. Neither
holds a step that begins a call, so no host, callback or message is assumed to come.
For the two nodes, `WF` of `ControlLoop` and of `Fuse` says that the two timers expire again and
again, and that of messages sent again and again not all are lost; `SF` of `Deliver` that
the executor serves a subscription that becomes ready again and again, which weak fairness would
not give because the group of callbacks is busy in between. No input is fair: no plan, odometry
or scan need come. `plugin` and `limits` need no fairness. Deadlock is checked in every run but
`algorithms`, which ends with its one step.

### Findings

Each violation run shows a disagreement of a comment and the code:

- `hcp_removal`: a best band whose signature is not finite is kept without a class, after which
  `removeTeb()` removes nothing and `isTrajectoryFeasible()` may judge the same band for ever.
- `hcp_viapoints`: with a full list `addAndInitNewTeb()` returns before it computes the initial plan's
  class (`homotopy_class_planner.cpp:437`), so that the via-points, which are those of the latest
  plan, go to the bands in the class of an older one. `ViaPointsFollowInitialClass` says what
  does hold: the class is the plan's when there was room for its band.
- `limits_percent`: a speed limit of 50 percent makes a limit of 100 of a parameter of 1. The
  percentage is multiplied like a fraction (`teb_local_planner_ros.cpp:692`), and with the limit of the
  constructor, because loading the parameters does not set the limits without a speed limit, of
  which all but the forward one are uninitialised (`teb_config.h:283`, `teb_config.cpp:200`).
  `LimitsDoNotCompound` says of what is computed from them only that it does not pile up.
- `plugin_prune`: `pruneGlobalPlan()` erases what is near the robot, ahead of it too. Once the
  rest of the plan is within the prune distance (1.0 by default, the goal tolerance is 0.2)
  nothing is left, the cycle throws, and the robot cannot go the last part of its way.

Observations without a run, made while modelling. Homotopy class planner: since `isEqual()` is not
transitive, and the class compared with is renewed in each cycle, more bands than
`max_number_plans_in_current_class` may equal a best class that is not itself in the list (`BestClassLimited`
claims no more); `selectBestTeb()` overwrites
`last_best_teb_` inside the loop that compares with it, so that a previous plan found infeasible is
not always recognised as such (`:730`); nothing reads the lock that excludes the initial plan's class
from deletion; `plan()` returns true whatever happened (`homotopy_class_planner.h:160` promises
otherwise). Band: the homotopy class planner prunes to 3 poses
whatever `min_samples` is (`homotopy_class_planner.cpp:480`, `timed_elastic_band.h:452`), and the optimizer then refuses a band
below it (`optimal_planner.cpp:379`); the search for ordered via-points starts anew from the
front when it runs past the goal (`optimal_planner.cpp:692`); `optimized_` stays true when a later
outer iteration fails; `estimateDeltaT()` returns zero for a repeated pose, which an
assertion forbids that the default build compiles out (`timed_elastic_band.cpp:101`). Graph search:
`free_goal_vel` is not passed on (`graph_search.cpp:67`). Fusion node: where the map is free
around the robot it returns before it adds what the scan shows, and publishes nothing
(`obs_fusion.hpp:197`). Plugin: the separation of via-points adds up distances from the last one to
every pose since, so that they come closer together than it says
(`teb_local_planner_ros.cpp:652`); the costmap's last row and column are not read, and the loops' bounds
wrap around for a costmap without cells (`:374`); the cycle
tests `custom_via_points_active_` and then clears `via_points_` (`:249`, `:637`) without
`via_point_mutex_`, so that via-points that arrive in between are lost, and counted as active until the
next message (`CommandCurrent` says nothing of via-points while the separation asks for none from
the plan). Obstacles: the sides in `AddEdgesObstacles()` are those of a line through the origin,
because `cross2d(pose_orient, centroid)` does not take off the pose (`optimal_planner.cpp:515`), so
that of two walls on both sides of the robot one may be left out; an empty polygon of the costmap
converter gives its velocity to the obstacle added before it (`teb_local_planner_ros.cpp:423`),
which the custom message's loop avoids (`:469`); the closest pose to a pill is that to its centroid;
lines, pills and polygons ignore the distance `checkLineIntersection()` is given (`obstacles.h:116`,
`:643`, `:790`, `obstacles.cpp:180`), which the graph search passes (`graph_search.cpp:199`, `:326`), and a line that lies
inside a polygon does not intersect it, so that `ShapesAgree` asks only that a line through the obstacle is
found, and that what is found is within the distance; the distance from inside a polygon is positive.
Cost terms: the edges at the start and the goal measure half of a constant acceleration; the smoothed
sign lets a step be up to a centimetre longer than the limit; `acc_lim_y` is not compared with the
margin its penalty uses (`teb_config.cpp:822`); `EdgeVelocityObstacleRatio` has one limit for both
directions, and divides zero by zero where its two bounds are equal. Use of the band:
`getVelocityCommandMyj()` gives a velocity across to robots that cannot strafe; with a distance to look
ahead the number of poses is ignored (`optimal_planner.cpp:1327`, `teb_config.h:93`); the samples
between poses are a quotient by the inscribed radius, which may be zero (`:1352`);
`getFullTrajectory()` reads a time difference a single pose does not have. Limits:
`NO_SPEED_LIMIT`, which is zero, stops the robot;
no speed limit applies to `max_vel_y`; the standalone node's parameter callback sets limits, not what
they are without a speed limit. Footprint: the messages that announce a point model are wrong for circles, lines
and two circles, which use what is there (`teb_config.cpp:314`).

## 4. Theorems

Proved for every value of the constants that satisfies `ConstantsOK`
(`BandGraphOK`, `ElasticBandOK`, `GraphSearchOK`, `StandaloneNodeOK`, `ObstacleFusionOK`, `PlannerSystemOK`,
`NavPluginOK`, `RobotConfigOK`, `AlgorithmsOK`, `ConfigsOK`), that is for any number of bands,
classes, samples, vertices, plans and cycles:

| Theorem | Says | Besides the constants' assumption |
|---|---|---|
| `HomotopyClassPlannerProofs!TypeCorrect` | types | |
| `NoClassWithoutBandHolds` | never a class without a band, at most one band without a class | |
| `BandsBoundedHolds` | `max_number_classes` | |
| `FollowsPlansHolds` | the planner implements `PlanFollowing` | |
| `ClassesDescribeBandsHold`, `ViaPointsFollowInitialClassHolds` | each class is its band's, unless the best band's signature was not finite; via-points go to the bands in the class of this call's plan when there was room for its band | |
| `DuplicatesOnlyInBestClassHolds` | only the best band's class is shared | |
| `BestClassLimitedHolds` | and by a limited number | `Equal` is symmetric |
| `AcceptedPlanDrivesHolds` | the checked band drives | |
| `InitialClassKnownHolds` | no null dereference | `PlanModes = {TRUE}` |
| `ElasticBandProofs!TypeCorrect`, `BandShapeHolds`, `EndsHeldHolds`, `BandStableInGraphHolds`, `ViaPointsMovableHolds`, `EdgesInBandHolds` | the band's invariants | |
| `EnoughSamplesHolds` | no band is shorter than what pruning leaves, none that was optimized in this call shorter than `min_samples` | |
| `VerticesConstrainedHolds`, `GraphSoundHolds` | every free vertex has an edge; with the two above, the graph fits the band | time and shortest path weighted |
| `TimeKeptHolds` | splitting and joining keep the total time, in bands of every length | |
| `ResizeSettlesHolds` | resizing ends early only when every time difference is within the hysteresis or the samples are at their limit | |
| `GraphSearchProofs!TypeCorrect`, `PathsSimpleHolds` | the search holds vertices of this graph; every candidate follows a simple path, in graphs of any size, with circles or without | |
| `BandsBoundedHolds` (of `GraphSearchProofs`) | the searches respect `max_number_classes` | |
| `EachPathOnceHolds` | no path is offered twice; a search that ends below the limit has offered every simple path, in graphs of any size, with circles or without | |
| `StopLatchedHolds`, `CommandCurrentHolds`, `NoVelocityWithoutPlanHolds` | the standalone node's commands, for all plans, positions and messages | |
| `SystemImplementsNode`, `SystemKeepsNodeSafe` | the node in the system of the two nodes does only what the node alone may do, so the three above hold of the system | |
| `ObstaclesFusedAtOnePlace` | every message, on the topic and in the planner, is the map's polygons and the kept clusters around one pose of the robot, and the topic holds at most `Depth`, whatever is lost or late | |
| `ObstaclesOnlyReplacedHolds` | the planner's obstacles change only to a list with a polygon: nothing clears it when the obstacles are gone | |
| `NavPluginProofs!TypeCorrect` | types, of the list of via-points made from the plan too | |
| `ObstaclesOfThisCycleHolds`, `CommandCurrentHolds`, `FailureForgetsHolds` (of `NavPluginProofs`) | what a cycle of the plugin plans around and follows, with a converter or without, with costmap obstacles or without, and what a failure leaves, whatever the other threads write in between | |
| `AlgorithmProofs!JacobianIsSlopeHolds` | the Jacobian written by hand is the slope of its error, for all whole headings and displacements | |
| `FootprintAsConfiguredHolds` | the footprint is what the parameters say, after any number of changes in any order | |
| `CostsMeasuredHolds` | the errors are what the motion is: speed and limits, acceleration of a motion that has a constant one (by the edge over two steps), nearness, and bounds that do not cross unless a warning says so, for all whole displacements, times and rational limits | |
| `VelocitiesFollowBandHolds` | no command is faster, or turns faster, than the fastest step of the band, however far it looks ahead and whatever step takes no time; the velocity profile leads from the first pose to each of the others, for all steps and times along a direction of whole length | |
| `RobotConfigProofs!TypeCorrect`, `LimitsDoNotCompoundHolds`, `CommandWithinLimitsHolds` | limits and commands, for all speeds, speed limits, velocities and contents of uninitialised memory | |

The inductive invariants. For the homotopy class planner the properties are not
inductive by themselves: a loop in the middle of the lists needs to know what is true of
the part it has passed. `Sizes` bounds the difference of the two lists at each `pc`;
`Distinct` says no band is listed twice, without which removing "the" band would leave
another one in the list, and `BestFirst` that the best band is at the front while old bands
are analyzed, so that the loops, which begin behind it, cannot reach it: these two make
`FollowInv`, from which each step is shown to be a step of `PlanFollowing` or a stutter.
`Judged` ties `best` to the list at `judge` and `accepted`; `PlanFirst` follows
`initEq` from the first plan, `GivenKept` says that it is the class of this call's plan when there was
room; `Described` (`ClassInv`) says for each `pc` which prefix of the lists agrees, `Exact` that they
come apart only when the best band's signature was not finite; `DupInv` adds the order in which
duplicates came, and `LimitInv` the two counts, with what erasing and appending do to them in
`CountErase` and `CountPush`. For the band, `ShapeInv` gives for each `pc` the relation of the two lengths
and which poses are fixed (`Held` inside a call, `Resting` between calls); `GraphInv` says at
which `pc` the graph holds vertices and that via-points are attached to free poses;
`OuterInv` bounds the iterations. `PassInv` says that a pass of `autoResize()` which has changed
nothing so far leaves only settled time differences behind its index, from which `ResizeSettles`
follows; `TimeKept` is an action property that needs no more of the past than the shape: `Split`
replaces one time difference by two with the same sum, a joining step two by one, and `SumOfSplit`
says that this leaves `FoldSeq(+, 0, dts)` alone. For the graph search, `StackInv` says that `visited` is a simple
path which is one longer than the stack of loops on entry and as long as it in a loop, so that
what `DepthFirst()` pushes and pops stays a path of the graph: `PathExtended` and `PathCut` are the
two lemmas about that. `EachPathOnce` needs to know where the search has been without a history of it:
a path q is past (`Past`) when it leaves `visited` at some depth for a vertex that the loop there
is done with. `OnceInv` says that every path offered, without the goal, is past, and that none is
there twice; `AllInv` that, while there is room for another band, every past path next to the goal
was offered. A step that enters a vertex makes nothing past (`PastDescend`), one that returns
makes past what begins with the path returned from (`PastLeave`), and `NotPastYet` says that the path
about to be offered is not past; in the end everything is, and since a simple path has no more vertices than
the graph (`SimplePathShort`), what was offered is `Paths`. For the standalone node, the type invariant and the properties are
joined with what is known at `plan` and `command` of the inputs. The system of both nodes is shown to
implement the standalone node by step simulation: a step of the fusion node leaves the node's variables
alone, a delivery is its `ObstacleCB`. `SystemInv` adds that whatever is on the topic, and in the planner's
list unless it never got one, was fused around one place (`Published`), which losses, delays and the queue's limit
keep. For the plugin, `PlanInv` keeps
the plan a suffix of the plan given and the path the transformed part of it; `ViaInv` says that
no callback writes via-points while they come from the plan; `SeenInv` and `ObstaclesInv` relate the
costmap, the message and the half-filled list to what was seen in the cycle; `TebInv` and `FailureInv`
what the trajectory was computed from, and when there is none. For the limits, `OutcomeInv`
says that every outcome is its request applied to the limit without a speed limit, whatever that is, and
that the latest is in force; `RequestInv` that nothing is asked for before the parameters are loaded;
for the command the invariant adds that each limit read, and each limit in force, is among those seen. In `AlgorithmProofs` the invariant (`Inputs`) only says which inputs the step picks; the
content is in the lemmas. For the Jacobian the errors are reduced to `fabs()` and a lower bound of one number
(`ErrorsAre`), which a displacement by one moves by a sum of cosines or sines (`ErrorsMove`),
and both have their slope as long as the sign stays (`MagnitudeGrows`, `LackGrows`). For the edges, every comparison of
rationals is brought to whole products first. The penalties are functions with three pieces, of
which is shown once when they are zero and that they only grow; the smoothed sign, which is one side of
`fast_sigmoid`, costs less than one centimetre of speed; a motion
with constant acceleration gives its second difference exactly, whatever the two times are; and a power is monotone by induction
over the exponent. For the velocities, a way is no longer than the sum of its steps (`BandWays`, with the turns of
`TurnTriangle`), and a sum over the sum of the times is no more than the largest quotient (`Mediant`,
`MeanOfSteps`), by induction over the poses; the interpolated command ends inside a step, of which it takes a part
(`MeanOfPart`), and a twist turned to the frame of a pose and back is the displacement (`TurnedBackIs`), from
which `BandLeads` drives the profile from pose to pose. These lemmas hold for bands of every length. For the
footprint, `Reached` says after each change which members were never set, which value
the others have, and of which members the model is. `ListLemmas` states once what removing, inserting, swapping and
appending do to lengths, elements and distinctness, and what sums of lists come to.

Folds. `FoldLeft` and `FoldSeq` are defined by a choice of a function on sets of indices. That there is
such a function is shown by induction over the largest index, and what it computes by induction over the
length; both use `NatSetInduction`, which states induction for a set of numbers instead
of a predicate and rests on the least element of a set (`SmallestOf`). The sums of `TimeKept`, the type of
`ViaPoints` and the changes of the footprint (`ChangesOneByOne`) are obtained in this way.

The assumption `PlanModes = {TRUE}` is not a convenience: with FALSE in it the initial class may be
unknown, and no via-points are assigned by it (the hosts always plan from an initial plan). Nor does
symmetry leave anything out: both `isEqual()` compare absolute differences, or components that are above
a threshold in both. None of the theorems needs `isEqual()` to be transitive or reflexive, or signatures to be
finite.

`AlgorithmsOK` says that points and headings have whole coordinates and that a well-formed value of the footprint
is not the mark of one that was never written, and that directions have whole lengths. `ConfigsOK` says that
every limit is a rational number, that four of them are not negative and that the exponent of the costs is whole and positive. `ObstacleFusionOK` has
finitely many places, and `PlannerSystemOK` says that the node may receive what the fusion node sends.

Except that of the plugin, the type invariants of the components with proofs are proved only, no run checks them.
Only model-checked: the liveness properties (`PlanReturns`, `CallsReturn`, `SearchReturns`,
`EmptyPlanStops`, `ObstaclesArrive`), because neither fairness nor ENABLED can be reasoned about with the
prover; and of `AlgorithmChecks` `ShapesAgree`, `PlacementIrrelevant`
and `NoObstacleLost`. Each of the three compares two computations on rationals that are minima over
all pairs of vertices and sides, or sums of products of four and more unknown numbers, with quotients
chosen from a finite range; the general statements are theorems of plane geometry (that the distance of two
segments that do not meet is attained at an end), for which the arithmetic of the prover does not suffice; and what
`NoObstacleLost` says of the list selects messages with `SelectSeq`, which the prover has no definition of.
Their runs take inputs from small sets. The four violations are counterexamples and need no proof.

## 5. Not modelled, and why

Floating point: the geometry and the cost terms are computed exactly on whole and rational numbers,
so rounding is not modelled; nor are angles other than quarter turns, `exact_arc_length`, signatures
(integrals over the band) and the solver's iterations, which are choices where they matter. The
test whether the solution diverged, orientations of the local goal and sampling of free space are such choices.
The distances of lines in space and the closest approach of moving points
(`distance_calculations.h:265-460`) are called by nothing.
Of the configuration, the parameters other than limits and footprint are copied one to one;
they are constants of the models that use them, and changes at runtime are modelled for limits and
footprint only. The failure detector is constructed and sized, but nothing
calls `update()` or reads its verdict at this commit. Visualization publishes and reads nothing
back, and activation of the plugin concerns it alone. `rclcpp::ok()` is taken to be true: a
shutdown ends the loops early, and the process with them. `test/homotopy_class_planner_test.cpp`,
`src/test_optim_node.cpp` and `teb_motion_component.hpp` are not part of the build.

## 6. Plan

In the order of what decides about the robot's motion:

1. `HomotopyClassPlanner`, `PlanFollowing` and their proofs: done.
2. `ElasticBand`, `BandGraph` and their proofs: done.
3. `StandaloneNode` with its proofs, `ObstacleFusion`, `PlannerSystem`: done, with what the topic holds and
   that `PlannerSystem` implements `StandaloneNode` as theorems. Next the order on the topic.
4. `NavPlugin` with its proofs: done. Next the parameters that change while it runs.
5. `GraphSearch` with its proofs: done. Next a composition with `HomotopyClassPlanner` in
   which `AddGraphPath` is implemented by the search.
6. `Geometry`, `Obstacles`, `RobotModels`, `CostTerms`, `Association`, `BandUse`, `FootprintConfig`:
   done, checked by `AlgorithmChecks`; the Jacobian, `CostsMeasured`, `VelocitiesFollowBand` and the footprint proved. Next the parts of
   `NoObstacleLost` without minima: that obstacles arrive as they were sent.
7. `RobotConfig` with its proofs: done.
8. `hasDiverged()`, and the equality of signatures as pure algorithms, small.
