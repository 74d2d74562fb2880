------------------------------ MODULE NavPlugin ------------------------------
(***************************************************************************)
(* The planner as a controller plugin of Nav2 (teb_local_planner_ros.cpp). *)
(* The controller server's thread calls setPlan() and, once per cycle,     *)
(* computeVelocityCommands(); its executor runs the callbacks of the two   *)
(* topics in another thread, and others write the costmap or what a        *)
(* costmap converter makes of it.  A cycle is a walk of pc, with a step    *)
(* for each part that others may come between.                             *)
(*                                                                         *)
(* Positions are numbers on a line, an obstacle is its position.  Which    *)
(* trajectory is optimal is not modelled, only what it was computed from.  *)
(***************************************************************************)
EXTENDS Integers, SequencesExt

CONSTANTS
  Positions,  \* of the robot and of the poses of a plan
  Plans,      \* global plans
  Places,     \* of obstacles
  Border,     \* those in the costmap's last row or column
  Sources,    \* where obstacles come from besides the topic, see source
  ViaPaths,   \* messages with via-points
  Seps,       \* values of global_plan_viapoint_sep
  PruneDist,  \* global_plan_prune_distance
  LookAhead,  \* max_global_plan_lookahead_dist
  Behind      \* costmap_obstacles_behind_robot_dist

ASSUME NavPluginOK ==
  /\ Positions \subseteq Int /\ 0 \in Positions
  /\ Plans \subseteq Seq(Positions) /\ Places \subseteq Int
  /\ Border \subseteq Places /\ Sources \subseteq {"costmap", "converter", "topic"}
  /\ ViaPaths \subseteq Seq(Positions)
  /\ Seps \subseteq Nat /\ {PruneDist, LookAhead, Behind} \subseteq Nat

VARIABLES
  sep,        \* global_plan_viapoint_sep, 0 if via-points come from a topic
  source,     \* "converter" if one is loaded, else "costmap" if
              \* include_costmap_obstacles, else "topic": the topic alone
  given,      \* the argument of the last setPlan() (a history variable)
  plan,       \* global_plan_: what is left of it
  cells,      \* lethal cells of the costmap, or with a converter what its
              \* worker made of them last
  custom,     \* custom_obstacle_msg_
  via,        \* via_points_
  active,     \* custom_via_points_active_
  writing,    \* customViaPointsCB() has written via_points_, not yet the flag
  robot,      \* robot_pose_: position, and 1 or -1 for the orientation
  path,       \* transformed_plan
  obstacles,  \* obstacles_
  seen,       \* what obstacles there were since the cycle began (history)
  teb,        \* what the planner's trajectory was computed from
  failed,     \* no_infeasible_plans_ is not zero
  pc          \* "unconfigured", "idle", or where the cycle is

inputs    == <<sep, source, given, cells, custom>>
viaVars   == <<via, active, writing>>
cycleVars == <<plan, robot, path, obstacles>>
vars == <<inputs, viaVars, cycleVars, seen, teb, failed, pc>>

Trajectory(p, v, o) == [path |-> p, via |-> v, obstacles |-> o]
NoTeb == Trajectory(<<>>, <<>>, {})

Distance(x, y) == IF x < y THEN y - x ELSE x - y

-----------------------------------------------------------------------------
(* What a cycle computes.                                                  *)

(* pruneGlobalPlan(): the poses near the robot the plan begins with are    *)
(* erased, whether the robot has passed them or not.                       *)
PruneGlobalPlan(p, x) ==
  LET far == {k \in DOMAIN p : Distance(p[k], x) >= PruneDist}
  IN IF far = {} THEN <<>> ELSE SubSeq(p, Min(far), Len(p))

(* transformGlobalPlan(): up to the first pose that is too far along it *)
TransformGlobalPlan(p) ==
  LET length[k \in DOMAIN p] ==
        IF k = 1 THEN 0 ELSE length[k - 1] + Distance(p[k - 1], p[k])
      beyond == {k \in DOMAIN p : LookAhead > 0 /\ length[k] > LookAhead}
  IN IF beyond = {} THEN p ELSE SubSeq(p, 1, Min(beyond))

(* The initial plan: the robot takes the place of the first pose, unless   *)
(* that is also the goal.                                                  *)
FromRobot(p, x) == IF Len(p) = 1 THEN <<x>> \o p ELSE <<x>> \o Tail(p)

(* updateViaPointsContainer(): what is compared with the separation adds   *)
(* up the distances of every pose since the last via-point to that one.    *)
ViaPoints(p) ==
  LET Visit(v, y) ==
        LET sum == v.sum + Distance(y, Last(v.via))
        IN IF sum >= sep THEN [via |-> Append(v.via, y), sum |-> 0]
           ELSE [v EXCEPT !.sum = sum]
  IN IF sep = 0 THEN <<>>
     ELSE FoldLeft(Visit, [via |-> <<p[1]>>, sum |-> 0], Tail(p)).via

(* An obstacle far behind the robot. *)
FarBehind(c, r) == (c - r[1]) * r[2] < 0 /\ Distance(c, r[1]) > Behind

(* Fault: cells are left in the robot's frame. *)
AroundInRobotFrame(r) == {c - r[1] : c \in {d \in cells \ Border : ~FarBehind(d, r)}}

(* updateObstacleContainerWithCostmap(): its loops end before the last row *)
(* and column; cells far behind the robot are passed over.                 *)
Around(r) == {c \in cells \ Border : ~FarBehind(c, r)}

NotSeen == [may |-> {}, map |-> {}, message |-> {}]

Init ==
  /\ sep \in Seps /\ source \in Sources
  /\ given = <<>> /\ plan = <<>> /\ cells = {} /\ custom = {}
  /\ via = <<>> /\ active = FALSE /\ writing = FALSE
  /\ robot = <<0, 1>> /\ path = <<>> /\ obstacles = {} /\ seen = NotSeen
  /\ teb = NoTeb /\ failed = FALSE /\ pc = "unconfigured"

-----------------------------------------------------------------------------
(* The controller server's thread, between two cycles.                     *)

Configure ==
  /\ pc = "unconfigured" /\ pc' = "idle"
  /\ UNCHANGED <<inputs, viaVars, cycleVars, seen, teb, failed>>

SetPlan(p) ==
  /\ pc = "idle"
  /\ plan' = p /\ given' = p
  /\ UNCHANGED <<sep, source, cells, custom, viaVars, robot, path, obstacles, seen, teb, failed, pc>>

-----------------------------------------------------------------------------
(* computeVelocityCommands(): the inputs, without a lock that the          *)
(* callbacks take.                                                         *)

(* Without a pose left it throws, before a failure is counted. *)
NoPlanLeft(x, h) ==
  /\ pc = "idle" /\ PruneGlobalPlan(plan, x) = <<>>
  /\ robot' = <<x, h>> /\ plan' = <<>>
  /\ UNCHANGED <<inputs, viaVars, path, obstacles, seen, teb, failed, pc>>

BeginCycle(x, h) ==
  /\ pc = "idle" /\ PruneGlobalPlan(plan, x) # <<>>
  /\ robot' = <<x, h>>
  /\ plan' = PruneGlobalPlan(plan, x)
  /\ path' = TransformGlobalPlan(plan')
  /\ seen' = [may |-> cells \cup custom, map |-> cells, message |-> custom]
  /\ pc' = "via"
  /\ UNCHANGED <<inputs, viaVars, obstacles, teb, failed>>

(* Fault: a list that is empty counts as not active. *)
TestActiveByList ==
  /\ pc = "via"
  /\ pc' = IF via # <<>> THEN "cells" ELSE "derive"
  /\ UNCHANGED <<inputs, viaVars, cycleVars, seen, teb, failed>>

TestActive ==
  /\ pc = "via"
  /\ pc' = IF active THEN "cells" ELSE "derive"
  /\ UNCHANGED <<inputs, viaVars, cycleVars, seen, teb, failed>>

UpdateViaPoints ==
  /\ pc = "derive"
  /\ via' = ViaPoints(path)
  /\ pc' = "cells"
  /\ UNCHANGED <<inputs, active, writing, cycleVars, seen, teb, failed>>

(* The list is cleared.  Then the converter's latest obstacles are taken   *)
(* as they are, if one is loaded, else the cells around the robot.         *)
Collected ==
  CASE source = "costmap" -> Around(robot) [] source = "converter" -> cells [] OTHER -> {}

(* Fault: the obstacles of the last cycle are kept. *)
AddCellsKeepsOld ==
  /\ pc = "cells"
  /\ obstacles' = obstacles \cup Collected
  /\ pc' = "custom"
  /\ UNCHANGED <<inputs, viaVars, plan, robot, path, seen, teb, failed>>

AddCells ==
  /\ pc = "cells"
  /\ obstacles' = Collected
  /\ pc' = "custom"
  /\ UNCHANGED <<inputs, viaVars, plan, robot, path, seen, teb, failed>>

AddCustomObstacles ==
  /\ pc = "custom"
  /\ obstacles' = obstacles \cup custom
  /\ pc' = "plan"
  /\ UNCHANGED <<inputs, viaVars, plan, robot, path, seen, teb, failed>>

-----------------------------------------------------------------------------
(* computeVelocityCommands(): the trajectory.                              *)

(* plan() succeeds; the homotopy class planner also says so when no band   *)
(* is left.                                                                *)
PlanSucceeds ==
  /\ pc = "plan"
  /\ teb' \in {Trajectory(FromRobot(path, robot[1]), via, obstacles), NoTeb}
  /\ seen' = NotSeen /\ pc' = "planned"
  /\ UNCHANGED <<inputs, viaVars, cycleVars, failed>>

TrajectoryFeasible ==
  /\ pc = "planned" /\ teb # NoTeb
  /\ pc' = "checked"
  /\ UNCHANGED <<inputs, viaVars, cycleVars, seen, teb, failed>>

(* The velocity is returned; no_infeasible_plans_ is reset. *)
ReturnCommand ==
  /\ pc = "checked"
  /\ failed' = FALSE
  /\ pc' = "idle" /\ path' = <<>>
  /\ UNCHANGED <<inputs, viaVars, plan, robot, obstacles, seen, teb>>

(* It throws. *)
Fail ==
  /\ teb' = NoTeb /\ failed' = TRUE
  /\ pc' = "idle" /\ path' = <<>> /\ seen' = NotSeen
  /\ UNCHANGED <<inputs, viaVars, plan, robot, obstacles>>

PlanFails == pc = "plan" /\ Fail

(* the trajectory has diverged, or is not feasible *)
TrajectoryRejected == pc = "planned" /\ Fail

(* Fault: the planner is not cleared. *)
NoVelocityUncleared ==
  /\ pc = "checked"
  /\ failed' = TRUE
  /\ pc' = "idle" /\ path' = <<>> /\ seen' = NotSeen
  /\ UNCHANGED <<inputs, viaVars, plan, robot, obstacles, teb>>

(* there is no velocity, or no finite steering angle *)
NoVelocity == pc = "checked" /\ Fail

Cycle ==
  \/ \E x \in Positions, h \in {-1, 1} : NoPlanLeft(x, h) \/ BeginCycle(x, h)
  \/ TestActive \/ UpdateViaPoints \/ AddCells \/ AddCustomObstacles
  \/ PlanSucceeds \/ TrajectoryFeasible \/ ReturnCommand
  \/ PlanFails \/ TrajectoryRejected \/ NoVelocity

-----------------------------------------------------------------------------
(* The other threads.                                                      *)

Preparing == pc \in {"via", "derive", "cells", "custom", "plan"}

Watch ==
  seen' = IF Preparing
            THEN [may |-> seen.may \cup cells' \cup custom',
                  map |-> seen.map \cap cells', message |-> seen.message \cap custom']
            ELSE seen

(* Others write the costmap, or the worker started in initialize() has     *)
(* converted it as it was some time ago, for the first time after that.    *)
CostmapUpdate(c) ==
  /\ source # "topic" /\ (source = "converter" => pc # "unconfigured")
  /\ cells' = c /\ UNCHANGED custom /\ Watch
  /\ UNCHANGED <<sep, source, given, viaVars, cycleVars, teb, failed, pc>>

CustomObstacleCB(m) ==
  /\ pc # "unconfigured"
  /\ custom' = m /\ UNCHANGED cells
  /\ UNCHANGED <<sep, source, given, viaVars, cycleVars, teb, failed, pc>>
  /\ Watch

(* customViaPointsCB(): with via-points from the plan, a message is        *)
(* ignored, ...                                                            *)
IgnoreViaPoints ==
  /\ pc # "unconfigured" /\ ~writing /\ sep > 0
  /\ active' = FALSE
  /\ UNCHANGED <<inputs, via, writing, cycleVars, seen, teb, failed, pc>>

(* ... otherwise written to the list under a mutex no one else takes, ...  *)
WriteViaPoints(m) ==
  /\ pc # "unconfigured" /\ ~writing /\ sep = 0
  /\ via' = m /\ writing' = TRUE
  /\ UNCHANGED <<inputs, active, cycleVars, seen, teb, failed, pc>>

(* ... and the flag is set if the list is then not empty.                  *)
SetActive ==
  /\ writing
  /\ active' = (via # <<>>) /\ writing' = FALSE
  /\ UNCHANGED <<inputs, via, cycleVars, seen, teb, failed, pc>>

Callbacks ==
  \/ \E m \in SUBSET Places : CostmapUpdate(m) \/ CustomObstacleCB(m)
  \/ IgnoreViaPoints \/ SetActive \/ \E m \in ViaPaths : WriteViaPoints(m)

Next == Configure \/ Cycle \/ Callbacks \/ \E p \in Plans : SetPlan(p)

Spec == Init /\ [][Next]_vars

-----------------------------------------------------------------------------
(* Properties.                                                             *)

TypeOK ==
  /\ sep \in Seps /\ source \in Sources /\ {active, writing, failed} \subseteq BOOLEAN
  /\ {given, plan, path, via} \subseteq Seq(Positions)
  /\ {cells, custom, obstacles} \subseteq SUBSET Places
  /\ robot \in Positions \X {-1, 1}
  /\ seen \in [may : SUBSET Places, map : SUBSET Places, message : SUBSET Places]
  /\ teb \in [path : Seq(Positions), via : Seq(Positions), obstacles : SUBSET Places]
  /\ pc \in {"unconfigured", "idle", "via", "derive", "cells", "custom", "plan",
             "planned", "checked"}

(* The planner is given no obstacle that was gone when the cycle began     *)
(* or that comes from elsewhere than the converter, or the costmap if it   *)
(* is read directly, or the topic.  Whatever is written while the list is  *)
(* filled, it is given all that were there throughout: those of the        *)
(* message, those of the converter, of the cells each that is not far      *)
(* behind the robot nor in the last row or column.                         *)
ObstaclesOfThisCycle ==
  pc = "plan" =>
    /\ obstacles \subseteq seen.may
    /\ seen.message \subseteq obstacles
    /\ source = "converter" => seen.map \subseteq obstacles
    /\ source = "costmap" =>
         \A c \in seen.map \ Border : FarBehind(c, robot) \/ c \in obstacles

(* A command that passed the checks belongs to a trajectory of this cycle: *)
(* from the robot along what is left of the latest plan, with via-points   *)
(* of the same part of it if they come from the plan.  (With a separation  *)
(* of zero or less they come from the topic, and may be of any time.)      *)
CommandCurrent ==
  pc = "checked" =>
    /\ \E k \in DOMAIN given : plan = SubSeq(given, k, Len(given))
    /\ teb.path = FromRobot(TransformGlobalPlan(plan), robot[1])
    /\ teb.obstacles = obstacles
    /\ sep > 0 => teb.via = ViaPoints(TransformGlobalPlan(plan))

(* As long as a failure is the last thing a cycle has counted, the planner *)
(* has no trajectory to begin the next one with.                           *)
FailureForgets == pc = "idle" /\ failed => teb = NoTeb

-----------------------------------------------------------------------------
(* What the documentation says, and the code does not do.                  *)

(* teb_local_planner_ros.h:214, of pruneGlobalPlan(): "already passed      *)
(* poses are cut off".  The goal is not cut off before the robot is there. *)
GoalKept ==
  [][\A x \in Positions, h \in {-1, 1} :
       NoPlanLeft(x, h) => plan = <<>> \/ Last(plan) = x]_vars

==============================================================================
