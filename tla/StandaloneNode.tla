--------------------------- MODULE StandaloneNode ---------------------------
(***************************************************************************)
(* The standalone planner node (component/teb_planner.hpp): a timer runs   *)
(* controlLoop(), which plans along the latest global plan from the latest *)
(* odometry and publishes a velocity.  The planner is handed the obstacles *)
(* and via-points by reference, once, and reads them while it plans; the   *)
(* loop takes their mutexes no more than the planner does.                 *)
(*                                                                         *)
(* The node's callbacks share one group of the executor, so that none runs *)
(* while another does: they are enabled at pc = "idle" alone.  Positions   *)
(* are numbers on a line; which trajectory is optimal is not modelled,     *)
(* only which inputs it was computed from.                                 *)
(***************************************************************************)
EXTENDS Integers, Sequences

CONSTANTS
  Positions,   \* of the robot and of the poses of a plan
  Plans,       \* global plans
  Messages,    \* contents of obstacle messages
  NoObstacles  \* the content of an empty one

ASSUME StandaloneNodeOK ==
  /\ Positions \subseteq Int /\ 0 \in Positions
  /\ Plans \subseteq Seq(Positions) /\ <<>> \in Plans
  /\ NoObstacles \in Messages

VARIABLES
  pose,       \* robot_pose_
  plan,       \* global_plan_
  hasPlan,    \* has_global_plan_
  via,        \* via_points_
  obstacles,  \* obstacles_
  switched,   \* switched_: a stop was sent for an empty plan
  path,       \* the plan of this cycle, cut off and begun at the robot
  teb,        \* what the planner's trajectory was computed from
  cmd,        \* the last command published: "none", "stop" or "velocity"
  pc          \* "idle", or where controlLoop() is

inputs   == <<pose, plan, hasPlan, via, obstacles>>
nodeVars == <<pose, plan, hasPlan, via, obstacles, switched, path, teb, cmd, pc>>

Trajectory(p, v, o) == [path |-> p, via |-> v, obstacles |-> o]

(* no band, or none that is selected *)
NoTeb == Trajectory(<<>>, <<>>, NoObstacles)

Distance(x, y) == IF x < y THEN y - x ELSE x - y

(* the poses between the first and the last *)
Interior(p) == IF Len(p) > 2 THEN SubSeq(p, 2, Len(p) - 1) ELSE <<>>

(* the first of the poses closest to the robot *)
Closest(p, x) ==
  CHOOSE k \in DOMAIN p :
    \A j \in DOMAIN p :
      \/ Distance(p[k], x) < Distance(p[j], x)
      \/ Distance(p[k], x) = Distance(p[j], x) /\ k <= j

(* The initial plan: what lies ahead of the robot, and the robot. *)
Ahead(p, x) == <<x>> \o SubSeq(p, Closest(p, x), Len(p))

NodeInit ==
  /\ pose = 0 /\ plan = <<>> /\ hasPlan = FALSE
  /\ via = <<>> /\ obstacles = NoObstacles
  /\ switched = FALSE /\ path = <<>> /\ teb = NoTeb
  /\ cmd = "none" /\ pc = "idle"

-----------------------------------------------------------------------------
(* The callbacks.                                                          *)

OdomCB(x) ==
  /\ pc = "idle"
  /\ pose' = x
  /\ UNCHANGED <<plan, hasPlan, via, obstacles, switched, path, teb, cmd, pc>>

(* more than 500 obstacles are only warned of *)
ObstacleCB(m) ==
  /\ pc = "idle"
  /\ obstacles' = m
  /\ UNCHANGED <<pose, plan, hasPlan, via, switched, path, teb, cmd, pc>>

(* Fault: the callbacks are in a group that is not exclusive. *)
GlobalPlanCBAnytime(p) ==
  /\ plan' = p /\ hasPlan' = TRUE /\ via' = Interior(p)
  /\ UNCHANGED <<pose, obstacles, switched, path, teb, cmd, pc>>

GlobalPlanCB(p) ==
  /\ pc = "idle"
  /\ plan' = p /\ hasPlan' = TRUE /\ via' = Interior(p)
  /\ UNCHANGED <<pose, obstacles, switched, path, teb, cmd, pc>>

-----------------------------------------------------------------------------
(* controlLoop().                                                          *)

(* Fault: the latch is set with every plan. *)
SendStopForgotten ==
  /\ pc = "idle" /\ hasPlan /\ plan = <<>> /\ ~switched
  /\ switched' = TRUE
  /\ UNCHANGED <<inputs, path, teb, cmd, pc>>

(* An empty plan stops the robot, once. *)
SendStop ==
  /\ pc = "idle" /\ hasPlan /\ plan = <<>> /\ ~switched
  /\ cmd' = "stop" /\ switched' = TRUE
  /\ UNCHANGED <<inputs, path, teb, pc>>

(* Fault: the latch stays set. *)
BeginCycleLatched ==
  /\ pc = "idle" /\ hasPlan /\ plan # <<>>
  /\ path' = Ahead(plan, pose)
  /\ pc' = "plan"
  /\ UNCHANGED <<inputs, switched, teb, cmd>>

BeginCycle ==
  /\ pc = "idle" /\ hasPlan /\ plan # <<>>
  /\ switched' = FALSE
  /\ path' = Ahead(plan, pose)
  /\ pc' = "plan"
  /\ UNCHANGED <<inputs, teb, cmd>>

(* plan() succeeds; the homotopy class planner also says so when no band   *)
(* is left that could be selected.                                         *)
PlanSucceeds ==
  /\ pc = "plan"
  /\ teb' \in {Trajectory(path, via, obstacles), NoTeb}
  /\ pc' = "command"
  /\ UNCHANGED <<inputs, switched, path, cmd>>

(* Fault: the loop goes on with the trajectory of an older cycle. *)
PlanFailsGoesOn ==
  /\ pc = "plan"
  /\ pc' = "command"
  /\ UNCHANGED <<inputs, switched, path, teb, cmd>>

(* plan() of the single planner fails: the planner is cleared, and the     *)
(* last command stays in force.                                            *)
PlanFails ==
  /\ pc = "plan"
  /\ teb' = NoTeb
  /\ pc' = "idle" /\ path' = <<>>
  /\ UNCHANGED <<inputs, switched, cmd>>

(* getVelocityCommandMyj() finds a band; without a check of feasibility    *)
(* its velocity is published.                                              *)
PublishCommand ==
  /\ pc = "command" /\ teb # NoTeb
  /\ cmd' = "velocity"
  /\ pc' = "idle" /\ path' = <<>>
  /\ UNCHANGED <<inputs, switched, teb>>

NoCommand ==
  /\ pc = "command" /\ teb = NoTeb
  /\ pc' = "idle" /\ path' = <<>>
  /\ UNCHANGED <<inputs, switched, teb, cmd>>

-----------------------------------------------------------------------------
(* controlLoop() runs whenever the timer has expired, to its end. *)
ControlLoop ==
  \/ SendStop \/ BeginCycle
  \/ PlanSucceeds \/ PlanFails \/ PublishCommand \/ NoCommand

NodeInputs ==
  \/ \E x \in Positions : OdomCB(x)
  \/ \E p \in Plans : GlobalPlanCB(p)

NodeNext == ControlLoop \/ NodeInputs \/ \E m \in Messages : ObstacleCB(m)

NodeSpec == NodeInit /\ [][NodeNext]_nodeVars

-----------------------------------------------------------------------------
(* Properties.                                                             *)

NodeTypeOK ==
  /\ pose \in Positions
  /\ plan \in Seq(Positions) /\ path \in Seq(Positions) /\ via \in Seq(Positions)
  /\ obstacles \in Messages
  /\ {hasPlan, switched} \subseteq BOOLEAN
  /\ teb \in [path : Seq(Positions), via : Seq(Positions), obstacles : Messages]
  /\ cmd \in {"none", "stop", "velocity"}
  /\ pc \in {"idle", "plan", "command"}

(* As long as the latch is set, which keeps a stop from being sent again,  *)
(* the last command is the stop: no command of a cycle begun earlier and   *)
(* no failure comes between.                                               *)
StopLatched == switched => cmd = "stop"

(* The trajectory a velocity is taken from was computed in this cycle,     *)
(* from inputs that belong together and are still the latest: the robot's  *)
(* position, the plan ahead of it, the via-points of that plan and the     *)
(* obstacles.                                                              *)
CommandCurrent ==
  pc = "command" /\ teb # NoTeb =>
    teb = Trajectory(Ahead(plan, pose), Interior(plan), obstacles)

(* No velocity is published under an empty plan, ...                       *)
NoVelocityWithoutPlan ==
  [][cmd' = "velocity" /\ cmd # "velocity" => plan # <<>>]_nodeVars

(* ... and an empty plan stops the robot, unless another plan comes first. *)
EmptyPlanStops == hasPlan /\ plan = <<>> ~> cmd = "stop" \/ plan # <<>>
=============================================================================
