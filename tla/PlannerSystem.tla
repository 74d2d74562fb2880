---------------------------- MODULE PlannerSystem ----------------------------
(***************************************************************************)
(* The obstacle fusion node and the standalone planner node in one         *)
(* container (launch/teb_planner.launch.xml), joined by the /obstacles     *)
(* topic.  Each gets odometry on its own.                                  *)
(***************************************************************************)
EXTENDS ObstacleFusion, StandaloneNode

(* What is published on the topic can be received from it. *)
ASSUME PlannerSystemOK == Message \subseteq Messages

vars == <<fusionVars, nodeVars>>

Init == FusionInit /\ NodeInit

(* The planner node takes the next message. *)
Deliver == \E m \in Message : Receive(m) /\ ObstacleCB(m)

Fuse == ComputeAndPublish /\ UNCHANGED nodeVars

Next ==
  \/ Deliver \/ Fuse
  \/ FusionInputs /\ UNCHANGED nodeVars
  \/ (ControlLoop \/ NodeInputs) /\ UNCHANGED fusionVars

Spec == Init /\ [][Next]_vars

(* The two timers expire again and again, and what they call returns; of   *)
(* the messages sent again and again some are not lost; the executor, of a *)
(* group's callbacks that become ready again and again, forgets none.      *)
FairSpec ==
  /\ Spec
  /\ WF_vars(ControlLoop /\ UNCHANGED fusionVars)
  /\ WF_vars(Fuse)
  /\ SF_vars(Deliver)

-----------------------------------------------------------------------------
fusionInputs == <<at, usable, costmap, scan>>

(* What the planner has is what the fusion node would send. *)
UpToDate == obstacles.polygons = Polygons /\ obstacles.clusters \in Clusters(scan)

(* When the robot, the map and the scan come to rest with an obstacle of   *)
(* the map around the robot, the planner ends up with these obstacles and  *)
(* no older ones, although messages are lost and older ones are queued.    *)
ObstaclesArrive ==
  <>[][UNCHANGED fusionInputs]_fusionInputs => <>[](Polygons # {} => UpToDate)
==============================================================================
