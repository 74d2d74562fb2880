--------------------------- MODULE ObstacleFusion ---------------------------
(***************************************************************************)
(* The obstacle fusion node (component/obs_fusion.hpp): with a timer it    *)
(* cuts the part around the robot out of the latest costmap, turns it into *)
(* polygons, appends clusters of the latest scan, and publishes both on a  *)
(* topic whose messages may be lost.                                       *)
(*                                                                         *)
(* An obstacle is its position on the same line as the robot's; a polygon  *)
(* or cluster stands for the obstacle it was made of.  Callbacks and timer *)
(* share one group of the executor and are atomic.                         *)
(***************************************************************************)
EXTENDS Integers, FiniteSets, SequencesExt

CONSTANTS
  Places,       \* of the robot and of obstacles
  Reach,        \* how far the part of the costmap reaches
  MaxClusters,  \* cluster_max_clusters
  Depth         \* messages the topic's reader keeps

ASSUME ObstacleFusionOK ==
  /\ Places \subseteq Int /\ 0 \in Places /\ IsFiniteSet(Places)
  /\ Reach \in Nat /\ MaxClusters \in Nat \ {0} /\ Depth \in Nat \ {0}

VARIABLES
  at,       \* robot_pose_
  usable,   \* cached_costmap_ is set, and its resolution positive
  costmap,  \* its lethal cells, none if it is not usable
  scan,     \* cached_points_: clusters of enough points
  topic     \* messages of /obstacles on their way

fusionVars == <<at, usable, costmap, scan, topic>>

Message == [polygons : SUBSET Places, clusters : SUBSET Places]

FusionInit ==
  /\ at = 0 /\ usable = FALSE
  /\ costmap = {} /\ scan = {} /\ topic = <<>>

CostmapCallback(ok, cells) ==
  /\ usable' = ok /\ costmap' = IF ok THEN cells ELSE {}
  /\ UNCHANGED <<at, scan, topic>>

OdomCallback(x) ==
  /\ at' = x
  /\ UNCHANGED <<usable, costmap, scan, topic>>

(* A scan that cannot be transformed to the map leaves the last one. *)
PointcloudCallback(points) ==
  /\ scan' = points
  /\ UNCHANGED <<at, usable, costmap, topic>>

(* buildMergedCostmap() and the converter *)
Polygons == {p \in costmap : p \in at - Reach .. at + Reach}

(* appendPointClusters(): the largest clusters, not more than the limit *)
Clusters(points) ==
  {c \in SUBSET points :
     Cardinality(c) = IF Cardinality(points) < MaxClusters THEN Cardinality(points)
                      ELSE MaxClusters}

(* A reader that is behind keeps the latest messages. *)
Send(m) == topic' = IF Len(topic) < Depth THEN Append(topic, m) ELSE Append(Tail(topic), m)

(* Fault: the part of the costmap is cut out at the map's origin. *)
FusedAtOrigin ==
  {[polygons |-> costmap \cap (-Reach .. Reach), clusters |-> c] : c \in Clusters(scan)}

(* A fused message, which the topic, best effort, loses or not. *)
Fused == {[polygons |-> Polygons, clusters |-> c] : c \in Clusters(scan)}

(* Without a polygon it returns before the scan is looked at. *)
ComputeAndPublish ==
  /\ Polygons # {}
  /\ \E m \in Fused : Send(m)
  /\ UNCHANGED <<at, usable, costmap, scan>>

(* The subscription's callback gets the oldest message kept. *)
Receive(m) ==
  /\ topic # <<>> /\ m = Head(topic)
  /\ topic' = Tail(topic)
  /\ UNCHANGED <<at, usable, costmap, scan>>

FusionInputs ==
  \/ \E ok \in BOOLEAN, cells \in SUBSET Places : CostmapCallback(ok, cells)
  \/ \E x \in Places : OdomCallback(x)
  \/ \E points \in SUBSET Places : PointcloudCallback(points)

=============================================================================
