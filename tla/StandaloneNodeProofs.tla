------------------------ MODULE StandaloneNodeProofs ------------------------
(***************************************************************************)
(* Theorems about StandaloneNode for any set of plans, positions and       *)
(* obstacle messages, and about PlannerSystem, in which the obstacle       *)
(* fusion node feeds it: the composition implements the node alone.        *)
(***************************************************************************)
EXTENDS PlannerSystem, ListLemmas

-----------------------------------------------------------------------------
(* The search for the closest pose finds one.                              *)

LEMMA DistanceType == \A x, y \in Int : Distance(x, y) \in Nat
  BY DEF Distance

LEMMA ClosestExists ==
  ASSUME NEW p \in Seq(Positions), p # <<>>, NEW x \in Positions
  PROVE  Closest(p, x) \in 1 .. Len(p)
<1> DEFINE D(k) == Distance(p[k], x)
<1> DEFINE Ds == {D(k) : k \in 1 .. Len(p)}
<1>1. \A k \in 1 .. Len(p) : D(k) \in Nat
  <2>1. \A k \in 1 .. Len(p) : p[k] \in Int
    <3>1. \A k \in 1 .. Len(p) : p[k] \in Positions
      OBVIOUS
    <3>2. QED
      BY <3>1, StandaloneNodeOK
  <2>2. x \in Int
    BY StandaloneNodeOK
  <2>3. QED
    BY <2>1, <2>2, DistanceType
<1>2. 1 \in 1 .. Len(p)
  OBVIOUS
<1> HIDE DEF D
<1>3. PICK d \in Ds : \A e \in Ds : d <= e
  <2>1. Ds \subseteq Nat /\ Ds # {}
    BY <1>1, <1>2
  <2> HIDE DEF Ds
  <2>2. QED
    BY <2>1, SmallestOf
<1> DEFINE Best == {k \in 1 .. Len(p) : D(k) = d}
<1>4. PICK k \in Best : \A j \in Best : k <= j
  <2>1. Best \subseteq Nat /\ Best # {}
    BY <1>3
  <2> HIDE DEF Best
  <2>2. QED
    BY <2>1, SmallestOf
<1>5. \A j \in 1 .. Len(p) : D(k) < D(j) \/ (D(k) = D(j) /\ k <= j)
  <2> SUFFICES ASSUME NEW j \in 1 .. Len(p)
               PROVE  D(k) < D(j) \/ (D(k) = D(j) /\ k <= j)
    OBVIOUS
  <2>1. D(k) = d /\ d <= D(j) /\ k \in 1 .. Len(p)
    BY <1>3, <1>4
  <2>2. D(k) \in Nat /\ D(j) \in Nat
    BY <2>1, <1>1
  <2>3. CASE D(j) = d
    BY <2>1, <2>3, <1>4
  <2>4. CASE D(j) # d
    BY <2>1, <2>2, <2>4
  <2>5. QED
    BY <2>3, <2>4
<1>6. k \in 1 .. Len(p) /\ DOMAIN p = 1 .. Len(p)
  BY <1>4
<1>7. QED
  BY <1>5, <1>6 DEF Closest, D

LEMMA AheadType ==
  ASSUME NEW p \in Seq(Positions), p # <<>>, NEW x \in Positions
  PROVE  Ahead(p, x) \in Seq(Positions) /\ Ahead(p, x) # <<>>
<1>1. Closest(p, x) \in 1 .. Len(p)
  BY ClosestExists
<1> DEFINE k == Closest(p, x)
<1> HIDE DEF k
<1>2. SubSeq(p, k, Len(p)) \in Seq(Positions)
  <2>1. \A j \in k .. Len(p) : p[j] \in Positions
    BY <1>1 DEF k
  <2>2. QED
    BY <1>1, <2>1 DEF k
<1>3. <<x>> \in Seq(Positions) /\ Len(<<x>>) = 1
  OBVIOUS
<1> DEFINE q == SubSeq(p, k, Len(p))
<1> HIDE DEF q
<1>4. <<x>> \o q \in Seq(Positions) /\ Len(<<x>> \o q) = 1 + Len(q) /\ Len(q) \in Nat
  BY <1>2, <1>3 DEF q
<1>5. QED
  BY <1>4 DEF Ahead, k, q

LEMMA InteriorType == \A p \in Seq(Positions) : Interior(p) \in Seq(Positions)
<1> SUFFICES ASSUME NEW p \in Seq(Positions)
             PROVE  Interior(p) \in Seq(Positions)
  OBVIOUS
<1>1. CASE Len(p) > 2
  <2>1. \A j \in 2 .. Len(p) - 1 : p[j] \in Positions
    OBVIOUS
  <2>2. SubSeq(p, 2, Len(p) - 1) \in Seq(Positions)
    BY <1>1, <2>1
  <2>3. QED
    BY <1>1, <2>2 DEF Interior
<1>2. CASE ~(Len(p) > 2)
  <2>1. Interior(p) = <<>>
    BY <1>2 DEF Interior
  <2>2. QED
    BY <2>1
<1>3. QED
  BY <1>1, <1>2

-----------------------------------------------------------------------------
(* The inductive invariant: the via-points are those of the plan, and what *)
(* a cycle works with is what the callbacks received last.                 *)
CycleInv ==
  /\ via = Interior(plan)
  /\ pc # "idle" => plan # <<>> /\ path = Ahead(plan, pose) /\ ~switched
  /\ pc = "command" => teb \in {Trajectory(path, via, obstacles), NoTeb}

NodeInv == NodeTypeOK /\ CycleInv /\ StopLatched

LEMMA NodeInitInv == NodeInit => NodeInv
<1> SUFFICES ASSUME NodeInit PROVE NodeInv
  OBVIOUS
<1>1. <<>> \in Seq(Positions) /\ Interior(<<>>) = <<>>
  BY DEF Interior
<1>2. NodeTypeOK
  BY <1>1, StandaloneNodeOK DEF NodeInit, NodeTypeOK, NoTeb, Trajectory
<1>3. QED
  BY <1>1, <1>2 DEF NodeInit, NodeInv, CycleInv, StopLatched

LEMMA TrajectoryType ==
  ASSUME NodeTypeOK
  PROVE  {Trajectory(path, via, obstacles), NoTeb}
           \subseteq [path : Seq(Positions), via : Seq(Positions), obstacles : Messages]
  BY StandaloneNodeOK DEF NodeTypeOK, Trajectory, NoTeb

LEMMA NodeStep == NodeInv /\ [NodeNext]_nodeVars => NodeInv'
<1> SUFFICES ASSUME NodeInv, [NodeNext]_nodeVars PROVE NodeInv'
  OBVIOUS
<1>i. NodeTypeOK /\ CycleInv /\ StopLatched
  BY DEF NodeInv
<1>1. ASSUME NEW x \in Positions, OdomCB(x) PROVE NodeInv'
  BY <1>i, <1>1 DEF OdomCB, NodeInv, NodeTypeOK, CycleInv, StopLatched
<1>2. ASSUME NEW m \in Messages, ObstacleCB(m) PROVE NodeInv'
  BY <1>i, <1>2 DEF ObstacleCB, NodeInv, NodeTypeOK, CycleInv, StopLatched
<1>3. ASSUME NEW p \in Plans, GlobalPlanCB(p) PROVE NodeInv'
  <2>1. p \in Seq(Positions) /\ Interior(p) \in Seq(Positions)
    BY StandaloneNodeOK, InteriorType
  <2>2. QED
    BY <1>i, <1>3, <2>1 DEF GlobalPlanCB, NodeInv, NodeTypeOK, CycleInv, StopLatched
<1>4. ASSUME SendStop PROVE NodeInv'
  BY <1>i, <1>4 DEF SendStop, inputs, NodeInv, NodeTypeOK, CycleInv, StopLatched
<1>5. ASSUME BeginCycle PROVE NodeInv'
  <2>1. Ahead(plan, pose) \in Seq(Positions)
    BY <1>i, <1>5, AheadType DEF BeginCycle, NodeTypeOK
  <2>2. QED
    BY <1>i, <1>5, <2>1 DEF BeginCycle, inputs, NodeInv, NodeTypeOK, CycleInv, StopLatched
<1>6. ASSUME PlanSucceeds PROVE NodeInv'
  <2>1. teb' \in [path : Seq(Positions), via : Seq(Positions), obstacles : Messages]
    BY <1>i, <1>6, TrajectoryType DEF PlanSucceeds
  <2>2. NodeTypeOK'
    BY <1>i, <1>6, <2>1 DEF PlanSucceeds, inputs, NodeTypeOK
  <2>3. CycleInv'
    BY <1>i, <1>6 DEF PlanSucceeds, inputs, CycleInv
  <2>4. QED
    BY <1>i, <1>6, <2>2, <2>3 DEF PlanSucceeds, NodeInv, StopLatched
<1>7. ASSUME PlanFails PROVE NodeInv'
  <2>1. teb' \in [path : Seq(Positions), via : Seq(Positions), obstacles : Messages]
    BY <1>i, <1>7, TrajectoryType DEF PlanFails
  <2>2. NodeTypeOK'
    BY <1>i, <1>7, <2>1 DEF PlanFails, inputs, NodeTypeOK
  <2>3. QED
    BY <1>i, <1>7, <2>2 DEF PlanFails, inputs, NodeInv, CycleInv, StopLatched
<1>8. ASSUME PublishCommand PROVE NodeInv'
  BY <1>i, <1>8 DEF PublishCommand, inputs, NodeInv, NodeTypeOK, CycleInv, StopLatched
<1>9. ASSUME NoCommand PROVE NodeInv'
  BY <1>i, <1>9 DEF NoCommand, inputs, NodeInv, NodeTypeOK, CycleInv, StopLatched
<1>10. CASE UNCHANGED nodeVars
  BY <1>i, <1>10 DEF nodeVars, NodeInv, NodeTypeOK, CycleInv, StopLatched
<1>11. QED
  BY <1>1, <1>2, <1>3, <1>4, <1>5, <1>6, <1>7, <1>8, <1>9, <1>10
     DEF NodeNext, NodeInputs, ControlLoop

LEMMA NodeInvHolds == NodeSpec => []NodeInv
  BY NodeInitInv, NodeStep, PTL DEF NodeSpec

-----------------------------------------------------------------------------
(* Types, among them that there is a closest pose on every plan that is    *)
(* not empty.                                                              *)
THEOREM NodeTypeCorrect == NodeSpec => []NodeTypeOK
<1>1. NodeInv => NodeTypeOK
  BY DEF NodeInv
<1>2. QED
  BY <1>1, NodeInvHolds, PTL

(* While the latch suppresses stop commands, the robot has been stopped.   *)
THEOREM StopLatchedHolds == NodeSpec => []StopLatched
<1>1. NodeInv => StopLatched
  BY DEF NodeInv
<1>2. QED
  BY <1>1, NodeInvHolds, PTL

(* A velocity is taken from a trajectory of this cycle, whose plan,        *)
(* via-points, obstacles and position are the latest and belong together.  *)
THEOREM CommandCurrentHolds == NodeSpec => []CommandCurrent
<1>1. NodeInv => CommandCurrent
  BY DEF NodeInv, CycleInv, CommandCurrent
<1>2. QED
  BY <1>1, NodeInvHolds, PTL

(* The robot is not set in motion under an empty plan. *)
THEOREM NoVelocityWithoutPlanHolds == NodeSpec => NoVelocityWithoutPlan
<1>1. NodeInv /\ [NodeNext]_nodeVars
        => [cmd' = "velocity" /\ cmd # "velocity" => plan # <<>>]_nodeVars
  <2> SUFFICES ASSUME NodeInv, NodeNext, cmd' = "velocity", cmd # "velocity"
               PROVE  plan # <<>>
    OBVIOUS
  <2>1. PublishCommand
    BY DEF NodeNext, NodeInputs, ControlLoop, OdomCB, ObstacleCB, GlobalPlanCB, SendStop,
           BeginCycle, PlanSucceeds, PlanFails, NoCommand
  <2>2. QED
    BY <2>1 DEF PublishCommand, NodeInv, CycleInv
<1>2. QED
  BY <1>1, NodeInvHolds, PTL DEF NodeSpec, NoVelocityWithoutPlan

-----------------------------------------------------------------------------
(* The two nodes together.                                                 *)

LEMMA SystemStep == [Next]_vars => [NodeNext]_nodeVars
<1> SUFFICES ASSUME [Next]_vars PROVE [NodeNext]_nodeVars
  OBVIOUS
<1>1. ASSUME Deliver PROVE NodeNext
  <2>1. PICK m \in Message : ObstacleCB(m)
    BY <1>1 DEF Deliver
  <2>2. m \in Messages
    BY PlannerSystemOK
  <2>3. QED
    BY <2>1, <2>2 DEF NodeNext
<1>2. ASSUME Fuse PROVE UNCHANGED nodeVars
  BY <1>2 DEF Fuse
<1>3. ASSUME ControlLoop \/ NodeInputs PROVE NodeNext
  BY <1>3 DEF NodeNext
<1>4. CASE UNCHANGED vars
  BY <1>4 DEF vars
<1>5. QED
  BY <1>1, <1>2, <1>3, <1>4 DEF Next

(* Joined to the obstacle fusion node, the planner node does only what the *)
(* node alone may do: each message it is given is one it may be given, and *)
(* the fusion node's steps are none of its own.                            *)
THEOREM SystemImplementsNode == Spec => NodeSpec
<1>1. Init => NodeInit
  BY DEF Init
<1>2. QED
  BY <1>1, SystemStep, PTL DEF Spec, NodeSpec

(* A stop latched, a velocity taken from a trajectory of its own cycle and *)
(* none under an empty plan: what holds of the node holds of the node fed  *)
(* with obstacles, whenever a message arrives.                             *)
THEOREM SystemKeepsNodeSafe ==
  Spec => [](StopLatched /\ CommandCurrent) /\ NoVelocityWithoutPlan
  BY SystemImplementsNode, StopLatchedHolds, CommandCurrentHolds,
     NoVelocityWithoutPlanHolds, PTL

-----------------------------------------------------------------------------
(* What is on the topic, and what the planner reads while it plans.        *)

(* Fused around one position of the robot, with a polygon. *)
Published(m) ==
  /\ m \in Message
  /\ m.polygons # {}
  /\ \E x \in Places : m.polygons \subseteq x - Reach .. x + Reach
  /\ Cardinality(m.clusters) <= MaxClusters

FusionTypeOK ==
  /\ at \in Places /\ usable \in BOOLEAN
  /\ costmap \in SUBSET Places /\ scan \in SUBSET Places
  /\ topic \in Seq(Message) /\ Len(topic) <= Depth

TopicPublished == \A i \in 1 .. Len(topic) : Published(topic[i])

ObstaclesPublished == obstacles = NoObstacles \/ Published(obstacles)

SystemInv == FusionTypeOK /\ TopicPublished /\ ObstaclesPublished

LEMMA FusedIsPublished ==
  ASSUME FusionTypeOK, Polygons # {}, NEW m \in Fused
  PROVE  Published(m)
<1>1. PICK c \in Clusters(scan) : m = [polygons |-> Polygons, clusters |-> c]
  BY DEF Fused
<1>2. Polygons \subseteq costmap /\ Polygons \subseteq at - Reach .. at + Reach
  BY DEF Polygons
<1>3. c \in SUBSET Places
  BY <1>1 DEF Clusters, FusionTypeOK
<1>4. Cardinality(c) <= MaxClusters
  <2>1. IsFiniteSet(scan)
    BY ObstacleFusionOK, FS_Subset DEF FusionTypeOK
  <2>2. Cardinality(scan) \in Nat
    BY <2>1, FS_CardinalityType
  <2>3. QED
    BY <1>1, <2>2, ObstacleFusionOK DEF Clusters
<1>5. m.polygons = Polygons /\ m.clusters = c
  BY <1>1
<1>6. m \in Message
  BY <1>1, <1>2, <1>3 DEF Message, FusionTypeOK
<1>7. at \in Places
  BY DEF FusionTypeOK
<1>8. QED
  BY <1>2, <1>4, <1>5, <1>6, <1>7 DEF Published

(* A message goes to the end of the topic, and the oldest gives way. *)
LEMMA SendKeeps ==
  ASSUME FusionTypeOK, TopicPublished, NEW m, Published(m), Send(m)
  PROVE  /\ topic' \in Seq(Message) /\ Len(topic') <= Depth
         /\ \A i \in 1 .. Len(topic') : Published(topic'[i])
<1>t. topic \in Seq(Message) /\ Len(topic) <= Depth /\ m \in Message /\ Depth \in Nat \ {0}
  BY ObstacleFusionOK DEF FusionTypeOK, Published
<1>1. CASE Len(topic) < Depth
  <2>1. topic' = Append(topic, m)
    BY <1>1 DEF Send
  <2>2. /\ topic' \in Seq(Message) /\ Len(topic') = Len(topic) + 1
        /\ \A i \in 1 .. Len(topic) : topic'[i] = topic[i]
        /\ topic'[Len(topic) + 1] = m
    BY <1>t, <2>1
  <2>3. QED
    BY <1>t, <1>1, <2>2 DEF TopicPublished
<1>2. CASE ~(Len(topic) < Depth)
  <2>1. topic' = Append(Tail(topic), m)
    BY <1>2 DEF Send
  <2>2. topic # <<>> /\ Len(topic) = Depth
    BY <1>t, <1>2
  <2>3. /\ Tail(topic) \in Seq(Message) /\ Len(Tail(topic)) = Len(topic) - 1
        /\ \A i \in 1 .. Len(topic) - 1 : Tail(topic)[i] = topic[i + 1]
    BY <1>t, <2>2
  <2>4. /\ topic' \in Seq(Message) /\ Len(topic') = Len(topic)
        /\ \A i \in 1 .. Len(topic) - 1 : topic'[i] = topic[i + 1]
        /\ topic'[Len(topic)] = m
    BY <1>t, <2>1, <2>3
  <2>5. QED
    BY <1>t, <2>2, <2>4 DEF TopicPublished
<1>3. QED
  BY <1>1, <1>2

LEMMA SystemInvHolds == Spec => []SystemInv
<1>1. Init => SystemInv
  <2> SUFFICES ASSUME Init PROVE SystemInv
    OBVIOUS
  <2>1. topic \in Seq(Message) /\ Len(topic) = 0 /\ obstacles = NoObstacles
    BY DEF Init, FusionInit, NodeInit
  <2>2. FusionTypeOK
    <3>1. at = 0 /\ usable = FALSE /\ costmap = {} /\ scan = {}
      BY DEF Init, FusionInit
    <3>2. Len(topic) <= Depth
      BY <2>1, ObstacleFusionOK
    <3>3. QED
      BY <2>1, <3>1, <3>2, ObstacleFusionOK DEF FusionTypeOK
  <2>3. QED
    BY <2>1, <2>2 DEF SystemInv, TopicPublished, ObstaclesPublished
<1>2. SystemInv /\ [Next]_vars => SystemInv'
  <2> SUFFICES ASSUME SystemInv, [Next]_vars PROVE SystemInv'
    OBVIOUS
  <2>i. FusionTypeOK /\ TopicPublished /\ ObstaclesPublished
    BY DEF SystemInv
  <2>1. ASSUME NEW m \in Message, Receive(m), ObstacleCB(m) PROVE SystemInv'
    <3>1. topic # <<>> /\ m = topic[1] /\ topic' = Tail(topic) /\ Len(topic) \in Nat
      BY <2>i, <2>1 DEF Receive, FusionTypeOK
    <3>2. /\ topic' \in Seq(Message) /\ Len(topic') = Len(topic) - 1
          /\ \A i \in 1 .. Len(topic) - 1 : topic'[i] = topic[i + 1]
      BY <2>i, <3>1 DEF FusionTypeOK
    <3>3. Published(m)
      BY <2>i, <3>1 DEF TopicPublished
    <3>4. FusionTypeOK'
      BY <2>i, <2>1, <3>1, <3>2, ObstacleFusionOK DEF FusionTypeOK, Receive
    <3>5. TopicPublished'
      BY <2>i, <3>1, <3>2 DEF TopicPublished
    <3>6. ObstaclesPublished'
      BY <2>1, <3>3 DEF ObstacleCB, ObstaclesPublished
    <3>7. QED
      BY <3>4, <3>5, <3>6 DEF SystemInv
  <2>2. ASSUME Fuse PROVE SystemInv'
    <3>1. PICK m \in Fused : Send(m)
      BY <2>2 DEF Fuse, ComputeAndPublish
    <3>2. Published(m)
      BY <2>i, <2>2, FusedIsPublished DEF Fuse, ComputeAndPublish
    <3>3. /\ topic' \in Seq(Message) /\ Len(topic') <= Depth
          /\ \A i \in 1 .. Len(topic') : Published(topic'[i])
      BY <2>i, <3>1, <3>2, SendKeeps
    <3>4. UNCHANGED <<at, usable, costmap, scan, obstacles>>
      BY <2>2 DEF Fuse, ComputeAndPublish, nodeVars
    <3>5. QED
      BY <2>i, <3>3, <3>4 DEF SystemInv, FusionTypeOK, TopicPublished, ObstaclesPublished
  <2>3. ASSUME FusionInputs, UNCHANGED nodeVars PROVE SystemInv'
    <3>1. UNCHANGED <<topic, obstacles>>
      BY <2>3 DEF FusionInputs, CostmapCallback, OdomCallback, PointcloudCallback, nodeVars
    <3>2. FusionTypeOK'
      BY <2>i, <2>3, <3>1 DEF FusionInputs, CostmapCallback, OdomCallback, PointcloudCallback,
         FusionTypeOK
    <3>3. QED
      BY <2>i, <3>1, <3>2 DEF SystemInv, TopicPublished, ObstaclesPublished
  <2>4. ASSUME ControlLoop \/ NodeInputs, UNCHANGED fusionVars PROVE SystemInv'
    <3>1. UNCHANGED obstacles
      BY <2>4 DEF ControlLoop, NodeInputs, OdomCB, GlobalPlanCB, SendStop, BeginCycle,
         PlanSucceeds, PlanFails, PublishCommand, NoCommand, inputs
    <3>2. QED
      BY <2>i, <2>4, <3>1 DEF fusionVars, SystemInv, FusionTypeOK, TopicPublished,
         ObstaclesPublished
  <2>5. CASE UNCHANGED vars
    BY <2>i, <2>5 DEF vars, fusionVars, nodeVars, SystemInv, FusionTypeOK, TopicPublished,
       ObstaclesPublished
  <2>6. QED
    BY <2>1, <2>2, <2>3, <2>4, <2>5 DEF Next, Deliver
<1>3. QED
  BY <1>1, <1>2, PTL DEF Spec

(* Whatever the planner plans around, unless it has heard nothing yet, was *)
(* fused around one position of the robot from one costmap: it has a       *)
(* polygon, none is farther from that position than the part of the map    *)
(* reaches, and it has no more clusters than the limit.  The topic holds   *)
(* no more messages than it keeps, all of this kind.                       *)
THEOREM ObstaclesFusedAtOnePlace ==
  Spec => [](ObstaclesPublished /\ TopicPublished /\ Len(topic) <= Depth)
<1>1. SystemInv => ObstaclesPublished /\ TopicPublished /\ Len(topic) <= Depth
  BY DEF SystemInv, FusionTypeOK
<1>2. QED
  BY <1>1, SystemInvHolds, PTL

(* The planner's obstacles are never cleared: when the last polygon        *)
(* leaves the part of the map, computeAndPublish() returns early and sends *)
(* nothing, so that what replaces an obstacle list has a polygon again.    *)
ObstaclesOnlyReplaced == [][obstacles' # obstacles => obstacles'.polygons # {}]_vars

(* An empty map does not empty the planner's list of obstacles. *)
THEOREM ObstaclesOnlyReplacedHolds == Spec => ObstaclesOnlyReplaced
<1>1. SystemInv /\ [Next]_vars => [obstacles' # obstacles => obstacles'.polygons # {}]_vars
  <2> SUFFICES ASSUME SystemInv, Next, obstacles' # obstacles
               PROVE  obstacles'.polygons # {}
    OBVIOUS
  <2>1. Deliver
    BY DEF Next, Fuse, nodeVars, ControlLoop, NodeInputs, OdomCB, GlobalPlanCB, SendStop,
       BeginCycle, PlanSucceeds, PlanFails, PublishCommand, NoCommand, inputs
  <2>2. PICK m \in Message : Receive(m) /\ ObstacleCB(m)
    BY <2>1 DEF Deliver
  <2>3. topic # <<>> /\ m = topic[1] /\ topic \in Seq(Message)
    BY <2>2 DEF Receive, SystemInv, FusionTypeOK
  <2>4. Published(m)
    BY <2>3 DEF SystemInv, TopicPublished
  <2>5. QED
    BY <2>2, <2>4 DEF ObstacleCB, Published
<1>2. QED
  BY <1>1, SystemInvHolds, PTL DEF Spec, ObstaclesOnlyReplaced
=============================================================================
