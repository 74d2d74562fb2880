--------------------------- MODULE NavPluginProofs ---------------------------
(***************************************************************************)
(* Theorems about NavPlugin for all plans, positions, obstacles, messages  *)
(* with via-points and distances.                                          *)
(***************************************************************************)
EXTENDS NavPlugin, ListLemmas

-----------------------------------------------------------------------------
(* What is computed from the plan.                                         *)

SuffixOf(q, g) == \E k \in DOMAIN g : q = SubSeq(g, k, Len(g))

LEMMA SuffixIndex ==
  \A g \in Seq(Positions) :
    \A q : SuffixOf(q, g) <=> \E k \in 1 .. Len(g) : q = SubSeq(g, k, Len(g))
<1>1. \A g \in Seq(Positions) : DOMAIN g = 1 .. Len(g)
  OBVIOUS
<1>2. QED
  BY <1>1, Zenon DEF SuffixOf

LEMMA SuffixType ==
  ASSUME NEW g \in Seq(Positions), NEW q, SuffixOf(q, g)
  PROVE  q \in Seq(Positions) /\ q # <<>>
<1>1. PICK k \in 1 .. Len(g) : q = SubSeq(g, k, Len(g))
  BY SuffixIndex
<1>2. \A j \in k .. Len(g) : g[j] \in Positions
  OBVIOUS
<1>3. q \in Seq(Positions) /\ Len(q) = Len(g) - k + 1
  BY <1>1, <1>2, SubSeqProperties
<1>4. QED
  BY <1>3

LEMMA SuffixOfItself ==
  ASSUME NEW g \in Seq(Positions), g # <<>>
  PROVE  SuffixOf(g, g)
<1>1. 1 \in DOMAIN g /\ SubSeq(g, 1, Len(g)) = g
  BY SubSeqFull
<1>2. QED
  BY <1>1 DEF SuffixOf

LEMMA SuffixOfSuffix ==
  ASSUME NEW g \in Seq(Positions), NEW q, SuffixOf(q, g), NEW r, SuffixOf(r, q)
  PROVE  SuffixOf(r, g)
<1>1. PICK k \in 1 .. Len(g) : q = SubSeq(g, k, Len(g))
  BY SuffixIndex
<1>2. q \in Seq(Positions)
  BY SuffixType
<1>3. \A j \in k .. Len(g) : g[j] \in Positions
  OBVIOUS
<1>4. Len(q) = Len(g) - k + 1
  BY <1>1, <1>3, SubSeqProperties
<1>5. PICK j \in 1 .. Len(q) : r = SubSeq(q, j, Len(q))
  BY <1>2, SuffixIndex
<1>6. SubSeq(SubSeq(g, k, Len(g)), j, Len(q)) = SubSeq(g, k + j - 1, k + Len(q) - 1)
  BY <1>2, <1>4, SubSeqOfSubSeq
<1>7. k + j - 1 \in 1 .. Len(g) /\ k + Len(q) - 1 = Len(g)
  BY <1>4
<1>8. r = SubSeq(g, k + j - 1, Len(g))
  BY <1>1, <1>5, <1>6, <1>7
<1>9. QED
  BY <1>7, <1>8, SuffixIndex

(* pruneGlobalPlan() leaves nothing or an end of the plan. *)
LEMMA PruneProperties ==
  ASSUME NEW p \in Seq(Positions), NEW x
  PROVE  PruneGlobalPlan(p, x) = <<>> \/ SuffixOf(PruneGlobalPlan(p, x), p)
<1> DEFINE far == {k \in DOMAIN p : Distance(p[k], x) >= PruneDist}
<1>1. CASE far = {}
  BY <1>1 DEF PruneGlobalPlan
<1>2. CASE far # {}
  <2>1. PruneGlobalPlan(p, x) = SubSeq(p, Min(far), Len(p))
    BY <1>2 DEF PruneGlobalPlan
  <2>2. far \subseteq DOMAIN p /\ far \subseteq Nat
    OBVIOUS
  <2> HIDE DEF far
  <2>3. Min(far) \in DOMAIN p
    BY <1>2, <2>2, MinIsMember
  <2>4. QED
    BY <2>1, <2>3 DEF SuffixOf
<1>3. QED
  BY <1>1, <1>2

(* transformGlobalPlan() keeps the first pose at least. *)
LEMMA TransformProperties ==
  ASSUME NEW p \in Seq(Positions), p # <<>>
  PROVE  TransformGlobalPlan(p) \in Seq(Positions) /\ TransformGlobalPlan(p) # <<>>
<1> DEFINE length == CHOOSE g : g = [k \in DOMAIN p |->
                       IF k = 1 THEN 0 ELSE g[k - 1] + Distance(p[k - 1], p[k])]
           beyond == {k \in DOMAIN p : LookAhead > 0 /\ length[k] > LookAhead}
<1>1. TransformGlobalPlan(p) = IF beyond = {} THEN p ELSE SubSeq(p, 1, Min(beyond))
  BY Zenon DEF TransformGlobalPlan
<1>2. beyond \subseteq 1 .. Len(p)
  OBVIOUS
<1> HIDE DEF beyond
<1>3. CASE beyond = {}
  BY <1>1, <1>3
<1>4. CASE beyond # {}
  <2>1. beyond \subseteq Nat
    BY <1>2
  <2>2. Min(beyond) \in 1 .. Len(p)
    BY <1>2, <1>4, <2>1, MinIsMember
  <2> DEFINE m == Min(beyond)
  <2> HIDE DEF m
  <2>3. m \in 1 .. Len(p) /\ TransformGlobalPlan(p) = SubSeq(p, 1, m)
    BY <1>1, <1>4, <2>2 DEF m
  <2>4. \A j \in 1 .. m : p[j] \in Positions
    BY <2>3
  <2>5. SubSeq(p, 1, m) \in Seq(Positions) /\ Len(SubSeq(p, 1, m)) = m
    BY <2>3, <2>4, SubSeqProperties
  <2>6. QED
    BY <2>3, <2>5
<1>5. QED
  BY <1>3, <1>4

LEMMA FromRobotType ==
  ASSUME NEW p \in Seq(Positions), p # <<>>, NEW x \in Positions
  PROVE  FromRobot(p, x) \in Seq(Positions)
  BY DEF FromRobot

LEMMA DistanceType == \A x, y \in Int : Distance(x, y) \in Nat
  BY DEF Distance

(* updateViaPointsContainer() makes a list of positions of the plan.  The   *)
(* fold is a function of sets of indices; that there is one follows by     *)
(* induction over the largest index, and so does the type of its values.   *)
LEMMA ViaPointsType ==
  ASSUME NEW p \in Seq(Positions), p # <<>>, sep \in Nat
  PROVE  ViaPoints(p) \in Seq(Positions)
<1> DEFINE Visit(v, y) ==
             LET sum == v.sum + Distance(y, Last(v.via))
             IN IF sum >= sep THEN [via |-> Append(v.via, y), sum |-> 0]
                ELSE [v EXCEPT !.sum = sum]
           base == [via |-> <<p[1]>>, sum |-> 0]
           t == Tail(p)
           Def(g, s) == IF s = {} THEN base ELSE Visit(g[s \ {Max(s)}], t[Max(s)])
           iter == CHOOSE g : g = [s \in SUBSET DOMAIN t |-> Def(g, s)]
           Visits == [via : Seq(Positions) \ {<<>>}, sum : Nat]
<1>1. CASE sep = 0
  <2>1. ViaPoints(p) = <<>>
    BY <1>1, Zenon DEF ViaPoints
  <2>2. QED
    BY <2>1
<1>2. CASE sep # 0
  <2>1. ViaPoints(p) = FoldLeft(Visit, base, t).via
    BY <1>2, Zenon DEF ViaPoints
  <2>2. FoldLeft(Visit, base, t) = iter[DOMAIN t]
    BY Zenon DEF FoldLeft, MapThenFoldSet
  <2>3. t \in Seq(Positions) /\ DOMAIN t = 1 .. Len(t) /\ Len(t) \in Nat
    OBVIOUS
  <2>4. base \in Visits
    OBVIOUS
  <2>5. ASSUME NEW v \in Visits, NEW y \in Positions PROVE Visit(v, y) \in Visits
    <3> DEFINE w == v.via
    <3>0. w \in Seq(Positions) /\ w # <<>> /\ v.sum \in Nat
      OBVIOUS
    <3> HIDE DEF w
    <3>1. Last(w) \in Int /\ y \in Int
      <4>1. Last(w) \in Positions
        BY <3>0 DEF Last
      <4>2. QED
        BY <4>1, NavPluginOK
    <3>2. v.sum + Distance(y, Last(v.via)) \in Nat
      <4>1. Distance(y, Last(w)) \in Nat
        BY <3>1, DistanceType
      <4>2. QED
        BY <3>0, <4>1 DEF w
    <3>3. Append(v.via, y) \in Seq(Positions) \ {<<>>}
      OBVIOUS
    <3>4. QED
      BY <3>2, <3>3
  <2> HIDE DEF Visit, base, t, Visits
  <2> DEFINE Rec(g, n) == g = [s \in SUBSET (1 .. n) |-> Def(g, s)]
             N == {n \in Nat : \E g : Rec(g, n)}
  <2>6. \A n \in Nat : n \in N
    <3>1. 0 \in N
      <4>1. Rec([s \in SUBSET (1 .. 0) |-> base], 0)
        OBVIOUS
      <4>2. QED
        BY <4>1
    <3>2. ASSUME NEW n \in Nat, n \in N PROVE n + 1 \in N
      <4>1. PICK g : Rec(g, n)
        BY <3>2
      <4> DEFINE h == [s \in SUBSET (1 .. n + 1) |->
                         IF n + 1 \in s THEN Visit(g[s \ {n + 1}], t[n + 1]) ELSE g[s]]
      <4>2. ASSUME NEW s \in SUBSET (1 .. n + 1) PROVE h[s] = Def(h, s)
        <5>1. CASE n + 1 \in s
          <6>1. Max(s) = n + 1
            <7>1. s \subseteq Nat /\ \A y \in s : y <= n + 1
              OBVIOUS
            <7>2. QED
              BY <5>1, <7>1, MaxIs
          <6>2. s \ {n + 1} \in SUBSET (1 .. n)
            OBVIOUS
          <6>3. h[s \ {n + 1}] = g[s \ {n + 1}]
            BY <6>2
          <6>4. h[s] = Visit(g[s \ {n + 1}], t[n + 1])
            BY <5>1
          <6> HIDE DEF h
          <6>5. QED
            BY <5>1, <6>1, <6>3, <6>4
        <5>2. CASE n + 1 \notin s
          <6>1. s \in SUBSET (1 .. n)
            BY <5>2
          <6>2. g[s] = Def(g, s)
            BY <4>1, <6>1
          <6>3. h[s] = g[s] /\ h[s \ {Max(s)}] = g[s \ {Max(s)}]
            BY <5>2, <6>1
          <6> HIDE DEF h
          <6>4. QED
            BY <6>2, <6>3
        <5>3. QED
          BY <5>1, <5>2
      <4>3. h = [s \in SUBSET (1 .. n + 1) |-> h[s]]
        OBVIOUS
      <4> HIDE DEF h, Def
      <4>4. Rec(h, n + 1)
        BY <4>2, <4>3
      <4>5. QED
        BY <4>4
    <3> HIDE DEF N
    <3>3. QED
      BY <3>1, <3>2, NatSetInduction
  <2>7. Rec(iter, Len(t))
    <3>1. \E g : g = [s \in SUBSET DOMAIN t |-> Def(g, s)]
      BY <2>3, <2>6
    <3> HIDE DEF Def
    <3>2. QED
      BY <2>3, <3>1
  <2> HIDE DEF iter
  <2> DEFINE K == {k \in Nat : k <= Len(t) => iter[1 .. k] \in Visits}
  <2>8. \A k \in Nat : k \in K
    <3>1. 0 \in K
      BY <2>3, <2>4, <2>7
    <3>2. ASSUME NEW k \in Nat, k \in K PROVE k + 1 \in K
      <4> SUFFICES ASSUME k + 1 <= Len(t) PROVE iter[1 .. k + 1] \in Visits
        OBVIOUS
      <4>1. Max(1 .. k + 1) = k + 1
        <5> DEFINE r == 1 .. k + 1
        <5>1. r \subseteq Nat /\ k + 1 \in r /\ \A y \in r : y <= k + 1
          OBVIOUS
        <5> HIDE DEF r
        <5>2. Max(r) = k + 1
          BY <5>1, MaxIs
        <5>3. QED
          BY <5>2 DEF r
      <4>2. (1 .. k + 1) \ {k + 1} = 1 .. k /\ (1 .. k + 1) # {}
        OBVIOUS
      <4>3. 1 .. k + 1 \in SUBSET (1 .. Len(t))
        BY <2>3
      <4>4. iter[1 .. k + 1] = Visit(iter[1 .. k], t[k + 1])
        BY <2>7, <4>1, <4>2, <4>3
      <4>5. iter[1 .. k] \in Visits /\ t[k + 1] \in Positions
        BY <2>3, <3>2
      <4>6. QED
        BY <2>5, <4>4, <4>5
    <3> HIDE DEF K
    <3>3. QED
      BY <3>1, <3>2, NatSetInduction
  <2>9. iter[1 .. Len(t)] \in Visits
    BY <2>3, <2>8
  <2>10. QED
    BY <2>1, <2>2, <2>3, <2>9 DEF Visits
<1>3. QED
  BY <1>1, <1>2

(* What a list collected from the cells o or the converter has of them.    *)
Wanted(o, src, r) ==
  CASE src = "costmap" -> {c \in o \ Border : ~FarBehind(c, r)}
    [] src = "converter" -> o
    [] OTHER -> {}

LEMMA CollectedIsWanted == Collected = Wanted(cells, source, robot)
  BY DEF Collected, Wanted, Around

LEMMA WantedMonotone ==
  ASSUME NEW o, NEW t, o \subseteq t, NEW src, NEW r
  PROVE  Wanted(o, src, r) \subseteq Wanted(t, src, r)
<1>1. CASE src = "costmap"
  BY <1>1 DEF Wanted
<1>2. CASE src = "converter"
  BY <1>2 DEF Wanted
<1>3. CASE src # "costmap" /\ src # "converter"
  BY <1>3 DEF Wanted
<1>4. QED
  BY <1>1, <1>2, <1>3

LEMMA WantedAmong == \A o, src, r : Wanted(o, src, r) \subseteq o
  BY DEF Wanted

-----------------------------------------------------------------------------
(* The inductive invariant.                                                *)

Cycling == pc \notin {"unconfigured", "idle"}

(* The plan is an end of the one that was given, and in a cycle the path   *)
(* is the part of it that is transformed.                                  *)
PlanInv ==
  /\ plan = <<>> \/ SuffixOf(plan, given)
  /\ Cycling => plan # <<>> /\ path = TransformGlobalPlan(plan)

(* Via-points that come from the plan are of the part this cycle follows;  *)
(* no callback writes them then.                                           *)
ViaInv ==
  sep > 0 =>
    /\ ~active /\ ~writing
    /\ pc \in {"cells", "custom", "plan"} => via = ViaPoints(path)

(* What has been there all the time is there now, and that was seen. *)
SeenInv ==
  Preparing =>
    /\ seen.map \subseteq cells /\ cells \subseteq seen.may
    /\ seen.message \subseteq custom /\ custom \subseteq seen.may

(* The list of obstacles, half filled and filled. *)
ObstaclesInv ==
  /\ pc \in {"custom", "plan"} =>
       obstacles \subseteq seen.may /\ Wanted(seen.map, source, robot) \subseteq obstacles
  /\ pc = "plan" => seen.message \subseteq obstacles

(* What the trajectory was computed from is still what the cycle knows. *)
TebInv ==
  /\ pc \in {"planned", "checked"} /\ teb # NoTeb =>
       /\ teb.path = FromRobot(path, robot[1])
       /\ teb.obstacles = obstacles
       /\ sep > 0 => teb.via = ViaPoints(path)
  /\ pc = "checked" => teb # NoTeb

FailureInv == pc \notin {"planned", "checked"} /\ failed => teb = NoTeb

Inv == TypeOK /\ PlanInv /\ ViaInv /\ SeenInv /\ ObstaclesInv /\ TebInv /\ FailureInv

LEMMA InitInv == Init => Inv
<1> SUFFICES ASSUME Init PROVE Inv
  OBVIOUS
<1> USE DEF Init
<1>1. TypeOK
  <2>1. <<>> \in Seq(Positions) /\ {} \in SUBSET Places
    OBVIOUS
  <2>2. NotSeen \in [may : SUBSET Places, map : SUBSET Places, message : SUBSET Places]
    BY DEF NotSeen
  <2>3. NoTeb \in [path : Seq(Positions), via : Seq(Positions), obstacles : SUBSET Places]
    BY <2>1 DEF NoTeb, Trajectory
  <2>4. robot \in Positions \X {-1, 1}
    BY NavPluginOK
  <2>5. QED
    BY <2>1, <2>2, <2>3, <2>4 DEF TypeOK
<1>2. PlanInv /\ ViaInv /\ SeenInv /\ ObstaclesInv /\ TebInv /\ FailureInv
  BY DEF PlanInv, Cycling, ViaInv, SeenInv, Preparing, ObstaclesInv, TebInv, FailureInv
<1>3. QED
  BY <1>1, <1>2 DEF Inv

(* What the invariant says of a path and of via-points depends on the path *)
(* and the separation alone.                                               *)
LEMMA SamePath ==
  ASSUME UNCHANGED <<sep, path>>
  PROVE  ViaPoints(path)' = ViaPoints(path)
<1> DEFINE F(p, d) ==
             LET Visit(v, y) ==
                   LET sum == v.sum + Distance(y, Last(v.via))
                   IN IF sum >= d THEN [via |-> Append(v.via, y), sum |-> 0]
                      ELSE [v EXCEPT !.sum = sum]
             IN IF d = 0 THEN <<>>
                ELSE FoldLeft(Visit, [via |-> <<p[1]>>, sum |-> 0], Tail(p)).via
<1>1. ViaPoints(path) = F(path, sep)
  BY Zenon DEF ViaPoints
<1>2. ViaPoints(path)' = F(path', sep')
  BY Zenon DEF ViaPoints, FoldLeft, MapThenFoldSet
<1> HIDE DEF F
<1>3. QED
  BY <1>1, <1>2

LEMMA PathType ==
  ASSUME Inv, Cycling
  PROVE  /\ path \in Seq(Positions) /\ path # <<>>
         /\ plan \in Seq(Positions) /\ SuffixOf(plan, given)
<1>1. plan # <<>> /\ path = TransformGlobalPlan(plan) /\ plan \in Seq(Positions)
  BY DEF Inv, PlanInv, TypeOK
<1>2. SuffixOf(plan, given)
  BY <1>1 DEF Inv, PlanInv
<1>3. QED
  BY <1>1, <1>2, TransformProperties

(* What pruneGlobalPlan() leaves is an end of the plan that was given. *)
LEMMA PruneGiven ==
  ASSUME Inv, NEW x
  PROVE  PruneGlobalPlan(plan, x) = <<>> \/ SuffixOf(PruneGlobalPlan(plan, x), given)
<1>1. given \in Seq(Positions) /\ plan \in Seq(Positions)
  BY DEF Inv, TypeOK
<1>2. PruneGlobalPlan(plan, x) = <<>> \/ SuffixOf(PruneGlobalPlan(plan, x), plan)
  BY <1>1, PruneProperties
<1>3. CASE plan = <<>>
  <2>1. ~SuffixOf(PruneGlobalPlan(plan, x), plan)
    BY <1>3 DEF SuffixOf
  <2>2. QED
    BY <1>2, <2>1
<1>4. CASE SuffixOf(plan, given)
  BY <1>1, <1>2, <1>4, SuffixOfSuffix
<1>5. QED
  BY <1>3, <1>4 DEF Inv, PlanInv

-----------------------------------------------------------------------------
(* Each step keeps the types.                                              *)

LEMMA TypeStep == Inv /\ [Next]_vars => TypeOK'
<1> SUFFICES ASSUME Inv, [Next]_vars PROVE TypeOK'
  OBVIOUS
<1>0. /\ sep \in Seps /\ source \in Sources /\ active \in BOOLEAN /\ writing \in BOOLEAN /\ failed \in BOOLEAN
      /\ given \in Seq(Positions) /\ plan \in Seq(Positions) /\ path \in Seq(Positions)
      /\ via \in Seq(Positions)
      /\ cells \subseteq Places /\ custom \subseteq Places /\ obstacles \subseteq Places
      /\ robot \in Positions \X {-1, 1}
      /\ seen \in [may : SUBSET Places, map : SUBSET Places, message : SUBSET Places]
      /\ teb \in [path : Seq(Positions), via : Seq(Positions), obstacles : SUBSET Places]
      /\ pc \in {"unconfigured", "idle", "via", "derive", "cells", "custom", "plan",
                 "planned", "checked"}
  BY DEF Inv, TypeOK
<1>a. <<>> \in Seq(Positions)
  OBVIOUS
<1>b. NotSeen \in [may : SUBSET Places, map : SUBSET Places, message : SUBSET Places]
  BY DEF NotSeen
<1>c. NoTeb \in [path : Seq(Positions), via : Seq(Positions), obstacles : SUBSET Places]
  BY <1>a DEF NoTeb, Trajectory
<1> USE DEF vars, inputs, viaVars, cycleVars
<1>1. CASE Configure
  BY <1>0, <1>1 DEF Configure, TypeOK
<1>2. ASSUME NEW p \in Plans, SetPlan(p) PROVE TypeOK'
  <2>1. p \in Seq(Positions)
    BY NavPluginOK
  <2>2. QED
    BY <1>0, <1>2, <2>1 DEF SetPlan, TypeOK
<1>3. ASSUME NEW x \in Positions, NEW h \in {-1, 1}, NoPlanLeft(x, h) PROVE TypeOK'
  BY <1>0, <1>a, <1>3 DEF NoPlanLeft, TypeOK
<1>4. ASSUME NEW x \in Positions, NEW h \in {-1, 1}, BeginCycle(x, h) PROVE TypeOK'
  <2>1. SuffixOf(plan', given)
    BY <1>4, PruneGiven DEF BeginCycle
  <2>2. plan' \in Seq(Positions) /\ plan' # <<>>
    BY <1>0, <2>1, SuffixType
  <2>3. path' \in Seq(Positions)
    BY <1>4, <2>2, TransformProperties DEF BeginCycle
  <2>4. seen' \in [may : SUBSET Places, map : SUBSET Places, message : SUBSET Places]
    BY <1>0, <1>4 DEF BeginCycle
  <2>5. robot' \in Positions \X {-1, 1}
    BY <1>4 DEF BeginCycle
  <2>6. /\ UNCHANGED <<sep, source, given, cells, custom, via, active, writing, obstacles, teb, failed>>
        /\ pc' = "via"
    BY <1>4 DEF BeginCycle
  <2>7. QED
    BY <1>0, <2>2, <2>3, <2>4, <2>5, <2>6 DEF TypeOK
<1>5. CASE TestActive \/ TrajectoryFeasible
  BY <1>0, <1>5 DEF TestActive, TrajectoryFeasible, TypeOK
<1>6. CASE UpdateViaPoints
  <2>1. ViaPoints(path) \in Seq(Positions)
    <3>1. path \in Seq(Positions) /\ path # <<>>
      BY <1>6, PathType DEF UpdateViaPoints, Cycling
    <3>2. sep \in Nat
      BY <1>0, NavPluginOK
    <3>3. QED
      BY <3>1, <3>2, ViaPointsType
  <2>2. /\ via' = ViaPoints(path) /\ pc' = "cells"
        /\ UNCHANGED <<inputs, active, writing, cycleVars, seen, teb, failed>>
    BY <1>6 DEF UpdateViaPoints
  <2>3. QED
    BY <1>0, <2>1, <2>2 DEF TypeOK
<1>7. CASE AddCells
  <2>1. obstacles' \subseteq Places
    BY <1>0, <1>7, CollectedIsWanted, WantedAmong DEF AddCells
  <2>2. QED
    BY <1>0, <1>7, <2>1 DEF AddCells, TypeOK
<1>8. CASE AddCustomObstacles
  BY <1>0, <1>8 DEF AddCustomObstacles, TypeOK
<1>9. CASE PlanSucceeds
  <2>1. path \in Seq(Positions) /\ path # <<>>
    BY <1>9, PathType DEF PlanSucceeds, Cycling
  <2>2. FromRobot(path, robot[1]) \in Seq(Positions)
    BY <1>0, <2>1, FromRobotType
  <2>3. teb' \in [path : Seq(Positions), via : Seq(Positions), obstacles : SUBSET Places]
    BY <1>0, <1>9, <1>c, <2>2 DEF PlanSucceeds, Trajectory
  <2>4. /\ seen' = NotSeen /\ pc' = "planned"
        /\ UNCHANGED <<inputs, viaVars, cycleVars, failed>>
    BY <1>9 DEF PlanSucceeds
  <2>5. QED
    BY <1>0, <1>b, <2>3, <2>4 DEF TypeOK
<1>10. CASE ReturnCommand
  BY <1>0, <1>a, <1>10 DEF ReturnCommand, TypeOK
<1>11. CASE Fail
  BY <1>0, <1>a, <1>b, <1>c, <1>11 DEF Fail, TypeOK
<1>12. ASSUME NEW m \in SUBSET Places, CostmapUpdate(m) \/ CustomObstacleCB(m) PROVE TypeOK'
  <2>1. cells' \subseteq Places /\ custom' \subseteq Places
    BY <1>0, <1>12 DEF CostmapUpdate, CustomObstacleCB
  <2>2. seen' \in [may : SUBSET Places, map : SUBSET Places, message : SUBSET Places]
    <3>1. seen.may \subseteq Places /\ seen.map \subseteq Places /\ seen.message \subseteq Places
      BY <1>0
    <3>2. Watch
      BY <1>12 DEF CostmapUpdate, CustomObstacleCB
    <3>3. QED
      BY <1>0, <2>1, <3>1, <3>2 DEF Watch
  <2>3. UNCHANGED <<sep, source, given, viaVars, cycleVars, teb, failed, pc>>
    BY <1>12 DEF CostmapUpdate, CustomObstacleCB
  <2>4. QED
    BY <1>0, <2>1, <2>2, <2>3 DEF TypeOK
<1>13. CASE IgnoreViaPoints \/ SetActive
  BY <1>0, <1>13 DEF IgnoreViaPoints, SetActive, TypeOK
<1>14. ASSUME NEW m \in ViaPaths, WriteViaPoints(m) PROVE TypeOK'
  <2>1. m \in Seq(Positions)
    BY NavPluginOK
  <2>2. QED
    BY <1>0, <1>14, <2>1 DEF WriteViaPoints, TypeOK
<1>15. CASE UNCHANGED vars
  BY <1>0, <1>15 DEF TypeOK
<1>16. QED
  BY <1>1, <1>2, <1>3, <1>4, <1>5, <1>6, <1>7, <1>8, <1>9, <1>10, <1>11, <1>12, <1>13, <1>14,
     <1>15
     DEF Next, Cycle, Callbacks, PlanFails, TrajectoryRejected, NoVelocity

-----------------------------------------------------------------------------
(* Each step keeps the invariant.                                          *)

LEMMA PlanStep == Inv /\ [Next]_vars => PlanInv'
<1> SUFFICES ASSUME Inv, [Next]_vars PROVE PlanInv'
  OBVIOUS
<1>0. PlanInv
  BY DEF Inv
<1> USE DEF vars, inputs, viaVars, cycleVars
<1>1. ASSUME NEW p \in Plans, SetPlan(p) PROVE PlanInv'
  <2>1. p = <<>> \/ SuffixOf(p, p)
    BY NavPluginOK, SuffixOfItself
  <2>2. plan' = p /\ given' = p /\ pc' = "idle"
    BY <1>1 DEF SetPlan
  <2>3. QED
    BY <2>1, <2>2 DEF PlanInv, Cycling
<1>2. ASSUME NEW x \in Positions, NEW h \in {-1, 1}, NoPlanLeft(x, h) PROVE PlanInv'
  BY <1>2 DEF NoPlanLeft, PlanInv, Cycling
<1>3. ASSUME NEW x \in Positions, NEW h \in {-1, 1}, BeginCycle(x, h) PROVE PlanInv'
  <2>1. plan' # <<>> /\ SuffixOf(plan', given) /\ given' = given
    BY <1>3, PruneGiven DEF BeginCycle
  <2>2. path' = TransformGlobalPlan(plan')
    BY <1>3 DEF BeginCycle
  <2>3. QED
    BY <2>1, <2>2 DEF PlanInv
<1>4. CASE Configure \/ ReturnCommand \/ Fail
  <2>1. UNCHANGED <<plan, given>> /\ pc' = "idle"
    BY <1>4 DEF Configure, ReturnCommand, Fail
  <2>2. QED
    BY <1>0, <2>1 DEF PlanInv, Cycling
<1>5. ASSUME \/ TestActive \/ UpdateViaPoints \/ AddCells \/ AddCustomObstacles
             \/ PlanSucceeds \/ TrajectoryFeasible
      PROVE  PlanInv'
  <2>1. UNCHANGED <<plan, given, path>> /\ Cycling
    BY <1>5 DEF TestActive, UpdateViaPoints, AddCells, AddCustomObstacles, PlanSucceeds,
                TrajectoryFeasible, Cycling
  <2>2. QED
    BY <1>0, <2>1 DEF PlanInv
<1>6. ASSUME Callbacks \/ UNCHANGED vars PROVE PlanInv'
  <2>1. UNCHANGED <<plan, given, path, pc>>
    BY <1>6 DEF Callbacks, CostmapUpdate, CustomObstacleCB, IgnoreViaPoints, SetActive,
                WriteViaPoints
  <2>2. QED
    BY <1>0, <2>1 DEF PlanInv, Cycling
<1>7. QED
  BY <1>1, <1>2, <1>3, <1>4, <1>5, <1>6
     DEF Next, Cycle, PlanFails, TrajectoryRejected, NoVelocity

LEMMA ViaStep == Inv /\ [Next]_vars => ViaInv'
<1> SUFFICES ASSUME Inv, [Next]_vars, sep' > 0
             PROVE  /\ ~active' /\ ~writing'
                    /\ pc' \in {"cells", "custom", "plan"} => via' = ViaPoints(path)'
  BY DEF ViaInv
<1>0. sep' = sep
  BY DEF Inv, TypeOK, Next, Cycle, Callbacks, vars, inputs, Configure, SetPlan, NoPlanLeft, BeginCycle, TestActive,
     UpdateViaPoints, AddCells, AddCustomObstacles, PlanSucceeds, TrajectoryFeasible,
     ReturnCommand, PlanFails, TrajectoryRejected, NoVelocity, Fail, CostmapUpdate,
     CustomObstacleCB, IgnoreViaPoints, SetActive, WriteViaPoints
<1>1. /\ sep > 0 /\ active = FALSE /\ writing = FALSE
      /\ pc \in {"cells", "custom", "plan"} => via = ViaPoints(path)
  BY <1>0 DEF Inv, ViaInv, TypeOK
<1> USE DEF vars, inputs, viaVars, cycleVars
<1>2. ASSUME \/ Configure \/ (\E p \in Plans : SetPlan(p))
             \/ (\E x \in Positions, h \in {-1, 1} : NoPlanLeft(x, h) \/ BeginCycle(x, h))
             \/ TestActive \/ PlanSucceeds \/ TrajectoryFeasible \/ ReturnCommand \/ Fail
      PROVE  UNCHANGED <<active, writing>> /\ pc' \notin {"cells", "custom", "plan"}
  BY <1>1, <1>2 DEF Configure, SetPlan, NoPlanLeft, BeginCycle, TestActive, PlanSucceeds,
     TrajectoryFeasible, ReturnCommand, Fail
<1>3. CASE UpdateViaPoints
  <2>1. UNCHANGED <<active, writing, sep, path>> /\ via' = ViaPoints(path)
    BY <1>3 DEF UpdateViaPoints
  <2>2. QED
    BY <1>1, <2>1, SamePath
<1>4. ASSUME AddCells \/ AddCustomObstacles \/ Callbacks \/ UNCHANGED vars
      PROVE  /\ ~active' /\ ~writing' /\ UNCHANGED <<via, path>>
             /\ pc' \in {"cells", "custom", "plan"} => pc \in {"cells", "custom", "plan"}
  <2>1. CASE AddCells \/ AddCustomObstacles \/ UNCHANGED vars
    BY <1>1, <2>1 DEF AddCells, AddCustomObstacles
  <2>2. CASE Callbacks
    BY <1>1, <2>2 DEF Callbacks, CostmapUpdate, CustomObstacleCB, IgnoreViaPoints, SetActive,
       WriteViaPoints
  <2>3. QED
    BY <1>4, <2>1, <2>2
<1>5. CASE AddCells \/ AddCustomObstacles \/ Callbacks \/ UNCHANGED vars
  BY <1>0, <1>1, <1>4, <1>5, SamePath
<1>6. QED
  BY <1>1, <1>2, <1>3, <1>5
     DEF Next, Cycle, PlanFails, TrajectoryRejected, NoVelocity

LEMMA SeenStep == Inv /\ [Next]_vars => SeenInv'
<1> SUFFICES ASSUME Inv, [Next]_vars PROVE SeenInv'
  OBVIOUS
<1>0. SeenInv
  BY DEF Inv
<1> USE DEF vars, inputs, viaVars, cycleVars
<1>1. ASSUME NEW x \in Positions, NEW h \in {-1, 1}, BeginCycle(x, h) PROVE SeenInv'
  <2>1. /\ seen' = [may |-> cells \cup custom, map |-> cells, message |-> custom]
        /\ UNCHANGED <<cells, custom>>
    BY <1>1 DEF BeginCycle
  <2>2. QED
    BY <2>1 DEF SeenInv
<1>2. ASSUME \/ Configure \/ (\E p \in Plans : SetPlan(p))
             \/ (\E x \in Positions, h \in {-1, 1} : NoPlanLeft(x, h))
             \/ PlanSucceeds \/ TrajectoryFeasible \/ ReturnCommand \/ Fail
      PROVE  SeenInv'
  <2>1. pc' \notin {"via", "derive", "cells", "custom", "plan"}
    BY <1>2 DEF Configure, SetPlan, NoPlanLeft, PlanSucceeds, TrajectoryFeasible,
       ReturnCommand, Fail
  <2>2. QED
    BY <2>1 DEF SeenInv, Preparing
<1>3. ASSUME TestActive \/ UpdateViaPoints \/ AddCells \/ AddCustomObstacles
      PROVE  SeenInv'
  <2>1. UNCHANGED <<seen, cells, custom>> /\ Preparing
    BY <1>3 DEF TestActive, UpdateViaPoints, AddCells, AddCustomObstacles, Preparing
  <2>2. QED
    BY <1>0, <2>1 DEF SeenInv
<1>4. ASSUME NEW m \in SUBSET Places, CostmapUpdate(m) \/ CustomObstacleCB(m)
      PROVE  SeenInv'
  <2>1. Watch /\ pc' = pc
    BY <1>4 DEF CostmapUpdate, CustomObstacleCB
  <2>2. ASSUME Preparing
        PROVE  /\ seen'.map \subseteq cells' /\ cells' \subseteq seen'.may
               /\ seen'.message \subseteq custom' /\ custom' \subseteq seen'.may
    BY <2>1, <2>2 DEF Watch
  <2>3. Preparing' <=> Preparing
    BY <2>1 DEF Preparing
  <2>4. QED
    BY <2>2, <2>3 DEF SeenInv
<1>5. ASSUME \/ IgnoreViaPoints \/ SetActive \/ (\E m \in ViaPaths : WriteViaPoints(m))
             \/ UNCHANGED vars
      PROVE  SeenInv'
  <2>1. UNCHANGED <<seen, cells, custom, pc>>
    BY <1>5 DEF IgnoreViaPoints, SetActive, WriteViaPoints
  <2>2. QED
    BY <1>0, <2>1 DEF SeenInv, Preparing
<1>6. QED
  BY <1>1, <1>2, <1>3, <1>4, <1>5
     DEF Next, Cycle, Callbacks, PlanFails, TrajectoryRejected, NoVelocity

LEMMA ObstaclesStep == Inv /\ [Next]_vars => ObstaclesInv'
<1> SUFFICES ASSUME Inv, [Next]_vars PROVE ObstaclesInv'
  OBVIOUS
<1>0. ObstaclesInv /\ SeenInv
  BY DEF Inv
<1> USE DEF vars, inputs, viaVars, cycleVars
<1>1. ASSUME \/ Configure \/ (\E p \in Plans : SetPlan(p))
             \/ (\E x \in Positions, h \in {-1, 1} : NoPlanLeft(x, h) \/ BeginCycle(x, h))
             \/ TestActive \/ UpdateViaPoints
             \/ PlanSucceeds \/ TrajectoryFeasible \/ ReturnCommand \/ Fail
      PROVE  ObstaclesInv'
  <2>1. pc' \notin {"custom", "plan"}
    BY <1>1 DEF Configure, SetPlan, NoPlanLeft, BeginCycle, TestActive, UpdateViaPoints,
       PlanSucceeds, TrajectoryFeasible, ReturnCommand, Fail
  <2>2. QED
    BY <2>1 DEF ObstaclesInv
<1>2. CASE AddCells
  <2>1. /\ obstacles' = Wanted(cells, source, robot) /\ pc' = "custom" /\ Preparing
        /\ UNCHANGED <<seen, source, robot>>
    BY <1>2, CollectedIsWanted DEF AddCells, Preparing
  <2>2. cells \subseteq seen.may /\ seen.map \subseteq cells
    BY <1>0, <2>1 DEF SeenInv
  <2>3. obstacles' \subseteq seen.may
    BY <2>1, <2>2, WantedAmong
  <2>4. Wanted(seen.map, source, robot) \subseteq obstacles'
    BY <2>1, <2>2, WantedMonotone
  <2>5. QED
    BY <2>1, <2>3, <2>4 DEF ObstaclesInv
<1>3. CASE AddCustomObstacles
  <2>1. /\ obstacles' = obstacles \cup custom /\ pc = "custom" /\ Preparing
        /\ UNCHANGED <<seen, source, robot>>
    BY <1>3 DEF AddCustomObstacles, Preparing
  <2>2. custom \subseteq seen.may /\ seen.message \subseteq custom
    BY <1>0, <2>1 DEF SeenInv
  <2>3. QED
    BY <1>0, <2>1, <2>2 DEF ObstaclesInv
<1>4. ASSUME NEW m \in SUBSET Places, CostmapUpdate(m) \/ CustomObstacleCB(m),
             pc' \in {"custom", "plan"}
      PROVE  /\ obstacles' \subseteq seen'.may
             /\ Wanted(seen'.map, source', robot') \subseteq obstacles'
             /\ pc' = "plan" => seen'.message \subseteq obstacles'
  <2>1. Watch /\ UNCHANGED <<pc, obstacles, source, robot>>
    BY <1>4 DEF CostmapUpdate, CustomObstacleCB
  <2>2. Preparing
    BY <1>4, <2>1 DEF Preparing
  <2>3. /\ seen.may \subseteq seen'.may /\ seen'.map \subseteq seen.map
        /\ seen'.message \subseteq seen.message
    BY <2>1, <2>2 DEF Watch
  <2>4. Wanted(seen'.map, source, robot) \subseteq Wanted(seen.map, source, robot)
    BY <2>3, WantedMonotone
  <2>5. /\ obstacles \subseteq seen.may /\ Wanted(seen.map, source, robot) \subseteq obstacles
        /\ pc = "plan" => seen.message \subseteq obstacles
    BY <1>0, <1>4, <2>1 DEF ObstaclesInv
  <2>6. QED
    BY <2>1, <2>3, <2>4, <2>5
<1>5. ASSUME NEW m \in SUBSET Places, CostmapUpdate(m) \/ CustomObstacleCB(m)
      PROVE  ObstaclesInv'
  BY <1>4, <1>5 DEF ObstaclesInv
<1>6. ASSUME \/ IgnoreViaPoints \/ SetActive \/ (\E m \in ViaPaths : WriteViaPoints(m))
             \/ UNCHANGED vars
      PROVE  ObstaclesInv'
  <2>1. UNCHANGED <<seen, source, robot, obstacles, pc>>
    BY <1>6 DEF IgnoreViaPoints, SetActive, WriteViaPoints
  <2>2. QED
    BY <1>0, <2>1 DEF ObstaclesInv
<1>7. QED
  BY <1>1, <1>2, <1>3, <1>5, <1>6
     DEF Next, Cycle, Callbacks, PlanFails, TrajectoryRejected, NoVelocity

LEMMA TebStep == Inv /\ [Next]_vars => TebInv'
<1> SUFFICES ASSUME Inv, [Next]_vars PROVE TebInv'
  OBVIOUS
<1>0. TebInv /\ ViaInv
  BY DEF Inv
<1> USE DEF vars, inputs, viaVars, cycleVars
<1>1. ASSUME \/ Configure \/ (\E p \in Plans : SetPlan(p))
             \/ (\E x \in Positions, h \in {-1, 1} : NoPlanLeft(x, h) \/ BeginCycle(x, h))
             \/ TestActive \/ UpdateViaPoints \/ AddCells \/ AddCustomObstacles
             \/ ReturnCommand \/ Fail
      PROVE  TebInv'
  <2>1. pc' \notin {"planned", "checked"}
    BY <1>1 DEF Configure, SetPlan, NoPlanLeft, BeginCycle, TestActive, UpdateViaPoints,
       AddCells, AddCustomObstacles, ReturnCommand, Fail
  <2>2. QED
    BY <2>1 DEF TebInv
<1>2. CASE PlanSucceeds
  <2>1. /\ teb' \in {Trajectory(FromRobot(path, robot[1]), via, obstacles), NoTeb}
        /\ pc = "plan" /\ pc' = "planned" /\ UNCHANGED <<sep, path, robot, obstacles>>
    BY <1>2 DEF PlanSucceeds
  <2>2. sep > 0 => via = ViaPoints(path)
    BY <1>0, <2>1 DEF ViaInv
  <2>3. ViaPoints(path)' = ViaPoints(path)
    BY <2>1, SamePath
  <2>4. teb' # NoTeb => /\ teb'.path = FromRobot(path, robot[1])
                        /\ teb'.obstacles = obstacles
                        /\ teb'.via = via
    BY <2>1 DEF Trajectory
  <2>5. QED
    BY <2>1, <2>2, <2>3, <2>4 DEF TebInv, NoTeb
<1>3. ASSUME TrajectoryFeasible \/ Callbacks \/ UNCHANGED vars PROVE TebInv'
  <2>1. UNCHANGED <<sep, path, robot, obstacles, teb>>
    BY <1>3 DEF TrajectoryFeasible, Callbacks, CostmapUpdate, CustomObstacleCB,
       IgnoreViaPoints, SetActive, WriteViaPoints
  <2>2. \/ pc' = pc
        \/ pc = "planned" /\ pc' = "checked" /\ teb # NoTeb
    BY <1>3 DEF TrajectoryFeasible, Callbacks, CostmapUpdate, CustomObstacleCB,
       IgnoreViaPoints, SetActive, WriteViaPoints
  <2>3. ViaPoints(path)' = ViaPoints(path)
    BY <2>1, SamePath
  <2>4. NoTeb' = NoTeb
    BY DEF NoTeb, Trajectory
  <2>5. QED
    BY <1>0, <2>1, <2>2, <2>3, <2>4 DEF TebInv
<1>4. QED
  BY <1>1, <1>2, <1>3
     DEF Next, Cycle, PlanFails, TrajectoryRejected, NoVelocity

LEMMA FailureStep == Inv /\ [Next]_vars => FailureInv'
<1> SUFFICES ASSUME Inv, [Next]_vars PROVE FailureInv'
  OBVIOUS
<1>0. FailureInv
  BY DEF Inv
<1> USE DEF vars, inputs, viaVars, cycleVars
<1>1. CASE ReturnCommand
  BY <1>1 DEF ReturnCommand, FailureInv
<1>2. CASE Fail
  BY <1>2 DEF Fail, FailureInv, NoTeb, Trajectory
<1>3. CASE PlanSucceeds \/ TrajectoryFeasible
  BY <1>3 DEF PlanSucceeds, TrajectoryFeasible, FailureInv
<1>4. ASSUME \/ Configure \/ (\E p \in Plans : SetPlan(p))
             \/ (\E x \in Positions, h \in {-1, 1} : NoPlanLeft(x, h) \/ BeginCycle(x, h))
             \/ TestActive \/ UpdateViaPoints \/ AddCells \/ AddCustomObstacles
             \/ Callbacks \/ UNCHANGED vars
      PROVE  FailureInv'
  <2>1. UNCHANGED <<teb, failed>> /\ (pc' = pc \/ pc \notin {"planned", "checked"})
    BY <1>4 DEF Configure, SetPlan, NoPlanLeft, BeginCycle, TestActive, UpdateViaPoints,
       AddCells, AddCustomObstacles, Callbacks, CostmapUpdate, CustomObstacleCB,
       IgnoreViaPoints, SetActive, WriteViaPoints
  <2>2. NoTeb' = NoTeb
    BY DEF NoTeb, Trajectory
  <2>3. QED
    BY <1>0, <2>1, <2>2 DEF FailureInv
<1>5. QED
  BY <1>1, <1>2, <1>3, <1>4
     DEF Next, Cycle, PlanFails, TrajectoryRejected, NoVelocity

LEMMA InvHolds == Spec => []Inv
<1>1. Inv /\ [Next]_vars => Inv'
  BY TypeStep, PlanStep, ViaStep, SeenStep, ObstaclesStep, TebStep, FailureStep DEF Inv
<1>2. QED
  BY InitInv, <1>1, PTL DEF Spec

-----------------------------------------------------------------------------
(* The theorems.                                                           *)

(* Every list and message keeps its type, the list of via-points made from *)
(* the plan included (updateViaPointsContainer()).                         *)
THEOREM TypeCorrect == Spec => []TypeOK
<1>1. Inv => TypeOK
  BY DEF Inv
<1>2. QED
  BY InvHolds, <1>1, PTL

(* computeVelocityCommands() plans with no obstacle that was gone before   *)
(* the cycle or is not asked for, and with all that were there throughout  *)
(* it, whatever the other threads write while it fills the list: those of  *)
(* the message, those of the converter, and of the costmap, if it is read  *)
(* directly, the cells its loops reach that are not far behind the robot.  *)
THEOREM ObstaclesOfThisCycleHolds == Spec => []ObstaclesOfThisCycle
<1>1. Inv => ObstaclesOfThisCycle
  <2> SUFFICES ASSUME Inv, pc = "plan"
               PROVE  /\ obstacles \subseteq seen.may
                      /\ seen.message \subseteq obstacles
                      /\ source = "converter" => seen.map \subseteq obstacles
                      /\ source = "costmap" =>
                           \A c \in seen.map \ Border : FarBehind(c, robot) \/ c \in obstacles
    BY DEF ObstaclesOfThisCycle
  <2>1. /\ obstacles \subseteq seen.may /\ seen.message \subseteq obstacles
        /\ Wanted(seen.map, source, robot) \subseteq obstacles
    BY DEF Inv, ObstaclesInv
  <2>2. ASSUME source = "converter" PROVE seen.map \subseteq obstacles
    BY <2>1, <2>2 DEF Wanted
  <2>3. ASSUME source = "costmap", NEW c \in seen.map \ Border, ~FarBehind(c, robot)
        PROVE  c \in obstacles
    <3>1. Wanted(seen.map, source, robot) = {d \in seen.map \ Border : ~FarBehind(d, robot)}
      BY <2>3 DEF Wanted
    <3>2. QED
      BY <2>1, <2>3, <3>1
  <2>4. QED
    BY <2>1, <2>2, <2>3
<1>2. QED
  BY InvHolds, <1>1, PTL

(* A velocity is taken only from a trajectory that begins at the robot and *)
(* follows what is left of the latest setPlan(), with its via-points.      *)
THEOREM CommandCurrentHolds == Spec => []CommandCurrent
<1>1. Inv => CommandCurrent
  <2> SUFFICES ASSUME Inv, pc = "checked"
               PROVE  /\ SuffixOf(plan, given)
                      /\ teb.path = FromRobot(TransformGlobalPlan(plan), robot[1])
                      /\ teb.obstacles = obstacles
                      /\ sep > 0 => teb.via = ViaPoints(TransformGlobalPlan(plan))
    BY Zenon DEF CommandCurrent, SuffixOf
  <2>1. Cycling /\ teb # NoTeb
    BY DEF Cycling, Inv, TebInv
  <2>2. SuffixOf(plan, given) /\ path = TransformGlobalPlan(plan)
    BY <2>1, PathType DEF Inv, PlanInv
  <2>3. /\ teb.path = FromRobot(path, robot[1]) /\ teb.obstacles = obstacles
        /\ sep > 0 => teb.via = ViaPoints(path)
    BY <2>1 DEF Inv, TebInv
  <2>4. QED
    BY <2>2, <2>3
<1>2. QED
  BY InvHolds, <1>1, PTL

(* After a cycle that failed, in whatever way, the planner does not start  *)
(* from the trajectory that failed (clearPlanner() on every path).         *)
THEOREM FailureForgetsHolds == Spec => []FailureForgets
<1>1. Inv => FailureForgets
  BY DEF Inv, FailureInv, FailureForgets
<1>2. QED
  BY InvHolds, <1>1, PTL

==============================================================================
